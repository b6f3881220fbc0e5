------------------------------- MODULE MCShop -------------------------------
(***************************************************************************)
(* Instances of MockShop for TLC.                                          *)
(***************************************************************************)
EXTENDS ShopProperties, TLC

CONSTANTS a, b

Entry(held, gated, free, short, discount) ==
    [there |-> TRUE, held |-> held, gated |-> gated, free |-> free,
     short |-> short, discount |-> discount]
Free(d) == Entry(FALSE, FALSE, TRUE, FALSE, d)
Held(d) == Entry(TRUE, FALSE, TRUE, FALSE, d)
Gated(d) == Entry(FALSE, TRUE, TRUE, FALSE, d)
Closed(d) == Entry(FALSE, FALSE, FALSE, FALSE, d)
Short(d) == Entry(TRUE, FALSE, TRUE, TRUE, d)

SomeCatalogues == {(a :> x) @@ (b :> y) :
    x \in {Free(2), Held(2), Gated(2), Closed(2)}, y \in {Held(1), Free(1), Short(3)}}
=============================================================================
