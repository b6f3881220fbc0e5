----------------------------- MODULE MCChecking -----------------------------
(***************************************************************************)
(* Instances of Checking for TLC.                                          *)
(***************************************************************************)
EXTENDS CheckingProperties, TLC

E(h, style, mark) == [hour |-> h, style |-> style, mark |-> mark]
T(n, padded) == [n |-> n, padded |-> padded]

SomeElements == {
    E(0, "12H", "ARIA"), E(12, "12H", "ARIA"), E(18, "12H", "VALUE"),
    E(9, "PLAIN", "ARIA"), E(9, "PADDED", "BARE"), E(9, "PADDED", "NONE"), E(9, "PADDED", "CLASS"),
    E(18, "PLAIN", "ARIA"), E(24, "PLAIN", "NONE")}

\* All pairs, a page without times, and one longer than what is read of it
SmallPages == {<<>>} \cup {<<e, f>> : e, f \in SomeElements}
    \cup {<<E(18, "PADDED", "VALUE"), E(12, "PADDED", "CLASS"), E(9, "PADDED", "ARIA")>>}

SomeWishes == {
    [lo |-> 0, hi |-> 23, priority |-> <<>>],
    [lo |-> 9, hi |-> 18, priority |-> <<>>],
    [lo |-> 0, hi |-> 18, priority |-> <<T(12, TRUE), T(9, TRUE)>>],
    [lo |-> 9, hi |-> 23, priority |-> <<T(9, FALSE), T(18, TRUE)>>]}
=============================================================================
