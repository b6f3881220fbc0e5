------------------------------- MODULE MCFlow -------------------------------
(* Instances of ReservationFlow for TLC. *)
EXTENDS FlowInvariant, TLC

CONSTANTS slot, other, alike

NoSlots == {}
OtherSlots == {other, alike}
Alike == {alike}
OnlyConsent == {"consent"}
NoText == {}

UpTo(n, S) == UNION {[1..k -> S] : k \in 0..n}

TheBox(marks, visible) == [marks |-> marks, readable |-> TRUE, visible |-> visible,
                           on |-> FALSE]

\* Every kind of box: each wording, or no label at all.
Boxes == {b \in Box : b.readable \/ b.marks = {}}
AllForms == UpTo(2, Boxes)
NoBoxes == {}
FewBoxes == {TheBox({"required"}, TRUE), TheBox({"optional"}, TRUE)}

Coupons == {c \in [title : {"a", "b"}, value : 0..1, gated : BOOLEAN,
                   expired : BOOLEAN, readable : BOOLEAN] :
              c.readable \/ (c.value = 0 /\ ~c.expired)}
AllModals == UpTo(2, Coupons)

SomeForms == {<< >>, <<TheBox({"required"}, TRUE)>>, <<TheBox({"optional"}, TRUE)>>,
              <<TheBox({"required"}, FALSE)>>}

\* Forms and modals do not interact: each is varied beside an empty other.
SomePages == [form : SomeForms, modal : {<< >>}]
AllPages == [form : AllForms, modal : {<< >>}] \cup [form : {<< >>}, modal : AllModals]
CouponPages == [form : {<< >>}, modal : AllModals]
EmptyPage == [form : {<< >>}, modal : {<< >>}]
=============================================================================
