----------------------------- MODULE ShopProofs -----------------------------
(***************************************************************************)
(* Proofs about MockShop for every value of its constants, and the         *)
(* inductive invariant they rest on.                                       *)
(***************************************************************************)
EXTENDS ShopProperties, TLAPS

Choosing == {"LIST", "SHOP", "DOWNLOAD", "PICK"}
BeforeWait == Choosing \cup {"GOTO", "SELECT", "RESERVE", "CONFIRM"}
Unbooked == ~booked.made /\ booked.coupon = NoCoupon

\* Nothing is booked before the confirmation is sent and answered, and nothing is
\* reported before the end.
BookedOnConfirm ==
    /\ step # "DONE" => report.outcome = "NONE"
    /\ step \in BeforeWait => confirm = "NO"
    /\ confirm \in {"NO", "SENT"} => Unbooked
    /\ confirm # "NO" => report.outcome \in {"NONE", "ERROR", "RESERVED"}
    /\ confirm = "ACCEPTED" => booked.made
    /\ report.outcome = "RESERVED" => confirm = "ACCEPTED" /\ report.coupon = booked.coupon

Usable(c) == coupons[c].held /\ IsApplicable(c, coupons)

\* The form holds the picked coupon or none, and none only without a pick.
FormHoldsPick ==
    /\ selected \in {pick, NoCoupon} /\ booked.coupon \in {pick, NoCoupon}
    /\ step \in Choosing \cup {"GOTO", "SELECT"} => selected = NoCoupon
    /\ pick # NoCoupon /\ (step \in {"RESERVE", "CONFIRM", "WAIT"} \/ confirm = "SENT")
         => selected = pick /\ (assured => Usable(pick))

\* At a shop where nothing changes, the list as read is still right, except that
\* coupons are received.
ListIsRight ==
    /\ step \in Choosing => pick = NoCoupon
    /\ quiet =>
        /\ \A c \in Coupons : /\ coupons[c].there = known[c].there
                              /\ coupons[c].gated = known[c].gated
                              /\ coupons[c].short = known[c].short
                              /\ known[c].held => coupons[c].held
        /\ pick # NoCoupon => IsApplicable(pick, known)
        /\ step = "SELECT" /\ pick # NoCoupon /\ known[pick].held => pick \in page.apply

\* A dry run stays on its side.
DryStaysAway ==
    dry => /\ step \in {"GOTO", "SELECT", "RESERVE", "DONE"}
           /\ downloads = {} /\ confirm = "NO"
           /\ pick = NoCoupon /\ selected = NoCoupon

IInv ==
    /\ TypeOK
    /\ BookedOnConfirm
    /\ FormHoldsPick
    /\ ListIsRight
    /\ DryStaysAway
    /\ FullPriceHasCause
    /\ CouponStopHasCause

-----------------------------------------------------------------------------
(* Types. *)

LEMMA ConstantTypes ==
    /\ \A list \in Catalogues : list \in [Coupons -> Entries]
    /\ MaxChanges \in Nat
    /\ NoCoupon \notin Coupons
  BY ShopAssumption

\* Changing one field of an entry.
LEMMA EntryTypes ==
    ASSUME NEW e \in Entries, NEW x \in BOOLEAN
    PROVE  [e EXCEPT !.held = x] \in Entries /\ [e EXCEPT !.there = x] \in Entries
  BY DEF Entries

LEMMA PickTypes ==
    ASSUME NEW list, NEW c \in BestPicks(list)
    PROVE  c \in Coupons \cup {NoCoupon} /\ (c # NoCoupon => IsApplicable(c, list))
  BY DEF BestPicks, Applicable

Pages == [payment : BOOLEAN, captcha : BOOLEAN, receive : SUBSET Coupons, apply : SUBSET Coupons]

LEMMA PageTypes ==
    ASSUME TypeOK
    PROVE  PageNow \in Pages /\ page \in Pages
  <1>1. page \in Pages
    BY DEF TypeOK, Pages
  <1>2. payment \in BOOLEAN /\ captcha \in BOOLEAN
    BY DEF TypeOK
  <1>3. PageNow \in Pages
    BY <1>2 DEF PageNow, Pages
  <1> QED
    BY <1>1, <1>3

\* Receiving a coupon changes nothing of the others, and only one thing of it.
LEMMA Receiving ==
    ASSUME TypeOK, NEW c \in Coupons, ServeDownload(c)
    PROVE  /\ coupons' \in [Coupons -> Entries]
           /\ \A d \in Coupons : /\ coupons'[d].there = coupons[d].there
                                 /\ coupons'[d].gated = coupons[d].gated
                                 /\ coupons'[d].short = coupons[d].short
                                 /\ coupons[d].held => coupons'[d].held
  <1>1. CASE coupons' = coupons
    BY <1>1 DEF TypeOK
  <1>2. CASE coupons' = [coupons EXCEPT ![c].held = TRUE]
    <2>1. /\ coupons[c] \in Entries /\ coupons \in [Coupons -> Entries]
          /\ coupons' = [coupons EXCEPT ![c] = [coupons[c] EXCEPT !.held = TRUE]]
      BY <1>2 DEF TypeOK
    <2>2. [coupons[c] EXCEPT !.held = TRUE] \in Entries
      BY <2>1, EntryTypes
    <2>3. coupons' \in [Coupons -> Entries]
      BY <2>1, <2>2
    <2>4. \A d \in Coupons : coupons'[d] = IF d = c THEN [coupons[c] EXCEPT !.held = TRUE] ELSE coupons[d]
      BY <2>1
    <2> QED
      BY <2>1, <2>3, <2>4 DEF Entries
  <1> QED
    BY <1>1, <1>2 DEF ServeDownload

-----------------------------------------------------------------------------
(* The steps. *)

\* Every action keeps the types.
LEMMA TypeStep ==
    ASSUME TypeOK, Next
    PROVE  TypeOK'
  <1>1. CASE List
    BY <1>1 DEF List, AttemptOnly, server, wire, form, TypeOK, Steps
  <1>2. CASE OpenShop
    BY <1>2, PageTypes DEF OpenShop, AttemptOnly, server, wire, TypeOK, Steps, Pages
  <1>3. ASSUME NEW c \in Coupons, ClickReceive(c) PROVE TypeOK'
    BY <1>3, ConstantTypes DEF ClickReceive, AttemptOnly, server, form, TypeOK, Steps
  <1>4. CASE ListAgain
    BY <1>4 DEF ListAgain, AttemptOnly, server, wire, form, TypeOK, Steps
  <1>5. CASE Pick
    BY <1>5, PickTypes DEF Pick, AttemptOnly, server, wire, TypeOK, Steps
  <1>6. CASE CouponsFail
    BY <1>6, ConstantTypes DEF CouponsFail, AttemptOnly, server, wire, form, TypeOK, Steps
  <1>7. CASE Goto
    <2>1. page' \in Pages /\ step' \in Steps
      BY <1>7, PageTypes DEF Goto, Ends, Steps
    <2>2. /\ report'.outcome \in {"NONE", "RESERVED", "NOT_OPEN", "UNAVAILABLE", "COUPON",
                                "GATE", "HUMAN", "ERROR", "READY"}
          /\ report'.coupon \in Coupons \cup {NoCoupon}
      BY <1>7 DEF Goto, Ends, TypeOK
    <2> QED
      BY <1>7, <2>1, <2>2 DEF Goto, AttemptOnly, server, wire, TypeOK, Pages
  <1>8. CASE SelectCoupon
    <2>1. step' \in Steps /\ selected' \in Coupons \cup {NoCoupon}
      BY <1>8 DEF SelectCoupon, Ends, Steps, TypeOK
    <2>2. assured' \in BOOLEAN
      BY <1>8 DEF SelectCoupon, TypeOK
    <2>3. /\ report'.outcome \in {"NONE", "RESERVED", "NOT_OPEN", "UNAVAILABLE", "COUPON",
                                "GATE", "HUMAN", "ERROR", "READY"}
          /\ report'.coupon \in Coupons \cup {NoCoupon}
      BY <1>8 DEF SelectCoupon, Ends, TypeOK
    <2> QED
      BY <1>8, <2>1, <2>2, <2>3 DEF SelectCoupon, AttemptOnly, server, wire, TypeOK
  <1>9. CASE PressReserve
    BY <1>9, ConstantTypes DEF PressReserve, Ends, AttemptOnly, server, wire, form, TypeOK,
       Steps
  <1>10. CASE PressConfirm
    BY <1>10, ConstantTypes DEF PressConfirm, AttemptOnly, server, form, TypeOK, Steps
  <1>11. CASE SeeSuccess
    BY <1>11, ConstantTypes DEF SeeSuccess, Ends, AttemptOnly, server, wire, form, TypeOK, Steps
  <1>12. CASE Fails
    BY <1>12, ConstantTypes DEF Fails, Ends, AttemptOnly, server, wire, form, TypeOK, Steps
  <1>13. ASSUME NEW c \in Coupons, ServeDownload(c) PROVE TypeOK'
    <2>1. coupons' \in [Coupons -> Entries]
      BY <1>13, Receiving
    <2>2. page' \in Pages
      <3>1. PageNow' \in Pages
        <4>1. payment' \in BOOLEAN /\ captcha' \in BOOLEAN
          BY <1>13 DEF ServeDownload, TypeOK
        <4> QED
          BY <4>1 DEF PageNow, Pages
      <3> QED
        BY <1>13, <3>1, PageTypes DEF ServeDownload
    <2> QED
      BY <1>13, <2>1, <2>2 DEF ServeDownload, Unattended, TypeOK, Pages
  <1>14. ASSUME NEW c \in Coupons, LoseDownload(c) PROVE TypeOK'
    BY <1>14, ConstantTypes DEF LoseDownload, Unattended, server, TypeOK, Steps
  <1>15. CASE ServeConfirm
    <2>1. booked' \in [made : BOOLEAN, coupon : Coupons \cup {NoCoupon}]
      <3>1. selected \in Coupons \cup {NoCoupon} /\ booked \in [made : BOOLEAN, coupon : Coupons \cup {NoCoupon}]
        BY DEF TypeOK
      <3>2. \/ booked' = booked
            \/ booked' = [made |-> TRUE, coupon |-> selected]
            \/ booked' = [made |-> TRUE, coupon |-> NoCoupon]
        BY <1>15 DEF ServeConfirm
      <3>3. [made |-> TRUE, coupon |-> selected] \in [made : BOOLEAN, coupon : Coupons \cup {NoCoupon}]
        BY <3>1
      <3>4. [made |-> TRUE, coupon |-> NoCoupon] \in [made : BOOLEAN, coupon : Coupons \cup {NoCoupon}]
        OBVIOUS
      <3> QED
        BY <3>1, <3>2, <3>3, <3>4
    <2> QED
      BY <1>15, <2>1 DEF ServeConfirm, Unattended, TypeOK
  <1>16. CASE AdminOpen
    <2>1. changes' \in 0..MaxChanges
      BY <1>16, ConstantTypes DEF AdminOpen, Change, TypeOK
    <2> QED
      BY <1>16, <2>1, ConstantTypes DEF AdminOpen, Change, wire, form, TypeOK
  <1>17. CASE AdminSlots
    <2>1. changes' \in 0..MaxChanges /\ UNCHANGED <<expired, coupons>>
      BY <1>17, ConstantTypes DEF AdminSlots, Change, TypeOK
    <2>2. /\ isOpen' \in BOOLEAN /\ slot' \in BOOLEAN /\ payment' \in BOOLEAN /\ captcha' \in BOOLEAN
          /\ dry' \in BOOLEAN /\ quiet' \in BOOLEAN /\ assured' \in BOOLEAN
      BY <1>17 DEF AdminSlots, Change, TypeOK
    <2>3. UNCHANGED <<booked, downloads, confirm, step, known, todo, page, pick, selected, report>>
      BY <1>17 DEF AdminSlots, Change, wire, form
    <2> QED
      BY <2>1, <2>2, <2>3 DEF TypeOK
  <1>18. CASE AdminGate
    <2>1. changes' \in 0..MaxChanges /\ UNCHANGED <<expired, coupons>>
      BY <1>18, ConstantTypes DEF AdminGate, Change, TypeOK
    <2>2. /\ isOpen' \in BOOLEAN /\ slot' \in BOOLEAN /\ payment' \in BOOLEAN /\ captcha' \in BOOLEAN
          /\ dry' \in BOOLEAN /\ quiet' \in BOOLEAN /\ assured' \in BOOLEAN
      BY <1>18 DEF AdminGate, Change, TypeOK
    <2>3. UNCHANGED <<booked, downloads, confirm, step, known, todo, page, pick, selected, report>>
      BY <1>18 DEF AdminGate, Change, wire, form
    <2> QED
      BY <2>1, <2>2, <2>3 DEF TypeOK
  <1>19. CASE AdminCoupons
    <2>1. changes' \in 0..MaxChanges
      BY <1>19, ConstantTypes DEF AdminCoupons, Change, TypeOK
    <2> QED
      BY <1>19, <2>1, ConstantTypes DEF AdminCoupons, Change, wire, form, TypeOK
  <1>20. CASE AdminReset
    <2>1. \A c \in Coupons : [coupons[c] EXCEPT !.there = FALSE] \in Entries
      BY EntryTypes DEF TypeOK
    <2>2. coupons' \in [Coupons -> Entries] /\ changes' \in 0..MaxChanges
      BY <1>20, <2>1, ConstantTypes DEF AdminReset, Change, TypeOK
    <2> QED
      BY <1>20, <2>2 DEF AdminReset, Change, wire, form, TypeOK
  <1>21. ASSUME NEW c \in Coupons, Expire(c) PROVE TypeOK'
    <2>1. changes' \in 0..MaxChanges
      BY <1>21, ConstantTypes DEF Expire, Change, TypeOK
    <2> QED
      BY <1>21, <2>1, ConstantTypes DEF Expire, Change, wire, form, TypeOK
  <1> QED
    BY <1>1, <1>2, <1>3, <1>4, <1>5, <1>6, <1>7, <1>8, <1>9, <1>10, <1>11, <1>12, <1>13, <1>14,
       <1>15, <1>16, <1>17, <1>18, <1>19, <1>20, <1>21 DEF Next, Attempt

\* The tests and time do not touch the attempt.
Unasked ==
    \/ AdminOpen \/ AdminSlots \/ AdminGate \/ AdminCoupons \/ AdminReset
    \/ \E c \in Coupons : Expire(c)

LEMMA UnaskedLeaves ==
    ASSUME Unasked
    PROVE  /\ UNCHANGED <<booked, downloads, confirm, dry, step, known, todo, page, pick, selected, report>>
           /\ ~quiet' /\ ~assured'
  BY DEF Unasked, AdminOpen, AdminSlots, AdminGate, AdminCoupons, AdminReset, Expire, Change, wire, form

\* The server books what was confirmed.
LEMMA BookedStep ==
    ASSUME TypeOK, BookedOnConfirm, Next
    PROVE  BookedOnConfirm'
  <1>1. CASE List
    BY <1>1, ConstantTypes DEF List, AttemptOnly, server, wire, form, BookedOnConfirm,
       BeforeWait, Choosing, Unbooked, TypeOK
  <1>2. CASE OpenShop
    BY <1>2, ConstantTypes DEF OpenShop, AttemptOnly, server, wire, PageNow, BookedOnConfirm,
       BeforeWait, Choosing, Unbooked, TypeOK
  <1>3. ASSUME NEW c \in Coupons, ClickReceive(c) PROVE BookedOnConfirm'
    BY <1>3, ConstantTypes DEF ClickReceive, AttemptOnly, server, form, BookedOnConfirm,
       BeforeWait, Choosing, Unbooked, TypeOK
  <1>4. CASE ListAgain
    BY <1>4, ConstantTypes DEF ListAgain, AttemptOnly, server, wire, form, BookedOnConfirm,
       BeforeWait, Choosing, Unbooked, TypeOK
  <1>5. CASE Pick
    BY <1>5, ConstantTypes DEF Pick, AttemptOnly, server, wire, BookedOnConfirm, BeforeWait,
       Choosing, Unbooked, TypeOK
  <1>6. CASE CouponsFail
    BY <1>6, ConstantTypes DEF CouponsFail, AttemptOnly, server, wire, form, BookedOnConfirm,
       BeforeWait, Choosing, Unbooked, TypeOK
  <1>7. CASE Goto
    BY <1>7, ConstantTypes DEF Goto, Ends, AttemptOnly, server, wire, BookedOnConfirm,
       BeforeWait, Choosing, Unbooked, TypeOK
  <1>8. CASE SelectCoupon
    BY <1>8, ConstantTypes DEF SelectCoupon, Ends, AttemptOnly, server, wire, BookedOnConfirm,
       BeforeWait, Choosing, Unbooked, TypeOK
  <1>9. CASE PressReserve
    BY <1>9, ConstantTypes DEF PressReserve, Ends, AttemptOnly, server, wire, form,
       BookedOnConfirm, BeforeWait, Choosing, Unbooked, TypeOK
  <1>10. CASE PressConfirm
    BY <1>10, ConstantTypes DEF PressConfirm, AttemptOnly, server, form, BookedOnConfirm,
       BeforeWait, Choosing, Unbooked, TypeOK
  <1>11. CASE SeeSuccess
    BY <1>11, ConstantTypes DEF SeeSuccess, Ends, AttemptOnly, server, wire, form,
       BookedOnConfirm, BeforeWait, Choosing, Unbooked, TypeOK
  <1>12. CASE Fails
    BY <1>12, ConstantTypes DEF Fails, Ends, AttemptOnly, server, wire, form, BookedOnConfirm,
       BeforeWait, Choosing, Unbooked, TypeOK
  <1>13. ASSUME NEW c \in Coupons, ServeDownload(c) PROVE BookedOnConfirm'
    BY <1>13, ConstantTypes DEF ServeDownload, Unattended, BookedOnConfirm, BeforeWait,
       Choosing, Unbooked, TypeOK
  <1>14. ASSUME NEW c \in Coupons, LoseDownload(c) PROVE BookedOnConfirm'
    BY <1>14, ConstantTypes DEF LoseDownload, Unattended, server, BookedOnConfirm, BeforeWait,
       Choosing, Unbooked, TypeOK
  <1>15. CASE ServeConfirm
    BY <1>15, ConstantTypes DEF ServeConfirm, Unattended, BookedOnConfirm, BeforeWait, Choosing,
       Unbooked, TypeOK
  <1>16. CASE Unasked
    BY <1>16, UnaskedLeaves DEF BookedOnConfirm, BeforeWait, Choosing, Unbooked, TypeOK
  <1> QED
    BY <1>1, <1>2, <1>3, <1>4, <1>5, <1>6, <1>7, <1>8, <1>9, <1>10, <1>11, <1>12, <1>13, <1>14,
       <1>15, <1>16 DEF Next, Attempt, Unasked

\* Only a verified coupon is put on the form.
LEMMA FormStep ==
    ASSUME TypeOK, BookedOnConfirm, FormHoldsPick, Next
    PROVE  FormHoldsPick'
  <1>1. CASE List
    BY <1>1, ConstantTypes DEF List, AttemptOnly, server, wire, form, FormHoldsPick,
       BookedOnConfirm, BeforeWait, Choosing, Unbooked, Usable, IsApplicable, TypeOK
  <1>2. CASE OpenShop
    BY <1>2, ConstantTypes DEF OpenShop, AttemptOnly, server, wire, PageNow, FormHoldsPick,
       BookedOnConfirm, BeforeWait, Choosing, Unbooked, Usable, IsApplicable, TypeOK
  <1>3. ASSUME NEW c \in Coupons, ClickReceive(c) PROVE FormHoldsPick'
    BY <1>3, ConstantTypes DEF ClickReceive, AttemptOnly, server, form, FormHoldsPick,
       BookedOnConfirm, BeforeWait, Choosing, Unbooked, Usable, IsApplicable, TypeOK
  <1>4. CASE ListAgain
    BY <1>4, ConstantTypes DEF ListAgain, AttemptOnly, server, wire, form, FormHoldsPick,
       BookedOnConfirm, BeforeWait, Choosing, Unbooked, Usable, IsApplicable, TypeOK
  <1>5. CASE Pick
    BY <1>5, ConstantTypes DEF Pick, AttemptOnly, server, wire, FormHoldsPick, BookedOnConfirm,
       BeforeWait, Choosing, Unbooked, Usable, IsApplicable, TypeOK
  <1>6. CASE CouponsFail
    BY <1>6, ConstantTypes DEF CouponsFail, AttemptOnly, server, wire, form, FormHoldsPick,
       BookedOnConfirm, BeforeWait, Choosing, Unbooked, Usable, IsApplicable, TypeOK
  <1>7. CASE Goto
    BY <1>7, ConstantTypes DEF Goto, Ends, AttemptOnly, server, wire, FormHoldsPick,
       BookedOnConfirm, BeforeWait, Choosing, Unbooked, Usable, IsApplicable, TypeOK
  <1>8. CASE SelectCoupon
    BY <1>8, ConstantTypes DEF SelectCoupon, Ends, AttemptOnly, server, wire, FormHoldsPick,
       BookedOnConfirm, BeforeWait, Choosing, Unbooked, Usable, IsApplicable, TypeOK
  <1>9. CASE PressReserve
    BY <1>9, ConstantTypes DEF PressReserve, Ends, AttemptOnly, server, wire, form,
       FormHoldsPick, BookedOnConfirm, BeforeWait, Choosing, Unbooked, Usable, IsApplicable, TypeOK
  <1>10. CASE PressConfirm
    BY <1>10, ConstantTypes DEF PressConfirm, AttemptOnly, server, form, FormHoldsPick,
       BookedOnConfirm, BeforeWait, Choosing, Unbooked, Usable, IsApplicable, TypeOK
  <1>11. CASE SeeSuccess
    BY <1>11, ConstantTypes DEF SeeSuccess, Ends, AttemptOnly, server, wire, form,
       FormHoldsPick, BookedOnConfirm, BeforeWait, Choosing, Unbooked, Usable, IsApplicable, TypeOK
  <1>12. CASE Fails
    BY <1>12, ConstantTypes DEF Fails, Ends, AttemptOnly, server, wire, form, FormHoldsPick,
       BookedOnConfirm, BeforeWait, Choosing, Unbooked, Usable, IsApplicable, TypeOK
  <1>13. ASSUME NEW c \in Coupons, ServeDownload(c) PROVE FormHoldsPick'
    <2>1. /\ \A d \in Coupons : Usable(d) => Usable(d)'
          /\ UNCHANGED <<step, pick, selected, booked, confirm, assured>>
      BY <1>13, Receiving DEF ServeDownload, Unattended, Usable, IsApplicable
    <2> QED
      BY <2>1 DEF FormHoldsPick, TypeOK
  <1>14. ASSUME NEW c \in Coupons, LoseDownload(c) PROVE FormHoldsPick'
    BY <1>14, ConstantTypes DEF LoseDownload, Unattended, server, FormHoldsPick,
       BookedOnConfirm, BeforeWait, Choosing, Unbooked, Usable, IsApplicable, TypeOK
  <1>15. CASE ServeConfirm
    BY <1>15, ConstantTypes DEF ServeConfirm, Unattended, FormHoldsPick, BookedOnConfirm,
       BeforeWait, Choosing, Unbooked, Usable, IsApplicable, TypeOK
  <1>16. CASE Unasked
    BY <1>16, UnaskedLeaves DEF FormHoldsPick, BookedOnConfirm, BeforeWait, Choosing, Unbooked,
       Usable, IsApplicable, TypeOK
  <1> QED
    BY <1>1, <1>2, <1>3, <1>4, <1>5, <1>6, <1>7, <1>8, <1>9, <1>10, <1>11, <1>12, <1>13, <1>14,
       <1>15, <1>16 DEF Next, Attempt, Unasked

\* The list is right as long as nothing changes.
LEMMA ListStep ==
    ASSUME TypeOK, BookedOnConfirm, ListIsRight, Next
    PROVE  ListIsRight'
  <1>1. CASE List
    BY <1>1, ConstantTypes DEF List, AttemptOnly, server, wire, form, ListIsRight, Choosing,
       IsApplicable, TypeOK
  <1>2. CASE OpenShop
    BY <1>2, ConstantTypes DEF OpenShop, AttemptOnly, server, wire, PageNow, ListIsRight,
       Choosing, IsApplicable, TypeOK
  <1>3. ASSUME NEW c \in Coupons, ClickReceive(c) PROVE ListIsRight'
    BY <1>3, ConstantTypes DEF ClickReceive, AttemptOnly, server, form, ListIsRight, Choosing,
       IsApplicable, TypeOK
  <1>4. CASE ListAgain
    BY <1>4, ConstantTypes DEF ListAgain, AttemptOnly, server, wire, form, ListIsRight,
       Choosing, IsApplicable, TypeOK
  <1>5. CASE Pick
    BY <1>5, PickTypes DEF Pick, AttemptOnly, server, wire, ListIsRight, Choosing, IsApplicable
  <1>6. CASE CouponsFail
    BY <1>6, ConstantTypes DEF CouponsFail, AttemptOnly, server, wire, form, ListIsRight,
       Choosing, IsApplicable, TypeOK
  <1>7. CASE Goto
    BY <1>7 DEF Goto, Ends, AttemptOnly, server, wire, PageNow, Applies, ListIsRight, Choosing, IsApplicable, TypeOK
  <1>8. CASE SelectCoupon
    BY <1>8, ConstantTypes DEF SelectCoupon, Ends, AttemptOnly, server, wire, ListIsRight,
       Choosing, IsApplicable, TypeOK
  <1>9. CASE PressReserve
    BY <1>9, ConstantTypes DEF PressReserve, Ends, AttemptOnly, server, wire, form, ListIsRight,
       Choosing, IsApplicable, TypeOK
  <1>10. CASE PressConfirm
    BY <1>10, ConstantTypes DEF PressConfirm, AttemptOnly, server, form, ListIsRight, Choosing,
       IsApplicable, TypeOK
  <1>11. CASE SeeSuccess
    BY <1>11, ConstantTypes DEF SeeSuccess, Ends, AttemptOnly, server, wire, form, ListIsRight,
       Choosing, IsApplicable, TypeOK
  <1>12. CASE Fails
    BY <1>12, ConstantTypes DEF Fails, Ends, AttemptOnly, server, wire, form, ListIsRight,
       Choosing, IsApplicable, TypeOK
  <1>13. ASSUME NEW c \in Coupons, ServeDownload(c) PROVE ListIsRight'
    <2>1. UNCHANGED <<known, pick, expired, quiet, step>> /\ (step # "DOWNLOAD" => page' = page)
      BY <1>13 DEF ServeDownload, Unattended
    <2> QED
      BY <1>13, <2>1, Receiving DEF ListIsRight, Choosing, IsApplicable
  <1>14. ASSUME NEW c \in Coupons, LoseDownload(c) PROVE ListIsRight'
    BY <1>14, ConstantTypes DEF LoseDownload, Unattended, server, ListIsRight, Choosing,
       IsApplicable, TypeOK
  <1>15. CASE ServeConfirm
    BY <1>15, ConstantTypes DEF ServeConfirm, Unattended, ListIsRight, Choosing, IsApplicable,
       TypeOK
  <1>16. CASE Unasked
    BY <1>16, UnaskedLeaves DEF ListIsRight, Choosing, IsApplicable, TypeOK
  <1> QED
    BY <1>1, <1>2, <1>3, <1>4, <1>5, <1>6, <1>7, <1>8, <1>9, <1>10, <1>11, <1>12, <1>13, <1>14,
       <1>15, <1>16 DEF Next, Attempt, Unasked

\* A dry run presses neither button.
LEMMA DryStep ==
    ASSUME TypeOK, DryStaysAway, Next
    PROVE  DryStaysAway'
  <1>1. CASE List
    BY <1>1, ConstantTypes DEF List, AttemptOnly, server, wire, form, DryStaysAway
  <1>2. CASE OpenShop
    BY <1>2, ConstantTypes DEF OpenShop, AttemptOnly, server, wire, PageNow, DryStaysAway
  <1>3. ASSUME NEW c \in Coupons, ClickReceive(c) PROVE DryStaysAway'
    BY <1>3, ConstantTypes DEF ClickReceive, AttemptOnly, server, form, DryStaysAway
  <1>4. CASE ListAgain
    BY <1>4, ConstantTypes DEF ListAgain, AttemptOnly, server, wire, form, DryStaysAway
  <1>5. CASE Pick
    BY <1>5, ConstantTypes DEF Pick, AttemptOnly, server, wire, DryStaysAway
  <1>6. CASE CouponsFail
    BY <1>6, ConstantTypes DEF CouponsFail, AttemptOnly, server, wire, form, DryStaysAway
  <1>7. CASE Goto
    BY <1>7, ConstantTypes DEF Goto, Ends, AttemptOnly, server, wire, DryStaysAway
  <1>8. CASE SelectCoupon
    BY <1>8, ConstantTypes DEF SelectCoupon, Ends, AttemptOnly, server, wire, DryStaysAway
  <1>9. CASE PressReserve
    BY <1>9, ConstantTypes DEF PressReserve, Ends, AttemptOnly, server, wire, form, DryStaysAway
  <1>10. CASE PressConfirm
    BY <1>10, ConstantTypes DEF PressConfirm, AttemptOnly, server, form, DryStaysAway
  <1>11. CASE SeeSuccess
    BY <1>11, ConstantTypes DEF SeeSuccess, Ends, AttemptOnly, server, wire, form, DryStaysAway
  <1>12. CASE Fails
    BY <1>12, ConstantTypes DEF Fails, Ends, AttemptOnly, server, wire, form, DryStaysAway
  <1>13. ASSUME NEW c \in Coupons, ServeDownload(c) PROVE DryStaysAway'
    BY <1>13, ConstantTypes DEF ServeDownload, Unattended, DryStaysAway
  <1>14. ASSUME NEW c \in Coupons, LoseDownload(c) PROVE DryStaysAway'
    BY <1>14, ConstantTypes DEF LoseDownload, Unattended, server, DryStaysAway
  <1>15. CASE ServeConfirm
    BY <1>15 DEF ServeConfirm, Unattended, DryStaysAway
  <1>16. CASE Unasked
    BY <1>16, UnaskedLeaves DEF DryStaysAway
  <1> QED
    BY <1>1, <1>2, <1>3, <1>4, <1>5, <1>6, <1>7, <1>8, <1>9, <1>10, <1>11, <1>12, <1>13, <1>14,
       <1>15, <1>16 DEF Next, Attempt, Unasked

\* The server drops only what it no longer accepts.
LEMMA FullPriceStep ==
    ASSUME TypeOK, BookedOnConfirm, FormHoldsPick, FullPriceHasCause, Next
    PROVE  FullPriceHasCause'
  <1>1. CASE List
    BY <1>1, ConstantTypes DEF List, AttemptOnly, server, wire, form, FullPriceHasCause,
       BookedOnConfirm, FormHoldsPick, BeforeWait, Choosing, Unbooked, Usable, TypeOK
  <1>2. CASE OpenShop
    BY <1>2, ConstantTypes DEF OpenShop, AttemptOnly, server, wire, PageNow, FullPriceHasCause,
       BookedOnConfirm, FormHoldsPick, BeforeWait, Choosing, Unbooked, Usable, TypeOK
  <1>3. ASSUME NEW c \in Coupons, ClickReceive(c) PROVE FullPriceHasCause'
    BY <1>3, ConstantTypes DEF ClickReceive, AttemptOnly, server, form, FullPriceHasCause,
       BookedOnConfirm, FormHoldsPick, BeforeWait, Choosing, Unbooked, Usable, TypeOK
  <1>4. CASE ListAgain
    BY <1>4, ConstantTypes DEF ListAgain, AttemptOnly, server, wire, form, FullPriceHasCause,
       BookedOnConfirm, FormHoldsPick, BeforeWait, Choosing, Unbooked, Usable, TypeOK
  <1>5. CASE Pick
    BY <1>5, ConstantTypes DEF Pick, AttemptOnly, server, wire, FullPriceHasCause,
       BookedOnConfirm, FormHoldsPick, BeforeWait, Choosing, Unbooked, Usable, TypeOK
  <1>6. CASE CouponsFail
    BY <1>6, ConstantTypes DEF CouponsFail, AttemptOnly, server, wire, form, FullPriceHasCause,
       BookedOnConfirm, FormHoldsPick, BeforeWait, Choosing, Unbooked, Usable, TypeOK
  <1>7. CASE Goto
    BY <1>7, ConstantTypes DEF Goto, Ends, AttemptOnly, server, wire, FullPriceHasCause,
       BookedOnConfirm, FormHoldsPick, BeforeWait, Choosing, Unbooked, Usable, TypeOK
  <1>8. CASE SelectCoupon
    BY <1>8, ConstantTypes DEF SelectCoupon, Ends, AttemptOnly, server, wire, FullPriceHasCause,
       BookedOnConfirm, FormHoldsPick, BeforeWait, Choosing, Unbooked, Usable, TypeOK
  <1>9. CASE PressReserve
    BY <1>9, ConstantTypes DEF PressReserve, Ends, AttemptOnly, server, wire, form,
       FullPriceHasCause, BookedOnConfirm, FormHoldsPick, BeforeWait, Choosing, Unbooked, Usable,
       TypeOK
  <1>10. CASE PressConfirm
    BY <1>10, ConstantTypes DEF PressConfirm, AttemptOnly, server, form, FullPriceHasCause,
       BookedOnConfirm, FormHoldsPick, BeforeWait, Choosing, Unbooked, Usable, TypeOK
  <1>11. CASE SeeSuccess
    BY <1>11, ConstantTypes DEF SeeSuccess, Ends, AttemptOnly, server, wire, form,
       FullPriceHasCause, BookedOnConfirm, FormHoldsPick, BeforeWait, Choosing, Unbooked, Usable,
       TypeOK
  <1>12. CASE Fails
    BY <1>12, ConstantTypes DEF Fails, Ends, AttemptOnly, server, wire, form, FullPriceHasCause,
       BookedOnConfirm, FormHoldsPick, BeforeWait, Choosing, Unbooked, Usable, TypeOK
  <1>13. ASSUME NEW c \in Coupons, ServeDownload(c) PROVE FullPriceHasCause'
    BY <1>13, ConstantTypes DEF ServeDownload, Unattended, FullPriceHasCause, BookedOnConfirm,
       FormHoldsPick, BeforeWait, Choosing, Unbooked, Usable, TypeOK
  <1>14. ASSUME NEW c \in Coupons, LoseDownload(c) PROVE FullPriceHasCause'
    BY <1>14, ConstantTypes DEF LoseDownload, Unattended, server, FullPriceHasCause,
       BookedOnConfirm, FormHoldsPick, BeforeWait, Choosing, Unbooked, Usable, TypeOK
  <1>15. CASE ServeConfirm
    BY <1>15, ConstantTypes DEF ServeConfirm, Unattended, FullPriceHasCause, BookedOnConfirm,
       FormHoldsPick, BeforeWait, Choosing, Unbooked, Usable, TypeOK
  <1>16. CASE Unasked
    BY <1>16, UnaskedLeaves DEF FullPriceHasCause, BookedOnConfirm, FormHoldsPick, BeforeWait,
       Choosing, Unbooked, Usable, TypeOK
  <1> QED
    BY <1>1, <1>2, <1>3, <1>4, <1>5, <1>6, <1>7, <1>8, <1>9, <1>10, <1>11, <1>12, <1>13, <1>14,
       <1>15, <1>16 DEF Next, Attempt, Unasked

\* A verified coupon of an unchanged list is accepted.
LEMMA StopStep ==
    ASSUME TypeOK, BookedOnConfirm, ListIsRight, CouponStopHasCause, Next
    PROVE  CouponStopHasCause'
  <1>1. CASE List
    BY <1>1, ConstantTypes DEF List, AttemptOnly, server, wire, form, CouponStopHasCause,
       ListIsRight, Choosing, BookedOnConfirm, IsApplicable, TypeOK
  <1>2. CASE OpenShop
    BY <1>2, ConstantTypes DEF OpenShop, AttemptOnly, server, wire, PageNow, CouponStopHasCause,
       ListIsRight, Choosing, BookedOnConfirm, IsApplicable, TypeOK
  <1>3. ASSUME NEW c \in Coupons, ClickReceive(c) PROVE CouponStopHasCause'
    BY <1>3, ConstantTypes DEF ClickReceive, AttemptOnly, server, form, CouponStopHasCause,
       ListIsRight, Choosing, BookedOnConfirm, IsApplicable, TypeOK
  <1>4. CASE ListAgain
    BY <1>4, ConstantTypes DEF ListAgain, AttemptOnly, server, wire, form, CouponStopHasCause,
       ListIsRight, Choosing, BookedOnConfirm, IsApplicable, TypeOK
  <1>5. CASE Pick
    BY <1>5, ConstantTypes DEF Pick, AttemptOnly, server, wire, CouponStopHasCause, ListIsRight,
       Choosing, BookedOnConfirm, IsApplicable, TypeOK
  <1>6. CASE CouponsFail
    BY <1>6, ConstantTypes DEF CouponsFail, AttemptOnly, server, wire, form, CouponStopHasCause,
       ListIsRight, Choosing, BookedOnConfirm, IsApplicable, TypeOK
  <1>7. CASE Goto
    BY <1>7, ConstantTypes DEF Goto, Ends, AttemptOnly, server, wire, CouponStopHasCause,
       ListIsRight, Choosing, BookedOnConfirm, IsApplicable, TypeOK
  <1>8. CASE SelectCoupon
    BY <1>8, ConstantTypes DEF SelectCoupon, Ends, AttemptOnly, server, wire,
       CouponStopHasCause, ListIsRight, Choosing, BookedOnConfirm, IsApplicable, TypeOK
  <1>9. CASE PressReserve
    BY <1>9, ConstantTypes DEF PressReserve, Ends, AttemptOnly, server, wire, form,
       CouponStopHasCause, ListIsRight, Choosing, BookedOnConfirm, IsApplicable, TypeOK
  <1>10. CASE PressConfirm
    BY <1>10, ConstantTypes DEF PressConfirm, AttemptOnly, server, form, CouponStopHasCause,
       ListIsRight, Choosing, BookedOnConfirm, IsApplicable, TypeOK
  <1>11. CASE SeeSuccess
    BY <1>11, ConstantTypes DEF SeeSuccess, Ends, AttemptOnly, server, wire, form,
       CouponStopHasCause, ListIsRight, Choosing, BookedOnConfirm, IsApplicable, TypeOK
  <1>12. CASE Fails
    BY <1>12, ConstantTypes DEF Fails, Ends, AttemptOnly, server, wire, form,
       CouponStopHasCause, ListIsRight, Choosing, BookedOnConfirm, IsApplicable, TypeOK
  <1>13. ASSUME NEW c \in Coupons, ServeDownload(c) PROVE CouponStopHasCause'
    BY <1>13, ConstantTypes DEF ServeDownload, Unattended, CouponStopHasCause, ListIsRight,
       Choosing, BookedOnConfirm, IsApplicable, TypeOK
  <1>14. ASSUME NEW c \in Coupons, LoseDownload(c) PROVE CouponStopHasCause'
    BY <1>14, ConstantTypes DEF LoseDownload, Unattended, server, CouponStopHasCause,
       ListIsRight, Choosing, BookedOnConfirm, IsApplicable, TypeOK
  <1>15. CASE ServeConfirm
    BY <1>15, ConstantTypes DEF ServeConfirm, Unattended, CouponStopHasCause, ListIsRight,
       Choosing, BookedOnConfirm, IsApplicable, TypeOK
  <1>16. CASE Unasked
    BY <1>16, UnaskedLeaves DEF CouponStopHasCause, ListIsRight, Choosing, BookedOnConfirm,
       IsApplicable, TypeOK
  <1> QED
    BY <1>1, <1>2, <1>3, <1>4, <1>5, <1>6, <1>7, <1>8, <1>9, <1>10, <1>11, <1>12, <1>13, <1>14,
       <1>15, <1>16 DEF Next, Attempt, Unasked

-----------------------------------------------------------------------------
(* The invariant. *)

LEMMA InvInit == Init => IInv
  <1> SUFFICES ASSUME Init PROVE IInv
    OBVIOUS
  <1>1. TypeOK
    BY ConstantTypes DEF Init, TypeOK, Steps, BlankPage, Unreported
  <1>2. BookedOnConfirm /\ FormHoldsPick /\ DryStaysAway
    BY DEF Init, BookedOnConfirm, FormHoldsPick, DryStaysAway, BeforeWait, Choosing, Unbooked, Unreported
  <1>3. ListIsRight /\ FullPriceHasCause /\ CouponStopHasCause
    BY DEF Init, ListIsRight, Choosing, FullPriceHasCause, CouponStopHasCause, Unreported
  <1> QED
    BY <1>1, <1>2, <1>3 DEF IInv

LEMMA InvStep == IInv /\ [Next]_vars => IInv'
  <1>1. ASSUME IInv, Next PROVE IInv'
    BY <1>1, TypeStep, BookedStep, FormStep, ListStep, DryStep, FullPriceStep, StopStep DEF IInv
  <1>2. ASSUME IInv, UNCHANGED vars PROVE IInv'
    BY <1>2 DEF IInv, vars, TypeOK, BookedOnConfirm, Unbooked, FormHoldsPick, Usable, IsApplicable,
       Choosing, ListIsRight, DryStaysAway, FullPriceHasCause, CouponStopHasCause
  <1> QED
    BY <1>1, <1>2

\* The attempt reaches only states that satisfy the invariant.
THEOREM Invariance == Spec => []IInv
  BY InvInit, InvStep, PTL DEF Spec

\* The shop, the page and the attempt keep their types (TypeOK).
THEOREM TypeCorrect == Spec => []TypeOK
  <1>1. IInv => TypeOK
    BY DEF IInv
  <1> QED
    BY <1>1, Invariance, PTL

\* The coupon that is reported is the one that was applied, and the one picked.
THEOREM CouponsAreHonest == Spec => []CouponIsHonest
  <1>1. IInv => CouponIsHonest
    BY DEF IInv, CouponIsHonest, BookedOnConfirm, FormHoldsPick
  <1> QED
    BY <1>1, Invariance, PTL

\* Without its coupon the attempt books only at a shop that changed under it.
THEOREM FullPriceIsExplained == Spec => []FullPriceHasCause
  <1>1. IInv => FullPriceHasCause
    BY DEF IInv
  <1> QED
    BY <1>1, Invariance, PTL

\* At an unchanged shop only a coupon that had not been received stops the attempt.
THEOREM StopIsExplained == Spec => []CouponStopHasCause
  <1>1. IInv => CouponStopHasCause
    BY DEF IInv
  <1> QED
    BY <1>1, Invariance, PTL

\* A dry run asks the shop for nothing.
THEOREM DryRunIsHarmless == Spec => []DryRunAsksNothing
  <1>1. IInv => DryRunAsksNothing
    BY DEF IInv, DryRunAsksNothing, DryStaysAway
  <1> QED
    BY <1>1, Invariance, PTL

-----------------------------------------------------------------------------
(* The contract. *)

LEMMA ContractInit == Init => Contract!Init
  BY DEF Init, Unreported, Contract!Init, Contract!NoOutcome

\* Every step is one of the contract, or leaves its variables alone.
LEMMA ContractStep ==
    ASSUME IInv, Next
    PROVE  [Contract!Next]_(Contract!vars)
  <1>1. CASE List
    BY <1>1 DEF List, AttemptOnly, server, wire, form, Contract!vars
  <1>2. CASE OpenShop
    BY <1>2 DEF OpenShop, AttemptOnly, server, wire, PageNow, Contract!vars
  <1>3. ASSUME NEW c \in Coupons, ClickReceive(c) PROVE [Contract!Next]_(Contract!vars)
    BY <1>3 DEF ClickReceive, AttemptOnly, server, form, Contract!vars
  <1>4. CASE ListAgain
    BY <1>4 DEF ListAgain, AttemptOnly, server, wire, form, Contract!vars
  <1>5. CASE Pick
    BY <1>5 DEF Pick, AttemptOnly, server, wire, Contract!vars
  <1>6. CASE CouponsFail
    BY <1>6 DEF CouponsFail, AttemptOnly, server, wire, form, Contract!vars
  <1>7. CASE Goto
    <2>1. ASSUME report' # report
          PROVE  Contract!Report(report'.outcome) /\ report'.outcome \in Contract!Outcomes
      BY <1>7, <2>1 DEF Goto, Ends, AttemptOnly, server, wire, IInv, BookedOnConfirm, BeforeWait, Choosing, Unbooked, DryStaysAway,
         Contract!Report, Contract!NoOutcome, Contract!Clean, Contract!Outcomes
    <2>2. ASSUME report' = report PROVE UNCHANGED Contract!vars
      BY <1>7, <2>2 DEF Goto, Ends, AttemptOnly, server, wire, Contract!vars
    <2> QED
      BY <2>1, <2>2 DEF Contract!Next
  <1>8. CASE SelectCoupon
    <2>1. ASSUME report' # report
          PROVE  Contract!Report(report'.outcome) /\ report'.outcome \in Contract!Outcomes
      BY <1>8, <2>1 DEF SelectCoupon, Ends, AttemptOnly, server, wire, IInv, BookedOnConfirm, BeforeWait, Choosing, Unbooked, DryStaysAway,
         Contract!Report, Contract!NoOutcome, Contract!Clean, Contract!Outcomes
    <2>2. ASSUME report' = report PROVE UNCHANGED Contract!vars
      BY <1>8, <2>2 DEF SelectCoupon, Ends, AttemptOnly, server, wire, Contract!vars
    <2> QED
      BY <2>1, <2>2 DEF Contract!Next
  <1>9. CASE PressReserve
    <2>1. ASSUME report' # report
          PROVE  Contract!Report(report'.outcome) /\ report'.outcome \in Contract!Outcomes
      BY <1>9, <2>1 DEF PressReserve, Ends, AttemptOnly, server, wire, form, IInv, BookedOnConfirm, BeforeWait, Choosing, Unbooked, DryStaysAway,
         Contract!Report, Contract!NoOutcome, Contract!Clean, Contract!Outcomes
    <2>2. ASSUME report' = report PROVE UNCHANGED Contract!vars
      BY <1>9, <2>2 DEF PressReserve, Ends, AttemptOnly, server, wire, form, Contract!vars
    <2> QED
      BY <2>1, <2>2 DEF Contract!Next
  <1>10. CASE PressConfirm
    BY <1>10 DEF PressConfirm, AttemptOnly, server, form, Contract!vars
  <1>11. CASE SeeSuccess
    <2>1. ASSUME report' # report
          PROVE  Contract!Report(report'.outcome) /\ report'.outcome \in Contract!Outcomes
      BY <1>11, <2>1 DEF SeeSuccess, Ends, AttemptOnly, server, wire, form, IInv, BookedOnConfirm, BeforeWait, Choosing, Unbooked, DryStaysAway,
         Contract!Report, Contract!NoOutcome, Contract!Clean, Contract!Outcomes
    <2>2. ASSUME report' = report PROVE UNCHANGED Contract!vars
      BY <1>11, <2>2 DEF SeeSuccess, Ends, AttemptOnly, server, wire, form, Contract!vars
    <2> QED
      BY <2>1, <2>2 DEF Contract!Next
  <1>12. CASE Fails
    <2>1. ASSUME report' # report
          PROVE  Contract!Report(report'.outcome) /\ report'.outcome \in Contract!Outcomes
      BY <1>12, <2>1 DEF Fails, Ends, AttemptOnly, server, wire, form, IInv, BookedOnConfirm, BeforeWait, Choosing, Unbooked, DryStaysAway,
         Contract!Report, Contract!NoOutcome, Contract!Clean, Contract!Outcomes
    <2>2. ASSUME report' = report PROVE UNCHANGED Contract!vars
      BY <1>12, <2>2 DEF Fails, Ends, AttemptOnly, server, wire, form, Contract!vars
    <2> QED
      BY <2>1, <2>2 DEF Contract!Next
  <1>13. ASSUME NEW c \in Coupons, ServeDownload(c) PROVE [Contract!Next]_(Contract!vars)
    BY <1>13 DEF ServeDownload, Unattended, Contract!vars
  <1>14. ASSUME NEW c \in Coupons, LoseDownload(c) PROVE [Contract!Next]_(Contract!vars)
    BY <1>14 DEF LoseDownload, Unattended, server, Contract!vars
  <1>15. CASE ServeConfirm
    <2>1. CASE isOpen /\ slot
      <3>1. ~dry /\ ~booked.made /\ report.outcome \in {"NONE", "ERROR"}
        BY <1>15 DEF ServeConfirm, IInv, BookedOnConfirm, Unbooked, DryStaysAway
      <3>2. booked'.made = TRUE /\ UNCHANGED <<dry, report>>
        BY <1>15, <2>1 DEF ServeConfirm, Unattended
      <3>3. Contract!Accept
        BY <3>1, <3>2 DEF Contract!Accept, Contract!Clean
      <3> QED
        BY <3>3 DEF Contract!Next
    <2>2. CASE ~(isOpen /\ slot)
      BY <1>15, <2>2 DEF ServeConfirm, Unattended, Contract!vars
    <2> QED
      BY <2>1, <2>2
  <1>16. CASE Unasked
    BY <1>16, UnaskedLeaves DEF Contract!vars
  <1> QED
    BY <1>1, <1>2, <1>3, <1>4, <1>5, <1>6, <1>7, <1>8, <1>9, <1>10, <1>11, <1>12, <1>13, <1>14,
       <1>15, <1>16 DEF Next, Attempt, Unasked

\* The attempt with a coupon keeps the safety part of AttemptContract, as the attempt at
\* Naver's site does: RESERVED only of a booking, nothing booked after a clean failure.
THEOREM AttemptKeepsContract == Spec => Contract!Spec
  <1>1. Init => Contract!Init
    BY ContractInit
  <1>2. IInv /\ [Next]_vars => [Contract!Next]_(Contract!vars)
    <2>1. ASSUME IInv, Next PROVE [Contract!Next]_(Contract!vars)
      BY <2>1, ContractStep
    <2>2. ASSUME UNCHANGED vars PROVE UNCHANGED Contract!vars
      BY <2>2 DEF vars, Contract!vars
    <2> QED
      BY <2>1, <2>2
  <1> QED
    BY <1>1, <1>2, Invariance, PTL DEF Spec, Contract!Spec
=============================================================================
