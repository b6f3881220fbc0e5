----------------------------- MODULE FlowProofs -----------------------------
(* Proofs about ReservationFlow for every value of its constants. *)
EXTENDS FlowInvariant, FiniteSetTheorems, TLAPS

-----------------------------------------------------------------------------
(* The steps that follow a check. *)

LEMMA AfterIsStep ==
    ASSUME NEW s \in HumanChecks \cup GateChecks
    PROVE  After[s] \in Steps \ {"done", "terms"}
  BY DEF After, HumanChecks, GateChecks, Steps

(* The places of coupons. *)

LEMMA FirstNumbers ==
    ASSUME NEW n \in Nat
    PROVE  IsFiniteSet(1..n) /\ Cardinality(1..n) = n
  <1>1. 1 \in Int /\ n \in Int
    OBVIOUS
  <1>2. IsFiniteSet(1..n) /\ Cardinality(1..n) = IF 1 > n THEN 0 ELSE n - 1 + 1
    BY <1>1, FS_Interval, Zenon
  <1>3. (IF 1 > n THEN 0 ELSE n - 1 + 1) = n
    OBVIOUS
  <1> QED
    BY <1>2, <1>3

LEMMA PlaceIsInModal ==
    ASSUME NEW i \in DOMAIN modal, modal \in Seq(Coupon), i \in Parsed
    PROVE  Place(i) \in DOMAIN modal
  <1> DEFINE S == {k \in Parsed : k <= i}
  <1>1. DOMAIN modal = 1..Len(modal) /\ Len(modal) \in Nat
    OBVIOUS
  <1>2. IsFiniteSet(1..Len(modal)) /\ Cardinality(1..Len(modal)) = Len(modal)
    BY <1>1, FirstNumbers, Zenon
  <1>3. S \in SUBSET (1..Len(modal)) /\ i \in S
    BY <1>1 DEF Parsed
  <1>4. IsFiniteSet(S) /\ Cardinality(S) <= Len(modal)
    BY <1>2, <1>3, FS_Subset
  <1>5. Cardinality(S) \in Nat /\ Cardinality(S) # 0
    BY <1>3, <1>4, FS_CardinalityType, FS_EmptySet
  <1> QED
    BY <1>1, <1>4, <1>5 DEF Place

LEMMA PlaceIsIndex ==
    ASSUME NEW i \in DOMAIN modal, modal \in Seq(Coupon), Parsed = DOMAIN modal
    PROVE  Place(i) = i
  <1>1. {k \in Parsed : k <= i} = 1..i /\ i \in Nat \ {0}
    OBVIOUS
  <1>2. Cardinality(1..i) = i
    BY <1>1, FirstNumbers
  <1> QED
    BY <1>1, <1>2 DEF Place
-----------------------------------------------------------------------------
(* Types. *)

LEMMA PageTypes ==
    ASSUME TypeOK
    PROVE  form \in Seq(Box) /\ modal \in Seq(Coupon)
  <1>1. PICK p \in Pages : modal = p.modal
    BY DEF TypeOK
  <1> QED
    BY <1>1, FlowAssumption DEF TypeOK

\* What the flow, page and site keep as they are when it only ends or goes on.
LEMMA EndKeepsType ==
    ASSUME TypeOK, step # "done", NEW o \in FlowOutcomes, NEW carried \in BOOLEAN,
           End(o, carried),
           UNCHANGED <<choice, texts, free, form, changes, progress, site, standing>>,
           unsure' \subseteq DOMAIN form, faults' \in 0..MaxFaults,
           shown' \in BOOLEAN
    PROVE  TypeOK'
  <1> DEFINE terms == IF dry /\ o \in {"HUMAN", "GATE", "INVALID"} THEN Diagnosed
                      ELSE IF carried THEN accepted ELSE {}
             c == IF carried THEN applied ELSE NoCoupon
  <1>1. terms \in SUBSET (DOMAIN form) /\ c \in CouponOnForm
    BY DEF TypeOK, Diagnosed, CouponOnForm
  <1>2. report' = [outcome |-> o, terms |-> terms, coupon |-> c] /\ step' = "done"
    BY DEF End
  <1>3. report' # NoReport
    BY <1>2 DEF NoReport, NoOutcome, FlowOutcomes
  <1>4. report' \in [outcome : FlowOutcomes \cup {NoOutcome}, terms : SUBSET (DOMAIN form),
                     coupon : CouponOnForm]
    <2> HIDE DEF terms, c
    <2> QED
      BY <1>1, <1>2
  <1>5. CouponOnForm' = CouponOnForm
    BY DEF CouponOnForm, choice
  <1> HIDE DEF terms, c
  <1> QED
    BY <1>2, <1>3, <1>4, <1>5
    DEF TypeOK, Steps, choice, progress, consents, site

LEMMA GoToKeepsType ==
    ASSUME TypeOK, step # "done", NEW s \in Steps \ {"done", "terms"}, GoTo(s),
           UNCHANGED <<choice, page, progress, site>>,
           shown' \in BOOLEAN, standing' \subseteq texts, faults' \in 0..MaxFaults
    PROVE  TypeOK'
  BY DEF TypeOK, GoTo, CouponOnForm, choice, page, progress, consents, site

LEMMA TypeOKInit == Init => TypeOK
  <1> SUFFICES ASSUME Init PROVE TypeOK
    OBVIOUS
  <1>1. PICK p \in Pages : form = p.form /\ modal = p.modal
    BY DEF Init
  <1>2. p \in [form : Seq(Box), modal : Seq(Coupon)]
    BY <1>1, FlowAssumption
  <1>3. form \in Seq(Box) /\ Len(form) \in Nat /\ modal \in {q.modal : q \in Pages}
    BY <1>1, <1>2
  <1>4. checked \subseteq DOMAIN form /\ counted \in 0..Len(form) /\ next \in 0..(counted + 1)
    BY <1>3 DEF Init
  <1>5. report \in [outcome : FlowOutcomes \cup {NoOutcome}, terms : SUBSET (DOMAIN form),
                    coupon : CouponOnForm]
    BY DEF Init, NoReport, CouponOnForm
  <1>6. changes \in 0..MaxChanges /\ faults \in 0..MaxFaults
    BY FlowAssumption DEF Init
  <1> QED
    BY <1>1, <1>3, <1>4, <1>5, <1>6 DEF Init, TypeOK, Steps, HumanChecks, Slots, CouponOnForm

\* The form only grows, and changes at most one box, in nothing but whether it is visible.
LEMMA FormGrows ==
    ASSUME form \in Seq(Box), checked \subseteq DOMAIN form, unsure \subseteq DOMAIN form,
           FormChanges \/ UNCHANGED <<form, unsure, checked>>
    PROVE  /\ form' \in Seq(Box) /\ Len(form) <= Len(form')
           /\ checked' \subseteq DOMAIN form' /\ unsure' \subseteq DOMAIN form'
           /\ unsure \subseteq unsure' /\ checked \subseteq checked'
           /\ \A i \in DOMAIN form :
                 /\ form'[i].marks = form[i].marks /\ form'[i].readable = form[i].readable
                 /\ form'[i].visible = form[i].visible \/ ~Behind(i) \/ i \in unsure'
                 /\ i \in checked' => i \in checked
           /\ \A i \in DOMAIN form' \ DOMAIN form : Behind(i) => i \in unsure'
  <1> USE DEF BoxChanges, Behind
  <1>1. CASE UNCHANGED <<form, unsure, checked>>
    BY <1>1
  <1>2. ASSUME NEW k \in DOMAIN form, form' = [form EXCEPT ![k].visible = ~@],
               BoxChanges(k), checked' = checked
        PROVE  /\ form' \in Seq(Box) /\ DOMAIN form' = DOMAIN form /\ Len(form') = Len(form)
               /\ \A i \in DOMAIN form :
                     /\ form'[i].marks = form[i].marks /\ form'[i].readable = form[i].readable
                     /\ i # k => form'[i].visible = form[i].visible
    <2>1. form[k] \in Box
      OBVIOUS
    <2>2. [form[k] EXCEPT !.visible = ~@] \in Box
      BY <2>1 DEF Box
    <2>3. form' = [form EXCEPT ![k] = [form[k] EXCEPT !.visible = ~@]]
      BY <1>2
    <2>4. form' \in Seq(Box) /\ DOMAIN form' = DOMAIN form /\ Len(form') = Len(form)
      BY <2>2, <2>3
    <2>5. /\ form'[k].marks = form[k].marks /\ form'[k].readable = form[k].readable
          /\ \A i \in DOMAIN form : i # k => form'[i] = form[i]
      BY <2>1, <2>3 DEF Box
    <2> QED
      BY <2>4, <2>5
  <1>3. ASSUME NEW b \in NewBoxes, form' = Append(form, b), BoxChanges(Len(form) + 1)
        PROVE  /\ form' \in Seq(Box) /\ Len(form') = Len(form) + 1
               /\ DOMAIN form' = DOMAIN form \cup {Len(form) + 1}
               /\ \A i \in DOMAIN form : form'[i] = form[i] /\ i # Len(form) + 1
    BY <1>3, FlowAssumption
  <1>4. Len(form) \in Nat
    OBVIOUS
  <1> QED
    BY <1>1, <1>2, <1>3, <1>4 DEF FormChanges

LEMMA TypeOKNext ==
    ASSUME TypeOK, [Next]_vars
    PROVE  TypeOK'
  <1> USE DEF FlowOutcomes, Steps
  <1>p. form \in Seq(Box) /\ modal \in Seq(Coupon)
    BY PageTypes
  <1>s. /\ standing \subseteq texts /\ faults \in 0..MaxFaults /\ shown \in BOOLEAN
        /\ unsure \subseteq DOMAIN form
    BY DEF TypeOK
  <1> USE DEF page
  <1>1. CASE CheckHuman
    <2>1. After[step] \in Steps \ {"done", "terms"}
      BY <1>1, AfterIsStep DEF CheckHuman
    <2> QED
      BY <1>1, <1>s, <2>1, EndKeepsType, GoToKeepsType
      DEF CheckHuman, HumanChecks
  <1>2. CASE CheckGate
    <2>1. After[step] \in Steps \ {"done", "terms"}
      BY <1>2, AfterIsStep DEF CheckGate
    <2> QED
      BY <1>2, <1>s, <2>1, EndKeepsType, GoToKeepsType
      DEF CheckGate, GateChecks
  <1>3. CASE Read
    BY <1>3, <1>s, EndKeepsType, GoToKeepsType DEF Read, HumanChecks
  <1>4. CASE ReadTimes
    BY <1>4, <1>s, EndKeepsType, GoToKeepsType DEF ReadTimes
  <1>5. CASE SelectTime
    <2>1. CASE UNCHANGED picked
      BY <1>5, <1>s, <2>1, EndKeepsType, GoToKeepsType DEF SelectTime, choice, TypeOK
    <2>2. CASE picked' \in {Wanted} \cup Others /\ GoTo("coupons")
      BY <1>5, <2>2
         DEF SelectTime, GoTo, TypeOK, Slots, CouponOnForm, page, progress, consents, site
    <2> QED
      BY <1>5, <2>1, <2>2 DEF SelectTime
  <1>6. CASE HandleCoupons
    <2>1. applied' \in CouponOnForm /\ coupon' \in CouponOnForm
      <3>1. CASE UNCHANGED <<coupon, applied>>
        BY <3>1 DEF TypeOK
      <3>2. ASSUME NEW best \in DOMAIN modal, NEW first \in DOMAIN modal,
                   IsFirstTitled(first, modal[best].title),
                   applied' = modal[best],
                   coupon' = modal[Place(first)] \/ UNCHANGED coupon
            PROVE  applied' \in CouponOnForm /\ coupon' \in CouponOnForm
        BY <1>p, <3>2, PlaceIsInModal DEF CouponOnForm, IsFirstTitled, TypeOK
      <3> QED
        BY <1>6, <3>1, <3>2 DEF HandleCoupons
    <2> QED
      BY <1>6, <2>1
      DEF HandleCoupons, GoTo, TypeOK, CouponOnForm, choice, page, consents, site
  <1>7. CASE SkipBox \/ AcceptBox
    <2>1. next \in DOMAIN form /\ next + 1 \in 0..(counted + 1) /\ next + 1 # 0
      BY <1>7, <1>p DEF SkipBox, AcceptBox, AtBox, TypeOK
    <2>2. CASE SkipBox
      BY <2>1, <2>2 DEF SkipBox, TypeOK, CouponOnForm, choice, site
    <2>3. CASE AcceptBox
      BY <2>1, <2>3 DEF AcceptBox, TypeOK, CouponOnForm, choice, site
    <2> QED
      BY <1>7, <2>2, <2>3
  <1>8. CASE RefuseBox \/ TermsDone
    BY <1>8, <1>s, EndKeepsType, GoToKeepsType DEF RefuseBox, TermsDone, AtBox, HumanChecks
  <1>17. CASE CountBoxes
    <2>1. Len(form) \in Nat /\ 1 \in 0..(Len(form) + 1) /\ Len(form) \in 0..Len(form)
      BY <1>p
    <2> QED
      BY <1>17, <2>1 DEF CountBoxes, GoTo, TypeOK, CouponOnForm, choice, site
  <1>18. CASE UnreadBox
    <2>1. /\ next \in DOMAIN form /\ next + 1 \in 0..(counted + 1) /\ next + 1 # 0
          /\ step = "terms"
      BY <1>18, <1>p DEF UnreadBox, AtBox, TypeOK
    <2>2. faults' \in 0..MaxFaults /\ unsure' \subseteq DOMAIN form
      BY <1>18, <1>s, <2>1, FlowAssumption DEF UnreadBox, TypeOK
    <2>3. CASE End("HUMAN", FALSE) /\ UNCHANGED consents
      BY <1>18, <1>s, <2>1, <2>2, <2>3, EndKeepsType DEF UnreadBox, progress
    <2>4. CASE ~(End("HUMAN", FALSE) /\ UNCHANGED consents)
      <3>1. /\ next' = next + 1 /\ accepted' \subseteq DOMAIN form /\ checked' \subseteq DOMAIN form
            /\ UNCHANGED <<step, report, counted>>
        BY <1>18, <2>1, <2>4 DEF UnreadBox, TypeOK
      <3> QED
        BY <1>18, <2>1, <2>2, <3>1 DEF UnreadBox, TypeOK, CouponOnForm, choice, site
    <2> QED
      BY <2>3, <2>4
  <1>9. CASE CheckSummary
    <2>1. /\ step = "summary" /\ standing' = texts /\ shown' \in BOOLEAN
          /\ UNCHANGED <<choice, page, progress, site, faults>>
          /\ End("INVALID", TRUE) \/ GoTo("human2")
      BY <1>9, <1>s DEF CheckSummary
    <2>2. CASE GoTo("human2")
      BY <1>s, <2>1, <2>2, GoToKeepsType DEF HumanChecks
    <2>3. CASE End("INVALID", TRUE)
      <3>1. report' \in [outcome : FlowOutcomes \cup {NoOutcome}, terms : SUBSET (DOMAIN form),
                         coupon : CouponOnForm]
        <4>1. Diagnosed \in SUBSET (DOMAIN form) /\ accepted \in SUBSET (DOMAIN form)
          BY DEF Diagnosed, TypeOK
        <4> QED
          BY <2>3, <4>1 DEF End, TypeOK
      <3>2. report' # NoReport /\ step' = "done"
        BY <2>3 DEF End, NoReport, NoOutcome
      <3>3. CouponOnForm' = CouponOnForm /\ form' = form /\ texts' = texts
        BY <2>1 DEF CouponOnForm, choice, progress, consents, page
      <3> QED
        BY <2>1, <3>1, <3>2, <3>3 DEF TypeOK, choice, page, progress, consents, site
    <2> QED
      BY <2>1, <2>2, <2>3
  <1>10. CASE PressFinal
    <2>1. CASE UNCHANGED asked
      BY <1>10, <1>s, <2>1, EndKeepsType, GoToKeepsType DEF PressFinal, site, HumanChecks
    <2>2. CASE asked' = picked /\ GoTo("human3") /\ step = "press"
      BY <1>10, <2>2
      DEF PressFinal, GoTo, TypeOK, CouponOnForm, choice, page, progress, consents, HumanChecks
    <2> QED
      BY <1>10, <2>1, <2>2 DEF PressFinal
  <1>11. CASE WaitForSuccess
    BY <1>11, <1>s, EndKeepsType DEF WaitForSuccess
  <1>12. CASE Fails
    BY <1>12, <1>s, EndKeepsType DEF Fails
  <1>13. CASE PageChanges
    <2>1. changes' \in 0..MaxChanges /\ report = NoReport /\ step # "done"
      BY <1>13, FlowAssumption DEF PageChanges, TypeOK
    <2>2. texts' \subseteq Markers /\ free' \in BOOLEAN /\ standing' \subseteq texts'
      BY <1>13 DEF PageChanges, TypeOK
    <2>3. /\ form' \in Seq(Box) /\ Len(form) <= Len(form')
          /\ checked' \subseteq DOMAIN form' /\ unsure' \subseteq DOMAIN form'
      BY <1>13, <1>p, <1>s, FormGrows DEF PageChanges, TypeOK
    <2>4. DOMAIN form \subseteq DOMAIN form' /\ counted \in 0..Len(form')
      BY <1>p, <2>3 DEF TypeOK
    <2>5. /\ UNCHANGED <<step, choice, counted, next, accepted, coupon, applied, shown, site,
                         report, faults>>
      BY <1>13 DEF PageChanges
    <2>6. report' \in [outcome : FlowOutcomes \cup {NoOutcome}, terms : SUBSET (DOMAIN form'),
                       coupon : CouponOnForm']
      BY <2>1, <2>5 DEF NoReport, CouponOnForm
    <2> QED
      BY <2>1, <2>2, <2>3, <2>4, <2>5, <2>6 DEF TypeOK, CouponOnForm, choice, site
  <1>14. CASE SiteAccepts
    BY <1>14 DEF SiteAccepts, TypeOK, CouponOnForm, choice, page, progress, consents
  <1>15. CASE ReadFails
    <2>1. After[step] \in Steps \ {"done", "terms"} /\ step # "done"
      BY <1>15, AfterIsStep DEF ReadFails, HumanChecks, GateChecks
    <2>2. faults' \in 0..MaxFaults
      BY <1>15, FlowAssumption DEF ReadFails, TypeOK
    <2> QED
      BY <1>15, <1>s, <2>1, <2>2, GoToKeepsType DEF ReadFails
  <1>19. CASE ConsentReadFails
    <2>1. /\ step # "done" /\ unsure' \subseteq DOMAIN form
          /\ (step # "gate3") \in BOOLEAN
      BY <1>19, <1>s DEF ConsentReadFails, GateChecks
    <2>2. faults' \in 0..MaxFaults
      BY <1>19, FlowAssumption DEF ConsentReadFails, TypeOK
    <2> QED
      BY <1>19, <1>s, <2>1, <2>2, EndKeepsType DEF ConsentReadFails
  <1>16. CASE UNCHANGED vars
    BY <1>16 DEF vars, TypeOK, CouponOnForm
  <1> QED
    BY <1>1, <1>2, <1>3, <1>4, <1>5, <1>6, <1>7, <1>8, <1>9, <1>10, <1>11, <1>12, <1>13,
       <1>14, <1>15, <1>16, <1>17, <1>18, <1>19 DEF Next, Flow

\* The types of the page, the flow and the report hold at every await of an attempt, the
\* coupon put on the form being one of the modal's (naver_adapter.py reserve).
THEOREM TypeCorrect == Spec => []TypeOK
  BY TypeOKInit, TypeOKNext, PTL DEF Spec

-----------------------------------------------------------------------------
(* What the small operators do. *)

LEMMA AfterIs ==
    /\ After["human0"] = "read" /\ After["humanR"] = "times"
    /\ After["human1"] = "gate1" /\ After["gate1"] = "summary"
    /\ After["human2"] = "gate2" /\ After["gate2"] = "press"
    /\ After["human3"] = "gate3" /\ After["gate3"] = "wait"
  BY DEF After

LEMMA EndIs ==
    ASSUME NEW o, NEW carried, End(o, carried)
    PROVE  step' = "done" /\ report'.outcome = o
  BY DEF End

\* While the attempt goes on nothing is reported.
LEMMA NothingReported ==
    ASSUME TypeOK, step # "done"
    PROVE  report = NoReport /\ report.outcome = NoOutcome
  BY DEF TypeOK, NoReport

-----------------------------------------------------------------------------
LEMMA ClickIsLastNext ==
    ASSUME TypeOK, ClickIsLast, [Next]_vars
    PROVE  ClickIsLast'
  <1> USE DEF ClickIsLast
  <1> DEFINE Steady == UNCHANGED <<picked, dry, asked, booked>>
  <1>e. ASSUME step # "done", Steady, NEW o, NEW carried, End(o, carried),
               o \in NothingBooked => asked = Unasked,
               o = "RESERVED" => booked # NoSlot
        PROVE  ClickIsLast'
    BY <1>e, EndIs DEF BeforeClick, BeforeRecheck, Choosing
  <1>g. ASSUME step # "done", Steady, NEW s, GoTo(s),
               s \in BeforeClick => asked = Unasked,
               s \in {"human3", "gate3", "wait"} => asked # Unasked
        PROVE  ClickIsLast'
    BY <1>g, NothingReported DEF GoTo, NothingBooked, NoOutcome
  <1>1. CASE CheckHuman
    BY <1>1, <1>e, <1>g, AfterIs
    DEF CheckHuman, HumanChecks, BeforeClick, BeforeRecheck, Choosing, NothingBooked, choice, site
  <1>2. CASE CheckGate
    BY <1>2, <1>e, <1>g, AfterIs
    DEF CheckGate, GateChecks, BeforeClick, BeforeRecheck, Choosing, NothingBooked, choice, site
  <1>3. CASE Read \/ ReadTimes
    BY <1>3, <1>e, <1>g
    DEF Read, ReadTimes, BeforeClick, BeforeRecheck, Choosing, choice, site
  <1>4. CASE SelectTime
    <2>1. asked = Unasked /\ step # "done" /\ asked' = asked /\ booked' = booked
      BY <1>4 DEF SelectTime, BeforeClick, BeforeRecheck, Choosing, site
    <2>2. CASE GoTo("coupons")
      BY <2>1, <2>2, NothingReported DEF GoTo, NoOutcome
    <2>3. CASE End("UNAVAILABLE", FALSE)
      BY <2>1, <2>3 DEF End
    <2> QED
      BY <1>4, <2>2, <2>3 DEF SelectTime
  <1>5. CASE HandleCoupons \/ TermsDone \/ CountBoxes
    BY <1>5, <1>g
    DEF HandleCoupons, TermsDone, CountBoxes, BeforeClick, BeforeRecheck, Choosing, choice, site
  <1>6. CASE SkipBox \/ AcceptBox
    BY <1>6 DEF SkipBox, AcceptBox, choice, site
  <1>7. CASE RefuseBox \/ Fails
    BY <1>7, <1>e DEF RefuseBox, Fails, AtBox, NothingBooked, choice, site
  <1>8. CASE CheckSummary
    BY <1>8, <1>e, <1>g
    DEF CheckSummary, BeforeClick, BeforeRecheck, Choosing, choice, site
  <1>9. CASE PressFinal
    <2>1. step = "press" /\ asked = Unasked /\ UNCHANGED <<picked, dry, booked>>
      BY <1>9 DEF PressFinal, BeforeClick, choice
    <2>2. CASE UNCHANGED asked /\ (End("READY", TRUE) \/ End("INVALID", FALSE))
      BY <2>1, <2>2, <1>e DEF NothingBooked
    <2>3. CASE ~dry /\ asked' = picked /\ GoTo("human3")
      <3>1. report'.outcome = NoOutcome /\ step' = "human3" /\ picked # Unasked
        BY <2>1, <2>3, NothingReported, FlowAssumption
        DEF GoTo, TypeOK, Slots, NoSlot, Unasked
      <3>2. booked = NoSlot
        BY <2>1
      <3> QED
        BY <2>1, <2>3, <3>1, <3>2
        DEF NoOutcome, NothingBooked, BeforeClick, BeforeRecheck, Choosing, NoSlot, Unasked
    <2> QED
      BY <1>9, <2>2, <2>3 DEF PressFinal
  <1>10. CASE WaitForSuccess
    BY <1>10, <1>e DEF WaitForSuccess, NothingBooked, choice, site
  <1>11. CASE PageChanges
    BY <1>11 DEF PageChanges, choice, site
  <1>12. CASE SiteAccepts
    BY <1>12, NothingReported DEF SiteAccepts, choice
  <1>13. CASE ReadFails
    BY <1>13, <1>g, AfterIs
    DEF ReadFails, HumanChecks, GateChecks, BeforeClick, BeforeRecheck, Choosing, choice, site
  <1>14. CASE ConsentReadFails
    BY <1>14, <1>e DEF ConsentReadFails, GateChecks, NothingBooked, choice, site
  <1>15. CASE UnreadBox
    <2>1. UNCHANGED <<picked, dry, asked, booked>> /\ step # "done"
      BY <1>15 DEF UnreadBox, AtBox, choice, site
    <2> QED
      BY <1>15, <1>e, <2>1 DEF UnreadBox, NothingBooked
  <1>16. CASE UNCHANGED vars
    BY <1>16 DEF vars
  <1> QED
    BY <1>1, <1>2, <1>3, <1>4, <1>5, <1>6, <1>7, <1>8, <1>9, <1>10, <1>11, <1>12, <1>13,
       <1>14, <1>15, <1>16 DEF Next, Flow

LEMMA ClickIsLastInit == Init => ClickIsLast
  <1> SUFFICES ASSUME Init PROVE ClickIsLast
    OBVIOUS
  <1>1. /\ step = "human0" /\ report.outcome = NoOutcome
        /\ asked = Unasked /\ booked = NoSlot
    BY DEF Init, NoReport
  <1> QED
    BY <1>1 DEF ClickIsLast, NoOutcome, NoSlot, Unasked

\* The click comes after every check and at most once, and no attempt that reports a clean
\* failure, nor a dry run, has asked the site for anything (naver_adapter.py
\* _reserve_inner, _dry_run_inner).
THEOREM ClicksLast == Spec => []ClickIsLast
  BY ClickIsLastInit, ClickIsLastNext, TypeCorrect, PTL DEF Spec

-----------------------------------------------------------------------------
LEMMA SummaryMatchesInit == Init => SummaryMatches
  BY DEF Init, SummaryMatches

LEMMA SummaryMatchesNext ==
    ASSUME TypeOK, SummaryMatches, [Next]_vars
    PROVE  SummaryMatches'
  <1> USE DEF SummaryMatches, Matches, BeforeRecheck, Choosing
  <1>e. ASSUME UNCHANGED <<picked, shown>>, NEW o, NEW carried, End(o, carried)
        PROVE  SummaryMatches'
    BY <1>e, EndIs
  <1>g. ASSUME UNCHANGED <<picked, shown>>, NEW s, GoTo(s),
               s \in BeforeRecheck => step \in BeforeRecheck
        PROVE  SummaryMatches'
    BY <1>g DEF GoTo
  <1>1. CASE CheckHuman
    BY <1>1, <1>e, <1>g, AfterIs DEF CheckHuman, HumanChecks, choice
  <1>2. CASE CheckGate
    BY <1>2, <1>e, <1>g, AfterIs DEF CheckGate, GateChecks, choice
  <1>3. CASE Read \/ ReadTimes
    BY <1>3, <1>e, <1>g DEF Read, ReadTimes, choice
  <1>4. CASE SelectTime
    <2>1. ~shown /\ ~shown'
      BY <1>4 DEF SelectTime, TypeOK
    <2> QED
      BY <2>1
  <1>5. CASE HandleCoupons \/ TermsDone \/ CountBoxes
    BY <1>5, <1>g DEF HandleCoupons, TermsDone, CountBoxes, choice
  <1>6. CASE SkipBox \/ AcceptBox
    BY <1>6 DEF SkipBox, AcceptBox, choice
  <1>7. CASE RefuseBox \/ Fails
    BY <1>7, <1>e DEF RefuseBox, Fails, choice
  <1>8. CASE CheckSummary
    <2>1. step' \notin BeforeRecheck /\ picked' = picked
      BY <1>8, EndIs DEF CheckSummary, GoTo, choice
    <2>2. CASE Matches
      BY <2>1, <2>2
    <2>3. CASE UNCHANGED shown
      BY <2>1, <2>3
    <2> QED
      BY <1>8, <2>2, <2>3 DEF CheckSummary
  <1>9. CASE PressFinal
    BY <1>9, <1>e, <1>g DEF PressFinal, choice
  <1>10. CASE WaitForSuccess
    BY <1>10, <1>e DEF WaitForSuccess, choice
  <1>11. CASE PageChanges \/ SiteAccepts
    BY <1>11 DEF PageChanges, SiteAccepts, choice
  <1>12. CASE ReadFails
    BY <1>12, <1>g, AfterIs DEF ReadFails, HumanChecks, GateChecks, choice
  <1>13. CASE ConsentReadFails
    BY <1>13, <1>e DEF ConsentReadFails, choice
  <1>14. CASE UnreadBox
    BY <1>14, <1>e DEF UnreadBox, choice
  <1>15. CASE UNCHANGED vars
    BY <1>15 DEF vars
  <1> QED
    BY <1>1, <1>2, <1>3, <1>4, <1>5, <1>6, <1>7, <1>8, <1>9, <1>10, <1>11, <1>12, <1>13,
       <1>14, <1>15 DEF Next, Flow

\* Another slot than the one asked for is booked only when no summary could be read, or
\* when its summary contains the texts looked for (naver_adapter.py _summary_matches).
THEOREM WrongSlotIsUnseen == Spec => []WrongSlotOnlyUnseen
  <1>1. ClickIsLast /\ SummaryMatches => WrongSlotOnlyUnseen
    BY DEF ClickIsLast, SummaryMatches, WrongSlotOnlyUnseen, Matches
  <1> QED
    BY <1>1, SummaryMatchesInit, SummaryMatchesNext, TypeCorrect, ClicksLast, PTL DEF Spec

-----------------------------------------------------------------------------
LEMMA StandingIsCheckedInit == Init => StandingIsChecked
  BY DEF Init, StandingIsChecked

LEMMA StandingIsCheckedNext ==
    ASSUME TypeOK, StandingIsChecked, [Next]_vars
    PROVE  StandingIsChecked'
  <1> USE DEF StandingIsChecked
  <1>t. /\ standing \subseteq texts /\ texts \subseteq AllMarkers /\ faults \in Nat
    BY FlowAssumption DEF TypeOK
  <1>e. ASSUME NEW o, NEW carried, End(o, carried)
        PROVE  StandingIsChecked'
    BY <1>e, EndIs
  <1>g. ASSUME NEW s, GoTo(s), s \notin {"gate2", "press"}
        PROVE  StandingIsChecked'
    BY <1>g DEF GoTo
  <1>1. CASE CheckHuman
    <2>1. CASE step = "human2" /\ "human" \notin texts
      BY <1>1, <1>t, <2>1, AfterIs DEF CheckHuman, GoTo
    <2> QED
      BY <1>1, <1>e, <1>g, <2>1, AfterIs DEF CheckHuman, HumanChecks
  <1>2. CASE CheckGate
    <2>1. CASE step = "gate2" /\ ~Gate
      <3>1. standing \subseteq {"consent"} \/ "human" \in standing
        BY <1>t, <2>1 DEF Gate, AllMarkers
      <3> QED
        BY <1>2, <2>1, <3>1, AfterIs DEF CheckGate, GoTo
    <2> QED
      BY <1>2, <1>e, <1>g, <2>1, AfterIs DEF CheckGate, GateChecks
  <1>3. CASE Read \/ ReadTimes \/ SelectTime \/ HandleCoupons \/ TermsDone \/ CountBoxes
    BY <1>3, <1>e, <1>g DEF Read, ReadTimes, SelectTime, HandleCoupons, TermsDone, CountBoxes
  <1>4. CASE SkipBox \/ AcceptBox
    BY <1>4 DEF SkipBox, AcceptBox
  <1>5. CASE RefuseBox \/ Fails \/ WaitForSuccess \/ PressFinal \/ CheckSummary
    BY <1>5, <1>e, <1>g DEF RefuseBox, Fails, WaitForSuccess, PressFinal, CheckSummary
  <1>6. CASE PageChanges
    BY <1>6 DEF PageChanges
  <1>7. CASE SiteAccepts
    BY <1>7 DEF SiteAccepts
  <1>8. CASE ReadFails \/ ConsentReadFails \/ UnreadBox
    <2>1. faults' = faults + 1
      BY <1>8 DEF ReadFails, ConsentReadFails, UnreadBox
    <2> QED
      BY <1>t, <2>1
  <1>9. CASE UNCHANGED vars
    BY <1>9 DEF vars
  <1> QED
    BY <1>1, <1>2, <1>3, <1>4, <1>5, <1>6, <1>7, <1>8, <1>9 DEF Next, Flow

\* The button is not pressed on a page that has shown a captcha, a payment or a fee ever
\* since the summary was read, unless a read of the page's text failed (naver_adapter.py
\* _advance_to_confirm_screen, _click_confirm_button).
THEOREM SettledBlockersSeen == Spec => SettledBlockersStopTheClick
  <1>1. ASSUME TypeOK, StandingIsChecked, [Next]_vars
        PROVE  [asked' # asked => standing \subseteq {"consent"} \/ faults > 0]_vars
    <2>1. ASSUME asked' # asked PROVE step = "press"
      BY <1>1, <2>1
      DEF Next, Flow, CheckHuman, CheckGate, Read, ReadTimes, SelectTime, HandleCoupons,
          SkipBox, AcceptBox, RefuseBox, TermsDone, CheckSummary, PressFinal,
          WaitForSuccess, Fails, CountBoxes, PageChanges, SiteAccepts, ReadFails,
          ConsentReadFails, UnreadBox, vars, site
    <2> QED
      BY <1>1, <2>1 DEF StandingIsChecked
  <1> QED
    BY <1>1, StandingIsCheckedInit, StandingIsCheckedNext, TypeCorrect, PTL
    DEF Spec, SettledBlockersStopTheClick

-----------------------------------------------------------------------------
LEMMA PassedOverMayBeLeftOut ==
    ASSUME form \in Seq(Box), next \in DOMAIN form, PassedOver
    PROVE  MayBeLeftOut(form[next])
  <1>1. form[next] \in Box
    OBVIOUS
  <1> QED
    BY <1>1 DEF PassedOver, Class, MayBeLeftOut, Box, Labels

LEMMA AcceptableIsRequired ==
    ASSUME Acceptable
    PROVE  form[next].readable /\ form[next].marks = {"required"}
  BY DEF Acceptable, Class

LEMMA BoxesAreDecidedInit == Init => BoxesAreDecided
  <1> SUFFICES ASSUME Init PROVE BoxesAreDecided
    OBVIOUS
  <1>1. PICK p \in Pages : form = p.form
    BY DEF Init
  <1>2. form \in Seq(Box) /\ next = 0
    BY <1>1, FlowAssumption DEF Init
  <1>3. \A i \in DOMAIN form : ~(i < next)
    BY <1>2
  <1>4. /\ step = "human0" /\ accepted = {} /\ asked = Unasked
        /\ report.outcome = NoOutcome
    BY DEF Init, NoReport
  <1> QED
    BY <1>2, <1>3, <1>4 DEF BoxesAreDecided, AfterBoxes, Choosing, NoOutcome

LEMMA BoxesAreDecidedNext ==
    ASSUME TypeOK, BoxesAreDecided, [Next]_vars
    PROVE  BoxesAreDecided'
  <1> USE DEF BoxesAreDecided, AfterBoxes
  <1> DEFINE Uncounted == Choosing \cup {"coupons", "boxes"}
             Early == Uncounted \cup {"terms", "done"}
             Steady == /\ UNCHANGED <<form, checked, counted, next, accepted>>
                       /\ unsure \subseteq unsure'
  <1>f. form \in Seq(Box) /\ next \in Nat /\ counted \in Nat /\ next <= counted + 1
    BY PageTypes DEF TypeOK
  <1>b. ASSUME Steady
        PROVE  /\ \A i \in accepted' : RightlyGiven(i)' /\ i < next'
               /\ \A i \in DOMAIN form' \ (checked' \cup unsure') :
                     /\ i < next' /\ form'[i].visible => MayBeLeftOut(form'[i])
                     /\ next' # 0 => i <= counted'
    BY <1>b DEF RightlyGiven
  <1>e. ASSUME Steady, UNCHANGED asked, NEW o, NEW carried, End(o, carried),
               o # "GATE" \/ (next = counted + 1 /\ next # 0)
        PROVE  BoxesAreDecided'
    <2>1. step' = "done" /\ report'.outcome = o
      BY <1>e DEF End
    <2> QED
      BY <1>b, <1>e, <2>1 DEF Choosing
  <1>g. ASSUME Steady, UNCHANGED asked, NEW s, GoTo(s), s # "terms",
               s \in Uncounted => next = 0,
               s \in Steps \ Early => next = counted + 1 /\ next # 0
        PROVE  BoxesAreDecided'
    <2>1. step' = s /\ report' = report
      BY <1>g DEF GoTo
    <2> QED
      BY <1>b, <1>g, <2>1
  <1>1. CASE CheckHuman
    <2>1. /\ After[step] \in Steps \ Early => step \in Steps \ Early
          /\ After[step] \in Uncounted => step \in Uncounted
          /\ After[step] # "terms"
      BY <1>1, AfterIs DEF CheckHuman, HumanChecks, GateChecks, Steps, Choosing
    <2> QED
      BY <1>1, <1>e, <1>g, <2>1 DEF CheckHuman, page, progress, consents, site
  <1>2. CASE CheckGate
    <2>1. /\ step \in Steps \ Early /\ After[step] # "terms" /\ After[step] \notin Uncounted
      BY <1>2, AfterIs DEF CheckGate, GateChecks, HumanChecks, Steps, Choosing
    <2> QED
      BY <1>2, <1>e, <1>g, <2>1 DEF CheckGate, page, progress, consents, site
  <1>3. CASE Read \/ ReadTimes
    BY <1>3, <1>e, <1>g
    DEF Read, ReadTimes, Steps, HumanChecks, Choosing, page, progress, consents, site
  <1>4. CASE SelectTime
    <2>1. Steady /\ UNCHANGED asked
      BY <1>4 DEF SelectTime, page, progress, consents, site
    <2> QED
      BY <1>4, <1>e, <1>g, <2>1 DEF SelectTime, Choosing
  <1>5. CASE HandleCoupons
    BY <1>5, <1>g DEF HandleCoupons, page, consents, site, Choosing
  <1>6. CASE SkipBox
    <2>1. /\ step = "terms" /\ next \in 1..counted /\ next \in DOMAIN form /\ next' = next + 1
          /\ UNCHANGED <<step, form, checked, counted, accepted, unsure, asked, report>>
      BY <1>6, <1>f DEF SkipBox, AtBox, page, site, TypeOK
    <2>2. ASSUME NEW i \in DOMAIN form \ (checked \cup unsure), i < next + 1, form[i].visible
          PROVE  MayBeLeftOut(form[i])
      <3>1. CASE i < next
        BY <2>2, <3>1
      <3>2. CASE i = next
        BY <1>6, <1>f, <2>1, <2>2, <3>2, PassedOverMayBeLeftOut DEF SkipBox, NeedsDecision
      <3> QED
        BY <1>f, <2>2, <3>1, <3>2
    <2>3. next # counted + 1 /\ next # 0 /\ next + 1 # 0
      BY <1>f, <2>1
    <2>4. \A i \in accepted : i < next + 1
      BY <1>f DEF TypeOK
    <2> QED
      BY <2>1, <2>2, <2>3, <2>4 DEF Choosing, RightlyGiven
  <1>7. CASE AcceptBox
    <2>1. /\ step = "terms" /\ next \in 1..counted /\ next \in DOMAIN form /\ next' = next + 1
          /\ accepted' = accepted \cup {next} /\ checked' = checked \cup {next}
          /\ UNCHANGED <<step, form, counted, unsure, asked, report>>
      BY <1>7, <1>f DEF AcceptBox, AtBox, page, site, TypeOK
    <2>2. \A i \in DOMAIN form \ (checked' \cup unsure) :
             i < next + 1 /\ form[i].visible => MayBeLeftOut(form[i])
      BY <1>f, <2>1
    <2>3. form[next].visible /\ form[next].readable /\ form[next].marks = {"required"}
      BY <1>7, AcceptableIsRequired DEF AcceptBox, NeedsDecision
    <2>4. next # counted + 1 /\ next # 0 /\ next + 1 # 0
      BY <1>f, <2>1
    <2> QED
      <3>1. \A i \in accepted' : RightlyGiven(i)' /\ i < next + 1
        BY <1>f, <2>1, <2>3 DEF RightlyGiven, TypeOK
      <3> QED
        BY <2>1, <2>2, <2>4, <3>1 DEF Choosing
  <1>8. CASE RefuseBox \/ Fails \/ WaitForSuccess
    BY <1>8, <1>e DEF RefuseBox, Fails, WaitForSuccess, page, progress, consents, site
  <1>9. CASE TermsDone
    <2>1. next = counted + 1 /\ next # 0
      BY <1>9, <1>f DEF TermsDone, TypeOK
    <2> QED
      BY <1>9, <1>g, <2>1 DEF TermsDone, page, progress, consents, site, Choosing
  <1>10. CASE CheckSummary
    <2>1. next = counted + 1 /\ next # 0
      BY <1>10 DEF CheckSummary, Steps, Choosing
    <2> QED
      BY <1>10, <1>e, <1>g, <2>1 DEF CheckSummary, page, progress, consents, site, Choosing
  <1>11. CASE PressFinal
    <2>1. next = counted + 1 /\ next # 0 /\ Steady
      BY <1>11 DEF PressFinal, Steps, Choosing, page, progress, consents
    <2>2. CASE UNCHANGED asked
      BY <1>11, <1>e, <1>g, <2>1, <2>2 DEF PressFinal, Choosing
    <2>3. CASE GoTo("human3")
      BY <1>b, <2>1, <2>3 DEF GoTo, Choosing
    <2> QED
      BY <1>11, <2>2, <2>3 DEF PressFinal
  <1>12. CASE SiteAccepts
    <2>1. Steady /\ UNCHANGED <<step, asked, report>>
      BY <1>12 DEF SiteAccepts, page, progress, consents, site
    <2> QED
      BY <1>b, <2>1
  <1>13. CASE ReadFails
    <2>1. /\ After[step] \in Steps \ Early => step \in Steps \ Early
          /\ After[step] \in Uncounted => step \in Uncounted
          /\ After[step] # "terms"
      BY <1>13, AfterIs DEF ReadFails, HumanChecks, GateChecks, Steps, Choosing
    <2> QED
      BY <1>13, <1>g, <2>1 DEF ReadFails, page, progress, consents, site
  <1>14. CASE ConsentReadFails
    <2>1. step \in Steps \ Early
      BY <1>14 DEF ConsentReadFails, GateChecks, Steps, Choosing
    <2>2. Steady /\ UNCHANGED asked
      BY <1>14 DEF ConsentReadFails, progress, consents, site
    <2> QED
      BY <1>14, <1>e, <2>1, <2>2 DEF ConsentReadFails
  <1>15. CASE CountBoxes
    <2>1. /\ counted' = Len(form) /\ next' = 1 /\ step' = "terms" /\ step = "boxes"
          /\ UNCHANGED <<form, checked, accepted, unsure, asked, report>>
      BY <1>15 DEF CountBoxes, GoTo, page, site
    <2>2. asked = Unasked /\ report.outcome # "GATE" /\ next = 0
      BY <1>f, <2>1 DEF Choosing
    <2>3. \A i \in DOMAIN form : i <= Len(form) /\ ~(i < 1) /\ ~(i < 0)
      BY <1>f
    <2>4. accepted = {}
      BY <2>2, <2>3 DEF TypeOK
    <2> QED
      BY <2>1, <2>2, <2>3, <2>4 DEF Choosing
  <1>16. CASE UnreadBox
    <2>1. /\ step = "terms" /\ next \in 1..counted /\ next \in DOMAIN form
          /\ unsure' = unsure \cup {next}
          /\ UNCHANGED <<form, asked>>
      BY <1>16, <1>f DEF UnreadBox, AtBox, site, TypeOK
    <2>2. CASE End("HUMAN", FALSE) /\ UNCHANGED consents
      BY <1>e, <2>1, <2>2 DEF consents
    <2>3. CASE ~(End("HUMAN", FALSE) /\ UNCHANGED consents)
      <3>1. /\ next' = next + 1 /\ UNCHANGED <<step, report, counted>>
            /\ checked \subseteq checked' \cup {next}
            /\ accepted' \subseteq accepted \cup {next}
            /\ next \in accepted' \ accepted => Acceptable
        BY <1>16, <2>3 DEF UnreadBox
      <3>2. next # counted + 1 /\ next # 0 /\ next + 1 # 0
        BY <1>f, <2>1
      <3>3. \A i \in accepted' : RightlyGiven(i)' /\ i < next + 1
        <4>1. ASSUME NEW i \in accepted' PROVE RightlyGiven(i)' /\ i < next + 1
          <5>1. CASE i \in accepted
            BY <1>f, <2>1, <5>1 DEF RightlyGiven, TypeOK
          <5>2. CASE i \notin accepted
            BY <1>f, <2>1, <3>1, <5>2, AcceptableIsRequired DEF RightlyGiven
          <5> QED
            BY <5>1, <5>2
        <4> QED
          BY <4>1
      <3>4. \A i \in DOMAIN form \ (checked' \cup unsure') :
                  /\ i < next + 1 /\ form[i].visible => MayBeLeftOut(form[i])
                  /\ i <= counted
        BY <1>f, <2>1, <3>1, <3>2
      <3> QED
        BY <2>1, <3>1, <3>2, <3>3, <3>4 DEF Choosing
    <2> QED
      BY <2>2, <2>3
  <1>17. CASE PageChanges
    <2>1. /\ UNCHANGED <<step, counted, next, accepted, asked, report>>
          /\ FormChanges \/ UNCHANGED <<form, unsure, checked>>
      BY <1>17 DEF PageChanges, site
    <2>2. /\ unsure \subseteq unsure' /\ checked \subseteq checked'
          /\ \A i \in DOMAIN form :
                 /\ form'[i].marks = form[i].marks /\ form'[i].readable = form[i].readable
                 /\ form'[i].visible = form[i].visible \/ ~Behind(i) \/ i \in unsure'
          /\ \A i \in DOMAIN form' \ DOMAIN form : Behind(i) => i \in unsure'
          /\ form' \in Seq(Box) /\ Len(form) <= Len(form')
      BY <1>f, <2>1, FormGrows DEF TypeOK
    <2>3. \A i \in accepted : i \in DOMAIN form /\ Behind(i)
      BY <1>f DEF TypeOK, Behind
    <2>4. \A i \in accepted : RightlyGiven(i)'
      BY <2>2, <2>3 DEF RightlyGiven
    <2>5. \A i \in DOMAIN form' \ (checked' \cup unsure') :
             /\ i < next /\ form'[i].visible => MayBeLeftOut(form'[i])
             /\ next # 0 => i <= counted
      <3> SUFFICES ASSUME NEW i \in DOMAIN form' \ (checked' \cup unsure')
                   PROVE  /\ i < next /\ form'[i].visible => MayBeLeftOut(form'[i])
                          /\ next # 0 => i <= counted
        OBVIOUS
      <3>1. i \in Nat \ {0}
        BY <2>2
      <3>2. CASE i \in DOMAIN form
        <4>1. i \notin checked \cup unsure
          BY <2>2
        <4> QED
          BY <1>f, <2>2, <3>1, <3>2, <4>1 DEF Behind, MayBeLeftOut
      <3>3. CASE i \notin DOMAIN form
        <4>1. ~Behind(i)
          BY <2>2, <3>3
        <4>2. i > Len(form) /\ counted <= Len(form)
          BY <1>f, <3>1, <3>3 DEF TypeOK
        <4> QED
          BY <1>f, <3>1, <4>1, <4>2 DEF Behind
      <3> QED
        BY <3>2, <3>3
    <2> QED
      BY <2>1, <2>4, <2>5
  <1>18. CASE UNCHANGED vars
    BY <1>b, <1>18 DEF vars
  <1> QED
    BY <1>1, <1>2, <1>3, <1>4, <1>5, <1>6, <1>7, <1>8, <1>9, <1>10, <1>11, <1>12, <1>13,
       <1>14, <1>15, <1>16, <1>17, <1>18 DEF Next, Flow

\* Only visible boxes marked required, and neither optional nor marketing, are checked,
\* and the button is pressed only when each other visible box may be left out, unless it
\* came or changed behind the flow or could not be read (naver_adapter.py
\* _auto_accept_required_terms, _classify_consent_text).
THEOREM ConsentsDecided == Spec => []ConsentsAreDecided
  <1>1. TypeOK /\ BoxesAreDecided => ConsentsAreDecided
    <2> SUFFICES ASSUME TypeOK, BoxesAreDecided PROVE ConsentsAreDecided
      OBVIOUS
    <2>1. form \in Seq(Box)
      BY PageTypes
    <2>2. next = counted + 1 => \A i \in DOMAIN form : i <= counted => i < next
      BY <2>1 DEF TypeOK
    <2> QED
      BY <2>2 DEF BoxesAreDecided, AfterBoxes, ConsentsAreDecided
  <1> QED
    BY <1>1, BoxesAreDecidedInit, BoxesAreDecidedNext, TypeCorrect, PTL DEF Spec

-----------------------------------------------------------------------------
\* When the modal is well listed, the coupon found again by its title is the one chosen,
\* and its place among the parsed ones is its place in the modal.
LEMMA WellListedIsFoundAgain ==
    ASSUME modal \in Seq(Coupon), WellListed,
           NEW best \in DOMAIN modal, NEW first \in DOMAIN modal,
           IsBest(best), IsFirstTitled(first, modal[best].title)
    PROVE  /\ modal[Place(first)] = modal[best]
           /\ ~modal[best].gated /\ ~modal[best].expired
  <1>1. Parsed = DOMAIN modal
    BY DEF Parsed, WellListed
  <1>2. first = best
    BY DEF IsFirstTitled, WellListed
  <1>3. Place(first) = first
    BY <1>1, PlaceIsIndex
  <1> QED
    BY <1>2, <1>3 DEF IsBest, Eligible

LEMMA CouponIsHandledOnceInit == Init => CouponIsHandledOnce
  BY DEF Init, CouponIsHandledOnce, CouponIsSafe

LEMMA CouponIsHandledOnceNext ==
    ASSUME TypeOK, CouponIsHandledOnce, [Next]_vars
    PROVE  CouponIsHandledOnce'
  <1> DEFINE Early == Choosing \cup {"coupons"}
  <1>s. ASSUME UNCHANGED <<modal, dry, coupon, applied>>, step' \in Early => step \in Early
        PROVE  CouponIsHandledOnce'
    BY <1>s DEF CouponIsHandledOnce, CouponIsSafe, WellListed
  <1>1. CASE CheckHuman \/ CheckGate \/ ReadFails \/ ConsentReadFails
    BY <1>1, <1>s, AfterIs
    DEF CheckHuman, CheckGate, ReadFails, ConsentReadFails, HumanChecks, GateChecks, Choosing,
        End, GoTo,
        choice, progress, consents
  <1>2. CASE Read \/ ReadTimes
    BY <1>2, <1>s DEF Read, ReadTimes, Choosing, choice, progress, consents
  <1>3. CASE SelectTime
    BY <1>3, <1>s DEF SelectTime, Choosing, progress, consents
  <1>4. CASE HandleCoupons
    <2>1. /\ coupon = NoCoupon /\ step' = "boxes" /\ UNCHANGED <<modal, dry>>
      BY <1>4 DEF HandleCoupons, CouponIsHandledOnce, GoTo, choice
    <2>2. CASE coupon' = coupon
      BY <2>1, <2>2 DEF CouponIsHandledOnce, CouponIsSafe, Choosing
    <2>3. ASSUME ~dry, NEW best \in DOMAIN modal, NEW first \in DOMAIN modal,
                 IsBest(best), IsFirstTitled(first, modal[best].title),
                 applied' = modal[best], coupon' = modal[Place(first)]
          PROVE  CouponIsHandledOnce'
      <3>1. WellListed' = WellListed
        BY <2>1 DEF WellListed
      <3>2. WellListed => coupon' = applied' /\ ~coupon'.gated /\ ~coupon'.expired
        BY <2>3, PageTypes, WellListedIsFoundAgain
      <3> QED
        BY <2>1, <2>3, <3>1, <3>2 DEF CouponIsHandledOnce, CouponIsSafe, Choosing
    <2> QED
      BY <1>4, <2>2, <2>3 DEF HandleCoupons
  <1>5. CASE SkipBox \/ AcceptBox \/ CountBoxes \/ UnreadBox
    BY <1>5, <1>s DEF SkipBox, AcceptBox, CountBoxes, UnreadBox, End, GoTo, Choosing, choice
  <1>6. CASE RefuseBox \/ TermsDone \/ CheckSummary \/ PressFinal
    BY <1>6, <1>s
    DEF RefuseBox, TermsDone, CheckSummary, PressFinal, End, GoTo, Choosing, choice, progress,
        consents
  <1>7. CASE WaitForSuccess \/ Fails
    BY <1>7, <1>s DEF WaitForSuccess, Fails, End, Choosing, choice, progress, consents
  <1>8. CASE PageChanges \/ SiteAccepts
    BY <1>8, <1>s DEF PageChanges, SiteAccepts, choice, progress, consents
  <1>9. CASE UNCHANGED vars
    BY <1>9, <1>s DEF vars
  <1> QED
    BY <1>1, <1>2, <1>3, <1>4, <1>5, <1>6, <1>7, <1>8, <1>9 DEF Next, Flow

\* A dry run puts no coupon on the form, and from a modal of distinct, readable titles
\* the one put there is the one claimed, without a gate and not expired
\* (naver_adapter.py _handle_widget_coupons).
THEOREM CouponsAreSafe == Spec => []CouponIsSafe
  <1>1. CouponIsHandledOnce => CouponIsSafe
    BY DEF CouponIsHandledOnce
  <1> QED
    BY <1>1, CouponIsHandledOnceInit, CouponIsHandledOnceNext, TypeCorrect, PTL DEF Spec

-----------------------------------------------------------------------------
(* What is told to the caller. *)

\* A report is made once, and says why the attempt ended.
LEMMA ReportIs ==
    ASSUME TypeOK, [Next]_vars, report' # report
    PROVE  /\ report = NoReport /\ report.outcome = NoOutcome /\ step # "done"
           /\ UNCHANGED <<dry, form, texts, checked, accepted, asked, booked>>
           /\ unsure \subseteq unsure' /\ (faults' = faults \/ faults' = faults + 1)
           /\ \/ /\ step \in BeforeClick
                 /\ \/ End("NOT_OPEN", FALSE)
                    \/ End("UNAVAILABLE", FALSE)
                    \/ End("INVALID", FALSE)
                    \/ End("INVALID", TRUE)
              \/ End("HUMAN", FALSE)
              \/ /\ step \in GateChecks
                 /\ Gate \/ ConsentReadFails
                 /\ End("GATE", step # "gate3")
              \/ dry /\ End("READY", TRUE)
              \/ booked # NoSlot /\ End("RESERVED", TRUE)
              \/ End("ERROR", FALSE)
  <1> USE DEF GoTo, choice, page, progress, consents, site
  <1>0. CASE step # "done"
    <2>1. report = NoReport /\ report.outcome = NoOutcome
      BY <1>0, NothingReported
    <2>2. CASE CheckHuman
      BY <1>0, <2>1, <2>2 DEF CheckHuman
    <2>3. CASE CheckGate
      BY <1>0, <2>1, <2>3 DEF CheckGate
    <2>4. CASE Read \/ ReadTimes
      BY <1>0, <2>1, <2>4 DEF Read, ReadTimes, BeforeClick, BeforeRecheck, Choosing
    <2>5. CASE SelectTime
      BY <1>0, <2>1, <2>5 DEF SelectTime, BeforeClick, BeforeRecheck, Choosing
    <2>6. CASE HandleCoupons \/ SkipBox \/ AcceptBox \/ TermsDone
      BY <2>6 DEF HandleCoupons, SkipBox, AcceptBox, TermsDone
    <2>7. CASE RefuseBox
      BY <1>0, <2>1, <2>7 DEF RefuseBox
    <2>8. CASE CheckSummary
      BY <1>0, <2>1, <2>8 DEF CheckSummary, BeforeClick, BeforeRecheck
    <2>9. CASE PressFinal
      BY <1>0, <2>1, <2>9 DEF PressFinal, BeforeClick
    <2>10. CASE WaitForSuccess
      BY <1>0, <2>1, <2>10 DEF WaitForSuccess
    <2>11. CASE Fails
      BY <1>0, <2>1, <2>11 DEF Fails
    <2>12. CASE CountBoxes \/ PageChanges \/ SiteAccepts \/ ReadFails
      BY <2>12 DEF CountBoxes, PageChanges, SiteAccepts, ReadFails
    <2>13. CASE ConsentReadFails
      BY <1>0, <2>1, <2>13 DEF ConsentReadFails
    <2>14. CASE UnreadBox
      BY <1>0, <2>1, <2>14 DEF UnreadBox
    <2>15. CASE UNCHANGED vars
      BY <2>15 DEF vars
    <2> QED
      BY <2>2, <2>3, <2>4, <2>5, <2>6, <2>7, <2>8, <2>9, <2>10, <2>11, <2>12, <2>13, <2>14,
         <2>15 DEF Next, Flow
  <1>1. CASE step = "done"
    BY <1>1
    DEF Next, Flow, CheckHuman, CheckGate, Read, ReadTimes, SelectTime, HandleCoupons,
        SkipBox, AcceptBox, AtBox, RefuseBox, TermsDone, CheckSummary, PressFinal,
        WaitForSuccess, Fails, CountBoxes, PageChanges, SiteAccepts, ReadFails,
        ConsentReadFails, UnreadBox, HumanChecks, GateChecks, vars
  <1> QED
    BY <1>0, <1>1

\* After the report the flow touches neither the form nor the page; the site may answer.
LEMMA AfterTheReport ==
    ASSUME TypeOK, [Next]_vars, report' = report, report.outcome # NoOutcome
    PROVE  UNCHANGED <<form, texts, checked, accepted, asked, unsure, faults>>
  <1>1. step = "done"
    BY NothingReported
  <1>2. CASE SiteAccepts
    BY <1>2 DEF SiteAccepts, choice, page, progress, consents
  <1>3. CASE PageChanges
    BY <1>3 DEF PageChanges, NoReport
  <1> QED
    BY <1>1, <1>2, <1>3
    DEF Next, Flow, CheckHuman, CheckGate, Read, ReadTimes, SelectTime, HandleCoupons,
        SkipBox, AcceptBox, AtBox, RefuseBox, TermsDone, CheckSummary, PressFinal,
        WaitForSuccess, Fails, CountBoxes, ReadFails, ConsentReadFails, UnreadBox,
        HumanChecks, GateChecks, vars

\* When the consent check stops the flow, the page has no boxes, a read failed, or an
\* unchecked box that may not be left out is hidden, or came or changed behind the flow;
\* it is never a box the flow saw as it is and passed over (naver_adapter.py
\* _has_unchecked_required_consent, _auto_accept_required_terms).
THEOREM ConsentGateExplained == Spec => []ConsentGateIsExplained
  <1>1. Init => ConsentGateIsExplained
    BY DEF Init, NoReport, NoOutcome, ConsentGateIsExplained
  <1>2. ASSUME TypeOK, BoxesAreDecided, ConsentGateIsExplained, [Next]_vars
        PROVE  ConsentGateIsExplained'
    <2> SUFFICES ASSUME report'.outcome = "GATE", texts' \cap {"payment", "fee"} = {},
                        form' # << >>
                 PROVE  \/ \E i \in DOMAIN form' \ checked' :
                              /\ ~MayBeLeftOut(form'[i])
                              /\ ~form'[i].visible \/ i \in unsure'
                        \/ faults' > 0 /\ unsure' # {}
      BY DEF ConsentGateIsExplained
    <2>1. CASE report' = report
      <3>1. UNCHANGED <<form, texts, checked, unsure, faults>>
        BY <1>2, <2>1, AfterTheReport DEF NoOutcome
      <3> QED
        BY <1>2, <2>1, <3>1 DEF ConsentGateIsExplained
    <2>2. CASE report' # report
      <3>1. /\ step \in GateChecks /\ (Gate \/ ConsentReadFails)
            /\ UNCHANGED <<form, texts, checked>> /\ unsure \subseteq unsure'
        BY <1>2, <2>2, ReportIs DEF End
      <3>2. form \in Seq(Box) /\ faults \in Nat /\ counted \in Nat
        BY <1>2, PageTypes, FlowAssumption DEF TypeOK
      <3>3. CASE ConsentReadFails
        <4>1. faults' > 0
          BY <3>2, <3>3 DEF ConsentReadFails
        <4>2. DOMAIN form # {}
          <5>1. form # << >>
            BY <3>1
          <5>2. Len(form) # 0
            BY <3>2, <5>1
          <5>3. 1 \in DOMAIN form
            BY <3>2, <5>2
          <5> QED
            BY <5>3
        <4> QED
          BY <3>3, <4>1, <4>2 DEF ConsentReadFails
      <3>4. CASE Gate
        <4>1. ConsentGate /\ next = counted + 1 /\ next # 0
          BY <1>2, <3>1, <3>4
             DEF Gate, BoxesAreDecided, AfterBoxes, GateChecks, Steps, Choosing
        <4>2. PICK i \in DOMAIN form \ checked :
                 ~form[i].readable \/ Class(form[i].marks) \in {"required_safe", "ambiguous"}
          BY <3>1, <4>1 DEF ConsentGate
        <4>3. form[i] \in Box /\ i \in Nat
          BY <3>2
        <4>4. ~MayBeLeftOut(form[i])
          BY <4>2, <4>3 DEF MayBeLeftOut, Class, Box, Labels
        <4>5. ~form[i].visible \/ i \in unsure
          BY <1>2, <3>2, <4>1, <4>2, <4>3, <4>4 DEF BoxesAreDecided
        <4> QED
          BY <3>1, <4>2, <4>4, <4>5 DEF MayBeLeftOut
      <3> QED
        BY <3>1, <3>3, <3>4
    <2> QED
      BY <2>1, <2>2
  <1> QED
    BY <1>1, <1>2, BoxesAreDecidedInit, BoxesAreDecidedNext, TypeCorrect, PTL DEF Spec

\* After a gate met before the click, and with a reservation, the caller is told of every
\* consent the flow gave that stands on the form (naver_adapter.py _with_partial_progress,
\* _reserve_inner).
THEOREM ProgressReported == Spec => []ProgressIsReported
  <1>1. Init => ProgressIsReported
    BY DEF Init, ProgressIsReported
  <1>2. ASSUME TypeOK, BoxesAreDecided, ClickIsLast, ProgressIsReported, [Next]_vars
        PROVE  ProgressIsReported'
    <2> SUFFICES ASSUME report'.outcome = "RESERVED"
                          \/ (report'.outcome = "GATE" /\ asked' = Unasked)
                 PROVE  accepted' \cap checked' \subseteq report'.terms
      BY DEF ProgressIsReported
    <2>1. CASE report' = report
      <3>1. UNCHANGED <<accepted, checked, asked>>
        BY <1>2, <2>1, AfterTheReport DEF NoOutcome
      <3> QED
        BY <1>2, <2>1, <3>1 DEF ProgressIsReported
    <2>2. CASE report' # report
      <3>1. accepted \cap checked \subseteq Diagnosed
        BY <1>2 DEF TypeOK, BoxesAreDecided, RightlyGiven, Diagnosed, Class
      <3>2. UNCHANGED <<accepted, checked, asked>>
        BY <1>2, <2>2, ReportIs
      <3>3. CASE End("RESERVED", TRUE)
        BY <3>2, <3>3 DEF End
      <3>4. CASE End("GATE", step # "gate3") /\ step # "gate3"
        BY <3>1, <3>2, <3>4 DEF End
      <3>5. step = "gate3" => asked # Unasked
        BY <1>2 DEF ClickIsLast
      <3> QED
        BY <1>2, <2>2, <3>2, <3>3, <3>4, <3>5, ReportIs DEF End
    <2> QED
      BY <2>1, <2>2
  <1> QED
    BY <1>1, <1>2, BoxesAreDecidedInit, BoxesAreDecidedNext, ClicksLast, TypeCorrect, PTL
    DEF Spec

-----------------------------------------------------------------------------
\* The attempt keeps its contract with the loop: RESERVED is said only of an accepted
\* booking, nothing is or will be booked after a clean failure or in a dry run, and at
\* most one booking is made (base_adapter.py reserve, dry_run_reserve).
THEOREM ContractKept == Spec => KeepsContract
  <1>1. Init => Contract!Init
    BY DEF Init, NoReport, NoOutcome, Contract!Init, Contract!NoOutcome
  <1>2. ASSUME TypeOK, ClickIsLast, [Next]_vars
        PROVE  [Contract!Next]_(Contract!vars)
    <2>1. CASE report' # report
      <3>1. report.outcome = "NONE" /\ dry' = dry /\ booked' = booked
        BY <1>2, <2>1, ReportIs DEF NoOutcome
      <3>2. PICK o \in FlowOutcomes :
               /\ report'.outcome = o
               /\ o \in NothingBooked => step \in BeforeClick
               /\ o = "READY" => dry
               /\ o = "RESERVED" => booked # NoSlot
        BY <1>2, <2>1, ReportIs DEF End, FlowOutcomes, NothingBooked
      <3>3. o \in Contract!Clean(dry) => booked = NoSlot
        <4>1. dry \/ o \in NothingBooked => booked = NoSlot
          BY <1>2, <3>2 DEF ClickIsLast
        <4>2. o \in Contract!Clean(dry) => dry \/ o \in NothingBooked
          BY DEF Contract!Clean, NothingBooked, FlowOutcomes
        <4> QED
          BY <4>1, <4>2
      <3>4. Contract!Report(o) /\ o \in Contract!Outcomes
        BY <3>1, <3>2, <3>3
        DEF Contract!Report, Contract!NoOutcome, Contract!Outcomes, FlowOutcomes
      <3> QED
        BY <3>4 DEF Contract!Next
    <2>2. CASE report' = report /\ SiteAccepts
      <3>1. ~dry /\ report.outcome \notin NothingBooked /\ report.outcome # "COUPON"
        BY <1>2, <2>2 DEF SiteAccepts, ClickIsLast, TypeOK, FlowOutcomes, NoOutcome
      <3>2. booked = NoSlot /\ booked' # NoSlot /\ dry' = dry
        BY <2>2 DEF SiteAccepts, choice
      <3> QED
        BY <2>2, <3>1, <3>2
        DEF Contract!Next, Contract!Accept, Contract!Clean, NothingBooked
    <2>3. CASE report' = report /\ ~SiteAccepts
      <3>1. dry' = dry /\ booked' = booked
        BY <1>2, <2>3
        DEF Next, Flow, CheckHuman, CheckGate, Read, ReadTimes, SelectTime,
            HandleCoupons, SkipBox, AcceptBox, RefuseBox, TermsDone, CheckSummary,
            PressFinal, WaitForSuccess, Fails, CountBoxes, PageChanges, ReadFails,
            ConsentReadFails, UnreadBox, vars, choice, site
      <3> QED
        BY <2>3, <3>1 DEF Contract!vars
    <2> QED
      BY <2>1, <2>2, <2>3
  <1> QED
    BY <1>1, <1>2, ClicksLast, TypeCorrect, PTL DEF Spec, KeepsContract, Contract!Spec
=============================================================================
