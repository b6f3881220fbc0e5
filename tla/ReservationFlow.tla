--------------------------- MODULE ReservationFlow ---------------------------
(***************************************************************************)
(* One booking attempt of NaverBookingAdapter, from page.goto to the        *)
(* outcome: reading the times, choosing one, coupons, consents, the checks  *)
(* for captchas and gates, the recheck of the summary, the final click and  *)
(* the wait for the confirmation; reserve() and dry_run_reserve() share it. *)
(*                                                                          *)
(* Every Playwright call is an await, so the page may change between any    *)
(* two steps.  What the flow looks at once (layout, summary panel, buttons) *)
(* is chosen when it looks; what it looks at again is a variable.           *)
(***************************************************************************)
EXTENDS Naturals, Sequences, FiniteSets

CONSTANTS
    Wanted,      \* the date, time and party size asked for
    Others,      \* what else the page's form may hold
    LookAlikes,  \* those of Others whose summary contains every text looked for
    Markers,     \* texts that may stand on the page
    Pages,       \* consent form and coupon modal (empty: there is none) of a page
    NewBoxes,    \* consent checkboxes the page may add to its form
    MaxChanges,  \* bound: changes of the page behind the flow's back
    MaxFaults    \* bound: reads of the page that fail and do not end the attempt

NoSlot == "no slot"
Unasked == "not asked"

Labels == {"required", "optional", "marketing"}

\* A checkbox.  marks: the kinds of wording in its label; readable: it has a label.
Box == [marks : SUBSET Labels, readable : BOOLEAN, visible : BOOLEAN, on : BOOLEAN]

\* A coupon of the modal.  readable: its text could be read and is not empty.
Coupon == [title : {"a", "b"}, value : Nat, gated : BOOLEAN, expired : BOOLEAN,
           readable : BOOLEAN]

AllMarkers == {"human", "payment", "fee", "consent"}

ASSUME FlowAssumption ==
    /\ Wanted \notin Others
    /\ {NoSlot, Unasked} \cap (Others \cup {Wanted}) = {}
    /\ LookAlikes \subseteq Others
    /\ Markers \subseteq AllMarkers
    /\ Pages \subseteq [form : Seq(Box), modal : Seq(Coupon)]
    /\ NewBoxes \subseteq Box
    /\ MaxChanges \in Nat
    /\ MaxFaults \in Nat

\* Faulty variants, named M_..., stand before the definition they vary, as in Watcher.
NoCoupon == [title |-> "none"]
NoOutcome == "NONE"

VARIABLES
    step,      \* where the flow is
    dry,       \* dry_run
    texts,     \* markers now on the page
    free,      \* is the wanted time shown as available
    picked,    \* what the page's form holds
    form,      \* the consent checkboxes
    checked,   \* indices of those checked
    counted,   \* how many checkboxes the flow goes through
    next,      \* the box the flow looks at next (0: not counted yet)
    accepted,  \* boxes the flow has checked (accepted_terms)
    modal,     \* the coupons of the modal
    coupon,    \* the coupon on the page's form
    applied,   \* the coupon the flow believes it applied (applied_coupon)
    shown,     \* was a summary read before the click
    asked,     \* what the final click asked the site for
    booked,    \* what the site accepted
    report,    \* outcome and the progress told to the caller
    standing,  \* ghost: markers on the page ever since the summary was read
    unsure,    \* ghost: boxes that came or changed behind the flow, or were not readable
    changes,   \* changes of the page so far
    faults     \* failed reads so far

page == <<texts, free, form, unsure, changes>>
choice == <<picked, modal, dry>>
consents == <<checked, counted, next, accepted>>
progress == <<consents, coupon, applied>>
site == <<asked, booked>>
vars == <<step, dry, texts, free, picked, form, checked, counted, next, accepted, modal,
          coupon, applied, shown, asked, booked, report, standing, unsure, changes, faults>>

NoReport == [outcome |-> NoOutcome, terms |-> {}, coupon |-> NoCoupon]

Init ==
    /\ step = "human0"
    /\ dry \in BOOLEAN
    /\ texts \in SUBSET Markers
    /\ free \in BOOLEAN
    /\ picked \in {Wanted, NoSlot} \cup Others
    /\ \E p \in Pages : form = p.form /\ modal = p.modal
    /\ checked = {i \in DOMAIN form : form[i].on}
    /\ counted = 0
    /\ next = 0
    /\ accepted = {}
    /\ coupon = NoCoupon
    /\ applied = NoCoupon
    /\ shown = FALSE
    /\ asked = Unasked
    /\ booked = NoSlot
    /\ report = NoReport
    /\ standing = {}
    /\ unsure = {}
    /\ changes = 0
    /\ faults = 0
-----------------------------------------------------------------------------
(* The page and the site, behind the flow's back. *)

\* The flow does not come back to a box it has passed, and never sees one that came after
\* it had counted them.
Behind(i) == next # 0 /\ i \notin next..counted

BoxChanges(i) == unsure' = IF Behind(i) THEN unsure \cup {i} ELSE unsure

\* A box is hidden or shown, or a new one is put after the others.
FormChanges ==
    \/ \E i \in DOMAIN form :
          /\ form' = [form EXCEPT ![i].visible = ~@]
          /\ BoxChanges(i)
          /\ UNCHANGED checked
    \/ \E b \in NewBoxes :
          /\ form' = Append(form, b)
          /\ BoxChanges(Len(form) + 1)
          /\ checked' = IF b.on THEN checked \cup {Len(form) + 1} ELSE checked

\* A screen appears or goes away, the time is taken or given back, the form changes.
PageChanges ==
    /\ report = NoReport
    /\ changes < MaxChanges
    /\ changes' = changes + 1
    /\ \/ \E t \in SUBSET Markers : /\ t # texts /\ texts' = t
                                    /\ UNCHANGED <<free, form, unsure, checked>>
       \/ free' = ~free /\ UNCHANGED <<texts, form, unsure, checked>>
       \/ FormChanges /\ UNCHANGED <<texts, free>>
    /\ standing' = standing \cap texts'
    /\ UNCHANGED <<step, choice, counted, next, accepted, coupon, applied, shown, site,
                   report, faults>>

\* The site takes the booking the click asked for, perhaps only after the flow gave up;
\* a click on an empty form asks for nothing it could take.
SiteAccepts ==
    /\ asked \notin {Unasked, NoSlot}
    /\ booked = NoSlot
    /\ booked' = asked
    /\ UNCHANGED <<step, choice, page, progress, shown, asked, report, standing, faults>>

-----------------------------------------------------------------------------
(* How the flow ends, and what it tells the caller of the progress made. *)

M_ClassRequiredFirst(marks) ==
    IF "required" \in marks /\ "optional" \notin marks THEN "required_safe"
    ELSE IF "marketing" \in marks THEN "marketing"
    ELSE IF marks = {"optional"} THEN "optional_safe"
    ELSE "ambiguous"

\* _classify_consent_text.
Class(marks) ==
    IF "marketing" \in marks THEN "marketing"
    ELSE IF marks = {"required"} THEN "required_safe"
    ELSE IF marks = {"optional"} THEN "optional_safe"
    ELSE "ambiguous"

\* _dry_run_diagnostics: a dry run that stops reads the checked boxes off the page.
Diagnosed == {i \in checked : form[i].readable /\ Class(form[i].marks) = "required_safe"}

\* carried: the exception (or the result) carries accepted_terms and applied_coupon.
End(o, carried) ==
    /\ step' = "done"
    /\ report' = [outcome |-> o,
                  terms |-> IF dry /\ o \in {"HUMAN", "GATE", "INVALID"} THEN Diagnosed
                            ELSE IF carried THEN accepted ELSE {},
                  coupon |-> IF carried THEN applied ELSE NoCoupon]

GoTo(s) == step' = s /\ UNCHANGED report

-----------------------------------------------------------------------------
(* Checks for a human and for gates. *)

HumanChecks == {"human0", "humanR", "human1", "human2", "human3"}
GateChecks == {"gate1", "gate2", "gate3"}

M_AfterWithoutSecondGate ==
    [human0 |-> "read", humanR |-> "times", human1 |-> "gate1", gate1 |-> "summary",
     human2 |-> "press", gate2 |-> "press", human3 |-> "gate3", gate3 |-> "wait"]

\* What follows a check that finds nothing.
After == [human0 |-> "read", humanR |-> "times", human1 |-> "gate1", gate1 |-> "summary",
          human2 |-> "gate2", gate2 |-> "press", human3 |-> "gate3", gate3 |-> "wait"]

\* _raise_if_needs_human: its exception never carries the progress.
CheckHuman ==
    /\ step \in HumanChecks
    /\ IF "human" \in texts THEN End("HUMAN", FALSE) ELSE GoTo(After[step])
    /\ UNCHANGED <<choice, page, progress, shown, site, standing, faults>>

\* _has_unchecked_required_consent looks at all boxes, hidden and new ones too.
ConsentGate ==
    /\ "consent" \in texts
    /\ \/ form = << >>
       \/ \E i \in DOMAIN form \ checked :
             ~form[i].readable \/ Class(form[i].marks) \in {"required_safe", "ambiguous"}

Gate == texts \cap {"payment", "fee"} # {} \/ ConsentGate

M_CheckGateForgets ==
    /\ step \in GateChecks
    /\ IF Gate THEN End("GATE", step = "gate2") ELSE GoTo(After[step])
    /\ UNCHANGED <<choice, page, progress, shown, site, standing, faults>>

\* _detect_gate: before the click its exception carries the progress, after it not.
CheckGate ==
    /\ step \in GateChecks
    /\ IF Gate THEN End("GATE", step # "gate3") ELSE GoTo(After[step])
    /\ UNCHANGED <<choice, page, progress, shown, site, standing, faults>>

\* The text of the page cannot be read: both checks then find nothing.
ReadFails ==
    /\ step \in HumanChecks \cup GateChecks
    /\ faults < MaxFaults
    /\ faults' = faults + 1
    /\ GoTo(After[step])
    /\ UNCHANGED <<choice, page, progress, shown, site, standing>>

\* The consent check cannot count the boxes, or cannot read whether one is checked or what
\* its label says: it then takes the page for a gate.
ConsentReadFails ==
    /\ step \in GateChecks
    /\ texts \cap {"payment", "fee", "consent"} = {"consent"}
    /\ faults < MaxFaults
    /\ faults' = faults + 1
    /\ \E unread \in {DOMAIN form} \cup {{i} : i \in DOMAIN form} :
          unsure' = unsure \cup unread
    /\ End("GATE", step # "gate3")
    /\ UNCHANGED <<choice, texts, free, form, changes, progress, shown, site, standing>>

-----------------------------------------------------------------------------
(* Reading the times and choosing one. *)

\* The page answers in the date-chip layout, whose date may be closed, or in any other,
\* where the whole page is read at once and only there "not open yet" is recognised.
Read ==
    /\ step = "read"
    /\ \/ GoTo("humanR")
       \/ ~free /\ End("UNAVAILABLE", FALSE)
       \/ End("NOT_OPEN", FALSE)
       \/ free /\ GoTo("coupons")
    /\ UNCHANGED <<choice, page, progress, shown, site, standing, faults>>

\* _read_modal_times, once the date is chosen.
ReadTimes ==
    /\ step = "times"
    /\ IF free THEN GoTo("select") ELSE End("UNAVAILABLE", FALSE)
    /\ UNCHANGED <<choice, page, progress, shown, site, standing, faults>>

\* _select_time_slot and the Next button: a button that is not found is passed over, and
\* so is the button of the party size (_select_party_size), so the party may be another.
SelectTime ==
    /\ step = "select"
    /\ \/ free /\ picked' \in {Wanted} \cup Others /\ GoTo("coupons")
       \/ ~free /\ End("UNAVAILABLE", FALSE) /\ UNCHANGED picked
       \/ GoTo("coupons") /\ UNCHANGED picked
    /\ UNCHANGED <<dry, form, modal, page, progress, shown, site, standing, faults>>

-----------------------------------------------------------------------------
(* The coupon modal. *)

\* _parse_widget_coupon_item drops what it cannot read.
Parsed == {i \in DOMAIN modal : modal[i].readable}

M_EligibleGated == {i \in Parsed : ~modal[i].expired}

Eligible == {i \in Parsed : ~modal[i].gated /\ ~modal[i].expired}

\* _pick_best_unconditional_widget_coupon: the first of the largest discount_value.
IsBest(i) ==
    /\ i \in Eligible
    /\ \A k \in Eligible : \/ modal[k].value < modal[i].value
                           \/ modal[k].value = modal[i].value /\ i <= k

\* The best coupon is found again by its id, a hash of the title, among the parsed ones...
IsFirstTitled(i, title) ==
    /\ i \in Parsed
    /\ modal[i].title = title
    /\ \A k \in Parsed : modal[k].title = title => i <= k

\* ... and its place there is used as an index into the modal's own list.
Place(i) == Cardinality({k \in Parsed : k <= i})

\* _handle_widget_coupons: no modal, nothing eligible, no checkbox or a dry run leave
\* the form alone; without an Apply button the modal is closed, the coupon still claimed.
HandleCoupons ==
    /\ step = "coupons"
    /\ \/ UNCHANGED <<coupon, applied>>
       \/ /\ ~dry
          /\ \E best, first \in DOMAIN modal :
                /\ IsBest(best)
                /\ IsFirstTitled(first, modal[best].title)
                /\ applied' = modal[best]
                /\ coupon' = modal[Place(first)] \/ UNCHANGED coupon
    /\ GoTo("boxes")
    /\ UNCHANGED <<choice, page, consents, shown, site, standing, faults>>

-----------------------------------------------------------------------------
(* _auto_accept_required_terms, a box at a time; a dry run does it too. *)

CountBoxes ==
    /\ step = "boxes"
    /\ counted' = Len(form)
    /\ next' = 1
    /\ GoTo("terms")
    /\ UNCHANGED <<choice, page, checked, accepted, coupon, applied, shown, site, standing,
                   faults>>

AtBox == step = "terms" /\ next <= counted

NeedsDecision == form[next].visible /\ next \notin checked

M_PassedOverUnlessRequired == form[next].readable /\ "required" \notin form[next].marks

PassedOver ==
    /\ form[next].readable
    /\ \/ Class(form[next].marks) = "optional_safe"
       \/ Class(form[next].marks) = "marketing" /\ "required" \notin form[next].marks

Acceptable == form[next].readable /\ Class(form[next].marks) = "required_safe"

SkipBox ==
    /\ AtBox
    /\ NeedsDecision => PassedOver
    /\ next' = next + 1
    /\ UNCHANGED <<step, choice, page, checked, counted, accepted, coupon, applied, shown,
                   site, report, standing, faults>>

AcceptBox ==
    /\ AtBox
    /\ NeedsDecision
    /\ Acceptable
    /\ checked' = checked \cup {next}
    /\ accepted' = accepted \cup {next}
    /\ next' = next + 1
    /\ UNCHANGED <<step, choice, page, counted, coupon, applied, shown, site, report,
                   standing, faults>>

RefuseBox ==
    /\ AtBox
    /\ NeedsDecision
    /\ ~PassedOver
    /\ ~Acceptable
    /\ End("HUMAN", FALSE)
    /\ UNCHANGED <<choice, page, progress, shown, site, standing, faults>>

\* The label cannot be read, which stops the flow; or whether the box is visible and
\* checked cannot, which makes it one to decide: a click may then uncheck it.
UnreadBox ==
    /\ AtBox
    /\ faults < MaxFaults
    /\ faults' = faults + 1
    /\ unsure' = unsure \cup {next}
    /\ \/ End("HUMAN", FALSE) /\ UNCHANGED consents
       \/ /\ ~NeedsDecision
          /\ next' = next + 1
          /\ \/ PassedOver /\ UNCHANGED <<checked, accepted>>
             \/ /\ Acceptable
                /\ accepted' = accepted \cup {next}
                /\ checked' = IF next \in checked THEN checked \ {next}
                                                 ELSE checked \cup {next}
          /\ UNCHANGED <<step, report, counted>>
    /\ UNCHANGED <<choice, texts, free, form, changes, coupon, applied, shown, site, standing>>

TermsDone ==
    /\ step = "terms"
    /\ next > counted
    /\ GoTo("human1")
    /\ UNCHANGED <<choice, page, progress, shown, site, standing, faults>>

-----------------------------------------------------------------------------
(* The recheck, the click and the confirmation. *)

M_MatchesAnyChoice == picked # NoSlot

\* _summary_matches searches for substrings: "1" in front of the party's unit is found in
\* "11", the day 1 in the day 15.
Matches == picked \in {Wanted} \cup LookAlikes

\* _read_pending_summary: with no summary on the page the flow goes on; other text in
\* its place does not match.
CheckSummary ==
    /\ step = "summary"
    /\ standing' = texts
    /\ \/ /\ shown' = TRUE
          /\ Matches
          /\ GoTo("human2")
       \/ End("INVALID", TRUE) /\ UNCHANGED shown
       \/ GoTo("human2") /\ UNCHANGED shown
    /\ UNCHANGED <<choice, page, progress, site, faults>>

\* _click_confirm_button: missing, disabled, or pressed.  A dry run stops here.
PressFinal ==
    /\ step = "press"
    /\ \/ dry /\ End("READY", TRUE) /\ UNCHANGED asked
       \/ ~dry /\ End("INVALID", FALSE) /\ UNCHANGED asked
       \/ ~dry /\ asked' = picked /\ GoTo("human3")
    /\ UNCHANGED <<choice, page, progress, shown, booked, standing, faults>>

M_WaitForSuccessTimeoutIsInvalid ==
    /\ step = "wait"
    /\ \/ booked # NoSlot /\ End("RESERVED", TRUE)
       \/ End("INVALID", FALSE)
    /\ UNCHANGED <<choice, page, progress, shown, site, standing, faults>>

M_WaitForSuccessForever ==
    /\ step = "wait"
    /\ booked # NoSlot
    /\ End("RESERVED", TRUE)
    /\ UNCHANGED <<choice, page, progress, shown, site, standing, faults>>

\* _wait_for_success: the text stands on the page only once the site has accepted, and
\* it may come too late.
WaitForSuccess ==
    /\ step = "wait"
    /\ \/ booked # NoSlot /\ End("RESERVED", TRUE)
       \/ End("ERROR", FALSE)
    /\ UNCHANGED <<choice, page, progress, shown, site, standing, faults>>

\* Any other Playwright call may time out or find the page gone.
Fails ==
    /\ step \notin {"wait", "done"}
    /\ End("ERROR", FALSE)
    /\ UNCHANGED <<choice, page, progress, shown, site, standing, faults>>

-----------------------------------------------------------------------------
Flow ==
    \/ CheckHuman
    \/ CheckGate
    \/ Read
    \/ ReadTimes
    \/ SelectTime
    \/ HandleCoupons
    \/ CountBoxes
    \/ SkipBox
    \/ AcceptBox
    \/ RefuseBox
    \/ TermsDone
    \/ CheckSummary
    \/ PressFinal
    \/ WaitForSuccess
    \/ Fails

Next == Flow \/ PageChanges \/ SiteAccepts \/ ReadFails \/ ConsentReadFails \/ UnreadBox

Spec == Init /\ [][Next]_vars

\* Every Playwright call ends, by its own timeout if by nothing else.
FairSpec == Spec /\ WF_vars(Flow)
=============================================================================
