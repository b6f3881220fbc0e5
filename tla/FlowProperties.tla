--------------------------- MODULE FlowProperties ---------------------------
(***************************************************************************)
(* What a booking attempt must never do on the way to the final click, and  *)
(* the contract it keeps with the loop.                                     *)
(***************************************************************************)
EXTENDS ReservationFlow

Steps == HumanChecks \cup GateChecks \cup
         {"read", "times", "select", "coupons", "boxes", "terms", "summary", "press", "wait",
          "done"}

Slots == {Wanted} \cup Others

FlowOutcomes == {"RESERVED", "NOT_OPEN", "UNAVAILABLE", "INVALID", "GATE", "HUMAN",
                 "ERROR", "READY"}

CouponOnForm == {modal[i] : i \in DOMAIN modal} \cup {NoCoupon}

\* Type invariant of the page, the flow and the report.
TypeOK ==
    /\ step \in Steps
    /\ dry \in BOOLEAN
    /\ texts \subseteq Markers
    /\ free \in BOOLEAN
    /\ picked \in Slots \cup {NoSlot}
    /\ form \in Seq(Box)
    /\ modal \in {p.modal : p \in Pages}
    /\ checked \subseteq DOMAIN form
    /\ counted \in 0..Len(form)
    /\ next \in 0..(counted + 1)
    /\ step = "terms" => next # 0
    /\ accepted \subseteq DOMAIN form
    /\ unsure \subseteq DOMAIN form
    /\ coupon \in CouponOnForm
    /\ applied \in CouponOnForm
    /\ shown \in BOOLEAN
    /\ asked \in Slots \cup {NoSlot, Unasked}
    /\ booked \in Slots \cup {NoSlot}
    /\ report \in [outcome : FlowOutcomes \cup {NoOutcome}, terms : SUBSET (DOMAIN form),
                   coupon : CouponOnForm]
    /\ report = NoReport <=> step # "done"
    /\ standing \subseteq texts
    /\ changes \in 0..MaxChanges
    /\ faults \in 0..MaxFaults

-----------------------------------------------------------------------------
\* The final button is not pressed on a page that has shown a captcha, a payment or a
\* fee ever since the summary was read: the checks between the two see it, unless a read
\* of the page's text failed.  A screen that comes up after them is not seen before the
\* click (naver_adapter.py _advance_to_confirm_screen, _click_confirm_button).
SettledBlockersStopTheClick ==
    [][asked' # asked => standing \subseteq {"consent"} \/ faults > 0]_vars

\* Consents: the flow gives only visible ones marked required and neither optional nor
\* marketing; and it presses the button only when each visible box is checked or may be
\* left out, so no box it could not classify was passed over on the way.  Boxes that came
\* or changed behind the flow, or could not be read, are what it cannot know of
\* (naver_adapter.py _auto_accept_required_terms, _classify_consent_text).
MayBeLeftOut(b) ==
    b.readable /\ "required" \notin b.marks /\ b.marks \cap {"optional", "marketing"} # {}

RightlyGiven(i) ==
    /\ form[i].readable
    /\ form[i].marks = {"required"}
    /\ form[i].visible \/ i \in unsure

ConsentsAreDecided ==
    /\ \A i \in accepted : RightlyGiven(i)
    /\ asked # Unasked =>
         \A i \in DOMAIN form \ (checked \cup unsure) :
            form[i].visible => MayBeLeftOut(form[i])

\* The two readers of the form agree: when the consent check stops the flow after the
\* boxes were gone through, the page has no boxes, a read failed, or an unchecked box that
\* may not be left out is hidden, or came or changed behind the flow; it is never a box the
\* flow saw as it is and passed over (naver_adapter.py _has_unchecked_required_consent).
ConsentGateIsExplained ==
    report.outcome = "GATE" /\ texts \cap {"payment", "fee"} = {} =>
        \/ form = << >>
        \/ \E i \in DOMAIN form \ checked : /\ ~MayBeLeftOut(form[i])
                                            /\ ~form[i].visible \/ i \in unsure
        \/ faults > 0 /\ unsure # {}

\* Coupons: a dry run puts none on the form.  When the titles of the modal are distinct
\* and all its items readable, what is put on the form is what is claimed, has no gate
\* and has not expired (naver_adapter.py _handle_widget_coupons).
WellListed ==
    /\ \A i \in DOMAIN modal : modal[i].readable
    /\ \A i, k \in DOMAIN modal : modal[i].title = modal[k].title => i = k

CouponIsSafe ==
    coupon # NoCoupon =>
        /\ ~dry
        /\ WellListed => coupon = applied /\ ~coupon.gated /\ ~coupon.expired

\* Progress: after a gate met before the click, and with a reservation, the caller is told
\* of every consent the flow gave and that stands on the form (naver_adapter.py
\* _with_partial_progress, _reserve_inner).
ProgressIsReported ==
    report.outcome = "RESERVED" \/ (report.outcome = "GATE" /\ asked = Unasked) =>
        accepted \cap checked \subseteq report.terms

\* Another slot than the one asked for is booked only when no summary could be read, or
\* when its summary contains the texts looked for (naver_adapter.py
\* _read_pending_summary, _summary_matches).
WrongSlotOnlyUnseen ==
    booked \in {NoSlot, Wanted} \cup LookAlikes \/ ~shown

\* The flow implements the contract: RESERVED is reported only of an accepted booking,
\* nothing is or will be booked after a clean failure or in a dry run, and at most one
\* booking is made (base_adapter.py reserve, dry_run_reserve).
Contract == INSTANCE AttemptContract WITH
                outcome <- report.outcome,
                booked <- booked # NoSlot

KeepsContract == Contract!Spec

\* And the attempt ends, so the loop that awaits it goes on.
KeepsFairContract == Contract!FairSpec
=============================================================================
