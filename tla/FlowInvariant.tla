---------------------------- MODULE FlowInvariant ----------------------------
(***************************************************************************)
(* The inductive strengthening from which FlowProofs derives the properties *)
(* of FlowProperties: what each step of the attempt may rely on.            *)
(***************************************************************************)
EXTENDS FlowProperties

\* Up to the choice of the time, and up to the recheck of the summary.
Choosing == {"human0", "read", "humanR", "times", "select"}
BeforeRecheck == Choosing \cup {"coupons", "boxes", "terms", "human1", "gate1", "summary"}
BeforeClick == BeforeRecheck \cup {"human2", "gate2", "press"}

NothingBooked == {"NOT_OPEN", "UNAVAILABLE", "INVALID"}

\* Nothing is asked for before the click, in a dry run, or by an attempt that reports a
\* clean failure; what is booked was asked for, and what was asked for was chosen.
ClickIsLast ==
    /\ step \in BeforeClick \/ dry \/ report.outcome \in NothingBooked => asked = Unasked
    /\ step \in {"human3", "gate3", "wait"} => asked # Unasked
    /\ asked # Unasked => asked = picked
    /\ booked \in {NoSlot, asked} \ {Unasked}
    /\ report.outcome = "RESERVED" => booked # NoSlot

\* A summary that was read matches what the form holds from then on.
SummaryMatches ==
    /\ shown => Matches
    /\ step \in BeforeRecheck => ~shown

\* What stands since the recheck has been looked for by the checks passed since.
StandingIsChecked ==
    faults > 0 \/ /\ step = "gate2" => "human" \notin standing
                  /\ step = "press" => standing \subseteq {"consent"}

AfterBoxes ==
    \/ step \in Steps \ (Choosing \cup {"coupons", "boxes", "terms", "done"})
    \/ asked # Unasked
    \/ report.outcome = "GATE"

\* The boxes already passed are decided, those that came after the count are not known,
\* and the later checks come after the last box.
BoxesAreDecided ==
    /\ \A i \in accepted : RightlyGiven(i) /\ i < next
    /\ \A i \in DOMAIN form \ (checked \cup unsure) :
          /\ i < next /\ form[i].visible => MayBeLeftOut(form[i])
          /\ next # 0 => i <= counted
    /\ step \in Choosing \cup {"coupons", "boxes"} => next = 0
    /\ AfterBoxes => next = counted + 1 /\ next # 0

\* The coupons are handled once, and never in a dry run.
CouponIsHandledOnce ==
    /\ step \in Choosing \cup {"coupons"} \/ dry => coupon = NoCoupon
    /\ CouponIsSafe
=============================================================================
