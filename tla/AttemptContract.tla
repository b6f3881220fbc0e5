--------------------------- MODULE AttemptContract ---------------------------
(***************************************************************************)
(* What a booking attempt promises to the loop that awaits it: reserve()    *)
(* and dry_run_reserve() of BookingAdapter, with the exceptions that        *)
(* attempt_reservation turns into an outcome.                               *)
(*                                                                          *)
(* The site accepts at most one booking per attempt.  "RESERVED" is said    *)
(* only of a booking the site has accepted.  The outcomes in Clean say that *)
(* nothing was booked, and nothing is booked afterwards either.  The others *)
(* promise nothing: the site may have accepted, or may still accept.        *)
(***************************************************************************)

NoOutcome == "NONE"

Outcomes == {"RESERVED", "NOT_OPEN", "UNAVAILABLE", "INVALID", "COUPON",
             "GATE", "HUMAN", "ERROR", "READY"}

\* A real attempt is known to have booked nothing after NotOpenYetError,
\* SlotUnavailableError, ReservationValidationError and CouponUnavailableError;
\* a dry run after any report.
Clean(isDry) == IF isDry THEN Outcomes ELSE {"NOT_OPEN", "UNAVAILABLE", "INVALID", "COUPON"}

VARIABLES
    dry,      \* a dry run: the final button is never pressed
    outcome,  \* what the caller is told
    booked    \* has the site accepted a booking

vars == <<dry, outcome, booked>>

Init ==
    /\ dry \in BOOLEAN
    /\ outcome = NoOutcome
    /\ booked = FALSE

Accept ==
    /\ ~dry
    /\ ~booked
    /\ outcome \notin Clean(dry)
    /\ booked' = TRUE
    /\ UNCHANGED <<dry, outcome>>

Report(o) ==
    /\ outcome = NoOutcome
    /\ o = "RESERVED" => booked
    /\ o = "READY" => dry
    /\ o \in Clean(dry) => ~booked
    /\ outcome' = o
    /\ UNCHANGED <<dry, booked>>

Next == Accept \/ \E o \in Outcomes : Report(o)

Spec == Init /\ [][Next]_vars

\* The loop awaits the attempt, so it has to end.
FairSpec == Spec /\ WF_vars(\E o \in Outcomes : Report(o))
=============================================================================
