-------------------------- MODULE PollingInvariant --------------------------
(***************************************************************************)
(* The inductive strengthening from which PollingProofs derives the        *)
(* properties of PollingProperties.                                        *)
(***************************************************************************)
EXTENDS PollingProperties

On == status \in Active

\* The loop is never later than its lag.
InTime == On => now <= SortsBy(next) + Lag

\* No visit lies ahead, none came before the first, and the first is remembered.
VisitsArePast ==
    /\ first = Never <=> last = Never
    /\ last # Never => last <= now /\ first <= last

ShortestWait == IF errors > 0 THEN Backoff(errors) ELSE TightMin

\* The row of a watch that has been visited says when to come back.
NextFollowsLast ==
    On /\ last # Never /\ ~prompted =>
        /\ last + ShortestWait <= SortsBy(next)
        /\ Parses(end) => SortsBy(next) <= last + LongestWait

\* One that has not, and whose end can be read, is as it was created.
UnseenIsUntouched ==
    first = Never /\ ~moved /\ On /\ Parses(end) =>
        next = start /\ errors = 0

\* The first visit is the start's, and none comes after the end.
VisitsAreDue ==
    ~moved /\ first # Never =>
        /\ SortsBy(start) <= first /\ first <= SortsBy(start) + Lag
        /\ Parses(end) /\ last <= Parsed(end)

IInv ==
    /\ TypeOK
    /\ InTime
    /\ VisitsArePast
    /\ NextFollowsLast
    /\ UnseenIsUntouched
    /\ VisitsAreDue
    /\ UnseenHasCause
=============================================================================
