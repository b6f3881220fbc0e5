-------------------------- MODULE PollingProperties --------------------------
(***************************************************************************)
(* What the watch's timing should ensure.                                  *)
(***************************************************************************)
EXTENDS Polling

\* Every variable holds what the row, the clock and the client can hold.
TypeOK ==
    /\ start \in [at : Starts, how : Spellings]
    /\ end \in [at : Ends, how : Spellings]
    /\ opens \in Openings
    /\ shown \in BOOLEAN
    /\ now \in 0..MaxNow
    /\ status \in Statuses
    /\ next \in [at : Int, how : Spellings]
    /\ errors \in 0..MaxErrors
    /\ unsaved \in 0..MaxUnsaved
    /\ first \in 0..MaxNow \cup {Never}
    /\ last \in 0..MaxNow \cup {Never}
    /\ prompted \in BOOLEAN /\ moved \in BOOLEAN

\* README, polling policy: the site is not hammered.  Between two visits of
\* the loop lies the shortest interval, after errors the whole backoff, unless a
\* command asked for the visit or the last one could not be written down.
NoHammering ==
    [][last # Never /\ status \in Active /\ last' # last /\ ~prompted
        => now - last >= (IF errors > 0 THEN Backoff(errors) ELSE TightMin)]_vars

LongestWait == IF errors > 0 THEN (6 * Backoff(errors)) \div 5 ELSE IntervalMax

\* While a watch is on, the site is seen again within the longest interval, or
\* the backoff its errors have earned: an opening, or a place given back, is not
\* overlooked for longer (compute_next_check_at, due_watches).
OpeningIsMet ==
    status \in Active /\ last # Never /\ ~prompted /\ Parses(end)
        => now <= last + LongestWait + Lag

\* A watch starts when its start says, or as much later as local time is ahead of
\* UTC (due_watches compares texts); only words instead of a date, or an end
\* that cannot be read, keep it from ever looking.
StartIsKept ==
    ~moved /\ start.how \in Iso =>
        /\ first # Never => first \in start.at..(start.at + ZoneAhead + Lag)
        /\ status = "PENDING" /\ first = Never /\ Parses(end)
             => now <= start.at + ZoneAhead + Lag

\* A watch expires without one look at the site only if its end comes before, as
\* text, its start is reached: two readings of local time that differ by ZoneAhead.
UnseenHasCause ==
    status = "EXPIRED" /\ first = Never /\ ~moved => Parsed(end) < SortsBy(start) + Lag

Later(a, b) == IF a < b THEN b ELSE a

\* A watch whose end has passed is retired within one longest wait, however the
\* site answers, unless it has not started or a command revived it
\* (process_one_watch looks at the end first; commands never do).
EndIsNoticed ==
    status \in Active /\ ~moved /\ ~prompted /\ Parses(end) /\ start.how \in Iso
        => now <= Later(Parsed(end), SortsBy(start)) + LongestWait + Lag

\* README, polling policy: from Window before the opening the page shows, the
\* watch is checked at the tight interval.
TightBeforeOpen ==
    [][status' = "WAITING_OPEN" /\ last' = now /\ last' # last /\ shown /\ opens - now <= Window
        => next'.at <= now + TightMax]_vars

-----------------------------------------------------------------------------
(* What the code has instead of TightBeforeOpen. *)

\* A visit of the loop, or a check_now, finds the site closed and says so in the row.
SeenClosed == last' # last /\ ~prompted' /\ status' = "WAITING_OPEN" /\ errors' = 0

\* The tight interval is kept around the opening as the code reads it, which is ZoneAhead
\* after the one the page shows (compute_next_check_at).
TightWhenShifted ==
    [][SeenClosed /\ shown /\ opens + ZoneAhead - now <= Window
        => next'.at <= now + TightMax]_vars

\* So where local time is at least Window ahead of UTC, as it is in Korea by 9 h, no visit
\* that finds the site closed is ever followed by another within the tight interval: the
\* opening is met no faster than on any other day (compute_next_check_at).
NeverTight ==
    [][SeenClosed /\ ZoneAhead >= Window => next'.at >= now + IntervalMin]_vars

-----------------------------------------------------------------------------
(* Refinement. *)

\* The status goes through the life that WatchLifecycle promises; the site opens when the
\* clock says so.  A command is carried out here in one step, the first of which sets
\* moved: from then on one may be under way at any time.
Lifecycle == INSTANCE WatchLifecycle WITH
    opened <- (now >= opens),
    commanded <- moved

KeepsLifecycle == Lifecycle!Spec
=============================================================================
