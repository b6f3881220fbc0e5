------------------------------- MODULE Polling -------------------------------
(***************************************************************************)
(* When a watch is looked at: from its creation, through the rounds of the *)
(* loop, to its retirement, with the clock.  One watch; what the loop does *)
(* besides, other watches and jobs, is the lag with which it reaches a due *)
(* one.                                                                    *)
(*                                                                         *)
(* Dates are texts.  The client may write the start and the end of a watch *)
(* as it likes, the page shows its opening in local time, the watcher      *)
(* writes UTC; some places compare the texts, others parse them.           *)
(***************************************************************************)
EXTENDS Integers

CONSTANTS
    IntervalMin, IntervalMax,   \* interval_min_sec, interval_max_sec
    Window,                     \* tight_poll_before_open_sec
    TightMin, TightMax,         \* tight_interval_min_sec, tight_interval_max_sec
    BackoffBase, BackoffMax,    \* error_backoff_base_sec, error_backoff_max_sec
    ZoneAhead,                  \* local time is this far ahead of UTC
    Lag,                        \* how late the loop may reach a due watch
    Starts, Ends, Openings,     \* bounds: instants the client and the site name
    MaxErrors,                  \* bound: consecutive errors counted
    MaxUnsaved,                 \* bound: visits whose outcome cannot be written
    MaxNow                      \* bound: end of time

ASSUME PollingAssumption ==
    /\ {IntervalMin, IntervalMax, Window, TightMin, TightMax, BackoffBase, BackoffMax,
        ZoneAhead, Lag, MaxErrors, MaxUnsaved, MaxNow} \subseteq Nat
    /\ Starts \cup Ends \cup Openings \subseteq Nat
    /\ TightMin <= TightMax /\ TightMax <= IntervalMax /\ IntervalMin <= IntervalMax
    /\ TightMin <= IntervalMin /\ MaxErrors > 0

VARIABLES
    start, end,     \* watch_start_at, watch_end_at
    opens,          \* the instant the site opens
    shown,          \* whether the page's notice of it can be parsed
    now,
    status, next,   \* watches.status, watches.next_check_at
    errors,         \* watches.consecutive_errors
    unsaved,        \* counter of the bound
    \* ghosts
    first, last,    \* the first and the last visit to the site
    prompted,       \* since the last visit: the user asked for one, or it was not saved
    moved           \* a command has changed the watch

given == <<start, end, opens, shown>>
vars == <<start, end, opens, shown, now, status, next, errors, unsaved, first, last, prompted, moved>>

-----------------------------------------------------------------------------
(* Dates as text *)

\* A stamp is the instant that is meant and how it is written: in UTC with its
\* offset, in local time with or without its offset, or in words that sort
\* before ("10/3") or after ("Oct 3") every ISO date.
Iso == {"UTC", "OFFSET", "NAIVE"}
Spellings == Iso \cup {"LOW", "HIGH"}
Stamp(t, how) == [at |-> t, how |-> how]

\* Faulty variants (M_): the watcher writes local time
M_UTCStampLocal(t) == Stamp(t, "NAIVE")
UTCStamp(t) == Stamp(t, "UTC")

Never == -1
NoStamp == Stamp(Never, "UTC")

\* Text compared with a UTC time: the hour that is written counts, not the offset
SortsBy(s) ==
    CASE s.how = "UTC" -> s.at
      [] s.how \in {"OFFSET", "NAIVE"} -> s.at + ZoneAhead
      [] s.how = "LOW" -> 0
      [] s.how = "HIGH" -> MaxNow + 1

\* fromisoformat, then replace(tzinfo=UTC) when there is no offset
Parses(s) == s.how \in Iso
Parsed(s) == IF s.how = "NAIVE" THEN s.at + ZoneAhead ELSE s.at

-----------------------------------------------------------------------------
(* compute_next_check_at *)

\* Beyond MaxErrors the count is kept, as the backoff has reached its maximum
Backoff(n) ==
    LET b == BackoffBase * 2^(n - 1) IN IF b < BackoffMax THEN b ELSE BackoffMax

NextErrors == IF errors < MaxErrors THEN errors + 1 ELSE errors

\* jitter over the whole delay
M_AfterErrorsFullJitter(n) == {UTCStamp(now + d) : d \in 0..Backoff(n)}

\* delay = backoff + random.uniform(0, backoff * 0.2)
ErrorDelays(n) == {d \in 0..((6 * Backoff(n)) \div 5) : Backoff(n) <= d}
AfterErrors(n) == {UTCStamp(now + d) : d \in ErrorDelays(n)}

\* open_at_iso is naive; taken as UTC it lies ZoneAhead too late
UntilOpen == opens + ZoneAhead - now

BeforeOpenDelays ==
    IF shown /\ 0 <= UntilOpen /\ UntilOpen <= Window
    THEN TightMin..TightMax
    ELSE IntervalMin..IntervalMax

AfterBeforeOpen == {UTCStamp(now + d) : d \in BeforeOpenDelays}
AfterReading == {UTCStamp(now + d) : d \in IntervalMin..IntervalMax}

-----------------------------------------------------------------------------
Active == {"PENDING", "WAITING_OPEN", "WATCHING"}
Paused == {"NEEDS_HUMAN", "AWAITING_APPROVAL"}
Statuses == Active \cup Paused \cup {"RESERVED", "EXPIRED"}

\* add_reservation_watch, create_watch: next_check_at is watch_start_at as given
Init ==
    /\ \E t \in Starts, how \in Spellings : start = Stamp(t, how)
    /\ \E t \in Ends, how \in Spellings : end = Stamp(t, how)
    /\ opens \in Openings
    /\ shown \in BOOLEAN
    /\ now = 0
    /\ status = "PENDING"
    /\ next = start
    /\ errors = 0
    /\ unsaved = 0
    /\ first = Never /\ last = Never
    /\ prompted = FALSE /\ moved = FALSE

\* a new watch is due at once
M_DueWhenNew == status \in Active /\ (status = "PENDING" \/ SortsBy(next) <= now)

\* due_watches
Due == status \in Active /\ SortsBy(next) <= now

Save(st, stamps, e) ==
    /\ status' = st
    /\ next' \in stamps
    /\ errors' = e
    /\ UNCHANGED <<given, now, unsaved>>

Look ==
    /\ last' = now
    /\ first' = IF first = Never THEN now ELSE first
    /\ prompted' = FALSE

Visit == Look /\ UNCHANGED moved

NoVisit == UNCHANGED <<first, last, prompted, moved>>

\* process_one_watch: watch_end_at is parsed before anything else; when that
\* raises, run_due_watches counts an error
EndUnreadable ==
    /\ Due
    /\ ~Parses(end)
    /\ Save(status, AfterErrors(NextErrors), NextErrors)
    /\ NoVisit

\* retires a watch that would end before its next check
M_RetireAhead ==
    /\ Due
    /\ Parses(end) /\ now + IntervalMax > Parsed(end)
    /\ Save("EXPIRED", {NoStamp}, errors)
    /\ NoVisit
Retire ==
    /\ Due
    /\ Parses(end) /\ now > Parsed(end)
    /\ Save("EXPIRED", {NoStamp}, errors)
    /\ NoVisit

\* the end does not stop a visit
M_LooksPastEnd == Due /\ Parses(end)
Looks == Due /\ Parses(end) /\ now <= Parsed(end)

\* A captcha or login screen
VisitBlocked == Looks /\ Visit /\ Save("NEEDS_HUMAN", {NoStamp}, errors)

\* check_availability raises, or what follows it does
VisitFails == Looks /\ Visit /\ Save(status, AfterErrors(NextErrors), NextErrors)

VisitBeforeOpen ==
    /\ Looks /\ Visit
    /\ now < opens
    /\ Save("WAITING_OPEN", AfterBeforeOpen, 0)

\* Nothing suitable, or told, declined before, or the attempt failed
VisitGoesOn ==
    /\ Looks /\ Visit
    /\ now >= opens
    /\ Save("WATCHING", AfterReading, 0)

\* ASK has a candidate, or AUTO has tried to book it
VisitEnds ==
    /\ Looks /\ Visit
    /\ now >= opens
    /\ \E st \in Paused \cup {"RESERVED"} : Save(st, {NoStamp}, 0)

\* Neither the outcome nor the error can be written: the watch stays due
VisitUnsaved ==
    /\ Looks
    /\ unsaved < MaxUnsaved
    /\ unsaved' = unsaved + 1
    /\ last' = now
    /\ first' = IF first = Never THEN now ELSE first
    /\ prompted' = TRUE
    /\ UNCHANGED <<given, now, status, next, errors, moved>>

\* _handle_check_now on a watch that waits for the user; others it only reads
CheckNow ==
    /\ status = "NEEDS_HUMAN"
    /\ Look
    /\ moved' = TRUE
    /\ \/ now < opens /\ Save("WAITING_OPEN", AfterBeforeOpen, 0)
       \/ now >= opens /\ Save("WATCHING", AfterReading, 0)

\* _handle_decline whatever the status; _handle_approve when it finds the slot gone
\* or does not get it
LookAgain ==
    /\ Save("WATCHING", {UTCStamp(now)}, errors)
    /\ prompted' = TRUE /\ moved' = TRUE
    /\ UNCHANGED <<first, last>>

\* _handle_reserve_now whatever the status, _handle_approve: booked, or stopped
JobEnds ==
    /\ \/ Save("RESERVED", {NoStamp}, errors)
       \/ status = "AWAITING_APPROVAL" /\ Save("NEEDS_HUMAN", {next}, errors)
    /\ moved' = TRUE
    /\ UNCHANGED <<first, last, prompted>>

\* The loop reaches a due watch in time
Tick ==
    /\ now < MaxNow
    /\ ~(Due /\ SortsBy(next) + Lag <= now)
    /\ now' = now + 1
    /\ UNCHANGED <<given, status, next, errors, unsaved, first, last, prompted, moved>>

Next ==
    \/ EndUnreadable \/ Retire
    \/ VisitBlocked \/ VisitFails \/ VisitBeforeOpen \/ VisitGoesOn \/ VisitEnds
    \/ VisitUnsaved
    \/ CheckNow \/ LookAgain \/ JobEnds
    \/ Tick

Spec == Init /\ [][Next]_vars
=============================================================================
