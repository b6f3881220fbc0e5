------------------------------- MODULE Watcher -------------------------------
(***************************************************************************)
(* The watcher service and everything that shares its SQLite file: the      *)
(* watches table, the jobs table, the MCP tools and toast buttons that      *)
(* write to them, the booking site, and the single asyncio loop that reads  *)
(* due watches, handles claimed jobs and books.                             *)
(*                                                                          *)
(* Every step of the loop between two awaits is one action.  The MCP        *)
(* process, the toast threads, the site and the clock interleave with it at *)
(* every await; a crash loses what the process held in memory.              *)
(***************************************************************************)
EXTENDS Naturals, Sequences, FiniteSets

CONSTANTS
    Watches,     \* ids of the watches table (AUTOINCREMENT: never reused)
    Times,       \* start times the site may offer
    NoTime,      \* NULL in a column that holds a time
    Priority,    \* acceptable times, best first (time_priority, or the range in order)
    BatchLimit,  \* claim_pending_jobs(limit)
    Modes,       \* modes the user registers watches with
    Commands,    \* job types the user issues
    MaxJobs,     \* bound: jobs ever created
    MaxFaults    \* bound: crashes, storage errors, lock timeouts, unconfirmed clicks

AllModes == {"AUTO", "ASK", "NOTIFY"}
JobTypes == {"CHECK_NOW", "RESERVE_NOW", "APPROVE", "DECLINE"}
JobIds == 1..MaxJobs

ASSUME ConstantsAssumption ==
    /\ NoTime \notin Times
    /\ Priority \in Seq(Times)
    /\ BatchLimit \in Nat \ {0}
    /\ Modes \subseteq AllModes
    /\ Commands \subseteq JobTypes
    /\ MaxJobs \in Nat
    /\ MaxFaults \in Nat

MaybeTime == Times \cup {NoTime}

\* Faulty variants, named M_..., stand before the definition they vary; nothing uses
\* them in the specification.  Putting one in place of its original must break the
\* property PROJECT.json pairs it with.
M_ActiveNeedsHuman == {"PENDING", "WAITING_OPEN", "WATCHING", "NEEDS_HUMAN"}
M_ActiveRemoved == {"PENDING", "WAITING_OPEN", "WATCHING", "REMOVED"}

\* The statuses from which due_watches selects.
Active == {"PENDING", "WAITING_OPEN", "WATCHING"}

\* UNREGISTERED and REMOVED stand for an id with no row: not yet inserted, deleted.
Status == Active \cup {"AWAITING_APPROVAL", "NEEDS_HUMAN", "RESERVED", "EXPIRED",
                       "UNREGISTERED", "REMOVED"}

\* One row of watches.  notified and declined live inside last_snapshot.
Row == [mode : AllModes, status : Status, pending : MaybeTime,
        notified : MaybeTime, declined : MaybeTime, reservation : Nat]

\* One row of jobs; only reserve_now names a time.
Job == [type : JobTypes, watch : Watches, time : MaybeTime,
        status : {"PENDING", "RUNNING", "DONE", "ERROR"}]

Results == {"RESERVED", "AWAITING_APPROVAL", "NEEDS_HUMAN", "UNAVAILABLE", "ERROR"}

\* What a suspended coroutine holds: the job it serves (0: the due-watch cycle), the
\* watch and time it acts for, the row as it was read, the outcome, the reservation id.
Act == [job : 0..MaxJobs, watch : Watches, time : Times, copy : Row,
        result : Results, reservation : Nat]

NoAct == [job |-> 0]

VARIABLES
    row,           \* watches table: id -> row
    jobs,          \* jobs table, in id order
    reservations,  \* reservations table, in insertion order
    page,          \* site: is the booking page open yet
    open,          \* site: times that can be booked now
    ended,         \* watches whose watch_end_at has passed
    toasts,        \* approval toasts on the screen: [watch, time]
    pc,            \* where the loop is suspended
    batch,         \* claimed job ids still to handle, in memory
    due,           \* rows read by due_watches still to process, in memory
    act,           \* the suspended attempt or notification
    faults,        \* faults so far
    booked,        \* ghost: bookings the site accepted for each watch
    spent,         \* ghost: bookings the site accepted for each job
    causes         \* ghost: events after which a second booking of a watch is possible

tables == <<row, jobs, reservations>>
world == <<page, open, ended, toasts>>
memory == <<pc, batch, due, act>>
ghosts == <<booked, spent, causes>>
vars == <<row, jobs, reservations, page, open, ended, toasts,
          pc, batch, due, act, faults, booked, spent, causes>>

Unregistered == [mode |-> "NOTIFY", status |-> "UNREGISTERED", pending |-> NoTime,
                 notified |-> NoTime, declined |-> NoTime, reservation |-> 0]

Init ==
    /\ row = [w \in Watches |-> Unregistered]
    /\ jobs = << >>
    /\ reservations = << >>
    /\ page = "BEFORE_OPEN"
    /\ open = {}
    /\ ended = {}
    /\ toasts = {}
    /\ pc = "loop"
    /\ batch = {}
    /\ due = {}
    /\ act = NoAct
    /\ faults = 0
    /\ booked = [w \in Watches |-> 0]
    /\ spent = [j \in JobIds |-> 0]
    /\ causes = [w \in Watches |-> 0]
-----------------------------------------------------------------------------
(* The tables. *)

Exists(w) == row[w].status \notin {"UNREGISTERED", "REMOVED"}

\* update_watch: an UPDATE ... WHERE id = ? that finds no row changes nothing.
SaveRow(w, r) == row' = IF Exists(w) THEN [row EXCEPT ![w] = r] ELSE row

\* create_job, from an MCP tool or a toast button.
AddJob(type, w, t) ==
    /\ Len(jobs) < MaxJobs
    /\ jobs' = Append(jobs, [type |-> type, watch |-> w, time |-> t,
                             status |-> "PENDING"])

Pending == {j \in DOMAIN jobs : jobs[j].status = "PENDING"}

M_ClaimableOffByOne ==
    {j \in Pending : Cardinality({k \in Pending : k < j}) < BatchLimit - 1}

\* claim_pending_jobs: the oldest PENDING jobs, BatchLimit at most.
Claimable == {j \in Pending : Cardinality({k \in Pending : k < j}) < BatchLimit}

\* pick_best_candidate: the first time of Priority that is available.
IsFirst(i, avail) ==
    /\ Priority[i] \in avail
    /\ \A k \in 1..(i - 1) : Priority[k] \notin avail

Candidate(avail) ==
    IF \E i \in DOMAIN Priority : IsFirst(i, avail)
    THEN Priority[CHOOSE i \in DOMAIN Priority : IsFirst(i, avail)]
    ELSE NoTime

-----------------------------------------------------------------------------
(* The user, through the MCP tools and the toast buttons. *)

Register(w, m) ==
    /\ row[w].status = "UNREGISTERED"
    /\ row' = [row EXCEPT ![w] = [Unregistered EXCEPT !.mode = m, !.status = "PENDING"]]
    /\ UNCHANGED <<jobs, reservations, world, memory, faults, ghosts>>

\* delete_watch touches neither the jobs nor what the loop holds in memory.
Remove(w) ==
    /\ Exists(w)
    /\ row' = [row EXCEPT ![w] = [Unregistered EXCEPT !.status = "REMOVED"]]
    /\ UNCHANGED <<jobs, reservations, world, memory, faults, ghosts>>

\* A tool only needs an id: the row may be gone, or in any status.
Request(type, w, t) ==
    /\ row[w].status # "UNREGISTERED"
    /\ t = NoTime <=> type # "RESERVE_NOW"
    /\ AddJob(type, w, t)
    /\ UNCHANGED <<row, reservations, world, memory, faults, ghosts>>

\* A button of a toast still on the screen, however old: its arguments name only the
\* watch.  A toast that is dismissed creates no job and is simply never clicked here.
ClickToast(o, type) ==
    /\ o \in toasts
    /\ toasts' = toasts \ {o}
    /\ AddJob(type, o.watch, NoTime)
    /\ UNCHANGED <<row, reservations, page, open, ended, memory, faults, ghosts>>

-----------------------------------------------------------------------------
(* The booking site and the clock. *)

BookingOpens ==
    /\ page = "BEFORE_OPEN"
    /\ page' = "OPEN"
    /\ UNCHANGED <<tables, open, ended, toasts, memory, faults, ghosts>>

\* First opening, or a cancellation by another customer.
SlotOpens(t) ==
    /\ page = "OPEN"
    /\ t \notin open
    /\ open' = open \cup {t}
    /\ UNCHANGED <<tables, page, ended, toasts, memory, faults, ghosts>>

SlotCloses(t) ==
    /\ t \in open
    /\ open' = open \ {t}
    /\ UNCHANGED <<tables, page, ended, toasts, memory, faults, ghosts>>

EndPasses(w) ==
    /\ Exists(w)
    /\ w \notin ended
    /\ ended' = ended \cup {w}
    /\ UNCHANGED <<tables, page, open, toasts, memory, faults, ghosts>>

-----------------------------------------------------------------------------
(* The loop: claim jobs, handle them, read the due watches, check them. *)

ClaimJobs ==
    /\ pc = "loop"
    /\ batch' = Claimable
    /\ jobs' = [j \in DOMAIN jobs |->
                  IF j \in Claimable THEN [jobs[j] EXCEPT !.status = "RUNNING"]
                                     ELSE jobs[j]]
    /\ pc' = IF Claimable = {} THEN "due" ELSE "jobs"
    /\ UNCHANGED <<row, reservations, world, due, act, faults, ghosts>>

\* The rows due now: any of the active ones, next_check_at being drawn at random.
ReadDue ==
    /\ pc = "due"
    /\ \E D \in SUBSET {w \in Watches : row[w].status \in Active} :
         /\ due' = {[watch |-> w, copy |-> row[w]] : w \in D}
         /\ pc' = IF D = {} THEN "loop" ELSE "cycle"
    /\ UNCHANGED <<tables, world, batch, act, faults, ghosts>>

-----------------------------------------------------------------------------
(* handle_job, one claimed job at a time in id order. *)

\* The claimed job that handle_job is serving.
Serving(j) == j \in batch /\ \A k \in batch : j <= k

Handling(j, type) ==
    /\ pc = "jobs"
    /\ Serving(j)
    /\ jobs[j].type = type

M_EndJobOnlySuccess(j, status) ==
    /\ jobs' = IF status = "ERROR" THEN jobs ELSE [jobs EXCEPT ![j].status = status]
    /\ batch' = batch \ {j}
    /\ pc' = IF batch = {j} THEN "due" ELSE "jobs"
    /\ act' = NoAct

EndJob(j, status) ==
    /\ jobs' = [jobs EXCEPT ![j].status = status]
    /\ batch' = batch \ {j}
    /\ pc' = IF batch = {j} THEN "due" ELSE "jobs"
    /\ act' = NoAct

\* The coroutine awaits adapter.reserve holding what it has read so far.
BeginAttempt(j, w, t, copy) ==
    /\ pc' = "attempt"
    /\ act' = [job |-> j, watch |-> w, time |-> t, copy |-> copy,
               result |-> "ERROR", reservation |-> 0]

M_ResumedFromAnything(r) ==
    [r EXCEPT !.status = IF page = "BEFORE_OPEN" THEN "WAITING_OPEN" ELSE "WATCHING"]

ResumedRow(r) ==
    IF r.status = "NEEDS_HUMAN"
    THEN [r EXCEPT !.status = IF page = "BEFORE_OPEN" THEN "WAITING_OPEN" ELSE "WATCHING"]
    ELSE r

\* _handle_check_now: a check that succeeds resumes a watch paused for a human.
CheckNow(j) ==
    LET w == jobs[j].watch IN
    /\ Handling(j, "CHECK_NOW")
    /\ \/ /\ Exists(w)
          /\ SaveRow(w, ResumedRow(row[w]))
          /\ EndJob(j, "DONE")
       \/ /\ EndJob(j, "ERROR")
          /\ UNCHANGED row
    /\ UNCHANGED <<reservations, world, due, faults, ghosts>>

\* _handle_reserve_now up to the attempt: the status of the watch is never looked at.
MayReserveNow(w, t) == Exists(w) /\ t \in open

ReserveNowStarts(j) ==
    LET w == jobs[j].watch IN
    /\ Handling(j, "RESERVE_NOW")
    /\ MayReserveNow(w, jobs[j].time)
    /\ BeginAttempt(j, w, jobs[j].time, row[w])
    /\ UNCHANGED <<tables, world, batch, due, faults, ghosts>>

\* A dry run, a time that is taken, a failed check, or a watch that is gone.
ReserveNowRefused(j) ==
    /\ Handling(j, "RESERVE_NOW")
    /\ EndJob(j, "ERROR") \/ (Exists(jobs[j].watch) /\ EndJob(j, "DONE"))
    /\ UNCHANGED <<row, reservations, world, due, faults, ghosts>>

M_MayApproveAnyStatus(w) == Exists(w) /\ row[w].pending # NoTime

\* _handle_approve reads the row again and acts only on a watch that awaits approval.
MayApprove(w) == row[w].status = "AWAITING_APPROVAL" /\ row[w].pending # NoTime

ApproveStarts(j) ==
    LET w == jobs[j].watch IN
    /\ Handling(j, "APPROVE")
    /\ MayApprove(w)
    /\ row[w].pending \in open
    /\ BeginAttempt(j, w, row[w].pending, row[w])
    /\ UNCHANGED <<tables, world, batch, due, faults, ghosts>>

BackToWatching(r) == [r EXCEPT !.status = "WATCHING", !.pending = NoTime]

\* The row is saved, and the notification that the time is gone awaited, before the job
\* is answered.
ApproveFindsGone(j) ==
    LET w == jobs[j].watch IN
    /\ Handling(j, "APPROVE")
    /\ MayApprove(w)
    /\ row[w].pending \notin open
    /\ SaveRow(w, BackToWatching(row[w]))
    /\ pc' = "gone"
    /\ UNCHANGED <<jobs, reservations, world, batch, due, act, faults, ghosts>>

\* ERROR when the event of it could not be written.
AnswerGone(j) ==
    /\ pc = "gone"
    /\ Serving(j)
    /\ EndJob(j, "DONE") \/ EndJob(j, "ERROR")
    /\ UNCHANGED <<row, reservations, world, due, faults, ghosts>>

\* Not awaiting approval (DONE, refused), or the recheck itself failed (DONE, or ERROR
\* when the store cannot be resolved).
ApproveRefused(j) ==
    /\ Handling(j, "APPROVE")
    /\ EndJob(j, "DONE") \/ (MayApprove(jobs[j].watch) /\ EndJob(j, "ERROR"))
    /\ UNCHANGED <<row, reservations, world, due, faults, ghosts>>

\* _handle_decline: no look at the status; what is declined is whatever is pending.
DeclinedRow(r) == [r EXCEPT !.status = "WATCHING", !.pending = NoTime,
                            !.declined = r.pending]

Decline(j) ==
    LET w == jobs[j].watch IN
    /\ Handling(j, "DECLINE")
    /\ SaveRow(w, DeclinedRow(row[w]))
    /\ EndJob(j, "DONE")
    /\ causes' = IF row[w].status = "RESERVED" THEN [causes EXCEPT ![w] = @ + 1]
                                              ELSE causes
    /\ UNCHANGED <<reservations, world, due, faults, booked, spent>>

-----------------------------------------------------------------------------
(* process_one_watch, one row of the due list at a time; every decision uses the row *)
(* as it was read, every save goes to the table.                                     *)

M_EndCheckKeepsEntry(e) ==
    /\ UNCHANGED due
    /\ pc' = "cycle"
    /\ act' = NoAct

EndCheck(e) ==
    /\ due' = due \ {e}
    /\ pc' = IF due = {e} THEN "loop" ELSE "cycle"
    /\ act' = NoAct

Checking(e) == pc = "cycle" /\ e \in due

M_InTimeOnceStarted(e) == e.watch \notin ended \/ e.copy.status # "PENDING"

InTime(e) == e.watch \notin ended

Found == IF page = "BEFORE_OPEN" THEN NoTime ELSE Candidate(open)

Expire(e) ==
    /\ Checking(e)
    /\ ~InTime(e)
    /\ SaveRow(e.watch, [row[e.watch] EXCEPT !.status = "EXPIRED"])
    /\ EndCheck(e)
    /\ UNCHANGED <<jobs, reservations, world, batch, faults, ghosts>>

\* A captcha, or any other failure of the check (which only lengthens the backoff).
CheckBlocked(e) ==
    /\ Checking(e)
    /\ InTime(e)
    /\ \/ SaveRow(e.watch, [row[e.watch] EXCEPT !.status = "NEEDS_HUMAN"])
       \/ UNCHANGED row
    /\ EndCheck(e)
    /\ UNCHANGED <<jobs, reservations, world, batch, faults, ghosts>>

\* last_snapshot is rebuilt from the copy; these are the marks it carries over.
Marked(r, n, d) == [r EXCEPT !.notified = n, !.declined = d]

NothingFound(e) ==
    /\ Checking(e)
    /\ InTime(e)
    /\ Found = NoTime
    /\ SaveRow(e.watch, [Marked(row[e.watch], NoTime, NoTime) EXCEPT
                           !.status = IF page = "BEFORE_OPEN" THEN "WAITING_OPEN"
                                                             ELSE "WATCHING"])
    /\ EndCheck(e)
    /\ UNCHANGED <<jobs, reservations, world, batch, faults, ghosts>>

Hit(e) == Checking(e) /\ InTime(e) /\ Found # NoTime

Declined(e) == e.copy.mode = "ASK" /\ e.copy.declined = Found

Announced(e) == e.copy.notified = Found

\* Nothing new for the user: NOTIFY of a time already announced, ASK of one declined.
KeepWatching(e) ==
    LET w == e.watch IN
    /\ Hit(e)
    /\ Declined(e) \/ (e.copy.mode = "NOTIFY" /\ Announced(e))
    /\ SaveRow(w, [Marked(row[w], e.copy.notified, e.copy.declined)
                     EXCEPT !.status = "WATCHING"])
    /\ EndCheck(e)
    /\ UNCHANGED <<jobs, reservations, world, batch, faults, ghosts>>

OfferedRow(r, t, copy) ==
    [Marked(r, t, copy.declined) EXCEPT !.status = "AWAITING_APPROVAL", !.pending = t]

\* ASK, already announced: the watch waits for approval without a new toast.
AskSilently(e) ==
    LET w == e.watch IN
    /\ Hit(e)
    /\ e.copy.mode = "ASK"
    /\ ~Declined(e)
    /\ Announced(e)
    /\ SaveRow(w, OfferedRow(row[w], Found, e.copy))
    /\ EndCheck(e)
    /\ UNCHANGED <<jobs, reservations, world, batch, faults, ghosts>>

\* The notification is sent, and awaited, before the row is saved.
Announce(e) ==
    LET w == e.watch IN
    /\ Hit(e)
    /\ e.copy.mode # "AUTO"
    /\ ~Declined(e)
    /\ ~Announced(e)
    /\ toasts' = IF e.copy.mode = "ASK"
                 THEN toasts \cup {[watch |-> w, time |-> Found]} ELSE toasts
    /\ act' = [job |-> 0, watch |-> w, time |-> Found, copy |-> e.copy,
               result |-> "ERROR", reservation |-> 0]
    /\ pc' = "told"
    /\ UNCHANGED <<tables, page, open, ended, batch, due, faults, ghosts>>

AnnouncedRow(r, t, copy) ==
    IF copy.mode = "ASK" THEN OfferedRow(r, t, copy)
    ELSE [Marked(r, t, copy.declined) EXCEPT !.status = "WATCHING"]

ActRow == [watch |-> act.watch, copy |-> act.copy]

SaveAnnounced ==
    LET w == act.watch IN
    /\ pc = "told"
    /\ SaveRow(w, AnnouncedRow(row[w], act.time, act.copy))
    /\ EndCheck(ActRow)
    /\ UNCHANGED <<jobs, reservations, world, batch, faults, ghosts>>

M_AutoStartsUnlessNotify(e) ==
    /\ Hit(e)
    /\ e.copy.mode # "NOTIFY"
    /\ BeginAttempt(0, e.watch, Found, e.copy)
    /\ UNCHANGED <<tables, world, batch, due, faults, ghosts>>

AutoStarts(e) ==
    /\ Hit(e)
    /\ e.copy.mode = "AUTO"
    /\ BeginAttempt(0, e.watch, Found, e.copy)
    /\ UNCHANGED <<tables, world, batch, due, faults, ghosts>>

-----------------------------------------------------------------------------
(* attempt_reservation, on behalf of a job or of the cycle. *)

\* The final button was pressed and the site took the booking.
Accepted ==
    /\ pc = "attempt"
    /\ act.time \in open
    /\ open' = open \ {act.time}
    /\ booked' = [booked EXCEPT ![act.watch] = @ + 1]
    /\ spent' = [j \in DOMAIN spent |-> IF j = act.job THEN spent[j] + 1 ELSE spent[j]]

Click ==
    /\ Accepted
    /\ pc' = "clicked"
    /\ causes' = IF act.copy.status = "RESERVED"
                 THEN [causes EXCEPT ![act.watch] = @ + 1] ELSE causes
    /\ UNCHANGED <<tables, page, ended, toasts, batch, due, act, faults>>

\* Booked, but not reported so: the confirmation text does not come within 15 s, or the
\* page after the click mentions a fee, a consent or an identity check.
ClickUnconfirmed ==
    /\ faults < MaxFaults
    /\ faults' = faults + 1
    /\ Accepted
    /\ pc' = "outcome"
    /\ \E result \in {"ERROR", "AWAITING_APPROVAL", "NEEDS_HUMAN"} :
           act' = [act EXCEPT !.result = result]
    /\ causes' = [causes EXCEPT ![act.watch] = @ + 1]
    /\ UNCHANGED <<tables, page, ended, toasts, batch, due>>

\* An exception of adapter.reserve, turned into an outcome; the user is told, and after
\* a gate or a captcha the loop sleeps human_pause_sec here.
NotBooked(result) ==
    /\ pc = "attempt"
    /\ result # "RESERVED"
    /\ result = "UNAVAILABLE" => act.time \notin open
    /\ pc' = "outcome"
    /\ act' = [act EXCEPT !.result = result]
    /\ UNCHANGED <<tables, world, batch, due, faults, ghosts>>

M_RecordForCycleOnly ==
    /\ pc = "clicked"
    /\ reservations' = IF act.job = 0
                       THEN Append(reservations, [watch |-> act.watch, time |-> act.time])
                       ELSE reservations
    /\ act' = [act EXCEPT !.result = "RESERVED", !.reservation = Len(reservations')]
    /\ pc' = "outcome"
    /\ UNCHANGED <<row, jobs, world, batch, due, faults, ghosts>>

RecordReservation ==
    /\ pc = "clicked"
    /\ reservations' = Append(reservations, [watch |-> act.watch, time |-> act.time])
    /\ act' = [act EXCEPT !.result = "RESERVED", !.reservation = Len(reservations) + 1]
    /\ pc' = "outcome"
    /\ UNCHANGED <<row, jobs, world, batch, due, faults, ghosts>>

ReservedRow(r, id) == [r EXCEPT !.status = "RESERVED", !.reservation = id]

M_AutoRowKeepsWatching(r, a) == [r EXCEPT !.status = "WATCHING", !.notified = NoTime]

\* The end of process_one_watch in AUTO mode.
AutoRow(r, a) ==
    LET m == Marked(r, a.copy.notified, a.copy.declined) IN
    IF a.result = "RESERVED"
    THEN [ReservedRow(m, a.reservation) EXCEPT !.pending = NoTime]
    ELSE IF a.result \in {"AWAITING_APPROVAL", "NEEDS_HUMAN"}
    THEN [m EXCEPT !.status = a.result, !.pending = a.time]
    ELSE [m EXCEPT !.status = "WATCHING", !.notified = NoTime]

M_ApproveRowDropsPending(r, a) ==
    IF a.result = "RESERVED" THEN [ReservedRow(r, a.reservation) EXCEPT !.pending = NoTime]
    ELSE IF a.result \in {"AWAITING_APPROVAL", "NEEDS_HUMAN"}
    THEN [r EXCEPT !.status = a.result, !.pending = NoTime]
    ELSE BackToWatching(r)

\* The end of _handle_approve.
ApproveRow(r, a) ==
    IF a.result = "RESERVED"
    THEN [ReservedRow(r, a.reservation) EXCEPT !.pending = NoTime]
    ELSE IF a.result \in {"AWAITING_APPROVAL", "NEEDS_HUMAN"}
    THEN [r EXCEPT !.status = a.result]
    ELSE BackToWatching(r)

\* The end of _handle_reserve_now: only success reaches the row.
ReserveNowRow(r, a) ==
    IF a.result = "RESERVED" THEN ReservedRow(r, a.reservation) ELSE r

FinishAuto ==
    /\ pc = "outcome"
    /\ act.job = 0
    /\ SaveRow(act.watch, AutoRow(row[act.watch], act))
    /\ EndCheck(ActRow)
    /\ UNCHANGED <<jobs, reservations, world, batch, faults, ghosts>>

FinishJob ==
    LET r == row[act.watch] IN
    /\ pc = "outcome"
    /\ act.job # 0
    /\ SaveRow(act.watch, IF jobs[act.job].type = "APPROVE"
                          THEN ApproveRow(r, act) ELSE ReserveNowRow(r, act))
    /\ EndJob(act.job, "DONE")
    /\ UNCHANGED <<reservations, world, due, faults, ghosts>>

-----------------------------------------------------------------------------
(* Faults. *)

\* The site has booked and the row does not say so yet.
Holding(w) ==
    /\ pc \in {"clicked", "outcome"}
    /\ act.watch = w
    /\ pc = "clicked" \/ act.result = "RESERVED"

Blame == causes' = [w \in Watches |-> IF Holding(w) THEN causes[w] + 1 ELSE causes[w]]

\* A database write after the click raises (locked for longer than busy_timeout): the
\* handlers around the attempt log it and go on to the next row or job.
StorageError ==
    /\ pc \in {"clicked", "outcome"}
    /\ faults < MaxFaults
    /\ faults' = faults + 1
    /\ Blame
    /\ \/ act.job = 0 /\ EndCheck(ActRow) /\ UNCHANGED <<jobs, batch>>
       \/ act.job # 0 /\ EndJob(act.job, "ERROR") /\ UNCHANGED due
    /\ UNCHANGED <<row, reservations, world, booked, spent>>

\* An exception reaches run_forever, which logs it: the browser lock timed out, the
\* launch failed, or an error handler's own write raised.  What the list held is lost.
LoopAborts ==
    /\ faults < MaxFaults
    /\ faults' = faults + 1
    /\ \/ pc = "jobs" /\ pc' = "due" /\ batch' = {} /\ UNCHANGED due
       \/ pc = "cycle" /\ pc' = "loop" /\ due' = {} /\ UNCHANGED batch
    /\ UNCHANGED <<tables, world, act, ghosts>>

\* The process dies; the toasts' callback threads die with it.
Crash ==
    /\ pc # "down"
    /\ faults < MaxFaults
    /\ faults' = faults + 1
    /\ Blame
    /\ pc' = "down"
    /\ batch' = {}
    /\ due' = {}
    /\ act' = NoAct
    /\ toasts' = {}
    /\ UNCHANGED <<tables, page, open, ended, booked, spent>>

M_RestartRequeues ==
    /\ pc = "down"
    /\ pc' = "loop"
    /\ jobs' = [j \in DOMAIN jobs |->
                  IF jobs[j].status = "RUNNING" THEN [jobs[j] EXCEPT !.status = "PENDING"]
                                                ELSE jobs[j]]
    /\ UNCHANGED <<row, reservations, world, batch, due, act, faults, ghosts>>

\* The task scheduler starts it again; nothing in the tables is repaired.
Restart ==
    /\ pc = "down"
    /\ pc' = "loop"
    /\ UNCHANGED <<tables, world, batch, due, act, faults, ghosts>>

-----------------------------------------------------------------------------
User ==
    \/ \E w \in Watches : \/ \E m \in Modes : Register(w, m)
                          \/ Remove(w)
                          \/ \E type \in Commands, t \in MaybeTime : Request(type, w, t)
    \/ \E o \in toasts, type \in {"APPROVE", "DECLINE"} \cap Commands : ClickToast(o, type)

Environment ==
    \/ BookingOpens
    \/ \E t \in Times : SlotOpens(t) \/ SlotCloses(t)
    \/ \E w \in Watches : EndPasses(w)

HandleJob(j) ==
    \/ CheckNow(j)
    \/ ReserveNowStarts(j)
    \/ ReserveNowRefused(j)
    \/ ApproveStarts(j)
    \/ ApproveFindsGone(j)
    \/ AnswerGone(j)
    \/ ApproveRefused(j)
    \/ Decline(j)

ProcessOneWatch(e) ==
    \/ Expire(e)
    \/ CheckBlocked(e)
    \/ NothingFound(e)
    \/ KeepWatching(e)
    \/ AskSilently(e)
    \/ Announce(e)
    \/ AutoStarts(e)

Attempt ==
    \/ Click
    \/ \E result \in Results : NotBooked(result)
    \/ RecordReservation

Finish == SaveAnnounced \/ FinishAuto \/ FinishJob

Loop ==
    \/ ClaimJobs
    \/ ReadDue
    \/ \E j \in batch : HandleJob(j)
    \/ \E e \in due : ProcessOneWatch(e)
    \/ Attempt
    \/ Finish

Faults == ClickUnconfirmed \/ StorageError \/ LoopAborts \/ Crash

Next == User \/ Environment \/ Loop \/ Faults \/ Restart

Spec == Init /\ [][Next]_vars

\* Every await of the loop is bounded by a timeout, the scheduler restarts a dead
\* process, and an active watch's next_check_at is at most minutes away, so it is read
\* as due again and again as long as the loop turns.
ReadsDue(w) == ReadDue /\ \E e \in due' : e.watch = w

Fairness ==
    /\ WF_vars(Loop)
    /\ WF_vars(Restart)
    /\ \A w \in Watches : SF_vars(ReadsDue(w))

FairSpec == Spec /\ Fairness

=============================================================================
