-------------------------- MODULE WatcherProperties --------------------------
(***************************************************************************)
(* What the watcher must never do, what it may never do in one step, and    *)
(* what it must eventually do.                                              *)
(***************************************************************************)
EXTENDS Watcher

DueEntry == [watch : Watches, copy : Row]

Reservation == [watch : Watches, time : Times]

\* Type invariant of the tables, of the loop's memory and of the ghosts.
TypeOK ==
    /\ row \in [Watches -> Row]
    /\ jobs \in Seq(Job)
    /\ Len(jobs) <= MaxJobs
    /\ reservations \in Seq(Reservation)
    /\ page \in {"BEFORE_OPEN", "OPEN"}
    /\ open \subseteq Times
    /\ ended \subseteq Watches
    /\ toasts \subseteq [watch : Watches, time : Times]
    /\ pc \in {"loop", "jobs", "gone", "due", "cycle", "told", "attempt", "clicked",
               "outcome", "down"}
    /\ batch \subseteq DOMAIN jobs
    /\ due \subseteq DueEntry
    /\ IF pc \in {"told", "attempt", "clicked", "outcome"} THEN act \in Act
                                                           ELSE act = NoAct
    /\ faults \in 0..MaxFaults
    /\ booked \in [Watches -> Nat]
    /\ spent \in [JobIds -> Nat]
    /\ causes \in [Watches -> Nat]

Busy == pc \in {"told", "attempt", "clicked", "outcome"}

-----------------------------------------------------------------------------
(* Safety. *)

\* The loop decides from copies of rows it read before several awaits.  No copy is
\* ever stale: until it has been processed its row is as it was read, unless the user
\* removed the watch.  So no save overwrites what something else wrote meanwhile
\* (core.py run_due_watches, process_one_watch).
CopiesAreCurrent ==
    /\ \A e \in due : row[e.watch].status = "REMOVED" \/ row[e.watch] = e.copy
    /\ Busy => (row[act.watch].status = "REMOVED" \/ row[act.watch] = act.copy)

\* A watch is booked a second time only after one of the listed causes: a crash, storage
\* error or unconfirmed click between the site's acceptance and the saved RESERVED row,
\* a DECLINE of a RESERVED watch, or a reserve_now on a RESERVED watch.  No other
\* interleaving of jobs, checks and removals books twice (core.py attempt_reservation,
\* process_one_watch; jobs.py handlers).
SurplusHasCause == \A w \in Watches : booked[w] <= causes[w] + 1

\* A command is executed at most once: no job, however long it waited, whatever crashed
\* or was retried around it, books twice (db.py claim_pending_jobs, jobs.py).
AtMostOncePerJob == \A j \in JobIds : spent[j] <= 1

\* Every attempt to book is authorised by the mode of the watch or by a command: on its
\* own the loop books for AUTO watches only; an approval books the time that was pending
\* on a watch awaiting approval, never for a NOTIFY watch; reserve_now books the time it
\* was given (core.py process_one_watch, jobs.py _handle_approve, _handle_reserve_now).
Authorised(a) ==
    \/ a.job = 0 /\ a.copy.mode = "AUTO" /\ a.copy.status \in Active
    \/ /\ a.job # 0
       /\ a.watch = jobs[a.job].watch
       /\ \/ /\ jobs[a.job].type = "APPROVE"
             /\ a.copy.status = "AWAITING_APPROVAL"
             /\ a.copy.mode # "NOTIFY"
             /\ a.time = a.copy.pending
          \/ /\ jobs[a.job].type = "RESERVE_NOW"
             /\ a.time = jobs[a.job].time

AttemptsAreAuthorised == pc \in {"attempt", "clicked", "outcome"} => Authorised(act)

\* What the user is told matches the tables: a RESERVED row points at a reservation of
\* that very watch, and a row awaiting approval holds a candidate to approve and is not
\* a NOTIFY watch (core.py process_one_watch, jobs.py, db.py create_reservation).
RowsAreBacked ==
    \A w \in Watches :
        /\ row[w].status = "RESERVED" =>
             /\ row[w].reservation \in DOMAIN reservations
             /\ reservations[row[w].reservation].watch = w
        /\ row[w].status = "AWAITING_APPROVAL" =>
             row[w].pending # NoTime /\ row[w].mode # "NOTIFY"

\* The accounts agree: every row of reservations stands for a booking the site accepted
\* for that very watch, and every booking accepted is in the table, is about to be, or
\* was kept from it by one of the causes (core.py attempt_reservation,
\* db.py create_reservation).
Recorded(w) == {i \in DOMAIN reservations : reservations[i].watch = w}

Unwritten(w) == IF pc = "clicked" /\ act.watch = w THEN 1 ELSE 0

BookingsAreAccounted ==
    \A w \in Watches :
        LET n == Cardinality(Recorded(w)) + Unwritten(w)
        IN  n <= booked[w] /\ booked[w] <= n + causes[w]

\* The same bound on surplus bookings without the ghost causes: beyond the first, a watch
\* is booked at most once for each fault and for each DECLINE or reserve_now it was sent.
Risky(w) == {j \in DOMAIN jobs :
               jobs[j].watch = w /\ jobs[j].type \in {"DECLINE", "RESERVE_NOW"}}

BookingsAreBounded == \A w \in Watches : booked[w] <= 1 + faults + Cardinality(Risky(w))

\* Nothing is booked unasked: a watch that is not AUTO has been booked at most once for each
\* reserve_now on it and, if it is ASK, each approval (core.py process_one_watch;
\* jobs.py handlers).
Obeyed(w) ==
    {j \in DOMAIN jobs :
       /\ jobs[j].watch = w
       /\ spent[j] > 0
       /\ jobs[j].type = "RESERVE_NOW" \/ (jobs[j].type = "APPROVE" /\ row[w].mode = "ASK")}

NothingIsUnasked ==
    \A w \in Watches :
        Exists(w) /\ row[w].mode # "AUTO" => booked[w] <= Cardinality(Obeyed(w))

\* Commands are taken up in the order they were sent, and once one has been answered no
\* older one is acted on any more: a DECLINE is never overtaken by the reserve_now sent
\* after it, crash or not (db.py claim_pending_jobs, jobs.py poll_and_handle_jobs).
Answers == {"DONE", "ERROR"}

CommandsInOrder ==
    \A i, j \in DOMAIN jobs :
        i < j =>
          /\ jobs[j].status # "PENDING" => jobs[i].status # "PENDING"
          /\ jobs[j].status \in Answers => i \notin batch

\* Every reservation is for one of the times the user ranked, or for the time a
\* reserve_now on that watch named, whatever the site offered, the row held or a stale
\* toast approved (core.py pick_best_candidate; jobs.py handlers).
Acceptable == {Priority[i] : i \in DOMAIN Priority}

Wished(w, t) ==
    \/ t \in Acceptable
    \/ \E j \in DOMAIN jobs :
          jobs[j].type = "RESERVE_NOW" /\ jobs[j].watch = w /\ jobs[j].time = t

OnlyWishedTimes ==
    \A i \in DOMAIN reservations : Wished(reservations[i].watch, reservations[i].time)

-----------------------------------------------------------------------------
(* Action properties. *)

\* A watch paused for the user is left alone by everything but a command: it leaves
\* AWAITING_APPROVAL or NEEDS_HUMAN only by removal or while a job on that watch is being
\* handled, however old the due list the loop works through (db.py due_watches,
\* core.py run_due_watches).
Paused == {"AWAITING_APPROVAL", "NEEDS_HUMAN"}

Commanded(w) == \E j \in batch : Serving(j) /\ jobs[j].watch = w

LeavesPausedAlone ==
    \A w \in Watches :
        row[w].status \in Paused /\ row'[w] # row[w] =>
            row'[w].status = "REMOVED" \/ Commanded(w)

PausedIsLeftAlone == [][LeavesPausedAlone]_vars

\* What the code has instead of the claim below: a RESERVED watch stays RESERVED until it
\* is removed or a DECLINE on it is answered; no other job, stale copy, due list or
\* failed attempt revives it (jobs.py _handle_decline).
BeingDeclined(w) ==
    \E j \in batch : /\ jobs[j].type = "DECLINE"
                     /\ jobs[j].watch = w
                     /\ jobs'[j].status # jobs[j].status

StaysReserved ==
    \A w \in Watches :
        row[w].status = "RESERVED" =>
            row'[w].status \in {"RESERVED", "REMOVED"} \/ BeingDeclined(w)

ReservedUntilDeclined == [][StaysReserved]_vars

\* models.py: RESERVED is "reservation made, watch over".  The only way out is removal.
\* The code does not have this property: a late DECLINE revives the watch.
ReservedIsFinal ==
    [][\A w \in Watches :
         row[w].status = "RESERVED" => row'[w].status \in {"RESERVED", "REMOVED"}]_vars

-----------------------------------------------------------------------------
(* Liveness, under FairSpec. *)

JobStatus(j) == IF j \in DOMAIN jobs THEN jobs[j].status ELSE "NONE"

\* Whatever crashes, a queued command does not wait forever to be taken up
\* (db.py claim_pending_jobs, service.py run_forever).
JobsAreTakenUp ==
    \A j \in JobIds : (JobStatus(j) = "PENDING") ~> (JobStatus(j) # "PENDING")

\* Unless something fails every command is answered, so the MCP tool that waits for it can
\* return its result (jobs.py handle_job, db.py complete_job).
JobsAreAnswered ==
    \A j \in JobIds :
        (JobStatus(j) # "NONE") ~> (JobStatus(j) \in {"DONE", "ERROR"} \/ faults > 0)

\* An active watch whose watch_end_at has passed is not watched forever
\* (core.py process_one_watch, expiry).
EndedIsRetired ==
    \A w \in Watches :
        (w \in ended /\ row[w].status \in Active) ~> (row[w].status \notin Active)

\* A removed watch is in the end out of the loop's hands for good: what was read before
\* the removal is finished or lost, and nothing reads the watch again (server.py
\* remove_reservation_watch, db.py due_watches, jobs.py _payload_or_watch).
InHand(w) == (\E e \in due : e.watch = w) \/ (Busy /\ act.watch = w)

RemovedIsForgotten ==
    \A w \in Watches : (row[w].status = "REMOVED") ~> []~InHand(w)

\* Its safety half: a removed watch that is out of the loop's hands stays so, though jobs
\* on it may still be queued.
Forgotten(w) == row[w].status = "REMOVED" /\ ~InHand(w)

StaysForgotten == \A w \in Watches : Forgotten(w) => Forgotten(w)'

ForgottenForGood == [][StaysForgotten]_vars

-----------------------------------------------------------------------------
(* Refinement. *)

\* The rows, written by the loop, the handlers and the tools, go through the life that
\* WatchLifecycle promises, every watch its own: the job being handled is the command
\* being carried out on its watch, from the claim to the answer or the crash.
Lifecycle(w) == INSTANCE WatchLifecycle WITH
    status <- row[w].status,
    opened <- (page = "OPEN"),
    commanded <- Commanded(w)

LifecycleStep(w) == [Lifecycle(w)!Next]_(Lifecycle(w)!vars)

KeepsLifecycle ==
    /\ \A w \in Watches : Lifecycle(w)!Init
    /\ [][\A w \in Watches : LifecycleStep(w)]_vars
=============================================================================
