---------------------------- MODULE WatcherSafety ----------------------------
(* The safety invariants of the watcher, proved for every value of the constants. *)
EXTENDS WatcherInvariant, WatcherProofs

-----------------------------------------------------------------------------
(* What a step does to the tables. *)

LEMMA OutsideEffects ==
    ASSUME TypeOK, User \/ Environment
    PROVE  /\ UNCHANGED <<reservations, memory, faults, booked, spent, causes>>
           /\ DOMAIN jobs \subseteq DOMAIN jobs'
           /\ \A j \in DOMAIN jobs : jobs'[j] = jobs[j]
           /\ \A j \in DOMAIN jobs' : j \in DOMAIN jobs \/ jobs'[j].status = "PENDING"
           /\ \A w \in Watches :
                \/ row'[w] = row[w]
                \/ row'[w].status = "REMOVED"
                \/ row[w].status = "UNREGISTERED" /\ row'[w].status = "PENDING"
  <1> USE DEF memory, ghosts, world, tables
  <1>0. jobs \in Seq(Job) /\ row \in [Watches -> Row]
    BY DEF TypeOK
  <1>1. ASSUME NEW w \in Watches, NEW m \in Modes, Register(w, m)
        PROVE  row'[w].status = "PENDING"
    BY <1>0, <1>1 DEF Register, Unregistered
  <1>2. ASSUME NEW w \in Watches, Remove(w)
        PROVE  row'[w].status = "REMOVED"
    BY <1>0, <1>2 DEF Remove, Unregistered
  <1>3. ASSUME NEW w \in Watches, NEW m \in Modes, Register(w, m) \/ Remove(w)
        PROVE  /\ UNCHANGED <<jobs, reservations, memory, faults, booked, spent, causes>>
               /\ \A v \in Watches \ {w} : row'[v] = row[v]
    BY <1>0, <1>3 DEF Register, Remove
  <1>4. ASSUME NEW w \in Watches, Remove(w)
        PROVE  /\ UNCHANGED <<jobs, reservations, memory, faults, booked, spent, causes>>
               /\ \A v \in Watches \ {w} : row'[v] = row[v]
    BY <1>0, <1>4 DEF Remove
  <1>5. CASE \E w \in Watches : (\E m \in Modes : Register(w, m)) \/ Remove(w)
    BY <1>0, <1>5, <1>1, <1>2, <1>3, <1>4 DEF Register
  <1>6. ASSUME NEW type \in JobTypes, NEW w \in Watches, NEW t \in MaybeTime,
               AddJob(type, w, t)
        PROVE  /\ DOMAIN jobs \subseteq DOMAIN jobs'
               /\ \A j \in DOMAIN jobs : jobs'[j] = jobs[j]
               /\ \A j \in DOMAIN jobs' : j \in DOMAIN jobs \/ jobs'[j].status = "PENDING"
    BY <1>0, <1>6, AddJobType
  <1>7. ASSUME NEW w \in Watches, NEW type \in Commands, NEW t \in MaybeTime,
               Request(type, w, t)
        PROVE  UNCHANGED <<row, reservations, memory, faults, booked, spent, causes>>
                 /\ AddJob(type, w, t) /\ NoTime \in MaybeTime /\ type \in JobTypes
    BY <1>7, ConstantsAssumption DEF Request, MaybeTime
  <1>8. ASSUME NEW o \in toasts, NEW type \in {"APPROVE", "DECLINE"} \cap Commands,
               ClickToast(o, type)
        PROVE  UNCHANGED <<row, reservations, memory, faults, booked, spent, causes>>
                 /\ AddJob(type, o.watch, NoTime) /\ NoTime \in MaybeTime
                 /\ type \in JobTypes /\ o.watch \in Watches /\ o.time \in MaybeTime
    BY <1>8, ConstantsAssumption DEF ClickToast, MaybeTime, TypeOK
  <1>9. CASE Environment
    BY <1>9 DEF Environment, BookingOpens, SlotOpens, SlotCloses, EndPasses
  <1> QED
    BY <1>5, <1>6, <1>7, <1>8, <1>9 DEF User

LEMMA EndJobEffects ==
    ASSUME TypeOK, NEW j \in batch, NEW s \in {"DONE", "ERROR"}, EndJob(j, s)
    PROVE  /\ DOMAIN jobs' = DOMAIN jobs
           /\ jobs'[j].status = s
           /\ \A k \in DOMAIN jobs :
                /\ jobs'[k].type = jobs[k].type
                /\ jobs'[k].watch = jobs[k].watch
                /\ jobs'[k].time = jobs[k].time
                /\ k # j => jobs'[k] = jobs[k]
           /\ batch' = batch \ {j}
           /\ pc' = IF batch' = {} THEN "due" ELSE "jobs"
           /\ act' = NoAct
  <1>1. jobs \in Seq(Job) /\ j \in DOMAIN jobs /\ jobs[j] \in Job
    BY ElementOfSeq, LenProperties DEF TypeOK
  <1>2. jobs' = [jobs EXCEPT ![j].status = s]
    BY DEF EndJob
  <1>3. [jobs[j] EXCEPT !.status = s].status = s
          /\ [jobs[j] EXCEPT !.status = s].type = jobs[j].type
          /\ [jobs[j] EXCEPT !.status = s].watch = jobs[j].watch
          /\ [jobs[j] EXCEPT !.status = s].time = jobs[j].time
    BY <1>1 DEF Job
  <1> QED
    BY <1>1, <1>2, <1>3, StatusOfJob DEF EndJob

\* A handler ends its job, begins an attempt, or saves the row of a slot that is gone.
LEMMA HandleJobEffects ==
    ASSUME TypeOK, NEW j \in batch, HandleJob(j)
    PROVE  /\ pc \in {"jobs", "gone"}
           /\ Serving(j)
           /\ UNCHANGED <<reservations, due, faults, booked, spent>>
           /\ \/ \E s \in {"DONE", "ERROR"} : EndJob(j, s)
              \/ /\ UNCHANGED <<row, jobs, batch, causes>>
                 /\ pc' = "attempt"
                 /\ act'.job = j
                 /\ act'.watch = jobs[j].watch
                 /\ act'.copy = row[jobs[j].watch]
                 /\ Exists(jobs[j].watch)
              \/ UNCHANGED <<jobs, batch, causes, act>> /\ pc = "jobs" /\ pc' = "gone"
  <1> USE DEF HandleJob, Handling, Serving, tables, world, ghosts
  <1>1. CASE CheckNow(j) \/ ReserveNowRefused(j) \/ AnswerGone(j)
               \/ ApproveRefused(j) \/ Decline(j)
    BY <1>1 DEF CheckNow, ReserveNowRefused, AnswerGone, ApproveRefused, Decline
  <1>2. CASE ReserveNowStarts(j)
    BY <1>2 DEF ReserveNowStarts, BeginAttempt, MayReserveNow
  <1>3. CASE ApproveStarts(j)
    BY <1>3 DEF ApproveStarts, BeginAttempt, MayApprove, Exists
  <1>4. CASE ApproveFindsGone(j)
    BY <1>4 DEF ApproveFindsGone
  <1> QED
    BY <1>1, <1>2, <1>3, <1>4

\* A check ends, or begins an attempt or an announcement.
LEMMA ProcessEffects ==
    ASSUME TypeOK, NEW e \in due, ProcessOneWatch(e)
    PROVE  /\ pc = "cycle"
           /\ UNCHANGED <<jobs, reservations, batch, faults, booked, spent, causes>>
           /\ \/ EndCheck(e)
              \/ /\ UNCHANGED <<row, due>>
                 /\ act'.job = 0 /\ act'.watch = e.watch /\ act'.copy = e.copy
                 /\ \/ pc' = "told" /\ e.copy.mode # "AUTO"
                    \/ pc' = "attempt" /\ e.copy.mode = "AUTO"
  <1> USE DEF ProcessOneWatch, Checking, Hit, tables, world, ghosts
  <1>1. CASE Expire(e) \/ CheckBlocked(e) \/ NothingFound(e)
    BY <1>1 DEF Expire, CheckBlocked, NothingFound
  <1>2. CASE KeepWatching(e) \/ AskSilently(e)
    BY <1>2 DEF KeepWatching, AskSilently
  <1>3. CASE Announce(e)
    BY <1>3 DEF Announce
  <1>4. CASE AutoStarts(e)
    BY <1>4 DEF AutoStarts, BeginAttempt
  <1> QED
    BY <1>1, <1>2, <1>3, <1>4

\* An attempt goes on holding the same watch, copy and job.
LEMMA AttemptEffects ==
    ASSUME TypeOK, Attempt \/ ClickUnconfirmed
    PROVE  /\ Busy /\ pc # "told" /\ pc' \in {"clicked", "outcome"}
           /\ UNCHANGED <<row, jobs, batch, due>>
           /\ act'.job = act.job /\ act'.watch = act.watch
           /\ act'.time = act.time /\ act'.copy = act.copy
  <1> USE DEF Busy, tables, world, ghosts
  <1>1. CASE Click
    BY <1>1 DEF Click, Accepted
  <1>2. CASE ClickUnconfirmed
    BY <1>2, ActFields DEF ClickUnconfirmed, Accepted, Act
  <1>3. ASSUME NEW result \in Results, NotBooked(result)
        PROVE  Busy /\ pc # "told" /\ pc' \in {"clicked", "outcome"}
                 /\ UNCHANGED <<row, jobs, batch, due>>
                 /\ act'.job = act.job /\ act'.watch = act.watch
                 /\ act'.time = act.time /\ act'.copy = act.copy
    BY <1>3, ActFields DEF NotBooked, Act
  <1>4. CASE RecordReservation
    BY <1>4, ActFields DEF RecordReservation, Act
  <1> QED
    BY <1>1, <1>2, <1>3, <1>4 DEF Attempt

-----------------------------------------------------------------------------
(* The loop's memory. *)

LEMMA ShapeInit == Init => Shape
  BY DEF Init, Shape, DueWhileChecking, BatchWhileHandling, ActInHand, ToldByCycle,
         OneEntryPerWatch, DueIsActive, ActIsRegistered, BatchIsRunning, Busy

LEMMA ShapeEndJob ==
    ASSUME TypeOK, Shape, NEW j \in batch, NEW s \in {"DONE", "ERROR"}, EndJob(j, s),
           UNCHANGED due, pc \in {"jobs", "gone"} \/ (Busy /\ act.job = j)
    PROVE  Shape'
  <1>1. j # 0 /\ batch \subseteq DOMAIN jobs
    BY JobFields DEF TypeOK
  <1>2. due = {}
    BY <1>1 DEF Shape, DueWhileChecking, Busy
  <1> QED
    BY <1>1, <1>2, EndJobEffects
       DEF Shape, DueWhileChecking, BatchWhileHandling, ActInHand, ToldByCycle,
           OneEntryPerWatch, DueIsActive, ActIsRegistered, BatchIsRunning, Busy

LEMMA ShapeEndCheck ==
    ASSUME TypeOK, Shape, NEW e \in due, EndCheck(e),
           UNCHANGED <<jobs, batch>>, pc = "cycle" \/ (Busy /\ act.job = 0)
    PROVE  Shape'
  <1>1. batch = {}
    BY DEF Shape, BatchWhileHandling, Busy
  <1> QED
    BY <1>1 DEF EndCheck, Shape, DueWhileChecking, BatchWhileHandling, ActInHand,
                ToldByCycle, OneEntryPerWatch, DueIsActive, ActIsRegistered,
                BatchIsRunning, Busy

LEMMA ShapeStep ==
    ASSUME TypeOK, Shape, [Next]_vars
    PROVE  Shape'
  <1> USE DEF Busy
  <1>1. CASE User \/ Environment
    <2>1. batch \subseteq DOMAIN jobs
      BY DEF TypeOK
    <2> QED
      BY <1>1, <2>1, OutsideEffects
         DEF memory, ActRow, Shape, DueWhileChecking, BatchWhileHandling, ActInHand,
             ToldByCycle, OneEntryPerWatch, DueIsActive, ActIsRegistered, BatchIsRunning
  <1>2. CASE ClaimJobs
    <2>1. due = {} /\ pc' \in {"due", "jobs"} /\ due' = {}
            /\ (batch' = {} \/ pc' = "jobs")
      BY <1>2 DEF ClaimJobs, Shape, DueWhileChecking
    <2>2. \A j \in batch' : j \in DOMAIN jobs /\ jobs'[j].status = "RUNNING"
      BY <1>2, ClaimType DEF TypeOK
    <2> QED
      BY <2>1, <2>2 DEF Shape, DueWhileChecking, BatchWhileHandling, ActInHand,
             ToldByCycle, OneEntryPerWatch, DueIsActive, ActIsRegistered, BatchIsRunning
  <1>3. CASE ReadDue
    <2>1. batch = {} /\ batch' = {} /\ pc' \in {"loop", "cycle"}
            /\ (due' = {} \/ pc' = "cycle")
      BY <1>3 DEF ReadDue, Shape, BatchWhileHandling
    <2>2. \A e \in due' : e = [watch |-> e.watch, copy |-> row[e.watch]]
                            /\ e.copy.status \in Active
      BY <1>3 DEF ReadDue
    <2> QED
      BY <2>1, <2>2 DEF Shape, DueWhileChecking, BatchWhileHandling, ActInHand,
             ToldByCycle, OneEntryPerWatch, DueIsActive, ActIsRegistered, BatchIsRunning
  <1>4. ASSUME NEW j \in batch, HandleJob(j) PROVE Shape'
    <2>1. CASE \E s \in {"DONE", "ERROR"} : EndJob(j, s)
      BY <1>4, <2>1, HandleJobEffects, ShapeEndJob
    <2>2. CASE pc' = "attempt"
      <3>1. j # 0
        BY JobFields
      <3> QED
        BY <1>4, <2>2, <3>1, HandleJobEffects
           DEF EndJob, Exists, Shape, DueWhileChecking, BatchWhileHandling, ActInHand,
               ToldByCycle, OneEntryPerWatch, DueIsActive, ActIsRegistered, BatchIsRunning
    <2>3. CASE UNCHANGED <<jobs, batch, act, due>> /\ pc = "jobs" /\ pc' = "gone"
      BY <2>3 DEF Shape, DueWhileChecking, BatchWhileHandling, ActInHand,
               ToldByCycle, OneEntryPerWatch, DueIsActive, ActIsRegistered, BatchIsRunning
    <2> QED
      BY <1>4, <2>1, <2>2, <2>3, HandleJobEffects
  <1>5. ASSUME NEW e \in due, ProcessOneWatch(e) PROVE Shape'
    <2>1. CASE EndCheck(e)
      BY <1>5, <2>1, ProcessEffects, ShapeEndCheck
    <2>2. CASE ~EndCheck(e)
      <3>1. e = [watch |-> e.watch, copy |-> e.copy]
        BY EntryFields DEF DueEntry
      <3>2. act'.watch = e.watch /\ act'.copy = e.copy /\ due' = due /\ act'.job = 0
              /\ pc = "cycle" /\ pc' \in {"told", "attempt"} /\ batch' = batch
              /\ jobs' = jobs /\ (pc' = "told" => act'.copy.mode # "AUTO")
        BY <1>5, <2>2, ProcessEffects
      <3>3. ActRow' = e
        BY <3>1, <3>2 DEF ActRow
      <3>4. batch = {}
        BY <3>2 DEF Shape, BatchWhileHandling
      <3>5. e.copy.status \notin {"UNREGISTERED", "REMOVED"}
        BY DEF Shape, DueIsActive, Active
      <3> QED
        BY <3>2, <3>3, <3>4, <3>5
           DEF Shape, DueWhileChecking, BatchWhileHandling, ActInHand,
               ToldByCycle, OneEntryPerWatch, DueIsActive, ActIsRegistered, BatchIsRunning
    <2> QED
      BY <2>1, <2>2
  <1>6. CASE Attempt \/ ClickUnconfirmed
    BY <1>6, AttemptEffects
       DEF ActRow, Shape, DueWhileChecking, BatchWhileHandling, ActInHand,
           ToldByCycle, OneEntryPerWatch, DueIsActive, ActIsRegistered, BatchIsRunning
  <1>7. CASE SaveAnnounced \/ FinishAuto
    <2>1. ActRow \in due /\ EndCheck(ActRow) /\ UNCHANGED <<jobs, batch>>
            /\ Busy /\ act.job = 0
      BY <1>7 DEF SaveAnnounced, FinishAuto, Shape, ActInHand, ToldByCycle
    <2> QED
      BY <2>1, ShapeEndCheck
  <1>8. CASE FinishJob
    <2>1. act.job \in batch /\ EndJob(act.job, "DONE") /\ UNCHANGED due /\ Busy
      BY <1>8 DEF FinishJob, Shape, ActInHand
    <2> QED
      BY <2>1, ShapeEndJob
  <1>9. CASE StorageError
    <2>1. CASE act.job = 0 /\ EndCheck(ActRow) /\ UNCHANGED <<jobs, batch>>
      <3>1. ActRow \in due /\ Busy
        BY <1>9, <2>1 DEF StorageError, Shape, ActInHand
      <3> QED
        BY <2>1, <3>1, ShapeEndCheck
    <2>2. CASE act.job # 0 /\ EndJob(act.job, "ERROR") /\ UNCHANGED due
      <3>1. act.job \in batch /\ Busy
        BY <1>9, <2>2 DEF StorageError, Shape, ActInHand
      <3> QED
        BY <2>2, <3>1, ShapeEndJob
    <2> QED
      BY <1>9, <2>1, <2>2 DEF StorageError
  <1>10. CASE LoopAborts \/ Crash \/ Restart
    BY <1>10 DEF LoopAborts, Crash, Restart, tables, Shape, DueWhileChecking,
           BatchWhileHandling, ActInHand, ToldByCycle, OneEntryPerWatch, DueIsActive,
           ActIsRegistered, BatchIsRunning
  <1>11. CASE UNCHANGED vars
    BY <1>11 DEF vars, ActRow, Shape, DueWhileChecking, BatchWhileHandling, ActInHand,
           ToldByCycle, OneEntryPerWatch, DueIsActive, ActIsRegistered, BatchIsRunning
  <1> QED
    BY <1>1, <1>2, <1>3, <1>4, <1>5, <1>6, <1>7, <1>8, <1>9, <1>10, <1>11
       DEF Next, Loop, Finish, Faults

\* What the loop holds in memory at each of its awaits is what the code of that await
\* says: no job and no due row is in hand twice, lost, or in hand at the wrong time.
THEOREM ShapeInvariant == Spec => []Shape
  BY TypeCorrect, ShapeInit, ShapeStep, PTL DEF Spec

-----------------------------------------------------------------------------
(* Copies of rows. *)

LEMMA CopiesInit == Init => CopiesAreCurrent
  BY DEF Init, CopiesAreCurrent, Busy

\* A save to one row, made when that row's entry leaves the due list.
LEMMA CopiesEndCheck ==
    ASSUME TypeOK, Shape, CopiesAreCurrent, NEW e \in due, EndCheck(e),
           row' = row \/ (\E r : SaveRow(e.watch, r))
    PROVE  CopiesAreCurrent'
  <1>1. \A d \in due' : d \in due /\ d.watch # e.watch /\ d.watch \in Watches
    BY EntryFields DEF EndCheck, Shape, OneEntryPerWatch
  <1>2. \A d \in due' : row'[d.watch] = row[d.watch]
    BY <1>1 DEF SaveRow, TypeOK
  <1>3. ~Busy'
    BY DEF EndCheck, Busy
  <1> QED
    BY <1>1, <1>2, <1>3 DEF CopiesAreCurrent

LEMMA CopiesEndJob ==
    ASSUME TypeOK, Shape, NEW j \in batch, EndJob(j, "DONE") \/ EndJob(j, "ERROR"),
           UNCHANGED due, pc \in {"jobs", "gone"} \/ (Busy /\ act.job = j)
    PROVE  CopiesAreCurrent'
  <1>1. due' = {}
    BY JobFields DEF Shape, DueWhileChecking, Busy
  <1>2. ~Busy'
    BY DEF EndJob, Busy
  <1> QED
    BY <1>1, <1>2 DEF CopiesAreCurrent

LEMMA CopiesStep ==
    ASSUME TypeOK, Shape, CopiesAreCurrent, [Next]_vars
    PROVE  CopiesAreCurrent'
  <1> USE DEF Busy
  <1>1. CASE User \/ Environment
    <2>1. UNCHANGED <<pc, due, act>>
      BY <1>1, OutsideEffects DEF memory
    <2>2. ASSUME NEW w \in Watches, NEW copy,
                 row[w].status = "REMOVED" \/ row[w] = copy,
                 copy.status \notin {"UNREGISTERED", "REMOVED"}
          PROVE  row'[w].status = "REMOVED" \/ row'[w] = copy
      BY <1>1, <2>2, OutsideEffects
    <2>3. \A e \in due : e.watch \in Watches /\ e.copy.status \in Active
      BY EntryFields DEF Shape, DueIsActive
    <2>4. Busy => act.watch \in Watches
      BY ActFields
    <2> QED
      BY <2>1, <2>2, <2>3, <2>4 DEF CopiesAreCurrent, Active, Shape, ActIsRegistered
  <1>2. CASE ClaimJobs
    BY <1>2 DEF ClaimJobs, CopiesAreCurrent, Shape, DueWhileChecking
  <1>3. CASE ReadDue
    BY <1>3 DEF ReadDue, tables, CopiesAreCurrent
  <1>4. ASSUME NEW j \in batch, HandleJob(j) PROVE CopiesAreCurrent'
    <2>1. CASE \E s \in {"DONE", "ERROR"} : EndJob(j, s)
      BY <1>4, <2>1, HandleJobEffects, CopiesEndJob
    <2>2. CASE ~ \E s \in {"DONE", "ERROR"} : EndJob(j, s)
      <3>1. due = {}
        BY <1>4, HandleJobEffects DEF Shape, DueWhileChecking
      <3> QED
        BY <1>4, <2>2, <3>1, HandleJobEffects DEF CopiesAreCurrent
    <2> QED
      BY <2>1, <2>2
  <1>5. ASSUME NEW e \in due, ProcessOneWatch(e) PROVE CopiesAreCurrent'
    <2>1. CASE EndCheck(e)
      <3>1. row' = row \/ (\E r : SaveRow(e.watch, r))
        BY <1>5 DEF ProcessOneWatch, Expire, CheckBlocked, NothingFound, KeepWatching,
                    AskSilently, Announce, AutoStarts, tables
      <3> QED
        BY <2>1, <3>1, CopiesEndCheck
    <2>2. CASE ~EndCheck(e)
      BY <1>5, <2>2, ProcessEffects DEF CopiesAreCurrent
    <2> QED
      BY <2>1, <2>2
  <1>6. CASE Attempt \/ ClickUnconfirmed
    BY <1>6, AttemptEffects DEF CopiesAreCurrent
  <1>7. CASE SaveAnnounced \/ FinishAuto
    <2>1. ActRow \in due /\ EndCheck(ActRow) /\ ActRow.watch = act.watch
            /\ (\E r : SaveRow(act.watch, r))
      BY <1>7 DEF SaveAnnounced, FinishAuto, Shape, ActInHand, ToldByCycle, ActRow
    <2> QED
      BY <2>1, CopiesEndCheck
  <1>8. CASE FinishJob
    BY <1>8, CopiesEndJob DEF FinishJob, Shape, ActInHand
  <1>9. CASE StorageError
    <2>1. CASE act.job = 0 /\ EndCheck(ActRow) /\ UNCHANGED <<jobs, batch>>
      BY <1>9, <2>1, CopiesEndCheck DEF StorageError, Shape, ActInHand
    <2>2. CASE act.job # 0 /\ EndJob(act.job, "ERROR") /\ UNCHANGED due
      BY <1>9, <2>2, CopiesEndJob DEF StorageError, Shape, ActInHand
    <2> QED
      BY <1>9, <2>1, <2>2 DEF StorageError
  <1>10. CASE LoopAborts \/ Crash \/ Restart
    BY <1>10 DEF LoopAborts, Crash, Restart, tables, CopiesAreCurrent
  <1>11. CASE UNCHANGED vars
    BY <1>11 DEF vars, CopiesAreCurrent
  <1> QED
    BY <1>1, <1>2, <1>3, <1>4, <1>5, <1>6, <1>7, <1>8, <1>9, <1>10, <1>11
       DEF Next, Loop, Finish, Faults

\* A copy the loop decides from is its row, unless the user removed the watch: no save
\* of the loop overwrites something written after its read.
THEOREM CopiesStayCurrent == Spec => []CopiesAreCurrent
  BY TypeCorrect, ShapeInvariant, CopiesInit, CopiesStep, PTL DEF Spec

-----------------------------------------------------------------------------
(* Authorisation. *)

LEMMA AuthorisedStep ==
    ASSUME TypeOK, Shape, RowsAreBacked, AttemptsAreAuthorised, [Next]_vars
    PROVE  AttemptsAreAuthorised'
  <1> DEFINE Trying == pc \in {"attempt", "clicked", "outcome"}
  <1>a. Trying /\ act.job # 0 => act.job \in DOMAIN jobs
    BY DEF TypeOK, Shape, ActInHand, Busy
  <1>b. ASSUME Trying, act.job = 0 \/ jobs'[act.job] = jobs[act.job],
               act'.job = act.job, act'.watch = act.watch,
               act'.time = act.time, act'.copy = act.copy
        PROVE  Authorised(act)'
    BY <1>b DEF AttemptsAreAuthorised, Authorised
  <1>1. CASE User \/ Environment
    BY <1>1, <1>a, <1>b, OutsideEffects DEF memory, AttemptsAreAuthorised
  <1>2. CASE ClaimJobs \/ ReadDue \/ SaveAnnounced \/ FinishAuto \/ FinishJob
             \/ LoopAborts \/ Crash \/ Restart \/ StorageError
    BY <1>2 DEF ClaimJobs, ReadDue, SaveAnnounced, FinishAuto, FinishJob, LoopAborts,
                Crash, Restart, StorageError, EndCheck, EndJob, AttemptsAreAuthorised
  <1>3. ASSUME NEW j \in batch, HandleJob(j) PROVE AttemptsAreAuthorised'
    <2>0. j # 0 /\ jobs[j].watch \in Watches
      BY JobFields
    <2>1. CASE ReserveNowStarts(j)
      BY <2>0, <2>1 DEF ReserveNowStarts, Handling, Serving, BeginAttempt, tables,
                        AttemptsAreAuthorised, Authorised
    <2>2. CASE ApproveStarts(j)
      <3>1. row[jobs[j].watch].mode # "NOTIFY"
        BY <2>0, <2>2 DEF ApproveStarts, MayApprove, RowsAreBacked
      <3> QED
        BY <2>0, <2>2, <3>1 DEF ApproveStarts, MayApprove, Handling, Serving, BeginAttempt, tables,
                        AttemptsAreAuthorised, Authorised
    <2>3. CASE CheckNow(j) \/ ReserveNowRefused(j) \/ ApproveFindsGone(j) \/ AnswerGone(j)
                 \/ ApproveRefused(j) \/ Decline(j)
      BY <2>3 DEF CheckNow, ReserveNowRefused, ApproveFindsGone, AnswerGone, ApproveRefused,
                  Decline, EndJob, AttemptsAreAuthorised
    <2> QED
      BY <1>3, <2>1, <2>2, <2>3 DEF HandleJob
  <1>4. ASSUME NEW e \in due, ProcessOneWatch(e) PROVE AttemptsAreAuthorised'
    BY <1>4, ProcessEffects
       DEF EndCheck, AttemptsAreAuthorised, Authorised, Shape, DueIsActive
  <1>5. CASE Attempt \/ ClickUnconfirmed
    BY <1>5, <1>b, AttemptEffects DEF Busy, AttemptsAreAuthorised
  <1>6. CASE UNCHANGED vars
    BY <1>6 DEF vars, AttemptsAreAuthorised, Authorised
  <1> QED
    BY <1>1, <1>2, <1>3, <1>4, <1>5, <1>6 DEF Next, Loop, Finish, Faults

-----------------------------------------------------------------------------
(* What the rows say. *)

\* RowsAreBacked, one row at a time, for a given reservations table.
RowIsBacked(w, r, table) ==
    /\ r.status = "RESERVED" => r.reservation \in DOMAIN table
                                 /\ table[r.reservation].watch = w
    /\ r.status = "AWAITING_APPROVAL" => r.pending # NoTime /\ r.mode # "NOTIFY"

LEMMA BackedSave ==
    ASSUME TypeOK, RowsAreBacked, UNCHANGED reservations, NEW w \in Watches, NEW r,
           SaveRow(w, r), Exists(w) => RowIsBacked(w, r, reservations)
    PROVE  RowsAreBacked'
  <1>1. CASE Exists(w)
    <2>1. row \in [Watches -> Row] /\ row' = [row EXCEPT ![w] = r]
      BY <1>1 DEF SaveRow, TypeOK
    <2>2. row'[w] = r /\ \A v \in Watches \ {w} : row'[v] = row[v]
      BY <2>1
    <2> QED
      BY <1>1, <2>2 DEF RowsAreBacked, RowIsBacked
  <1>2. CASE ~Exists(w)
    BY <1>2 DEF SaveRow, RowsAreBacked
  <1> QED
    BY <1>1, <1>2

LEMMA BackedRow ==
    ASSUME TypeOK, RowsAreBacked, NEW w \in Watches
    PROVE  RowIsBacked(w, row[w], reservations)
  BY DEF RowsAreBacked, RowIsBacked

LEMMA BackedStep ==
    ASSUME TypeOK, Shape, CopiesAreCurrent, AttemptsAreAuthorised, Backed, [Next]_vars
    PROVE  Backed'
  <1> USE DEF Backed, Busy
  <1>a. RowsAreBacked /\ OutcomeIsBacked
    OBVIOUS
  <1>1. CASE User \/ Environment
    BY <1>1, OutsideEffects DEF memory, RowsAreBacked, OutcomeIsBacked
  <1>2. ASSUME NEW j \in batch, HandleJob(j) PROVE Backed'
    <2> DEFINE w == jobs[j].watch
    <2>1. pc' # "outcome" /\ UNCHANGED reservations
      BY <1>2, HandleJobEffects DEF EndJob
    <2>2. w \in Watches /\ row[w] \in Row /\ RowIsBacked(w, row[w], reservations)
      BY JobFields, BackedRow
    <2>3. CASE UNCHANGED row
      BY <2>1, <2>3 DEF RowsAreBacked, OutcomeIsBacked
    <2>4. CASE SaveRow(w, ResumedRow(row[w]))
      <3>1. RowIsBacked(w, ResumedRow(row[w]), reservations)
        BY <2>2 DEF ResumedRow, RowIsBacked, Row
      <3> QED
        BY <2>1, <2>2, <2>4, <3>1, BackedSave DEF OutcomeIsBacked
    <2>5. CASE SaveRow(w, BackToWatching(row[w]))
      <3>1. RowIsBacked(w, BackToWatching(row[w]), reservations)
        BY <2>2 DEF BackToWatching, RowIsBacked, Row
      <3> QED
        BY <2>1, <2>2, <2>5, <3>1, BackedSave DEF OutcomeIsBacked
    <2>6. CASE SaveRow(w, DeclinedRow(row[w]))
      <3>1. RowIsBacked(w, DeclinedRow(row[w]), reservations)
        BY <2>2 DEF DeclinedRow, RowIsBacked, Row
      <3> QED
        BY <2>1, <2>2, <2>6, <3>1, BackedSave DEF OutcomeIsBacked
    <2> QED
      BY <1>2, <2>3, <2>4, <2>5, <2>6
         DEF HandleJob, CheckNow, ReserveNowStarts, ReserveNowRefused, ApproveStarts,
             ApproveFindsGone, AnswerGone, ApproveRefused, Decline, tables
  <1>3. ASSUME NEW e \in due, ProcessOneWatch(e) PROVE Backed'
    <2> DEFINE w == e.watch
    <2>1. pc' # "outcome" /\ UNCHANGED reservations
      BY <1>3, ProcessEffects DEF EndCheck
    <2>2. w \in Watches /\ row[w] \in Row /\ (Exists(w) => e.copy = row[w])
      BY EntryFields DEF CopiesAreCurrent, Exists
    <2>3. CASE UNCHANGED row
      BY <2>1, <2>3 DEF RowsAreBacked, OutcomeIsBacked
    <2>4. ASSUME NEW r, SaveRow(w, r), r.status \notin {"RESERVED", "AWAITING_APPROVAL"}
          PROVE  Backed'
      BY <2>1, <2>2, <2>4, BackedSave DEF RowIsBacked, OutcomeIsBacked
    <2>5. CASE Expire(e) \/ CheckBlocked(e) \/ NothingFound(e) \/ KeepWatching(e)
      <3>1. \A s \in Status : [row[w] EXCEPT !.status = s].status = s
        BY <2>2 DEF Row
      <3>2. \A s \in Status, n, d \in MaybeTime :
                [Marked(row[w], n, d) EXCEPT !.status = s].status = s
        BY <2>2 DEF Marked, Row
      <3>3. NoTime \in MaybeTime /\ e.copy.notified \in MaybeTime
              /\ e.copy.declined \in MaybeTime
              /\ {"EXPIRED", "NEEDS_HUMAN", "WAITING_OPEN", "WATCHING"} \subseteq Status
        BY EntryFields DEF MaybeTime, Status, Active
      <3>4. CASE Expire(e)
        BY <2>4, <3>1, <3>3, <3>4 DEF Expire
      <3>5. CASE CheckBlocked(e)
        BY <2>3, <2>4, <3>1, <3>3, <3>5 DEF CheckBlocked
      <3>6. CASE NothingFound(e)
        BY <2>4, <3>2, <3>3, <3>6 DEF NothingFound
      <3>7. CASE KeepWatching(e)
        BY <2>4, <3>2, <3>3, <3>7 DEF KeepWatching
      <3> QED
        BY <2>5, <3>4, <3>5, <3>6, <3>7
    <2>6. CASE AskSilently(e)
      <3> DEFINE r == OfferedRow(row[w], Found, e.copy)
      <3>1. SaveRow(w, r) /\ Found # NoTime /\ e.copy.mode = "ASK"
        BY <2>6 DEF AskSilently, Hit
      <3>2. r.status = "AWAITING_APPROVAL" /\ r.pending = Found /\ r.mode = row[w].mode
        BY <2>2 DEF OfferedRow, Marked, Row
      <3>3. Exists(w) => RowIsBacked(w, r, reservations)
        BY <2>2, <3>1, <3>2 DEF RowIsBacked
      <3> QED
        BY <2>1, <2>2, <3>1, <3>3, BackedSave DEF OutcomeIsBacked
    <2> QED
      BY <1>3, <2>3, <2>5, <2>6 DEF ProcessOneWatch, Announce, AutoStarts, tables
  <1>4. CASE RecordReservation
    <2> DEFINE new == [watch |-> act.watch, time |-> act.time]
    <2>1. new \in Reservation /\ act \in Act
      BY <1>4, ActFields DEF RecordReservation, Reservation
    <2>2. reservations \in Seq(Reservation) /\ Len(reservations) \in Nat
            /\ DOMAIN reservations = 1..Len(reservations)
      BY LenProperties DEF TypeOK
    <2>3. /\ DOMAIN reservations' = 1..(Len(reservations) + 1)
          /\ reservations'[Len(reservations) + 1] = new
          /\ \A i \in DOMAIN reservations :
                i \in DOMAIN reservations' /\ reservations'[i] = reservations[i]
      BY <1>4, <2>1, <2>2, AppendProperties DEF RecordReservation
    <2>4. RowsAreBacked'
      BY <1>4, <2>3 DEF RecordReservation, RowsAreBacked
    <2>5. act'.reservation = Len(reservations) + 1 /\ act'.watch = act.watch
      BY <1>4, <2>1 DEF RecordReservation, Act
    <2>6. Len(reservations) + 1 \in DOMAIN reservations'
      BY <2>2, <2>3
    <2> QED
      BY <2>3, <2>4, <2>5, <2>6 DEF OutcomeIsBacked
  <1>5. CASE Click \/ ClickUnconfirmed \/ (\E result \in Results : NotBooked(result))
    <2>1. UNCHANGED reservations
      BY <1>5 DEF Click, ClickUnconfirmed, NotBooked, tables
    <2>2. UNCHANGED row
      BY <1>5 DEF Click, ClickUnconfirmed, NotBooked, tables
    <2>3. pc' = "outcome" => act'.result # "RESERVED"
      <3>1. CASE Click
        BY <3>1 DEF Click
      <3>2. CASE ClickUnconfirmed
        BY <3>2, ActFields DEF ClickUnconfirmed, Accepted, Act
      <3>3. CASE \E result \in Results : NotBooked(result)
        BY <3>3, ActFields DEF NotBooked, Act
      <3> QED
        BY <1>5, <3>1, <3>2, <3>3
    <2> QED
      BY <2>1, <2>2, <2>3 DEF RowsAreBacked, OutcomeIsBacked
  <1>6. CASE SaveAnnounced \/ FinishAuto \/ FinishJob
    <2> DEFINE w == act.watch
    <2>1. pc' # "outcome" /\ UNCHANGED reservations
      BY <1>6 DEF SaveAnnounced, FinishAuto, FinishJob, EndCheck, EndJob
    <2>2. w \in Watches /\ row[w] \in Row /\ act \in Act /\ act.time \in Times
            /\ act.time # NoTime /\ act.copy \in Row
      BY <1>6, ActFields, ConstantsAssumption DEF SaveAnnounced, FinishAuto, FinishJob
    <2>3. Exists(w) => act.copy = row[w]
      BY <1>6 DEF SaveAnnounced, FinishAuto, FinishJob, CopiesAreCurrent, Exists
    <2>4. RowIsBacked(w, row[w], reservations)
      BY <2>2, BackedRow
    <2>5. ASSUME NEW r, SaveRow(w, r), Exists(w) => RowIsBacked(w, r, reservations)
          PROVE  Backed'
      BY <2>1, <2>2, <2>5, BackedSave DEF OutcomeIsBacked
    <2>6. CASE SaveAnnounced
      <3> DEFINE r == AnnouncedRow(row[w], act.time, act.copy)
      <3>1. act.copy.mode # "AUTO"
        BY <2>6 DEF SaveAnnounced, Shape, ToldByCycle
      <3>2. r.status = "AWAITING_APPROVAL" =>
               act.copy.mode = "ASK" /\ r.pending = act.time /\ r.mode = row[w].mode
        BY <2>2 DEF AnnouncedRow, OfferedRow, Marked, Row
      <3>3. r.status # "RESERVED"
        BY <2>2 DEF AnnouncedRow, OfferedRow, Marked, Row
      <3>4. Exists(w) => RowIsBacked(w, r, reservations)
        BY <2>2, <2>3, <3>2, <3>3 DEF RowIsBacked
      <3> QED
        BY <2>5, <2>6, <3>4 DEF SaveAnnounced
    <2>7. CASE FinishAuto
      <3> DEFINE r == AutoRow(row[w], act)
      <3>1. Exists(w) => row[w].mode = "AUTO"
        BY <2>3, <2>7 DEF FinishAuto, AttemptsAreAuthorised, Authorised
      <3>2. /\ r.status = "AWAITING_APPROVAL" =>
                   r.pending = act.time /\ r.mode = row[w].mode
            /\ r.status = "RESERVED" =>
                   act.result = "RESERVED" /\ r.reservation = act.reservation
        BY <2>2 DEF AutoRow, ReservedRow, Marked, Row
      <3>3. Exists(w) => RowIsBacked(w, r, reservations)
        BY <2>2, <2>7, <3>1, <3>2, <1>a DEF FinishAuto, OutcomeIsBacked, RowIsBacked
      <3> QED
        BY <2>5, <2>7, <3>3 DEF FinishAuto
    <2>8. CASE FinishJob /\ jobs[act.job].type = "APPROVE"
      <3> DEFINE r == ApproveRow(row[w], act)
      <3>1. Exists(w) => row[w].mode # "NOTIFY" /\ row[w].pending = act.time
        BY <2>3, <2>8 DEF FinishJob, AttemptsAreAuthorised, Authorised
      <3>2. /\ r.status = "AWAITING_APPROVAL" =>
                   r.pending = row[w].pending /\ r.mode = row[w].mode
            /\ r.status = "RESERVED" =>
                   act.result = "RESERVED" /\ r.reservation = act.reservation
        BY <2>2 DEF ApproveRow, BackToWatching, ReservedRow, Row
      <3>3. Exists(w) => RowIsBacked(w, r, reservations)
        BY <2>2, <2>8, <3>1, <3>2, <1>a DEF FinishJob, OutcomeIsBacked, RowIsBacked
      <3> QED
        BY <2>5, <2>8, <3>3 DEF FinishJob
    <2>9. CASE FinishJob /\ jobs[act.job].type # "APPROVE"
      <3> DEFINE r == ReserveNowRow(row[w], act)
      <3>1. CASE act.result = "RESERVED"
        <4>1. r.status = "RESERVED" /\ r.reservation = act.reservation
          BY <2>2, <3>1 DEF ReserveNowRow, ReservedRow, Row
        <4>2. RowIsBacked(w, r, reservations)
          BY <2>9, <3>1, <4>1, <1>a DEF FinishJob, OutcomeIsBacked, RowIsBacked
        <4> QED
          BY <2>5, <2>9, <4>2 DEF FinishJob
      <3>2. CASE act.result # "RESERVED"
        BY <2>4, <2>5, <2>9, <3>2 DEF FinishJob, ReserveNowRow
      <3> QED
        BY <3>1, <3>2
    <2> QED
      BY <1>6, <2>6, <2>7, <2>8, <2>9
  <1>7. CASE ClaimJobs \/ ReadDue \/ StorageError \/ LoopAborts \/ Crash \/ Restart
    BY <1>7 DEF ClaimJobs, ReadDue, StorageError, LoopAborts, Crash, Restart, EndCheck,
                EndJob, tables, RowsAreBacked, OutcomeIsBacked
  <1>8. CASE UNCHANGED vars
    BY <1>8 DEF vars, RowsAreBacked, OutcomeIsBacked
  <1> QED
    BY <1>1, <1>2, <1>3, <1>4, <1>5, <1>6, <1>7, <1>8
       DEF Next, Loop, Attempt, Finish, Faults

LEMMA AuthorisedAndBackedInit == Init => AttemptsAreAuthorised /\ Backed
  BY DEF Init, AttemptsAreAuthorised, Backed, RowsAreBacked, OutcomeIsBacked, Unregistered

\* Every attempt is authorised by the mode of its watch or by a command, and what the
\* rows tell the user is true; each of the two facts is needed to keep the other.
THEOREM AuthorisedAndBacked == Spec => [](AttemptsAreAuthorised /\ Backed)
  <1>1. TypeOK /\ Shape /\ CopiesAreCurrent /\ AttemptsAreAuthorised /\ Backed /\ [Next]_vars
          => (AttemptsAreAuthorised /\ Backed)'
    BY AuthorisedStep, BackedStep DEF Backed
  <1> QED
    BY TypeCorrect, ShapeInvariant, CopiesStayCurrent, AuthorisedAndBackedInit, <1>1, PTL
       DEF Spec

\* The loop books on its own for AUTO watches only; an approval books the time pending
\* on a watch awaiting approval; reserve_now books the time it was given.
THEOREM AttemptsAuthorised == Spec => []AttemptsAreAuthorised
  BY AuthorisedAndBacked, PTL

\* A RESERVED row points at a reservation of its watch; a row awaiting approval holds a
\* time to approve and is not a NOTIFY watch.
THEOREM RowsBacked == Spec => []RowsAreBacked
  <1>1. AttemptsAreAuthorised /\ Backed => RowsAreBacked
    BY DEF Backed
  <1> QED
    BY AuthorisedAndBacked, <1>1, PTL

-----------------------------------------------------------------------------
(* One booking per job. *)

LEMMA UnspentInit == Init => Unspent
  BY DEF Init, Unspent

LEMMA UnspentKept ==
    ASSUME Unspent, UNCHANGED spent, \A j \in JobIds : InFront(j)' => InFront(j)
    PROVE  Unspent'
  BY DEF Unspent

LEMMA UnspentEndJob ==
    ASSUME TypeOK, Shape, Unspent, UNCHANGED spent,
           NEW j \in batch, NEW s \in {"DONE", "ERROR"}, EndJob(j, s),
           pc \in {"jobs", "gone"} \/ (Busy /\ act.job = j)
    PROVE  Unspent'
  <1>1. ASSUME NEW k \in JobIds, InFront(k)' PROVE InFront(k)
    <2>1. CASE k \notin DOMAIN jobs
      BY <2>1 DEF InFront
    <2>2. CASE k \in DOMAIN jobs /\ jobs'[k].status = "PENDING"
      BY <2>2, EndJobEffects DEF InFront
    <2>3. CASE k \in batch'
      BY <2>3, EndJobEffects DEF InFront, Busy
    <2> QED
      BY <1>1, <2>1, <2>2, <2>3, EndJobEffects DEF InFront
  <1> QED
    BY <1>1, UnspentKept

LEMMA UnspentStep ==
    ASSUME TypeOK, Shape, Unspent, [Next]_vars
    PROVE  Unspent'
  <1>a. batch \subseteq DOMAIN jobs
    BY DEF TypeOK
  <1>1. CASE User \/ Environment
    <2>1. ASSUME NEW j \in JobIds, InFront(j)' PROVE InFront(j)
      BY <1>1, <1>a, <2>1, OutsideEffects DEF memory, InFront
    <2> QED
      BY <1>1, <2>1, UnspentKept, OutsideEffects
  <1>2. CASE ClaimJobs
    <2>1. batch = {} /\ UNCHANGED spent
      BY <1>2 DEF ClaimJobs, Shape, BatchWhileHandling, Busy, ghosts
    <2>2. ASSUME NEW j \in JobIds, InFront(j)' PROVE InFront(j)
      BY <1>2, <2>1, <2>2, ClaimType DEF InFront, TypeOK
    <2> QED
      BY <2>1, <2>2, UnspentKept
  <1>3. ASSUME NEW j \in batch, HandleJob(j) PROVE Unspent'
    <2>1. CASE \E s \in {"DONE", "ERROR"} : EndJob(j, s)
      BY <1>3, <2>1, HandleJobEffects, UnspentEndJob
    <2>2. CASE UNCHANGED <<jobs, batch>>
      <3>1. ASSUME NEW k \in JobIds, InFront(k)' PROVE InFront(k)
        BY <1>3, <2>2, <3>1, HandleJobEffects DEF InFront
      <3> QED
        BY <1>3, <3>1, UnspentKept, HandleJobEffects
    <2> QED
      BY <1>3, <2>1, <2>2, HandleJobEffects
  <1>4. ASSUME NEW e \in due, ProcessOneWatch(e) PROVE Unspent'
    <2>1. ASSUME NEW k \in JobIds, InFront(k)' PROVE InFront(k)
      BY <1>4, <2>1, ProcessEffects DEF InFront
    <2> QED
      BY <1>4, <2>1, UnspentKept, ProcessEffects
  <1>5. CASE Accepted /\ (Click \/ ClickUnconfirmed)
    <2>1. pc = "attempt" /\ pc' \in {"clicked", "outcome"} /\ UNCHANGED <<jobs, batch>>
            /\ act'.job = act.job
      BY <1>5, AttemptEffects DEF Accepted, Attempt
    <2>2. spent' = [j \in JobIds |-> IF j = act.job THEN spent[j] + 1 ELSE spent[j]]
            /\ spent \in [JobIds -> Nat]
      BY <1>5 DEF Accepted, TypeOK
    <2>3. ASSUME NEW k \in JobIds, k = act.job PROVE InFront(k) /\ ~InFront(k)'
      <3>1. k \in batch /\ jobs[k].status = "RUNNING" /\ k \in DOMAIN jobs
        BY <1>a, <2>1, <2>3 DEF Shape, ActInHand, BatchIsRunning, Busy, JobIds
      <3> QED
        BY <2>1, <2>3, <3>1 DEF InFront
    <2>4. ASSUME NEW k \in JobIds, InFront(k)' PROVE InFront(k) /\ k # act.job
      BY <2>1, <2>3, <2>4 DEF InFront
    <2> QED
      BY <2>2, <2>3, <2>4 DEF Unspent
  <1>6. CASE RecordReservation \/ (\E result \in Results : NotBooked(result))
    <2>1. UNCHANGED spent /\ (pc = "clicked" \/ pc' = "outcome")
      BY <1>6 DEF RecordReservation, NotBooked, ghosts
    <2>2. UNCHANGED <<jobs, batch>> /\ act'.job = act.job /\ pc' \in {"clicked", "outcome"}
      BY <1>6, AttemptEffects DEF Attempt
    <2>3. ASSUME NEW k \in JobIds, InFront(k)' PROVE InFront(k)
      BY <2>2, <2>3 DEF InFront
    <2> QED
      BY <2>1, <2>3, UnspentKept
  <1>7. CASE SaveAnnounced \/ FinishAuto \/ ReadDue
    <2>1. UNCHANGED <<jobs, batch, spent>> /\ (batch = {} \/ pc' # "outcome")
      BY <1>7 DEF SaveAnnounced, FinishAuto, ReadDue, tables, ghosts, EndCheck
    <2>2. batch = {}
      BY <1>7 DEF SaveAnnounced, FinishAuto, ReadDue, Shape, BatchWhileHandling, Busy,
                  ToldByCycle
    <2>3. ASSUME NEW k \in JobIds, InFront(k)' PROVE InFront(k)
      BY <2>1, <2>2, <2>3 DEF InFront
    <2> QED
      BY <2>1, <2>3, UnspentKept
  <1>8. CASE FinishJob
    <2>1. act.job \in batch /\ EndJob(act.job, "DONE") /\ Busy /\ UNCHANGED spent
      BY <1>8 DEF FinishJob, Shape, ActInHand, Busy, ghosts
    <2> QED
      BY <2>1, UnspentEndJob
  <1>9. CASE StorageError
    <2>1. CASE act.job = 0 /\ UNCHANGED <<jobs, batch>>
      <3>1. batch = {} /\ UNCHANGED spent
        BY <1>9, <2>1 DEF StorageError, Shape, BatchWhileHandling, Busy
      <3>2. ASSUME NEW k \in JobIds, InFront(k)' PROVE InFront(k)
        BY <2>1, <3>1, <3>2 DEF InFront
      <3> QED
        BY <3>1, <3>2, UnspentKept
    <2>2. CASE act.job # 0 /\ EndJob(act.job, "ERROR")
      <3>1. act.job \in batch /\ Busy /\ UNCHANGED spent
        BY <1>9, <2>2 DEF StorageError, Shape, ActInHand, Busy
      <3> QED
        BY <2>2, <3>1, UnspentEndJob
    <2> QED
      BY <1>9, <2>1, <2>2 DEF StorageError
  <1>10. CASE LoopAborts \/ Crash \/ Restart
    <2>1. UNCHANGED <<jobs, spent>> /\ batch' = {}
      <3>1. CASE LoopAborts
        BY <3>1 DEF LoopAborts, tables, ghosts, Shape, BatchWhileHandling, Busy
      <3>2. CASE Crash
        BY <3>2 DEF Crash, tables
      <3>3. CASE Restart
        BY <3>3 DEF Restart, tables, ghosts, Shape, BatchWhileHandling, Busy
      <3> QED
        BY <1>10, <3>1, <3>2, <3>3
    <2>2. ASSUME NEW k \in JobIds, InFront(k)' PROVE InFront(k)
      BY <2>1, <2>2 DEF InFront
    <2> QED
      BY <2>1, <2>2, UnspentKept
  <1>11. CASE UNCHANGED vars
    BY <1>11 DEF vars, Unspent, InFront
  <1> QED
    BY <1>1, <1>2, <1>3, <1>4, <1>5, <1>6, <1>7, <1>8, <1>9, <1>10, <1>11
       DEF Next, Loop, Attempt, Finish, Faults, Click, ClickUnconfirmed

\* A job that can still come to an attempt has not booked.
THEOREM UnspentInvariant == Spec => []Unspent
  BY TypeCorrect, ShapeInvariant, UnspentInit, UnspentStep, PTL DEF Spec

\* A command books at most once: a job is claimed once, and only a job in the claimed
\* batch that has not clicked yet can come to an attempt.
THEOREM OncePerJob == Spec => []AtMostOncePerJob
  <1>1. Unspent => AtMostOncePerJob
    BY DEF Unspent, AtMostOncePerJob
  <1> QED
    BY UnspentInvariant, <1>1, PTL

-----------------------------------------------------------------------------
(* Bookings and their causes. *)

LEMMA BudgetInit == Init => Budget
  BY DEF Init, Budget, SurplusHasCause, OutOfReach

LEMMA BudgetNumbers ==
    ASSUME TypeOK, Budget, NEW w \in Watches
    PROVE  /\ booked[w] \in Nat /\ causes[w] \in Nat
           /\ booked[w] <= causes[w] + 1
           /\ OutOfReach(w) \/ booked[w] <= causes[w]
  BY DEF TypeOK, Budget, SurplusHasCause

\* Steps that book nothing and after which nothing is held.
LEMMA BudgetRelease ==
    ASSUME TypeOK, Budget, UNCHANGED booked, due' \subseteq due,
           causes' \in [Watches -> Nat],
           pc' \notin {"attempt", "clicked", "outcome"},
           \A w \in Watches : causes[w] <= causes'[w],
           \A w \in Watches :
              OutOfReach(w) => \/ row'[w].status \in {"RESERVED", "REMOVED"}
                               \/ causes'[w] = causes[w] + 1,
           \A e \in due' : Holding(e.watch) => causes'[e.watch] = causes[e.watch] + 1
    PROVE  Budget'
  <1>1. \A w \in Watches : ~Holding(w)'
    BY DEF Holding
  <1>2. SurplusHasCause'
    BY BudgetNumbers DEF TypeOK, SurplusHasCause
  <1>3. ASSUME NEW w \in Watches
        PROVE  OutOfReach(w)' \/ booked'[w] <= causes'[w]
    <2>1. booked[w] \in Nat /\ causes[w] \in Nat /\ causes'[w] \in Nat
            /\ booked[w] <= causes[w] + 1 /\ booked'[w] = booked[w]
      BY BudgetNumbers
    <2>2. CASE OutOfReach(w)
      BY <2>1, <2>2 DEF OutOfReach
    <2>3. CASE ~OutOfReach(w)
      <3>1. booked[w] <= causes[w] /\ causes[w] <= causes'[w]
        BY <2>3, BudgetNumbers
      <3> QED
        BY <2>1, <3>1
    <2> QED
      BY <2>2, <2>3
  <1>4. ASSUME NEW e \in due'
        PROVE  booked'[e.watch] <= causes'[e.watch]
    <2>1. e \in due /\ e.watch \in Watches
      BY EntryFields
    <2>2. Holding(e.watch) \/ booked[e.watch] <= causes[e.watch]
      BY <2>1 DEF Budget
    <2> QED
      BY <2>1, <2>2, BudgetNumbers DEF TypeOK
  <1> QED
    BY <1>2, <1>3, <1>4 DEF Budget

\* The site accepts: booked grows by one for the watch of the attempt.
LEMMA BookedOnce ==
    ASSUME TypeOK, Accepted
    PROVE  /\ act.watch \in Watches
           /\ booked'[act.watch] = booked[act.watch] + 1
           /\ \A w \in Watches \ {act.watch} : booked'[w] = booked[w]
  BY ActFields DEF Accepted, TypeOK, Busy

LEMMA BudgetClick ==
    ASSUME TypeOK, Shape, CopiesAreCurrent, Budget, Click
    PROVE  Budget'
  <1> DEFINE w == act.watch
  <1>1. /\ pc = "attempt" /\ pc' = "clicked" /\ UNCHANGED <<row, due, act>>
        /\ w \in Watches /\ act.copy \in Row
    BY ActFields DEF Click, Accepted, Busy, tables
  <1>2. /\ booked'[w] = booked[w] + 1
        /\ \A v \in Watches \ {w} : booked'[v] = booked[v]
    BY BookedOnce DEF Click
  <1>3. /\ causes'[w] = IF act.copy.status = "RESERVED" THEN causes[w] + 1 ELSE causes[w]
        /\ \A v \in Watches \ {w} : causes'[v] = causes[v]
    BY <1>1 DEF Click, TypeOK
  <1>4. Holding(w)' /\ \A v \in Watches : ~Holding(v)
    BY <1>1 DEF Holding
  <1>5. SurplusHasCause'
    BY <1>1, <1>2, <1>3, BudgetNumbers DEF Budget, SurplusHasCause
  <1>6. \A v \in Watches : OutOfReach(v)' \/ booked'[v] <= causes'[v]
    BY <1>1, <1>2, <1>3, <1>4, BudgetNumbers DEF OutOfReach
  <1>7. \A e \in due' : Holding(e.watch)' \/ booked'[e.watch] <= causes'[e.watch]
    BY <1>1, <1>2, <1>3, <1>4, EntryFields DEF Budget
  <1> QED
    BY <1>1, <1>5, <1>6, <1>7 DEF Budget

LEMMA BudgetClickUnconfirmed ==
    ASSUME TypeOK, Shape, CopiesAreCurrent, Budget, ClickUnconfirmed
    PROVE  Budget'
  <1> DEFINE w == act.watch
  <1>1. /\ pc = "attempt" /\ pc' = "outcome" /\ UNCHANGED <<row, due>>
        /\ act'.watch = w /\ w \in Watches /\ act'.result # "RESERVED"
    BY ActFields DEF ClickUnconfirmed, Accepted, Busy, tables, Act
  <1>2. /\ booked'[w] = booked[w] + 1
        /\ \A v \in Watches \ {w} : booked'[v] = booked[v]
    BY BookedOnce DEF ClickUnconfirmed
  <1>3. /\ causes'[w] = causes[w] + 1
        /\ \A v \in Watches \ {w} : causes'[v] = causes[v]
    BY <1>1 DEF ClickUnconfirmed, TypeOK
  <1>4. \A v \in Watches : ~Holding(v)
    BY <1>1 DEF Holding
  <1>5. SurplusHasCause'
    BY <1>1, <1>2, <1>3, BudgetNumbers DEF Budget, SurplusHasCause
  <1>6. \A v \in Watches : OutOfReach(v)' \/ booked'[v] <= causes'[v]
    BY <1>1, <1>2, <1>3, <1>4, BudgetNumbers DEF OutOfReach
  <1>7. ASSUME NEW e \in due
        PROVE  booked'[e.watch] <= causes'[e.watch]
    <2>1. e.watch \in Watches /\ booked[e.watch] <= causes[e.watch]
      BY <1>4, EntryFields DEF Budget
    <2> QED
      BY <1>2, <1>3, <2>1, BudgetNumbers
  <1> QED
    BY <1>1, <1>5, <1>6, <1>7 DEF Budget

\* A save to the row of the attempt or of the due entry being processed.
LEMMA BudgetSave ==
    ASSUME TypeOK, NEW w \in Watches, NEW r, SaveRow(w, r),
           row[w].status = "RESERVED" => r.status = "RESERVED",
           Holding(w) => r.status = "RESERVED",
           Holding(w) => row[w].status # "UNREGISTERED",
           pc \in {"clicked", "outcome"} => act.watch = w
    PROVE  \A v \in Watches :
              OutOfReach(v) => row'[v].status \in {"RESERVED", "REMOVED"}
  <1>1. \A v \in Watches : v # w => ~Holding(v) /\ row'[v] = row[v]
    BY DEF Holding, SaveRow, TypeOK
  <1>2. CASE Exists(w)
    <2>1. row'[w] = r
      BY <1>2 DEF SaveRow, TypeOK
    <2> QED
      BY <1>1, <1>2, <2>1 DEF OutOfReach, Exists
  <1>3. CASE ~Exists(w)
    <2>1. row' = row
      BY <1>3 DEF SaveRow
    <2> QED
      BY <1>1, <1>3, <2>1 DEF OutOfReach, Exists
  <1> QED
    BY <1>2, <1>3

LEMMA BudgetHandleJob ==
    ASSUME TypeOK, Shape, Budget, NEW j \in batch, HandleJob(j)
    PROVE  Budget'
  <1> DEFINE w == jobs[j].watch
  <1>1. /\ pc \in {"jobs", "gone"} /\ UNCHANGED <<due, booked>> /\ due = {}
        /\ w \in Watches /\ row[w] \in Row /\ j # 0
    BY HandleJobEffects, JobFields DEF Shape, DueWhileChecking, Busy
  <1>2. \A v \in Watches : ~Holding(v)
    BY <1>1 DEF Holding
  <1>3. CASE ReserveNowStarts(j) \/ ApproveStarts(j)
    <2>1. /\ UNCHANGED <<row, causes>> /\ pc' = "attempt"
          /\ act'.watch = w /\ act'.copy = row[w] /\ Exists(w)
      BY <1>3 DEF ReserveNowStarts, ApproveStarts, BeginAttempt, MayReserveNow, MayApprove,
                  Exists, tables, ghosts
    <2>2. \A v \in Watches : ~Holding(v)'
      BY <2>1 DEF Holding
    <2>3. row[w].status # "RESERVED" => booked[w] <= causes[w]
      BY <1>1, <1>2, <2>1 DEF Budget, OutOfReach, Exists
    <2> QED
      BY <1>1, <1>2, <2>1, <2>2, <2>3 DEF Budget, SurplusHasCause, OutOfReach
  <1>4. ASSUME EndJob(j, "DONE") \/ EndJob(j, "ERROR") \/ pc' = "gone", UNCHANGED causes,
               \A v \in Watches : row[v].status \in {"RESERVED", "REMOVED"}
                                     => row'[v].status \in {"RESERVED", "REMOVED"}
        PROVE  Budget'
    <2>1. pc' \in {"jobs", "due", "gone"} /\ causes \in [Watches -> Nat]
      BY <1>4 DEF EndJob, TypeOK
    <2>2. \A v \in Watches : causes[v] <= causes'[v]
      BY <1>4, <2>1
    <2> QED
      BY <1>1, <1>2, <1>4, <2>1, <2>2, BudgetRelease DEF OutOfReach
  <1>5. ASSUME NEW r, SaveRow(w, r), row[w].status = "RESERVED" => r.status = "RESERVED"
        PROVE  \A v \in Watches : row[v].status \in {"RESERVED", "REMOVED"}
                                     => row'[v].status \in {"RESERVED", "REMOVED"}
    BY <1>1, <1>2, <1>5, BudgetSave DEF OutOfReach
  <1>6. CASE CheckNow(j)
    <2>1. row[w].status = "RESERVED" => ResumedRow(row[w]).status = "RESERVED"
      BY DEF ResumedRow
    <2> QED
      BY <1>4, <1>5, <1>6, <2>1 DEF CheckNow, ghosts
  <1>7. CASE ReserveNowRefused(j) \/ ApproveRefused(j) \/ AnswerGone(j)
    BY <1>4, <1>7 DEF ReserveNowRefused, ApproveRefused, AnswerGone, ghosts
  <1>8. CASE ApproveFindsGone(j)
    <2>1. row[w].status # "RESERVED"
      BY <1>8 DEF ApproveFindsGone, MayApprove
    <2> QED
      BY <1>4, <1>5, <1>8, <2>1 DEF ApproveFindsGone, ghosts
  <1>9. CASE Decline(j)
    <2>1. /\ SaveRow(w, DeclinedRow(row[w])) /\ EndJob(j, "DONE")
          /\ causes' = IF row[w].status = "RESERVED" THEN [causes EXCEPT ![w] = @ + 1]
                                                     ELSE causes
      BY <1>9 DEF Decline
    <2>2. CASE row[w].status # "RESERVED"
      BY <1>4, <1>5, <2>1, <2>2
    <2>3. CASE row[w].status = "RESERVED"
      <3>1. causes' \in [Watches -> Nat] /\ causes'[w] = causes[w] + 1
              /\ \A v \in Watches \ {w} : causes'[v] = causes[v]
        BY <1>1, <2>1, <2>3 DEF TypeOK
      <3>2. ASSUME NEW v \in Watches PROVE causes[v] <= causes'[v]
        <4>1. causes[v] \in Nat
          BY DEF TypeOK
        <4> QED
          BY <3>1, <4>1
      <3>3. \A v \in Watches \ {w} : row'[v] = row[v]
        BY <2>1 DEF SaveRow, TypeOK
      <3>4. pc' \in {"jobs", "due"}
        BY <2>1 DEF EndJob
      <3> QED
        BY <1>1, <1>2, <3>1, <3>2, <3>3, <3>4, BudgetRelease DEF OutOfReach
    <2> QED
      BY <2>2, <2>3
  <1> QED
    BY <1>3, <1>6, <1>7, <1>8, <1>9 DEF HandleJob

LEMMA BudgetProcess ==
    ASSUME TypeOK, Shape, CopiesAreCurrent, Budget, NEW e \in due, ProcessOneWatch(e)
    PROVE  Budget'
  <1> DEFINE w == e.watch
  <1>1. pc = "cycle" /\ UNCHANGED <<booked, causes>> /\ causes \in [Watches -> Nat]
    BY ProcessEffects DEF TypeOK
  <1>2. \A v \in Watches : ~Holding(v)
    BY <1>1 DEF Holding
  <1>3. w \in Watches /\ (row[w].status \in Active \/ row[w].status = "REMOVED")
    BY EntryFields DEF CopiesAreCurrent, Shape, DueIsActive
  <1>4. CASE EndCheck(e)
    <2>1. row' = row \/ (\E r : SaveRow(w, r))
      BY DEF ProcessOneWatch, Expire, CheckBlocked, NothingFound, KeepWatching,
             AskSilently, Announce, AutoStarts, tables
    <2>2. \A v \in Watches : row[v].status \in {"RESERVED", "REMOVED"} => row'[v] = row[v]
      BY <1>3, <2>1 DEF SaveRow, Exists, Active, TypeOK
    <2>3. due' \subseteq due /\ pc' \in {"loop", "cycle"}
      BY <1>4 DEF EndCheck
    <2>4. \A v \in Watches : causes[v] <= causes'[v]
      BY <1>1
    <2>5. \A d \in due' : ~Holding(d.watch)
      BY <1>2, <2>3, EntryFields
    <2> QED
      BY <1>1, <1>2, <2>2, <2>3, <2>4, <2>5, BudgetRelease DEF OutOfReach
  <1>5. CASE ~EndCheck(e)
    <2>1. UNCHANGED <<row, due>> /\ act'.watch = w /\ pc' \in {"told", "attempt"}
      BY <1>5, ProcessEffects
    <2>2. \A v \in Watches : ~Holding(v)'
      BY <2>1 DEF Holding
    <2>3. booked[w] <= causes[w]
      BY <1>2, <1>3 DEF Budget
    <2> QED
      BY <1>1, <1>2, <2>1, <2>2, <2>3, EntryFields DEF Budget, SurplusHasCause, OutOfReach
  <1> QED
    BY <1>4, <1>5

LEMMA BudgetNotBooked ==
    ASSUME TypeOK, Budget, NEW result \in Results, NotBooked(result)
    PROVE  Budget'
  <1>1. /\ pc = "attempt" /\ pc' = "outcome" /\ UNCHANGED <<row, due, booked, causes>>
        /\ act'.result # "RESERVED"
    BY ActFields DEF NotBooked, Busy, tables, ghosts, Act
  <1>2. \A v \in Watches : ~Holding(v) /\ ~Holding(v)'
    BY <1>1 DEF Holding
  <1> QED
    BY <1>1, <1>2, EntryFields DEF Budget, SurplusHasCause, OutOfReach

LEMMA BudgetRecord ==
    ASSUME TypeOK, Budget, RecordReservation
    PROVE  Budget'
  <1>1. /\ pc = "clicked" /\ pc' = "outcome" /\ UNCHANGED <<row, due, booked, causes>>
        /\ act'.result = "RESERVED" /\ act'.watch = act.watch
    BY ActFields DEF RecordReservation, Busy, ghosts, Act
  <1>2. \A v \in Watches : Holding(v) <=> Holding(v)'
    BY <1>1 DEF Holding
  <1> QED
    BY <1>1, <1>2, EntryFields DEF Budget, SurplusHasCause, OutOfReach

LEMMA BudgetFinish ==
    ASSUME TypeOK, Shape, CopiesAreCurrent, AttemptsAreAuthorised, Budget, Finish
    PROVE  Budget'
  <1> DEFINE w == act.watch
  <1>1. /\ Busy /\ w \in Watches /\ row[w] \in Row /\ act \in Act
        /\ UNCHANGED <<booked, causes>> /\ causes \in [Watches -> Nat]
        /\ (pc = "told" \/ pc = "outcome")
    BY ActFields DEF Finish, SaveAnnounced, FinishAuto, FinishJob, Busy, ghosts, TypeOK
  <1>2. pc' \notin {"attempt", "clicked", "outcome"} /\ due' \subseteq due
    BY DEF Finish, SaveAnnounced, FinishAuto, FinishJob, EndCheck, EndJob
  <1>3. (row[w] = act.copy \/ row[w].status = "REMOVED") /\ row[w].status # "UNREGISTERED"
    BY <1>1 DEF CopiesAreCurrent, Shape, ActIsRegistered
  <1>4. Holding(w) => act.result = "RESERVED" /\ pc = "outcome"
    BY <1>1 DEF Holding
  <1>5. \A e \in due' : ~Holding(e.watch)
    <2>1. CASE SaveAnnounced
      BY <2>1 DEF SaveAnnounced, Holding
    <2>2. CASE FinishAuto
      <3>1. ActRow \in due /\ due' = due \ {ActRow} /\ ActRow.watch = w
        BY <2>2 DEF FinishAuto, EndCheck, Shape, ActInHand, Busy, ActRow
      <3> QED
        BY <3>1 DEF Shape, OneEntryPerWatch, Holding
    <2>3. CASE FinishJob
      BY <2>3 DEF FinishJob, Shape, DueWhileChecking, Busy
    <2> QED
      BY <2>1, <2>2, <2>3 DEF Finish
  <1>6. ASSUME NEW r, SaveRow(w, r), row[w].status = "RESERVED" => r.status = "RESERVED",
               Holding(w) => r.status = "RESERVED"
        PROVE  Budget'
    <2>1. \A v \in Watches : OutOfReach(v) => row'[v].status \in {"RESERVED", "REMOVED"}
      BY <1>1, <1>3, <1>6, BudgetSave
    <2>2. \A v \in Watches : causes[v] <= causes'[v]
      BY <1>1
    <2> QED
      BY <1>1, <1>2, <1>5, <2>1, <2>2, BudgetRelease
  <1>7. CASE SaveAnnounced
    <2>1. SaveRow(w, AnnouncedRow(row[w], act.time, act.copy)) /\ ~Holding(w)
      BY <1>7 DEF SaveAnnounced, Holding
    <2>2. row[w].status # "RESERVED"
      <3>1. ActRow \in due /\ ActRow.copy = act.copy
        BY <1>7 DEF SaveAnnounced, Shape, ActInHand, ToldByCycle, Busy, ActRow
      <3> QED
        BY <1>3, <3>1 DEF Shape, DueIsActive, Active
    <2> QED
      BY <1>6, <2>1, <2>2
  <1>8. CASE FinishAuto
    <2>1. row[w].status # "RESERVED"
      BY <1>3, <1>8 DEF FinishAuto, AttemptsAreAuthorised, Authorised, Active
    <2>2. SaveRow(w, AutoRow(row[w], act))
            /\ (act.result = "RESERVED" => AutoRow(row[w], act).status = "RESERVED")
      BY <1>1, <1>8 DEF FinishAuto, AutoRow, ReservedRow, Marked, Row
    <2> QED
      BY <1>4, <1>6, <2>1, <2>2
  <1>9. CASE FinishJob /\ jobs[act.job].type = "APPROVE"
    <2>1. row[w].status # "RESERVED"
      BY <1>3, <1>9 DEF FinishJob, AttemptsAreAuthorised, Authorised
    <2>2. SaveRow(w, ApproveRow(row[w], act))
            /\ (act.result = "RESERVED" => ApproveRow(row[w], act).status = "RESERVED")
      BY <1>1, <1>9 DEF FinishJob, ApproveRow, ReservedRow, Row
    <2> QED
      BY <1>4, <1>6, <2>1, <2>2
  <1>10. CASE FinishJob /\ jobs[act.job].type # "APPROVE"
    <2>1. SaveRow(w, ReserveNowRow(row[w], act))
            /\ (act.result = "RESERVED" \/ row[w].status = "RESERVED"
                   => ReserveNowRow(row[w], act).status = "RESERVED")
      BY <1>1, <1>10 DEF FinishJob, ReserveNowRow, ReservedRow, Row
    <2> QED
      BY <1>4, <1>6, <2>1
  <1> QED
    BY <1>7, <1>8, <1>9, <1>10 DEF Finish

LEMMA BudgetFaults ==
    ASSUME TypeOK, Budget, StorageError \/ Crash
    PROVE  Budget'
  <1>1. /\ Blame /\ UNCHANGED <<row, booked>> /\ due' \subseteq due
        /\ pc' \notin {"attempt", "clicked", "outcome"}
    BY DEF StorageError, Crash, EndCheck, EndJob, tables
  <1>2. causes \in [Watches -> Nat]
    BY DEF TypeOK
  <1>3. /\ causes' \in [Watches -> Nat]
        /\ \A w \in Watches : causes'[w] = IF Holding(w) THEN causes[w] + 1 ELSE causes[w]
    BY <1>1, <1>2 DEF Blame
  <1>4. \A w \in Watches : causes[w] <= causes'[w]
    BY <1>2, <1>3
  <1>5. \A e \in due' : Holding(e.watch) => causes'[e.watch] = causes[e.watch] + 1
    BY <1>1, <1>3, EntryFields
  <1> QED
    BY <1>1, <1>3, <1>4, <1>5, BudgetRelease DEF OutOfReach

LEMMA BudgetQuiet ==
    ASSUME TypeOK, Budget, ClaimJobs \/ ReadDue \/ LoopAborts \/ Restart
    PROVE  Budget'
  <1>1. /\ UNCHANGED <<row, booked, causes>> /\ causes \in [Watches -> Nat]
        /\ pc \notin {"attempt", "clicked", "outcome"}
        /\ pc' \notin {"attempt", "clicked", "outcome"}
    BY DEF ClaimJobs, ReadDue, LoopAborts, Restart, tables, ghosts, TypeOK
  <1>2. \A w \in Watches : ~Holding(w) /\ ~Holding(w)'
    BY <1>1 DEF Holding
  <1>3. \A e \in due' : e \in due \/ (e.watch \in Watches /\ row[e.watch].status \in Active)
    BY DEF ClaimJobs, ReadDue, LoopAborts, Restart
  <1>4. \A e \in due' : booked[e.watch] <= causes[e.watch]
    BY <1>2, <1>3, EntryFields DEF Budget, OutOfReach, Active
  <1> QED
    BY <1>1, <1>2, <1>4 DEF Budget, SurplusHasCause, OutOfReach

LEMMA BudgetOutside ==
    ASSUME TypeOK, Budget, (User \/ Environment) \/ UNCHANGED vars
    PROVE  Budget'
  <1>1. UNCHANGED <<pc, due, act, booked, causes>>
    BY OutsideEffects DEF memory, vars
  <1>2. \A w \in Watches : Holding(w)' <=> Holding(w)
    BY <1>1 DEF Holding
  <1>3. \A w \in Watches : OutOfReach(w) => OutOfReach(w)'
    BY <1>2, OutsideEffects DEF OutOfReach, vars
  <1> QED
    BY <1>1, <1>2, <1>3, EntryFields DEF Budget, SurplusHasCause

LEMMA BudgetStep ==
    ASSUME TypeOK, Shape, CopiesAreCurrent, AttemptsAreAuthorised, Budget, [Next]_vars
    PROVE  Budget'
  BY BudgetOutside, BudgetHandleJob, BudgetProcess, BudgetClick, BudgetClickUnconfirmed,
     BudgetNotBooked, BudgetRecord, BudgetFinish, BudgetFaults, BudgetQuiet
     DEF Next, Loop, Attempt, Faults

\* A watch is booked a second time only after a crash, a storage error, an unconfirmed
\* click, a DECLINE of a RESERVED watch or a reserve_now on one; each such event pays
\* for one surplus booking at most.
THEOREM SurplusCaused == Spec => []SurplusHasCause
  <1>1. Budget => SurplusHasCause
    BY DEF Budget
  <1> QED
    BY TypeCorrect, ShapeInvariant, CopiesStayCurrent, AttemptsAuthorised, BudgetInit,
       BudgetStep, <1>1, PTL DEF Spec

-----------------------------------------------------------------------------
(* Paused watches. *)

LEMMA ServesOldestInit == Init => ServesOldest
  BY DEF Init, ServesOldest, Busy

LEMMA ServesOldestStep ==
    ASSUME TypeOK, Shape, ServesOldest, [Next]_vars
    PROVE  ServesOldest'
  <1> USE DEF Busy, ServesOldest
  <1>1. CASE User \/ Environment
    BY <1>1, OutsideEffects DEF memory
  <1>2. ASSUME NEW j \in batch, HandleJob(j) PROVE ServesOldest'
    <2>1. \A k \in batch : j <= k
      BY <1>2, HandleJobEffects DEF Serving
    <2> QED
      BY <1>2, <2>1, HandleJobEffects DEF EndJob
  <1>3. ASSUME NEW e \in due, ProcessOneWatch(e) PROVE ServesOldest'
    BY <1>3, ProcessEffects DEF EndCheck
  <1>4. CASE Attempt \/ ClickUnconfirmed
    BY <1>4, AttemptEffects
  <1>5. CASE ClaimJobs \/ ReadDue \/ Finish \/ StorageError \/ LoopAborts \/ Crash \/ Restart
    BY <1>5 DEF ClaimJobs, ReadDue, Finish, SaveAnnounced, FinishAuto, FinishJob,
                StorageError, LoopAborts, Crash, Restart, EndCheck, EndJob
  <1>6. CASE UNCHANGED vars
    BY <1>6 DEF vars
  <1> QED
    BY <1>1, <1>2, <1>3, <1>4, <1>5, <1>6 DEF Next, Loop, Faults

\* The handlers are run one at a time, the oldest job first: the one an attempt or a save
\* is made for is the first of those in hand.
THEOREM OldestIsServed == Spec => []ServesOldest
  BY TypeCorrect, ShapeInvariant, ServesOldestInit, ServesOldestStep, PTL DEF Spec

LEMMA AttemptIsServed ==
    ASSUME TypeOK, Shape, AttemptsAreAuthorised, ServesOldest,
           pc \in {"attempt", "clicked", "outcome"}, act.job # 0
    PROVE  /\ act.job \in batch /\ Serving(act.job)
           /\ act.watch = jobs[act.job].watch
           /\ Commanded(act.watch)
  BY DEF Shape, ActInHand, Busy, AttemptsAreAuthorised, Authorised, ServesOldest, Serving,
         Commanded

LEMMA SaveChangesOneRow ==
    ASSUME TypeOK, NEW w \in Watches, NEW r, SaveRow(w, r)
    PROVE  \A v \in Watches : row'[v] # row[v] => v = w /\ Exists(w)
  BY DEF TypeOK, SaveRow

LEMMA PausedStep ==
    ASSUME TypeOK, Shape, CopiesAreCurrent, AttemptsAreAuthorised, ServesOldest,
           [Next]_vars
    PROVE  LeavesPausedAlone
  <1>1. CASE User \/ Environment
    BY <1>1, OutsideEffects DEF LeavesPausedAlone, Paused
  <1>2. ASSUME NEW j \in batch, HandleJob(j) PROVE LeavesPausedAlone
    <2> DEFINE w == jobs[j].watch
    <2>1. w \in Watches
      BY JobFields
    <2>2. Commanded(w)
      BY <1>2, HandleJobEffects DEF Commanded
    <2>3. row' = row \/ (\E r : SaveRow(w, r))
      BY <1>2 DEF HandleJob, CheckNow, ReserveNowStarts, ReserveNowRefused, ApproveStarts,
                  ApproveFindsGone, AnswerGone, ApproveRefused, Decline, tables
    <2> QED
      BY <2>1, <2>2, <2>3, SaveChangesOneRow DEF LeavesPausedAlone
  <1>3. ASSUME NEW w \in Watches, row[w].status \notin Paused,
               row' = row \/ (\E r : SaveRow(w, r))
        PROVE  LeavesPausedAlone
    BY <1>3, SaveChangesOneRow DEF LeavesPausedAlone
  <1>4. ASSUME NEW e \in due
        PROVE  e.watch \in Watches /\ row[e.watch].status \notin Paused
    BY EntryFields DEF CopiesAreCurrent, Shape, DueIsActive, Active, Paused
  <1>5. ASSUME NEW e \in due, ProcessOneWatch(e) PROVE LeavesPausedAlone
    <2>1. row' = row \/ (\E r : SaveRow(e.watch, r))
      BY <1>5 DEF ProcessOneWatch, Expire, CheckBlocked, NothingFound, KeepWatching,
                  AskSilently, Announce, AutoStarts, tables
    <2> QED
      BY <1>3, <1>4, <2>1
  <1>6. CASE SaveAnnounced \/ FinishAuto
    <2>1. ActRow \in due /\ ActRow.watch = act.watch /\ (\E r : SaveRow(act.watch, r))
      BY <1>6 DEF SaveAnnounced, FinishAuto, Shape, ActInHand, ToldByCycle, Busy, ActRow
    <2> QED
      BY <1>3, <1>4, <2>1
  <1>7. CASE FinishJob
    <2>1. act.watch \in Watches /\ \E r : SaveRow(act.watch, r)
      BY <1>7, ActFields DEF FinishJob, Busy
    <2>2. Commanded(act.watch)
      BY <1>7, AttemptIsServed DEF FinishJob
    <2> QED
      BY <2>1, <2>2, SaveChangesOneRow DEF LeavesPausedAlone
  <1>8. CASE Attempt \/ ClickUnconfirmed
    BY <1>8, AttemptEffects DEF LeavesPausedAlone
  <1>9. CASE ClaimJobs \/ ReadDue \/ StorageError \/ LoopAborts \/ Crash \/ Restart
             \/ UNCHANGED vars
    BY <1>9 DEF ClaimJobs, ReadDue, StorageError, LoopAborts, Crash, Restart, tables, vars,
                LeavesPausedAlone
  <1> QED
    BY <1>1, <1>2, <1>5, <1>6, <1>7, <1>8, <1>9 DEF Next, Loop, Finish, Faults

\* A watch that waits for the user changes only by its removal or by a command on it.
THEOREM PausedLeftAlone == Spec => PausedIsLeftAlone
  <1>1. TypeOK /\ Shape /\ CopiesAreCurrent /\ AttemptsAreAuthorised /\ ServesOldest
          /\ [Next]_vars => [LeavesPausedAlone]_vars
    BY PausedStep
  <1> QED
    BY TypeCorrect, ShapeInvariant, CopiesStayCurrent, AttemptsAuthorised, OldestIsServed,
       <1>1, PTL DEF Spec, PausedIsLeftAlone
=============================================================================
