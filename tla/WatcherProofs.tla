---------------------------- MODULE WatcherProofs ----------------------------
(* Proofs about Watcher for every value of its constants. *)
EXTENDS WatcherProperties, SequenceTheorems, TLAPS

-----------------------------------------------------------------------------
(* The operators that compute a row return rows. *)

LEMMA UnregisteredIsRow == Unregistered \in Row
  BY DEF Unregistered, Row, Status, Active, AllModes, MaybeTime

LEMMA CandidateIsTime ==
    ASSUME NEW avail \in SUBSET Times
    PROVE  Candidate(avail) \in avail \cup {NoTime}
  <1>1. CASE \E i \in DOMAIN Priority : IsFirst(i, avail)
    <2> DEFINE i == CHOOSE i \in DOMAIN Priority : IsFirst(i, avail)
    <2>1. IsFirst(i, avail)
      BY <1>1
    <2> QED
      BY <1>1, <2>1 DEF Candidate, IsFirst
  <1>2. CASE ~ \E i \in DOMAIN Priority : IsFirst(i, avail)
    BY <1>2 DEF Candidate
  <1> QED
    BY <1>1, <1>2

LEMMA FoundIsTime ==
    ASSUME TypeOK
    PROVE  Found \in MaybeTime /\ (Found # NoTime => Found \in Times /\ Found \in open)
  <1>1. open \in SUBSET Times
    BY DEF TypeOK
  <1> QED
    BY <1>1, CandidateIsTime DEF Found, MaybeTime

LEMMA RowOperators ==
    ASSUME NEW r \in Row, NEW s \in Status, NEW t \in Times,
           NEW n \in MaybeTime, NEW d \in MaybeTime, NEW c \in Row, NEW a \in Act
    PROVE  /\ [r EXCEPT !.status = s] \in Row
           /\ Marked(r, n, d) \in Row
           /\ [Marked(r, n, d) EXCEPT !.status = s] \in Row
           /\ BackToWatching(r) \in Row
           /\ DeclinedRow(r) \in Row
           /\ OfferedRow(r, t, c) \in Row
           /\ AnnouncedRow(r, t, c) \in Row
           /\ ResumedRow(r) \in Row
           /\ AutoRow(r, a) \in Row
           /\ ApproveRow(r, a) \in Row
           /\ ReserveNowRow(r, a) \in Row
  <1> USE DEF Row, Status, Active, MaybeTime
  <1>1. [r EXCEPT !.status = s] \in Row
    OBVIOUS
  <1>2. Marked(r, n, d) \in Row /\ [Marked(r, n, d) EXCEPT !.status = s] \in Row
    BY DEF Marked
  <1>3. BackToWatching(r) \in Row /\ DeclinedRow(r) \in Row /\ ResumedRow(r) \in Row
    BY DEF BackToWatching, DeclinedRow, ResumedRow
  <1>4. OfferedRow(r, t, c) \in Row /\ AnnouncedRow(r, t, c) \in Row
    BY DEF OfferedRow, AnnouncedRow, Marked
  <1>5. AutoRow(r, a) \in Row
    BY DEF AutoRow, Marked, ReservedRow, Act, Results
  <1>6. ApproveRow(r, a) \in Row /\ ReserveNowRow(r, a) \in Row
    BY DEF ApproveRow, ReserveNowRow, BackToWatching, ReservedRow, Act, Results
  <1> QED
    BY <1>1, <1>2, <1>3, <1>4, <1>5, <1>6

LEMMA SaveRowType ==
    ASSUME row \in [Watches -> Row], NEW w \in Watches, NEW r \in Row, SaveRow(w, r)
    PROVE  row' \in [Watches -> Row]
  BY DEF SaveRow

LEMMA FunctionIsSeq ==
    ASSUME NEW S, NEW n \in Nat, NEW f \in [1..n -> S]
    PROVE  f \in Seq(S) /\ Len(f) = n /\ DOMAIN f = 1..n
  <1>1. f \in Seq(S)
    BY SeqDef
  <1> QED
    BY <1>1, LenProperties

LEMMA StatusOfJob ==
    ASSUME jobs \in Seq(Job), NEW j \in DOMAIN jobs,
           NEW s \in {"PENDING", "RUNNING", "DONE", "ERROR"},
           jobs' = [jobs EXCEPT ![j].status = s]
    PROVE  /\ jobs' \in Seq(Job)
           /\ Len(jobs') = Len(jobs)
           /\ DOMAIN jobs' = DOMAIN jobs
           /\ jobs'[j] = [jobs[j] EXCEPT !.status = s]
           /\ \A k \in DOMAIN jobs : k # j => jobs'[k] = jobs[k]
  <1>1. Len(jobs) \in Nat /\ jobs \in [1..Len(jobs) -> Job] /\ DOMAIN jobs = 1..Len(jobs)
    BY LenProperties
  <1>2. [jobs[j] EXCEPT !.status = s] \in Job
    BY <1>1 DEF Job
  <1>3. jobs' \in [1..Len(jobs) -> Job]
    BY <1>1, <1>2
  <1> QED
    BY <1>1, <1>3, FunctionIsSeq

LEMMA ClaimType ==
    ASSUME jobs \in Seq(Job), ClaimJobs
    PROVE  /\ jobs' \in Seq(Job)
           /\ Len(jobs') = Len(jobs)
           /\ DOMAIN jobs' = DOMAIN jobs
           /\ batch' \subseteq DOMAIN jobs
           /\ \A j \in DOMAIN jobs :
                /\ jobs'[j].type = jobs[j].type /\ jobs'[j].watch = jobs[j].watch
                /\ jobs'[j].time = jobs[j].time
                /\ IF j \in batch'
                   THEN jobs[j].status = "PENDING" /\ jobs'[j].status = "RUNNING"
                   ELSE jobs'[j].status = jobs[j].status
  <1>1. Len(jobs) \in Nat /\ jobs \in [1..Len(jobs) -> Job] /\ DOMAIN jobs = 1..Len(jobs)
    BY LenProperties
  <1>2. batch' = Claimable /\ Claimable \subseteq Pending /\ Pending \subseteq DOMAIN jobs
    BY DEF ClaimJobs, Claimable, Pending
  <1>3. \A j \in DOMAIN jobs : [jobs[j] EXCEPT !.status = "RUNNING"] \in Job
    BY <1>1 DEF Job
  <1>4. jobs' = [j \in DOMAIN jobs |->
                  IF j \in Claimable THEN [jobs[j] EXCEPT !.status = "RUNNING"]
                                     ELSE jobs[j]]
    BY DEF ClaimJobs
  <1>5. jobs' \in [1..Len(jobs) -> Job]
    BY <1>1, <1>3, <1>4
  <1>6. \A j \in DOMAIN jobs :
          /\ jobs'[j].type = jobs[j].type /\ jobs'[j].watch = jobs[j].watch
          /\ jobs'[j].time = jobs[j].time
          /\ IF j \in batch'
             THEN jobs[j].status = "PENDING" /\ jobs'[j].status = "RUNNING"
             ELSE jobs'[j].status = jobs[j].status
    BY <1>1, <1>2, <1>4 DEF Job, Pending
  <1> QED
    BY <1>1, <1>2, <1>5, <1>6, FunctionIsSeq

LEMMA AddJobType ==
    ASSUME jobs \in Seq(Job), NEW type \in JobTypes, NEW w \in Watches,
           NEW t \in MaybeTime, AddJob(type, w, t)
    PROVE  /\ jobs' \in Seq(Job)
           /\ Len(jobs') = Len(jobs) + 1
           /\ Len(jobs') <= MaxJobs
           /\ DOMAIN jobs \subseteq DOMAIN jobs'
           /\ DOMAIN jobs' = DOMAIN jobs \cup {Len(jobs) + 1}
           /\ Len(jobs) + 1 \notin DOMAIN jobs
           /\ jobs'[Len(jobs) + 1].status = "PENDING"
           /\ \A j \in DOMAIN jobs : jobs'[j] = jobs[j]
  <1>1. Len(jobs) \in Nat /\ jobs \in [1..Len(jobs) -> Job] /\ DOMAIN jobs = 1..Len(jobs)
    BY LenProperties
  <1> DEFINE new == [type |-> type, watch |-> w, time |-> t,
                     status |-> "PENDING"]
  <1>2. new \in Job
    BY DEF Job
  <1>3. jobs' = Append(jobs, new) /\ Len(jobs) < MaxJobs
    BY DEF AddJob
  <1> QED
    BY <1>1, <1>2, <1>3, ConstantsAssumption

-----------------------------------------------------------------------------
(* Type correctness. *)

LEMMA TypeOKInit == Init => TypeOK
  <1> SUFFICES ASSUME Init PROVE TypeOK
    OBVIOUS
  <1>1. row \in [Watches -> Row]
    BY UnregisteredIsRow DEF Init
  <1>2. jobs \in Seq(Job) /\ Len(jobs) <= MaxJobs /\ reservations \in Seq(Reservation)
    BY ConstantsAssumption, EmptySeq DEF Init
  <1> QED
    BY <1>1, <1>2, ConstantsAssumption DEF Init, TypeOK

\* The user and the environment.
LEMMA TypeOKOutside ==
    ASSUME TypeOK, User \/ Environment
    PROVE  TypeOK'
  <1> USE DEF TypeOK, memory, ghosts, world, tables
  <1>1. ASSUME NEW w \in Watches, NEW m \in Modes, Register(w, m)
        PROVE  TypeOK'
    <2>1. [Unregistered EXCEPT !.mode = m, !.status = "PENDING"] \in Row
      BY UnregisteredIsRow, ConstantsAssumption DEF Row, Status, Active
    <2> QED
      BY <1>1, <2>1 DEF Register
  <1>2. ASSUME NEW w \in Watches, Remove(w)
        PROVE  TypeOK'
    <2>1. [Unregistered EXCEPT !.status = "REMOVED"] \in Row
      BY UnregisteredIsRow DEF Row, Status
    <2> QED
      BY <1>2, <2>1 DEF Remove
  <1>3. ASSUME NEW w \in Watches, NEW type \in Commands, NEW t \in MaybeTime,
               Request(type, w, t)
        PROVE  TypeOK'
    <2>1. type \in JobTypes /\ NoTime \in MaybeTime
      BY ConstantsAssumption DEF MaybeTime
    <2> QED
      BY <1>3, <2>1, AddJobType DEF Request
  <1>4. ASSUME NEW o \in toasts, NEW type \in {"APPROVE", "DECLINE"} \cap Commands,
               ClickToast(o, type)
        PROVE  TypeOK'
    <2>1. type \in JobTypes /\ NoTime \in MaybeTime /\ o.watch \in Watches
            /\ o.time \in MaybeTime
      BY ConstantsAssumption DEF MaybeTime
    <2> QED
      BY <1>4, <2>1, AddJobType DEF ClickToast
  <1>5. CASE Environment
    BY <1>5 DEF Environment, BookingOpens, SlotOpens, SlotCloses, EndPasses
  <1> QED
    BY <1>1, <1>2, <1>3, <1>4, <1>5 DEF User

LEMMA EndJobType ==
    ASSUME TypeOK, NEW j, NEW s \in {"DONE", "ERROR"}, EndJob(j, s)
    PROVE  /\ jobs' \in Seq(Job)
           /\ Len(jobs') <= MaxJobs
           /\ DOMAIN jobs' = DOMAIN jobs
           /\ batch' \subseteq DOMAIN jobs'
           /\ pc' \in {"jobs", "due"}
           /\ act' = NoAct
  <1>1. CASE j \in DOMAIN jobs
    BY <1>1, StatusOfJob DEF EndJob, TypeOK
  <1>2. CASE j \notin DOMAIN jobs
    <2>1. jobs \in [1..Len(jobs) -> Job] /\ DOMAIN jobs = 1..Len(jobs)
      BY LenProperties DEF TypeOK
    <2>2. jobs' = jobs
      BY <1>2, <2>1 DEF EndJob
    <2> QED
      BY <2>2 DEF EndJob, TypeOK
  <1> QED
    BY <1>1, <1>2

LEMMA ActType ==
    ASSUME NEW j \in 0..MaxJobs, NEW w \in Watches, NEW t \in Times, NEW c \in Row
    PROVE  [job |-> j, watch |-> w, time |-> t, copy |-> c,
            result |-> "ERROR", reservation |-> 0] \in Act
  BY DEF Act, Results

LEMMA JobFields ==
    ASSUME TypeOK, NEW j \in batch
    PROVE  /\ j \in 1..MaxJobs
           /\ j \in 0..MaxJobs
           /\ j # 0
           /\ jobs[j] \in Job
           /\ jobs[j].watch \in Watches
           /\ jobs[j].type \in JobTypes
           /\ jobs[j].time \in MaybeTime
           /\ row[jobs[j].watch] \in Row
  <1>1. j \in 1..Len(jobs) /\ Len(jobs) \in Nat /\ Len(jobs) <= MaxJobs
    BY LenProperties DEF TypeOK
  <1>2. jobs[j] \in Job
    BY <1>1, ElementOfSeq DEF TypeOK
  <1> QED
    BY <1>1, <1>2, ConstantsAssumption DEF Job, TypeOK

\* The handlers of the claimed jobs.
LEMMA TypeOKHandleJob ==
    ASSUME TypeOK, NEW j \in batch, HandleJob(j)
    PROVE  TypeOK'
  <1> DEFINE w == jobs[j].watch
  <1> USE DEF world, ghosts, tables
  <1>a. w \in Watches /\ row[w] \in Row /\ jobs[j].time \in MaybeTime /\ j \in 0..MaxJobs
    BY JobFields
  <1>1. CASE CheckNow(j)
    <2>1. ResumedRow(row[w]) \in Row
      BY <1>a, RowOperators, ActType DEF ResumedRow, Row, Status, Active
    <2>2. row' \in [Watches -> Row]
      BY <1>1, <1>a, <2>1, SaveRowType DEF CheckNow, TypeOK
    <2> QED
      BY <1>1, <2>2, EndJobType DEF CheckNow, TypeOK
  <1>2. CASE ReserveNowStarts(j)
    <2>1. jobs[j].time \in Times
      BY <1>2 DEF ReserveNowStarts, MayReserveNow, TypeOK
    <2> QED
      BY <1>2, <1>a, <2>1, ActType DEF ReserveNowStarts, BeginAttempt, TypeOK
  <1>3. CASE ReserveNowRefused(j)
    BY <1>3, EndJobType DEF ReserveNowRefused, TypeOK
  <1>4. CASE ApproveStarts(j)
    <2>1. row[w].pending \in Times
      BY <1>4 DEF ApproveStarts, TypeOK
    <2> QED
      BY <1>4, <1>a, <2>1, ActType DEF ApproveStarts, BeginAttempt, TypeOK, ghosts
  <1>5. CASE ApproveFindsGone(j)
    <2>1. BackToWatching(row[w]) \in Row
      BY <1>a DEF BackToWatching, Row, Status, Active, MaybeTime
    <2>2. row' \in [Watches -> Row]
      BY <1>5, <1>a, <2>1, SaveRowType DEF ApproveFindsGone, TypeOK
    <2> QED
      BY <1>5, <2>2 DEF ApproveFindsGone, Handling, TypeOK, ghosts
  <1>6. CASE ApproveRefused(j)
    BY <1>6, EndJobType DEF ApproveRefused, TypeOK
  <1>8. CASE AnswerGone(j)
    BY <1>8, EndJobType DEF AnswerGone, TypeOK
  <1>7. CASE Decline(j)
    <2>1. DeclinedRow(row[w]) \in Row
      BY <1>a DEF DeclinedRow, Row, Status, Active, MaybeTime
    <2>2. row' \in [Watches -> Row]
      BY <1>7, <1>a, <2>1, SaveRowType DEF Decline, TypeOK
    <2>3. causes' \in [Watches -> Nat]
      BY <1>7, <1>a DEF Decline, TypeOK
    <2> QED
      BY <1>7, <2>2, <2>3, EndJobType DEF Decline, TypeOK
  <1> QED
    BY <1>1, <1>2, <1>3, <1>4, <1>5, <1>6, <1>7, <1>8 DEF HandleJob

LEMMA EntryFields ==
    ASSUME TypeOK, NEW e \in due
    PROVE  /\ e \in DueEntry
           /\ e.watch \in Watches /\ e.copy \in Row
           /\ row[e.watch] \in Row
           /\ e.copy.notified \in MaybeTime /\ e.copy.declined \in MaybeTime
  BY DEF TypeOK, DueEntry, Row

LEMMA EndCheckType ==
    ASSUME TypeOK, NEW e, EndCheck(e)
    PROVE  due' \subseteq DueEntry /\ pc' \in {"loop", "cycle"} /\ act' = NoAct
  BY DEF EndCheck, TypeOK

\* The check of one due watch.
LEMMA TypeOKProcess ==
    ASSUME TypeOK, NEW e \in due, ProcessOneWatch(e)
    PROVE  TypeOK'
  <1> DEFINE w == e.watch
  <1> USE DEF world, ghosts, tables
  <1>a. w \in Watches /\ row[w] \in Row /\ e.copy \in Row
          /\ e.copy.notified \in MaybeTime /\ e.copy.declined \in MaybeTime
    BY EntryFields
  <1>b. NoTime \in MaybeTime
    BY DEF MaybeTime
  <1>c. ASSUME NEW s \in Status PROVE [row[w] EXCEPT !.status = s] \in Row
    BY <1>a DEF Row
  <1>d. ASSUME NEW s \in Status, NEW n \in MaybeTime, NEW d \in MaybeTime
        PROVE [Marked(row[w], n, d) EXCEPT !.status = s] \in Row
    BY <1>a DEF Row, Marked
  <1>e. {"EXPIRED", "NEEDS_HUMAN", "WAITING_OPEN", "WATCHING"} \subseteq Status
    BY DEF Status, Active
  <1>1. CASE Expire(e)
    <2>1. row' \in [Watches -> Row]
      BY <1>1, <1>a, <1>c, <1>e, SaveRowType DEF Expire, TypeOK
    <2> QED
      BY <1>1, <2>1, EndCheckType DEF Expire, TypeOK
  <1>2. CASE CheckBlocked(e)
    <2>1. row' \in [Watches -> Row]
      BY <1>2, <1>a, <1>c, <1>e, SaveRowType DEF CheckBlocked, TypeOK
    <2> QED
      BY <1>2, <2>1, EndCheckType DEF CheckBlocked, TypeOK
  <1>3. CASE NothingFound(e)
    <2>1. row' \in [Watches -> Row]
      BY <1>3, <1>a, <1>b, <1>d, <1>e, SaveRowType DEF NothingFound, TypeOK
    <2> QED
      BY <1>3, <1>a, <2>1, EndCheckType DEF NothingFound, TypeOK
  <1>4. CASE KeepWatching(e)
    <2>1. row' \in [Watches -> Row]
      BY <1>4, <1>a, <1>d, <1>e, SaveRowType DEF KeepWatching, TypeOK
    <2> QED
      BY <1>4, <1>a, <2>1, EndCheckType DEF KeepWatching, TypeOK
  <1>5. CASE AskSilently(e)
    <2>1. Found \in Times
      BY <1>5, FoundIsTime DEF AskSilently, Hit
    <2>2. OfferedRow(row[w], Found, e.copy) \in Row
      BY <1>a, <2>1 DEF OfferedRow, Marked, Row, Status, MaybeTime
    <2>3. row' \in [Watches -> Row]
      BY <1>5, <1>a, <2>2, SaveRowType DEF AskSilently, TypeOK
    <2> QED
      BY <1>5, <1>a, <2>3, EndCheckType DEF AskSilently, TypeOK
  <1>6. CASE Announce(e)
    <2>1. Found \in Times
      BY <1>6, FoundIsTime DEF Announce, Hit
    <2>2. act' \in Act
      BY <1>6, <1>a, <2>1, ActType, ConstantsAssumption DEF Announce
    <2>4. toasts' \subseteq [watch : Watches, time : Times]
      BY <1>6, <1>a, <2>1 DEF Announce, TypeOK
    <2> QED
      BY <1>6, <2>2, <2>4 DEF Announce, TypeOK
  <1>7. CASE AutoStarts(e)
    <2>1. Found \in Times
      BY <1>7, FoundIsTime DEF AutoStarts, Hit
    <2>2. act' \in Act
      BY <1>7, <1>a, <2>1, ActType, ConstantsAssumption DEF AutoStarts, BeginAttempt
    <2> QED
      BY <1>7, <1>a, <2>2 DEF AutoStarts, BeginAttempt, TypeOK
  <1> QED
    BY <1>1, <1>2, <1>3, <1>4, <1>5, <1>6, <1>7 DEF ProcessOneWatch

LEMMA ActFields ==
    ASSUME TypeOK, Busy
    PROVE  /\ act \in Act
           /\ act.watch \in Watches /\ act.time \in Times /\ act.copy \in Row
           /\ act.job \in 0..MaxJobs /\ act.reservation \in Nat
           /\ row[act.watch] \in Row
           /\ act.copy.declined \in MaybeTime /\ act.copy.notified \in MaybeTime
  BY DEF TypeOK, Busy, Act, Row

LEMMA AcceptedType ==
    ASSUME TypeOK, Accepted
    PROVE  /\ open' \subseteq Times
           /\ booked' \in [Watches -> Nat]
           /\ spent' \in [JobIds -> Nat]
  BY ActFields DEF Accepted, TypeOK, Busy

\* The attempt and its outcome.
LEMMA TypeOKAttempt ==
    ASSUME TypeOK, Attempt \/ ClickUnconfirmed
    PROVE  TypeOK'
  <1> USE DEF world, ghosts, tables
  <1>a. Busy
    BY DEF Attempt, ClickUnconfirmed, Click, NotBooked, RecordReservation, Accepted, Busy
  <1>1. CASE Click
    <2>1. causes' \in [Watches -> Nat]
      BY <1>1, <1>a, ActFields DEF Click, TypeOK
    <2> QED
      BY <1>1, <1>a, <2>1, AcceptedType, ActFields DEF Click, Accepted, TypeOK
  <1>2. CASE ClickUnconfirmed
    <2>1. causes' \in [Watches -> Nat]
      BY <1>2, <1>a, ActFields DEF ClickUnconfirmed, TypeOK
    <2>2. act' \in Act
      BY <1>2, <1>a, ActFields DEF ClickUnconfirmed, Act, Results
    <2>3. faults' \in 0..MaxFaults
      BY <1>2, ConstantsAssumption DEF ClickUnconfirmed, TypeOK
    <2> QED
      BY <1>2, <1>a, <2>1, <2>2, <2>3, AcceptedType DEF ClickUnconfirmed, Accepted, TypeOK
  <1>3. ASSUME NEW result \in Results, NotBooked(result) PROVE TypeOK'
    <2>1. act' \in Act
      BY <1>3, <1>a, ActFields DEF NotBooked, Act
    <2> QED
      BY <1>3, <2>1 DEF NotBooked, TypeOK
  <1>4. CASE RecordReservation
    <2>1. [watch |-> act.watch, time |-> act.time] \in Reservation
      BY <1>a, ActFields DEF Reservation
    <2>2. reservations' \in Seq(Reservation) /\ Len(reservations) + 1 \in Nat
      BY <1>4, <2>1, LenProperties DEF RecordReservation, TypeOK
    <2>3. act' \in Act
      <3> DEFINE n == Len(reservations) + 1
      <3>1. n \in Nat /\ act' = [act EXCEPT !.result = "RESERVED", !.reservation = n]
        BY <1>4, <2>2 DEF RecordReservation
      <3> HIDE DEF n
      <3> QED
        BY <3>1, <1>a, ActFields DEF Act, Results
    <2> QED
      BY <1>4, <2>2, <2>3 DEF RecordReservation, TypeOK
  <1> QED
    BY <1>1, <1>2, <1>3, <1>4 DEF Attempt

\* The saves that end an announcement, an automatic attempt and a job.
LEMMA TypeOKFinish ==
    ASSUME TypeOK, Finish
    PROVE  TypeOK'
  <1> USE DEF world, ghosts, tables
  <1>a. Busy
    BY DEF Finish, SaveAnnounced, FinishAuto, FinishJob, Busy
  <1>b. act \in Act /\ act.watch \in Watches /\ act.time \in Times /\ act.copy \in Row
          /\ row[act.watch] \in Row /\ NoTime \in MaybeTime
    BY <1>a, ActFields DEF MaybeTime
  <1>c. "DONE" \in {"DONE", "ERROR"} /\ "WATCHING" \in Status
    BY DEF Status, Active
  <1>d. /\ AnnouncedRow(row[act.watch], act.time, act.copy) \in Row
        /\ AutoRow(row[act.watch], act) \in Row
        /\ ApproveRow(row[act.watch], act) \in Row
        /\ ReserveNowRow(row[act.watch], act) \in Row
    BY <1>b, <1>c, RowOperators
  <1>1. CASE SaveAnnounced
    <2>1. row' \in [Watches -> Row]
      BY <1>1, <1>b, <1>d, SaveRowType DEF SaveAnnounced, TypeOK
    <2> QED
      BY <1>1, <2>1, EndCheckType DEF SaveAnnounced, TypeOK
  <1>2. CASE FinishAuto
    <2>1. row' \in [Watches -> Row]
      BY <1>2, <1>b, <1>d, SaveRowType DEF FinishAuto, TypeOK
    <2> QED
      BY <1>2, <2>1, EndCheckType DEF FinishAuto, TypeOK
  <1>3. CASE FinishJob
    <2>1. row' \in [Watches -> Row]
      BY <1>3, <1>b, <1>d, SaveRowType DEF FinishJob, TypeOK
    <2> QED
      BY <1>3, <2>1, <1>c, EndJobType DEF FinishJob, TypeOK
  <1> QED
    BY <1>1, <1>2, <1>3 DEF Finish

\* Faults, and the start of a new process.
LEMMA TypeOKFaults ==
    ASSUME TypeOK, StorageError \/ LoopAborts \/ Crash \/ Restart
    PROVE  TypeOK'
  <1> USE DEF world, ghosts, tables
  <1>a. Blame => causes' \in [Watches -> Nat]
    BY DEF Blame, TypeOK
  <1>b. faults < MaxFaults => faults + 1 \in 0..MaxFaults
    BY ConstantsAssumption DEF TypeOK
  <1>c. "ERROR" \in {"DONE", "ERROR"}
    OBVIOUS
  <1>1. CASE StorageError
    <2>1. causes' \in [Watches -> Nat] /\ faults' \in 0..MaxFaults
      BY <1>1, <1>a, <1>b DEF StorageError
    <2>2. CASE EndCheck(ActRow) /\ UNCHANGED <<jobs, batch>>
      BY <1>1, <2>1, <2>2, EndCheckType DEF StorageError, TypeOK
    <2>3. CASE EndJob(act.job, "ERROR") /\ UNCHANGED due
      BY <1>1, <2>1, <2>3, <1>c, EndJobType DEF StorageError, TypeOK
    <2> QED
      BY <1>1, <2>2, <2>3 DEF StorageError
  <1>2. CASE LoopAborts
    BY <1>2, <1>b DEF LoopAborts, TypeOK
  <1>3. CASE Crash
    BY <1>3, <1>a, <1>b DEF Crash, TypeOK
  <1>4. CASE Restart
    BY <1>4 DEF Restart, TypeOK
  <1> QED
    BY <1>1, <1>2, <1>3, <1>4

\* Claiming jobs and reading the due rows.
LEMMA TypeOKRead ==
    ASSUME TypeOK, ClaimJobs \/ ReadDue
    PROVE  TypeOK'
  <1> USE DEF world, ghosts, tables
  <1>1. CASE ClaimJobs
    BY <1>1, ClaimType DEF ClaimJobs, TypeOK
  <1>2. CASE ReadDue
    BY <1>2 DEF ReadDue, TypeOK, DueEntry
  <1> QED
    BY <1>1, <1>2

LEMMA TypeOKStutter ==
    ASSUME TypeOK, UNCHANGED vars
    PROVE  TypeOK'
  BY DEF vars, TypeOK

\* The tables, the memory of the loop and the ghosts stay within their types: no handler
\* writes a status, a time, a job or a reservation of another kind.
THEOREM TypeCorrect == Spec => []TypeOK
  <1>1. TypeOK /\ [Next]_vars => TypeOK'
    BY TypeOKOutside, TypeOKHandleJob, TypeOKProcess, TypeOKAttempt, TypeOKFinish,
       TypeOKFaults, TypeOKRead, TypeOKStutter DEF Next, Loop, Faults
  <1> QED
    BY TypeOKInit, <1>1, PTL DEF Spec
=============================================================================
