--------------------------- MODULE WatcherPromises ---------------------------
(* What the user of a watch can rely on over its whole life, proved for every value of *)
(* the constants on top of the invariants of WatcherSafety.                             *)
EXTENDS WatcherSafety, FiniteSetTheorems, WellFoundedInduction

-----------------------------------------------------------------------------
(* Sets of positions in the tables. *)

LEMMA PositionsAreFinite ==
    ASSUME NEW T, NEW s \in Seq(T), NEW S \in SUBSET DOMAIN s
    PROVE  IsFiniteSet(S) /\ Cardinality(S) \in Nat
  <1>1. DOMAIN s = 1..Len(s) /\ Len(s) \in Nat
    BY LenProperties
  <1>2. IsFiniteSet(1..Len(s))
    BY <1>1, FS_Interval
  <1>3. IsFiniteSet(S)
    BY <1>1, <1>2, FS_Subset
  <1> QED
    BY <1>3, FS_CardinalityType

\* The older of two pending jobs is claimed if the newer one is.
LEMMA ClaimsTheOldest ==
    ASSUME TypeOK, NEW i \in Pending, NEW j \in Claimable, i < j
    PROVE  i \in Claimable
  <1> DEFINE Before(k) == {l \in Pending : l < k}
  <1>1. DOMAIN jobs = 1..Len(jobs) /\ Len(jobs) \in Nat
    BY LenProperties DEF TypeOK
  <1>2. Pending \subseteq DOMAIN jobs /\ j \in Pending /\ Cardinality(Before(j)) < BatchLimit
    BY DEF Pending, Claimable
  <1>3. Before(i) \in SUBSET Before(j)
    BY <1>1, <1>2
  <1>4. /\ IsFiniteSet(Before(j)) /\ Cardinality(Before(j)) \in Nat
        /\ Cardinality(Before(i)) \in Nat
    <2>1. Before(i) \in SUBSET DOMAIN jobs /\ Before(j) \in SUBSET DOMAIN jobs
      BY <1>2
    <2>2. jobs \in Seq(Job)
      BY DEF TypeOK
    <2> QED
      BY <2>1, <2>2, PositionsAreFinite
  <1>5. Cardinality(Before(i)) <= Cardinality(Before(j))
    BY <1>3, <1>4, FS_Subset
  <1>6. Cardinality(Before(i)) < BatchLimit
    BY <1>2, <1>4, <1>5, ConstantsAssumption
  <1> QED
    BY <1>6 DEF Claimable

-----------------------------------------------------------------------------
(* What a step does to the jobs. *)

ServedIs(j) ==
    \/ pc \in {"jobs", "gone"} /\ \A k \in batch : j <= k
    \/ Busy /\ act.job = j

LEMMA JobsMove ==
    ASSUME TypeOK, Shape, [Next]_vars
    PROVE  \/ User \/ Environment
           \/ ClaimJobs
           \/ /\ \E j \in batch, s \in Answers : EndJob(j, s) /\ ServedIs(j)
              /\ due = {} /\ UNCHANGED <<due, reservations, spent>>
           \/ UNCHANGED jobs /\ batch' \subseteq batch
  <1>1. ASSUME NEW j \in batch, HandleJob(j)
        PROVE  \/ UNCHANGED <<jobs, batch>>
               \/ /\ \E k \in batch, s \in Answers : EndJob(k, s) /\ ServedIs(k)
                  /\ due = {} /\ UNCHANGED <<due, reservations, spent>>
    <2>1. pc \in {"jobs", "gone"} /\ \A k \in batch : j <= k
      BY <1>1, HandleJobEffects DEF Serving
    <2>2. due = {}
      BY <2>1 DEF Shape, DueWhileChecking, Busy
    <2> QED
      BY <1>1, <2>1, <2>2, HandleJobEffects DEF ServedIs, Answers
  <1>2. ASSUME NEW e \in due, ProcessOneWatch(e) PROVE UNCHANGED <<jobs, batch>>
    BY <1>2, ProcessEffects
  <1>3. CASE Attempt \/ ClickUnconfirmed
    BY <1>3, AttemptEffects
  <1>4. CASE SaveAnnounced \/ FinishAuto
    BY <1>4 DEF SaveAnnounced, FinishAuto
  <1>5. CASE FinishJob
    <2>1. Busy /\ act.job \in batch /\ due = {}
      BY <1>5 DEF FinishJob, Shape, ActInHand, DueWhileChecking, Busy
    <2> QED
      BY <1>5, <2>1 DEF FinishJob, ServedIs, Answers, ghosts
  <1>6. CASE StorageError
    <2>1. Busy
      BY <1>6 DEF StorageError, Busy
    <2>2. CASE act.job = 0 /\ UNCHANGED <<jobs, batch>>
      BY <2>2
    <2>3. CASE act.job # 0 /\ EndJob(act.job, "ERROR") /\ UNCHANGED due
      <3>1. act.job \in batch /\ due = {}
        BY <2>1, <2>3 DEF Shape, ActInHand, DueWhileChecking, Busy
      <3> QED
        BY <1>6, <2>1, <2>3, <3>1 DEF StorageError, ServedIs, Answers
    <2> QED
      BY <1>6, <2>2, <2>3 DEF StorageError
  <1>7. CASE ReadDue \/ LoopAborts \/ Crash \/ Restart \/ UNCHANGED vars
    BY <1>7 DEF ReadDue, LoopAborts, Crash, Restart, tables, vars
  <1> QED
    BY <1>1, <1>2, <1>3, <1>4, <1>5, <1>6, <1>7 DEF Next, Loop, Finish, Faults

\* No job is lost from the table, changes what it asks for, or is asked again.
LEMMA JobsStand ==
    ASSUME TypeOK, Shape, [Next]_vars
    PROVE  /\ DOMAIN jobs \subseteq DOMAIN jobs'
           /\ \A j \in DOMAIN jobs :
                /\ jobs'[j].type = jobs[j].type
                /\ jobs'[j].watch = jobs[j].watch
                /\ jobs'[j].time = jobs[j].time
                /\ jobs[j].status \in Answers => jobs'[j].status = jobs[j].status
  <1>1. CASE User \/ Environment
    BY <1>1, OutsideEffects
  <1>2. CASE ClaimJobs
    BY <1>2, ClaimType DEF TypeOK, Answers
  <1>3. CASE \E j \in batch, s \in Answers : EndJob(j, s)
    <2>1. PICK j \in batch, s \in Answers : EndJob(j, s)
      BY <1>3
    <2>2. jobs[j].status = "RUNNING"
      BY DEF Shape, BatchIsRunning
    <2> QED
      BY <2>1, <2>2, EndJobEffects DEF Answers
  <1>4. CASE UNCHANGED jobs
    BY <1>4
  <1> QED
    BY <1>1, <1>2, <1>3, <1>4, JobsMove

-----------------------------------------------------------------------------
(* The order of commands. *)

Ordered == CommandsInOrder /\ ServesOldest

LEMMA OrderedInit == Init => Ordered
  BY ServesOldestInit DEF Init, Ordered, CommandsInOrder

LEMMA InOrderStep ==
    ASSUME TypeOK, Shape, Ordered, [Next]_vars
    PROVE  CommandsInOrder'
  <1>a. DOMAIN jobs = 1..Len(jobs) /\ Len(jobs) \in Nat /\ batch \subseteq DOMAIN jobs
    BY LenProperties DEF TypeOK
  <1>1. CASE User \/ Environment
    <2>1. DOMAIN jobs' \subseteq Nat
      <3>1. jobs' \in Seq(Job)
        BY <1>1, TypeOKOutside DEF TypeOK
      <3> QED
        BY <3>1, LenProperties
    <2>2. ASSUME NEW i \in DOMAIN jobs', NEW j \in DOMAIN jobs', i < j, j \in DOMAIN jobs
          PROVE  i \in DOMAIN jobs
      <3>1. jobs' \in Seq(Job)
        BY <1>1, TypeOKOutside DEF TypeOK
      <3>2. DOMAIN jobs' = 1..Len(jobs') /\ Len(jobs') \in Nat
        BY <3>1, LenProperties
      <3> QED
        BY <1>a, <2>2, <3>2
    <2>3. batch' = batch
      BY <1>1, OutsideEffects DEF memory
    <2>4. \A j \in DOMAIN jobs' : j \in DOMAIN jobs \/ jobs'[j].status = "PENDING"
      BY <1>1, OutsideEffects
    <2>5. \A j \in DOMAIN jobs : jobs'[j] = jobs[j]
      BY <1>1, OutsideEffects
    <2> QED
      BY <2>2, <2>3, <2>4, <2>5 DEF Ordered, CommandsInOrder, Answers
  <1>2. CASE ClaimJobs
    <2>1. batch' = Claimable /\ DOMAIN jobs' = DOMAIN jobs
      BY <1>2, ClaimType DEF ClaimJobs, TypeOK
    <2>2. \A j \in DOMAIN jobs : IF j \in Claimable
              THEN jobs[j].status = "PENDING" /\ jobs'[j].status = "RUNNING"
              ELSE jobs'[j].status = jobs[j].status
      BY <1>2, <2>1, ClaimType DEF TypeOK
    <2>3. ASSUME NEW i \in DOMAIN jobs, NEW j \in DOMAIN jobs, i < j,
                 jobs'[j].status # "PENDING"
          PROVE  jobs'[i].status # "PENDING"
      <3>1. CASE jobs[i].status # "PENDING"
        BY <2>2, <3>1
      <3>2. CASE jobs[i].status = "PENDING"
        <4>1. j \in Claimable
          BY <2>2, <2>3, <3>2 DEF Ordered, CommandsInOrder
        <4>2. i \in Pending
          BY <3>2 DEF Pending
        <4> QED
          BY <2>2, <2>3, <4>1, <4>2, ClaimsTheOldest
      <3> QED
        BY <3>1, <3>2
    <2>4. ASSUME NEW i \in DOMAIN jobs, NEW j \in DOMAIN jobs, i < j,
                 jobs'[j].status \in Answers
          PROVE  i \notin Claimable
      <3>1. jobs[j].status # "PENDING"
        BY <2>2, <2>4 DEF Answers
      <3> QED
        BY <2>2, <2>4, <3>1 DEF Ordered, CommandsInOrder
    <2> QED
      BY <2>1, <2>3, <2>4 DEF CommandsInOrder
  <1>3. CASE \E j \in batch, s \in Answers : EndJob(j, s) /\ ServedIs(j)
    <2>1. PICK j \in batch, s \in Answers : EndJob(j, s) /\ ServedIs(j)
      BY <1>3
    <2>2. \A k \in batch : j <= k
      <3>1. j # 0
        BY JobFields
      <3> QED
        BY <2>1, <3>1 DEF ServedIs, Ordered, ServesOldest
    <2>3. jobs[j].status = "RUNNING"
      BY DEF Shape, BatchIsRunning
    <2>4. /\ DOMAIN jobs' = DOMAIN jobs /\ batch' = batch \ {j}
          /\ jobs'[j].status \in Answers
          /\ \A k \in DOMAIN jobs : k # j => jobs'[k].status = jobs[k].status
      BY <2>1, EndJobEffects DEF Answers
    <2>5. \A k \in batch : j <= k /\ k \in Nat /\ j \in Nat
      BY <1>a, <2>2
    <2> QED
      BY <1>a, <2>3, <2>4, <2>5 DEF Ordered, CommandsInOrder, Answers
  <1>4. CASE UNCHANGED jobs /\ batch' \subseteq batch
    BY <1>4 DEF Ordered, CommandsInOrder
  <1> QED
    BY <1>1, <1>2, <1>3, <1>4, JobsMove

\* Commands are taken up in the order they were sent, and once one has been answered no
\* older one is acted on any more, whatever crashes and however many are claimed at once.
THEOREM CommandsKeepOrder == Spec => []CommandsInOrder
  <1>1. TypeOK /\ Shape /\ Ordered /\ [Next]_vars => Ordered'
    BY InOrderStep, ServesOldestStep DEF Ordered
  <1>2. Ordered => CommandsInOrder
    BY DEF Ordered
  <1> QED
    BY TypeCorrect, ShapeInvariant, OrderedInit, <1>1, <1>2, PTL DEF Spec

-----------------------------------------------------------------------------
(* The bound on surplus bookings. *)

LEMMA SpentGrows ==
    ASSUME TypeOK, Shape, [Next]_vars, NEW w \in Watches,
           \A j \in DOMAIN jobs : spent[j] > 0 => spent'[j] > 0
    PROVE  /\ Spent(w) \subseteq Spent(w)'
           /\ Cardinality(Spent(w)) \in Nat /\ Cardinality(Spent(w)') \in Nat
           /\ Cardinality(Spent(w)) <= Cardinality(Spent(w)')
           /\ Spent(w) # Spent(w)' => Cardinality(Spent(w)) < Cardinality(Spent(w)')
  <1>1. Spent(w) \subseteq Spent(w)'
    BY JobsStand DEF Spent
  <1>2. Spent(w) \in SUBSET DOMAIN jobs /\ jobs \in Seq(Job)
    BY DEF Spent, TypeOK
  <1>3. TypeOK'
    BY TypeOKOutside, TypeOKHandleJob, TypeOKProcess, TypeOKAttempt, TypeOKFinish,
       TypeOKFaults, TypeOKRead, TypeOKStutter DEF Next, Loop, Faults
  <1>4. Spent(w)' \in SUBSET DOMAIN jobs' /\ jobs' \in Seq(Job)
    BY <1>3 DEF Spent, TypeOK
  <1>5. /\ IsFiniteSet(Spent(w)') /\ Cardinality(Spent(w)') \in Nat
        /\ Cardinality(Spent(w)) \in Nat
    BY <1>2, <1>4, PositionsAreFinite
  <1>6. /\ Cardinality(Spent(w)) <= Cardinality(Spent(w)')
        /\ Cardinality(Spent(w)') = Cardinality(Spent(w)) => Spent(w)' = Spent(w)
    BY <1>1, <1>5, FS_Subset
  <1> QED
    BY <1>1, <1>5, <1>6

LEMMA CountedInit == Init => CausesAreCounted
  <1> SUFFICES ASSUME Init PROVE CausesAreCounted
    OBVIOUS
  <1>1. ASSUME NEW w \in Watches PROVE causes[w] <= faults + Cardinality(Spent(w))
    <2>1. Cardinality(Spent(w)) = 0
      BY FS_EmptySet DEF Init, Spent
    <2> HIDE DEF Spent
    <2> QED
      BY <2>1 DEF Init
  <1> QED
    BY <1>1 DEF CausesAreCounted

\* The job of an attempt has booked before only if the attempt has.
LEMMA FirstBooking ==
    ASSUME TypeOK, Shape, Unspent, pc = "attempt", act.job # 0
    PROVE  act.job \in batch /\ act.job \in DOMAIN jobs /\ spent[act.job] = 0
             /\ act.job \in JobIds
  <1>1. act.job \in batch /\ act.job \in JobIds /\ act.job \in DOMAIN jobs
    BY JobFields DEF Shape, ActInHand, Busy, JobIds, TypeOK
  <1> QED
    BY <1>1 DEF Unspent, InFront

LEMMA CountedStep ==
    ASSUME TypeOK, Shape, AttemptsAreAuthorised, Unspent, CausesAreCounted, [Next]_vars
    PROVE  CausesAreCounted'
  <1>a. causes \in [Watches -> Nat] /\ faults \in Nat
    BY ConstantsAssumption DEF TypeOK
  <1>b. ASSUME \A j \in DOMAIN jobs : spent[j] > 0 => spent'[j] > 0,
               faults' \in Nat, faults <= faults',
               causes' \in [Watches -> Nat],
               \A w \in Watches :
                  \/ causes'[w] <= causes[w] + (faults' - faults)
                  \/ causes'[w] = causes[w] + 1 /\ Spent(w) # Spent(w)'
        PROVE  CausesAreCounted'
    <2>1. ASSUME NEW w \in Watches
          PROVE  causes'[w] <= faults' + Cardinality(Spent(w)')
      <3>1. /\ Cardinality(Spent(w)) \in Nat /\ Cardinality(Spent(w)') \in Nat
            /\ Cardinality(Spent(w)) <= Cardinality(Spent(w)')
            /\ Spent(w) # Spent(w)' => Cardinality(Spent(w)) < Cardinality(Spent(w)')
        BY <1>b, SpentGrows
      <3>2. causes[w] <= faults + Cardinality(Spent(w)) /\ causes[w] \in Nat
              /\ causes'[w] \in Nat
        BY <1>a, <1>b DEF CausesAreCounted
      <3> HIDE DEF Spent
      <3> QED
        BY <1>a, <1>b, <3>1, <3>2
    <2> QED
      BY <2>1 DEF CausesAreCounted
  <1>1. ASSUME UNCHANGED <<spent, faults, causes>> PROVE CausesAreCounted'
    BY <1>a, <1>b, <1>1
  <1>2. CASE User \/ Environment
    BY <1>1, <1>2, OutsideEffects
  <1>3. ASSUME NEW j \in batch, HandleJob(j) PROVE CausesAreCounted'
    <2>1. UNCHANGED <<spent, faults>>
      BY <1>3, HandleJobEffects
    <2>2. CASE Decline(j)
      <3>0. PICK w \in Watches : w = jobs[j].watch
        BY JobFields
      <3>1. jobs[j].status = "RUNNING" /\ j \in DOMAIN jobs
        BY DEF TypeOK, Shape, BatchIsRunning
      <3>2. j \notin Spent(w) /\ j \in Spent(w)'
        BY <2>2, <3>0, <3>1, EndJobEffects DEF Decline, Handling, Serving, Spent, Answers
      <3>3. causes' \in [Watches -> Nat]
              /\ \A v \in Watches : causes'[v] = causes[v]
                                      \/ (v = w /\ causes'[v] = causes[v] + 1)
        BY <1>a, <2>2, <3>0 DEF Decline
      <3> QED
        BY <1>a, <1>b, <2>1, <3>2, <3>3
    <2>3. CASE ~Decline(j)
      BY <1>1, <1>3, <2>1, <2>3
         DEF HandleJob, CheckNow, ReserveNowStarts, ReserveNowRefused, ApproveStarts,
             ApproveFindsGone, AnswerGone, ApproveRefused, ghosts
    <2> QED
      BY <2>2, <2>3
  <1>4. ASSUME NEW e \in due, ProcessOneWatch(e) PROVE CausesAreCounted'
    BY <1>1, <1>4, ProcessEffects
  <1>5. Accepted => \A j \in DOMAIN jobs : spent[j] > 0 => spent'[j] > 0
    <2>1. spent \in [JobIds -> Nat] /\ DOMAIN jobs \subseteq JobIds
      BY LenProperties, ConstantsAssumption DEF TypeOK, JobIds
    <2> QED
      BY <2>1 DEF Accepted
  <1>6. CASE Click
    <2>1. Accepted /\ UNCHANGED faults /\ UNCHANGED jobs
            /\ causes' = IF act.copy.status = "RESERVED"
                         THEN [causes EXCEPT ![act.watch] = @ + 1] ELSE causes
      BY <1>6 DEF Click, tables
    <2>2. PICK w \in Watches : pc = "attempt" /\ w = act.watch
      BY <2>1, ActFields DEF Accepted, Busy
    <2>3. ASSUME act.copy.status = "RESERVED" PROVE Spent(w) # Spent(w)'
      <3>1. act.job # 0 /\ jobs[act.job].type = "RESERVE_NOW" /\ w = jobs[act.job].watch
        BY <2>2, <2>3 DEF AttemptsAreAuthorised, Authorised, Active
      <3>2. act.job \in DOMAIN jobs /\ spent[act.job] = 0 /\ act.job \in JobIds
        BY <2>2, <3>1, FirstBooking
      <3>3. spent'[act.job] = 1
        BY <2>1, <3>2 DEF Accepted, TypeOK
      <3>4. act.job \notin Spent(w)
        BY <3>1, <3>2 DEF Spent
      <3>5. PICK j : j = act.job
        OBVIOUS
      <3>6. j \in Spent(w)'
        BY <2>1, <3>1, <3>2, <3>3, <3>5 DEF Spent
      <3> QED
        BY <3>4, <3>5, <3>6
    <2>4. causes' \in [Watches -> Nat]
            /\ \A v \in Watches :
                  causes'[v] = causes[v]
                    \/ (v = w /\ act.copy.status = "RESERVED"
                          /\ causes'[v] = causes[v] + 1)
      BY <1>a, <2>1, <2>2
    <2> QED
      BY <1>a, <1>b, <1>5, <2>1, <2>3, <2>4
  <1>7. CASE ClickUnconfirmed
    <2>1. Accepted /\ faults' = faults + 1 /\ act.watch \in Watches
            /\ causes' = [causes EXCEPT ![act.watch] = @ + 1]
      BY <1>7, ActFields DEF ClickUnconfirmed, Accepted, Busy
    <2>2. causes' \in [Watches -> Nat] /\ \A w \in Watches : causes'[w] <= causes[w] + 1
      BY <1>a, <2>1
    <2> QED
      BY <1>a, <1>b, <1>5, <2>1, <2>2
  <1>8. CASE StorageError \/ Crash
    <2>1. Blame /\ faults' = faults + 1 /\ UNCHANGED spent
      BY <1>8 DEF StorageError, Crash
    <2>2. causes' \in [Watches -> Nat] /\ \A w \in Watches : causes'[w] <= causes[w] + 1
      BY <1>a, <2>1 DEF Blame
    <2> QED
      BY <1>a, <1>b, <2>1, <2>2
  <1>9. CASE LoopAborts
    <2>1. faults' = faults + 1 /\ UNCHANGED <<spent, causes>>
      BY <1>9 DEF LoopAborts, ghosts
    <2> QED
      BY <1>a, <1>b, <2>1
  <1>10. CASE ClaimJobs \/ ReadDue \/ (\E result \in Results : NotBooked(result))
              \/ RecordReservation \/ Finish \/ Restart \/ UNCHANGED vars
    BY <1>1, <1>10 DEF ClaimJobs, ReadDue, NotBooked, RecordReservation, Finish,
                       SaveAnnounced, FinishAuto, FinishJob, Restart, ghosts, vars
  <1> QED
    BY <1>2, <1>3, <1>4, <1>6, <1>7, <1>8, <1>9, <1>10 DEF Next, Loop, Attempt, Faults

\* Beyond the first, a watch is booked at most once for each fault and for each DECLINE
\* or reserve_now it was sent: without those, once and never again.
THEOREM BookingsBounded == Spec => []BookingsAreBounded
  <1>1. TypeOK /\ Shape /\ AttemptsAreAuthorised /\ Unspent /\ CausesAreCounted /\ [Next]_vars
          => CausesAreCounted'
    BY CountedStep
  <1>2. ASSUME TypeOK, CausesAreCounted, SurplusHasCause, NEW w \in Watches
        PROVE  booked[w] <= 1 + faults + Cardinality(Risky(w))
    <2>1. /\ Spent(w) \in SUBSET Risky(w) /\ Risky(w) \in SUBSET DOMAIN jobs
          /\ Spent(w) \in SUBSET DOMAIN jobs
      BY DEF Spent, Risky
    <2>a. jobs \in Seq(Job)
      BY <1>2 DEF TypeOK
    <2>2. /\ IsFiniteSet(Risky(w)) /\ Cardinality(Risky(w)) \in Nat
          /\ Cardinality(Spent(w)) \in Nat
      BY <2>1, <2>a, PositionsAreFinite
    <2>3. Cardinality(Spent(w)) <= Cardinality(Risky(w))
      BY <2>1, <2>2, FS_Subset
    <2>4. booked[w] <= causes[w] + 1 /\ causes[w] <= faults + Cardinality(Spent(w))
            /\ booked[w] \in Nat /\ causes[w] \in Nat /\ faults \in Nat
      BY <1>2, ConstantsAssumption DEF SurplusHasCause, CausesAreCounted, TypeOK
    <2> HIDE DEF Spent, Risky
    <2> QED
      BY <2>2, <2>3, <2>4
  <1>3. TypeOK /\ CausesAreCounted /\ SurplusHasCause => BookingsAreBounded
    BY <1>2 DEF BookingsAreBounded
  <1> QED
    BY TypeCorrect, ShapeInvariant, AttemptsAuthorised, SurplusCaused, UnspentInvariant,
       CountedInit, <1>1, <1>3, PTL DEF Spec

-----------------------------------------------------------------------------
(* Bookings nobody asked for. *)

\* Every save of the loop keeps the mode of the watch it writes.
KeepsMode(r, w) == r.mode = row[w].mode /\ r.status # "UNREGISTERED"

SavesInMode ==
    row' = row \/ \E w \in Watches : \E r : SaveRow(w, r) /\ (Exists(w) => KeepsMode(r, w))

LEMMA SavesKeepMode ==
    ASSUME TypeOK, Next, ~(User \/ Environment)
    PROVE  SavesInMode
  <1> USE DEF SavesInMode
  <1>1. ASSUME NEW j \in batch, HandleJob(j)
        PROVE  SavesInMode
    <2>1. PICK w \in Watches : w = jobs[j].watch
      BY JobFields
    <2>2. row[w] \in Row
      BY DEF TypeOK
    <2>3. Exists(w) => /\ KeepsMode(ResumedRow(row[w]), w)
                       /\ KeepsMode(BackToWatching(row[w]), w)
                       /\ KeepsMode(DeclinedRow(row[w]), w)
      BY <2>2 DEF KeepsMode, ResumedRow, BackToWatching, DeclinedRow, Row, Exists
    <2> QED
      BY <1>1, <2>1, <2>3 DEF HandleJob, CheckNow, ReserveNowStarts, ReserveNowRefused,
          ApproveStarts, ApproveFindsGone, AnswerGone, ApproveRefused, Decline, tables
  <1>2. ASSUME NEW e \in due, ProcessOneWatch(e)
        PROVE  SavesInMode
    <2>1. PICK w \in Watches : w = e.watch
      BY EntryFields
    <2>2. row[w] \in Row
      BY DEF TypeOK
    <2>3. \A s \in Status \ {"UNREGISTERED"} : \A n, d :
             /\ KeepsMode([row[w] EXCEPT !.status = s], w)
             /\ KeepsMode([Marked(row[w], n, d) EXCEPT !.status = s], w)
      BY <2>2 DEF KeepsMode, Marked, Row
    <2>4. \A t, c : KeepsMode(OfferedRow(row[w], t, c), w)
      BY <2>2 DEF KeepsMode, OfferedRow, Marked, Row
    <2>5. {"EXPIRED", "NEEDS_HUMAN", "WAITING_OPEN", "WATCHING"}
             \subseteq Status \ {"UNREGISTERED"}
      BY DEF Status, Active
    <2>6. CASE Expire(e) \/ CheckBlocked(e)
      BY <2>1, <2>3, <2>5, <2>6 DEF Expire, CheckBlocked
    <2>7. CASE NothingFound(e)
      <3>1. \E s \in {"WATCHING", "WAITING_OPEN"} :
               SaveRow(w, [Marked(row[w], NoTime, NoTime) EXCEPT !.status = s])
        BY <2>1, <2>7 DEF NothingFound
      <3> QED
        BY <2>3, <2>5, <3>1
    <2>8. CASE KeepWatching(e) \/ AskSilently(e)
      BY <2>1, <2>3, <2>4, <2>5, <2>8 DEF KeepWatching, AskSilently
    <2>9. CASE Announce(e) \/ AutoStarts(e)
      BY <2>9 DEF Announce, AutoStarts, tables
    <2> QED
      BY <1>2, <2>6, <2>7, <2>8, <2>9 DEF ProcessOneWatch
  <1>3. CASE Finish
    <2>1. PICK w \in Watches : w = act.watch /\ Busy
      BY <1>3, ActFields DEF Finish, SaveAnnounced, FinishAuto, FinishJob, Busy
    <2>2. row[w] \in Row
      BY DEF TypeOK
    <2>3. /\ KeepsMode(AnnouncedRow(row[w], act.time, act.copy), w)
          /\ KeepsMode(AutoRow(row[w], act), w)
      BY <2>2 DEF KeepsMode, AnnouncedRow, OfferedRow, AutoRow, ReservedRow, Marked, Row
    <2>4. Exists(w) => /\ KeepsMode(ApproveRow(row[w], act), w)
                       /\ KeepsMode(ReserveNowRow(row[w], act), w)
      BY <2>2 DEF KeepsMode, ApproveRow, ReserveNowRow, ReservedRow, BackToWatching, Row, Exists
    <2> QED
      BY <1>3, <2>1, <2>3, <2>4 DEF Finish, SaveAnnounced, FinishAuto, FinishJob
  <1>4. CASE Attempt \/ ClickUnconfirmed \/ ClaimJobs \/ ReadDue \/ StorageError
             \/ LoopAborts \/ Crash \/ Restart
    BY <1>4, AttemptEffects
       DEF ClaimJobs, ReadDue, StorageError, LoopAborts, Crash, Restart, tables
  <1> QED
    BY <1>1, <1>2, <1>3, <1>4 DEF Next, Loop, Faults

\* The mode of a watch is set when it is registered and never again.
LEMMA ModeStands ==
    ASSUME TypeOK, [Next]_vars, NEW w \in Watches
    PROVE  \/ row'[w].status = "REMOVED"
           \/ /\ row'[w].mode = row[w].mode
              /\ row'[w].status = "UNREGISTERED" <=> row[w].status = "UNREGISTERED"
              /\ Exists(w)' => Exists(w)
           \/ /\ row[w].status = "UNREGISTERED" /\ row'[w].status # "UNREGISTERED"
              /\ UNCHANGED booked
  <1>1. CASE User \/ Environment
    BY <1>1, OutsideEffects DEF Exists
  <1>2. CASE Next /\ ~(User \/ Environment)
    <2>1. CASE row' = row
      BY <2>1 DEF Exists
    <2>2. CASE row' # row
      <3>1. PICK v \in Watches : \E r : SaveRow(v, r) /\ (Exists(v) => KeepsMode(r, v))
        BY <1>2, <2>2, SavesKeepMode DEF SavesInMode
      <3>2. CASE Exists(w) /\ v = w
        BY <3>1, <3>2 DEF SaveRow, KeepsMode, Exists, TypeOK
      <3>3. CASE ~(Exists(w) /\ v = w)
        <4>1. row'[w] = row[w]
          BY <3>1, <3>3 DEF SaveRow, TypeOK
        <4> QED
          BY <4>1 DEF Exists
      <3> QED
        BY <3>2, <3>3
    <2> QED
      BY <2>1, <2>2
  <1>3. CASE UNCHANGED vars
    BY <1>3 DEF vars, Exists
  <1> QED
    BY <1>1, <1>2, <1>3

\* A booking is one of a click, for the watch of the attempt.
LEMMA BookingsByClick ==
    ASSUME TypeOK, Shape, [Next]_vars
    PROVE  \/ UNCHANGED <<booked, spent>>
           \/ Accepted /\ UNCHANGED <<row, jobs>>
  <1>1. CASE User \/ Environment
    BY <1>1, OutsideEffects
  <1>2. ASSUME NEW j \in batch, HandleJob(j) PROVE UNCHANGED <<booked, spent>>
    BY <1>2, HandleJobEffects
  <1>3. ASSUME NEW e \in due, ProcessOneWatch(e) PROVE UNCHANGED <<booked, spent>>
    BY <1>3, ProcessEffects
  <1>4. CASE Click \/ ClickUnconfirmed
    BY <1>4 DEF Click, ClickUnconfirmed, tables
  <1>5. CASE ClaimJobs \/ ReadDue \/ (\E result \in Results : NotBooked(result))
             \/ RecordReservation \/ Finish \/ StorageError \/ LoopAborts \/ Crash
             \/ Restart \/ UNCHANGED vars
    BY <1>5 DEF ClaimJobs, ReadDue, NotBooked, RecordReservation, Finish, SaveAnnounced,
                FinishAuto, FinishJob, StorageError, LoopAborts, Crash, Restart, ghosts, vars
  <1> QED
    BY <1>1, <1>2, <1>3, <1>4, <1>5 DEF Next, Loop, Attempt, Faults

LEMMA FreshStep ==
    ASSUME TypeOK, Shape, CopiesAreCurrent, FreshIsUnbooked, [Next]_vars
    PROVE  FreshIsUnbooked'
  <1> SUFFICES ASSUME NEW w \in Watches, row'[w].status = "UNREGISTERED"
               PROVE  booked'[w] = 0
    BY DEF FreshIsUnbooked
  <1>1. row[w].status = "UNREGISTERED" /\ booked[w] = 0
    BY ModeStands DEF FreshIsUnbooked
  <1>2. CASE Accepted
    <2>1. row[act.watch].status # "UNREGISTERED"
      BY <1>2 DEF Accepted, CopiesAreCurrent, Shape, ActIsRegistered, Busy
    <2>2. act.watch # w
      BY <1>1, <2>1
    <2> QED
      BY <1>1, <1>2, <2>2 DEF Accepted, TypeOK
  <1> QED
    BY <1>1, <1>2, BookingsByClick

LEMMA ObeyedGrows ==
    ASSUME TypeOK, Shape, [Next]_vars, NEW w \in Watches,
           row'[w].mode = row[w].mode,
           \A j \in DOMAIN jobs : spent[j] > 0 => spent'[j] > 0
    PROVE  /\ Cardinality(Obeyed(w)) \in Nat /\ Cardinality(Obeyed(w)') \in Nat
           /\ Cardinality(Obeyed(w)) <= Cardinality(Obeyed(w)')
           /\ Obeyed(w) # Obeyed(w)' => Cardinality(Obeyed(w)) < Cardinality(Obeyed(w)')
  <1>1. Obeyed(w) \subseteq Obeyed(w)'
    BY JobsStand DEF Obeyed
  <1>2. Obeyed(w) \in SUBSET DOMAIN jobs /\ jobs \in Seq(Job)
    BY DEF Obeyed, TypeOK
  <1>3. TypeOK'
    BY TypeOKOutside, TypeOKHandleJob, TypeOKProcess, TypeOKAttempt, TypeOKFinish,
       TypeOKFaults, TypeOKRead, TypeOKStutter DEF Next, Loop, Faults
  <1>4. Obeyed(w)' \in SUBSET DOMAIN jobs' /\ jobs' \in Seq(Job)
    BY <1>3 DEF Obeyed, TypeOK
  <1>5. /\ IsFiniteSet(Obeyed(w)') /\ Cardinality(Obeyed(w)') \in Nat
        /\ Cardinality(Obeyed(w)) \in Nat
    BY <1>2, <1>4, PositionsAreFinite
  <1>6. /\ Cardinality(Obeyed(w)) <= Cardinality(Obeyed(w)')
        /\ Cardinality(Obeyed(w)') = Cardinality(Obeyed(w)) => Obeyed(w)' = Obeyed(w)
    BY <1>1, <1>5, FS_Subset
  <1> QED
    BY <1>5, <1>6

\* The command behind a booking of a watch that is not automatic had not booked before.
LEMMA AskedAnew ==
    ASSUME TypeOK, Shape, CopiesAreCurrent, AttemptsAreAuthorised, Unspent, Accepted,
           UNCHANGED <<row, jobs>>, NEW w \in Watches, w = act.watch,
           Exists(w), row[w].mode # "AUTO"
    PROVE  Obeyed(w)' # Obeyed(w)
  <1>1. pc = "attempt" /\ Busy /\ Authorised(act)
    BY DEF Accepted, AttemptsAreAuthorised, Busy
  <1>2. row[w] = act.copy
    BY <1>1 DEF CopiesAreCurrent, Exists
  <1>3. row[w].mode \in AllModes
    BY DEF TypeOK, Row
  <1>4. /\ act.job # 0 /\ jobs[act.job].watch = w
        /\ \/ jobs[act.job].type = "RESERVE_NOW"
           \/ jobs[act.job].type = "APPROVE" /\ row[w].mode = "ASK"
    BY <1>1, <1>2, <1>3 DEF Authorised, AllModes
  <1>5. act.job \in DOMAIN jobs /\ spent[act.job] = 0 /\ act.job \in JobIds
    BY <1>1, <1>4, FirstBooking
  <1>6. spent'[act.job] = 1
    BY <1>5 DEF Accepted, TypeOK
  <1>7. PICK j : j = act.job
    OBVIOUS
  <1>8. j \notin Obeyed(w)
    BY <1>5, <1>7 DEF Obeyed
  <1>9. j \in Obeyed(w)'
    BY <1>4, <1>5, <1>6, <1>7 DEF Obeyed
  <1> QED
    BY <1>8, <1>9

LEMMA UnaskedStep ==
    ASSUME TypeOK, Shape, CopiesAreCurrent, AttemptsAreAuthorised, Unspent,
           FreshIsUnbooked, NothingIsUnasked, [Next]_vars
    PROVE  NothingIsUnasked'
  <1> SUFFICES ASSUME NEW w \in Watches, Exists(w)', row'[w].mode # "AUTO"
               PROVE  booked'[w] <= Cardinality(Obeyed(w)')
    BY DEF NothingIsUnasked
  <1>1. TypeOK'
    BY TypeOKOutside, TypeOKHandleJob, TypeOKProcess, TypeOKAttempt, TypeOKFinish,
       TypeOKFaults, TypeOKRead, TypeOKStutter DEF Next, Loop, Faults
  <1>2. Cardinality(Obeyed(w)') \in Nat
    <2>1. Obeyed(w)' \in SUBSET DOMAIN jobs' /\ jobs' \in Seq(Job)
      BY <1>1 DEF Obeyed, TypeOK
    <2> QED
      BY <2>1, PositionsAreFinite
  <1>3. CASE row[w].status = "UNREGISTERED" /\ UNCHANGED booked
    <2>1. booked'[w] = 0
      BY <1>3 DEF FreshIsUnbooked
    <2> HIDE DEF Obeyed
    <2> QED
      BY <1>2, <2>1
  <1>4. CASE row'[w].mode = row[w].mode /\ Exists(w)
    <2>0. booked[w] <= Cardinality(Obeyed(w)) /\ booked[w] \in Nat /\ spent \in [JobIds -> Nat]
      BY <1>4 DEF NothingIsUnasked, TypeOK
    <2>1. DOMAIN jobs \subseteq JobIds
      BY LenProperties, ConstantsAssumption DEF TypeOK, JobIds
    <2>2. \A j \in DOMAIN jobs : spent[j] > 0 => spent'[j] > 0
      BY <2>0, <2>1, BookingsByClick DEF Accepted
    <2>3. /\ Cardinality(Obeyed(w)) \in Nat /\ Cardinality(Obeyed(w)') \in Nat
          /\ Cardinality(Obeyed(w)) <= Cardinality(Obeyed(w)')
          /\ Obeyed(w) # Obeyed(w)' => Cardinality(Obeyed(w)) < Cardinality(Obeyed(w)')
      BY <1>4, <2>2, ObeyedGrows
    <2>4. \/ booked'[w] = booked[w]
          \/ booked'[w] = booked[w] + 1 /\ Obeyed(w) # Obeyed(w)'
      <3>1. CASE Accepted /\ UNCHANGED <<row, jobs>>
        <4>1. booked'[w] = IF w = act.watch THEN booked[w] + 1 ELSE booked[w]
          BY <3>1 DEF Accepted, TypeOK
        <4>2. w = act.watch => Obeyed(w)' # Obeyed(w)
          BY <1>4, <3>1, AskedAnew
        <4> QED
          BY <4>1, <4>2
      <3> QED
        BY <3>1, BookingsByClick
    <2> HIDE DEF Obeyed
    <2> QED
      BY <2>0, <2>3, <2>4
  <1> QED
    BY <1>3, <1>4, ModeStands DEF Exists

\* A watch in ASK or NOTIFY mode is booked only by commands the user sent for it, one
\* booking for each: never by a check, and never once more because something crashed.
THEOREM NothingUnasked == Spec => []NothingIsUnasked
  <1>1. Init => FreshIsUnbooked /\ NothingIsUnasked
    BY DEF Init, FreshIsUnbooked, NothingIsUnasked, Exists, Unregistered
  <1>2. TypeOK /\ Shape /\ CopiesAreCurrent /\ AttemptsAreAuthorised /\ Unspent
          /\ FreshIsUnbooked /\ NothingIsUnasked /\ [Next]_vars
          => FreshIsUnbooked' /\ NothingIsUnasked'
    BY FreshStep, UnaskedStep
  <1> QED
    BY TypeCorrect, ShapeInvariant, CopiesStayCurrent, AttemptsAuthorised,
       UnspentInvariant, <1>1, <1>2, PTL DEF Spec

-----------------------------------------------------------------------------
(* The accounts: bookings of the site against the reservations table. *)

Accounted(w) ==
    LET n == Cardinality(Recorded(w)) + Unwritten(w)
    IN  n <= booked[w] /\ booked[w] <= n + causes[w]

LEMMA AccountNumbers ==
    ASSUME TypeOK, NEW w \in Watches
    PROVE  /\ IsFiniteSet(Recorded(w)) /\ Cardinality(Recorded(w)) \in Nat
           /\ Unwritten(w) \in {0, 1} /\ booked[w] \in Nat /\ causes[w] \in Nat
  <1>1. Recorded(w) \in SUBSET DOMAIN reservations /\ reservations \in Seq(Reservation)
    BY DEF Recorded, TypeOK
  <1> QED
    BY <1>1, PositionsAreFinite DEF Unwritten, TypeOK

LEMMA AccountedInit == Init => BookingsAreAccounted
  <1> SUFFICES ASSUME Init, NEW w \in Watches
               PROVE  Accounted(w)
    BY DEF BookingsAreAccounted, Accounted
  <1>1. Cardinality(Recorded(w)) = 0
    BY FS_EmptySet DEF Init, Recorded
  <1>2. Unwritten(w) = 0 /\ booked[w] = 0 /\ causes[w] = 0
    BY DEF Init, Unwritten
  <1> HIDE DEF Recorded, Unwritten
  <1> QED
    BY <1>1, <1>2 DEF Accounted

\* A step that neither books nor records, and leaves an unrecorded booking only for cause.
LEMMA AccountKept ==
    ASSUME TypeOK, BookingsAreAccounted, NEW w \in Watches,
           UNCHANGED <<reservations, booked>>, causes'[w] \in Nat,
           \/ Unwritten(w)' = Unwritten(w) /\ causes[w] <= causes'[w]
           \/ Unwritten(w)' = 0 /\ causes'[w] = causes[w] + Unwritten(w)
    PROVE  Accounted(w)'
  <1>1. Accounted(w) /\ Recorded(w)' = Recorded(w)
    BY DEF BookingsAreAccounted, Accounted, Recorded
  <1>2. /\ Cardinality(Recorded(w)) \in Nat /\ Unwritten(w) \in {0, 1}
        /\ booked[w] \in Nat /\ causes[w] \in Nat
    BY AccountNumbers
  <1> HIDE DEF Recorded, Unwritten
  <1> QED
    BY <1>1, <1>2 DEF Accounted

LEMMA AccountBooked ==
    ASSUME TypeOK, BookingsAreAccounted, Click \/ ClickUnconfirmed, NEW w \in Watches
    PROVE  Accounted(w)'
  <1>1. /\ pc = "attempt" /\ act.watch \in Watches /\ UNCHANGED reservations
        /\ booked' = [booked EXCEPT ![act.watch] = @ + 1] /\ act'.watch = act.watch
    BY AttemptEffects, ActFields DEF Click, ClickUnconfirmed, Accepted, tables, Busy, Attempt
  <1>2. Unwritten(w) = 0 /\ Recorded(w)' = Recorded(w)
    BY <1>1 DEF Unwritten, Recorded
  <1>3. /\ Cardinality(Recorded(w)) \in Nat
        /\ booked[w] \in Nat /\ causes[w] \in Nat
        /\ Accounted(w)
    BY AccountNumbers DEF BookingsAreAccounted, Accounted
  <1>4. booked'[w] = IF w = act.watch THEN booked[w] + 1 ELSE booked[w]
    BY <1>1 DEF TypeOK
  <1>5. CASE Click
    <2>1. Unwritten(w)' = IF w = act.watch THEN 1 ELSE 0
      BY <1>1, <1>5 DEF Click, Unwritten
    <2>2. causes'[w] \in Nat /\ causes[w] <= causes'[w]
      BY <1>1, <1>3, <1>5 DEF Click, TypeOK
    <2> HIDE DEF Recorded, Unwritten
    <2> QED
      BY <1>2, <1>3, <1>4, <2>1, <2>2 DEF Accounted
  <1>6. CASE ClickUnconfirmed
    <2>1. Unwritten(w)' = 0
      BY <1>6 DEF ClickUnconfirmed, Unwritten
    <2>2. causes'[w] = IF w = act.watch THEN causes[w] + 1 ELSE causes[w]
      BY <1>1, <1>6 DEF ClickUnconfirmed, TypeOK
    <2> HIDE DEF Recorded, Unwritten
    <2> QED
      BY <1>2, <1>3, <1>4, <2>1, <2>2 DEF Accounted
  <1> QED
    BY <1>5, <1>6

LEMMA AccountRecorded ==
    ASSUME TypeOK, BookingsAreAccounted, RecordReservation, NEW w \in Watches
    PROVE  Accounted(w)'
  <1>1. /\ pc = "clicked" /\ pc' = "outcome" /\ UNCHANGED <<booked, causes>>
        /\ reservations' = Append(reservations, [watch |-> act.watch, time |-> act.time])
    BY DEF RecordReservation, ghosts
  <1>2. reservations \in Seq(Reservation) /\ DOMAIN reservations = 1..Len(reservations)
          /\ Len(reservations) \in Nat
    BY LenProperties DEF TypeOK
  <1>3. /\ \A i \in DOMAIN reservations : reservations'[i] = reservations[i]
        /\ DOMAIN reservations' = DOMAIN reservations \cup {Len(reservations) + 1}
        /\ reservations'[Len(reservations) + 1].watch = act.watch
    BY <1>1, <1>2, AppendProperties
  <1>4. Recorded(w)' = IF w = act.watch THEN Recorded(w) \cup {Len(reservations) + 1}
                                        ELSE Recorded(w)
    BY <1>3 DEF Recorded
  <1>5. Len(reservations) + 1 \notin Recorded(w)
    BY <1>2 DEF Recorded
  <1>6. /\ IsFiniteSet(Recorded(w)) /\ Cardinality(Recorded(w)) \in Nat
        /\ booked[w] \in Nat /\ causes[w] \in Nat
        /\ Accounted(w)
    BY AccountNumbers DEF BookingsAreAccounted, Accounted
  <1>7. Cardinality(Recorded(w)') = IF w = act.watch THEN Cardinality(Recorded(w)) + 1
                                                     ELSE Cardinality(Recorded(w))
    BY <1>4, <1>5, <1>6, FS_AddElement
  <1>8. Unwritten(w) = (IF w = act.watch THEN 1 ELSE 0) /\ Unwritten(w)' = 0
    BY <1>1 DEF Unwritten
  <1> HIDE DEF Recorded, Unwritten
  <1> QED
    BY <1>1, <1>6, <1>7, <1>8 DEF Accounted

LEMMA AccountedStep ==
    ASSUME TypeOK, Shape, BookingsAreAccounted, [Next]_vars
    PROVE  BookingsAreAccounted'
  <1>0. SUFFICES ASSUME NEW w \in Watches PROVE Accounted(w)'
    BY <1>0 DEF BookingsAreAccounted, Accounted
  <1>1. causes \in [Watches -> Nat]
    BY DEF TypeOK
  <1>2. CASE UNCHANGED <<reservations, booked, causes>> /\ Unwritten(w)' = Unwritten(w)
    BY <1>1, <1>2, AccountKept
  <1>3. CASE User \/ Environment
    BY <1>2, <1>3, OutsideEffects DEF memory, Unwritten
  <1>4. ASSUME NEW j \in batch, HandleJob(j) PROVE Accounted(w)'
    <2>1. /\ pc \in {"jobs", "gone"} /\ pc' \in {"jobs", "due", "attempt", "gone"}
          /\ UNCHANGED <<reservations, booked>>
      BY <1>4, HandleJobEffects DEF EndJob
    <2>2. causes' \in [Watches -> Nat] /\ causes[w] <= causes'[w]
      BY <1>1, <1>4, JobFields
         DEF HandleJob, CheckNow, ReserveNowStarts, ReserveNowRefused, ApproveStarts,
             ApproveFindsGone, AnswerGone, ApproveRefused, Decline, ghosts
    <2>3. Unwritten(w)' = Unwritten(w)
      BY <2>1 DEF Unwritten
    <2> QED
      BY <2>1, <2>2, <2>3, AccountKept
  <1>5. ASSUME NEW e \in due, ProcessOneWatch(e) PROVE Accounted(w)'
    BY <1>2, <1>5, ProcessEffects DEF EndCheck, Unwritten
  <1>6. CASE StorageError \/ Crash
    <2>1. Blame /\ UNCHANGED <<reservations, booked>> /\ pc' # "clicked"
      BY <1>6 DEF StorageError, Crash, EndJob, EndCheck, tables
    <2>2. causes' \in [Watches -> Nat]
            /\ causes'[w] = IF Holding(w) THEN causes[w] + 1 ELSE causes[w]
      BY <1>1, <2>1 DEF Blame
    <2>3. Unwritten(w)' = 0 /\ (Unwritten(w) = 1 => Holding(w)) /\ Unwritten(w) \in {0, 1}
      BY <2>1 DEF Unwritten, Holding
    <2>4. causes'[w] \in Nat /\ causes[w] \in Nat
      BY <1>1, <2>2
    <2>5. \/ Unwritten(w)' = Unwritten(w) /\ causes[w] <= causes'[w]
          \/ Unwritten(w)' = 0 /\ causes'[w] = causes[w] + Unwritten(w)
      BY <2>2, <2>3, <2>4
    <2> QED
      BY <2>1, <2>4, <2>5, AccountKept
  <1>7. CASE ClaimJobs \/ ReadDue \/ (\E result \in Results : NotBooked(result)) \/ Finish
             \/ LoopAborts \/ Restart \/ UNCHANGED vars
    <2>1. UNCHANGED <<reservations, booked, causes>>
      BY <1>7 DEF ClaimJobs, ReadDue, NotBooked, Finish, SaveAnnounced, FinishAuto,
                  FinishJob, LoopAborts, Restart, tables, ghosts, vars
    <2>2. (pc # "clicked" /\ pc' # "clicked") \/ UNCHANGED <<pc, act>>
      BY <1>7 DEF ClaimJobs, ReadDue, NotBooked, Finish, SaveAnnounced, FinishAuto,
                  FinishJob, LoopAborts, Restart, EndJob, EndCheck, vars
    <2> QED
      BY <1>2, <2>1, <2>2 DEF Unwritten
  <1> QED
    BY <1>3, <1>4, <1>5, <1>6, <1>7, AccountBooked, AccountRecorded
       DEF Next, Loop, Attempt, Faults

\* Every reservation in the table is a booking the site accepted for that watch, and no
\* accepted booking is missing from it but for one of the causes.
THEOREM BookingsAccounted == Spec => []BookingsAreAccounted
  BY TypeCorrect, ShapeInvariant, AccountedInit, AccountedStep, PTL DEF Spec

-----------------------------------------------------------------------------
(* Which times are booked. *)

LEMMA FoundIsAcceptable == Found \in Acceptable \cup {NoTime}
  <1>1. CASE \E i \in DOMAIN Priority : IsFirst(i, open)
    <2> DEFINE i == CHOOSE i \in DOMAIN Priority : IsFirst(i, open)
    <2>1. i \in DOMAIN Priority
      BY <1>1
    <2> QED
      BY <1>1, <2>1 DEF Found, Candidate, Acceptable
  <1>2. CASE ~ \E i \in DOMAIN Priority : IsFirst(i, open)
    BY <1>2 DEF Found, Candidate
  <1> QED
    BY <1>1, <1>2

\* Sets of numbers have least elements.
LEMMA LeastElement ==
    ASSUME NEW T, T \subseteq Nat, T # {}
    PROVE  \E m \in T : \A n \in T : m <= n
  <1> DEFINE Below == OpToRel(<, Nat)
  <1>1. IsWellFoundedOn(Below, Nat) /\ (\A m, n \in Nat : <<n, m>> \in Below <=> n < m)
    BY NatLessThanWellFounded DEF OpToRel
  <1> HIDE DEF Below
  <1>2. PICK m \in T : \A n \in T : ~(<<n, m>> \in Below)
    BY <1>1, WFMin
  <1>3. \A n \in T : n \in Nat /\ m \in Nat
    OBVIOUS
  <1>4. \A n \in T : ~(n < m)
    BY <1>1, <1>2, <1>3, Zenon
  <1> QED
    BY <1>3, <1>4

\* The choice of a time: nothing is chosen only if nothing ranked is available; otherwise
\* the choice is available, and nothing ranked above its first place is
\* (core.py pick_best_candidate).
THEOREM CandidateIsBest ==
    ASSUME NEW avail \in SUBSET Times
    PROVE  /\ Candidate(avail) = NoTime <=> \A i \in DOMAIN Priority : Priority[i] \notin avail
           /\ Candidate(avail) # NoTime =>
                \E i \in DOMAIN Priority :
                  /\ Priority[i] = Candidate(avail)
                  /\ Candidate(avail) \in avail
                  /\ \A k \in DOMAIN Priority : k < i => Priority[k] \notin avail
  <1> DEFINE Ranked == {i \in DOMAIN Priority : Priority[i] \in avail}
  <1>1. /\ DOMAIN Priority = 1..Len(Priority) /\ Len(Priority) \in Nat
        /\ \A i \in DOMAIN Priority : Priority[i] # NoTime
    BY LenProperties, ElementOfSeq, ConstantsAssumption
  <1>2. CASE Ranked = {}
    <2>1. \A i \in DOMAIN Priority : Priority[i] \notin avail
      BY <1>2
    <2>2. Candidate(avail) = NoTime
      BY <2>1 DEF Candidate, IsFirst
    <2> QED
      BY <2>1, <2>2
  <1>3. CASE Ranked # {}
    <2>0. Ranked \subseteq Nat
      BY <1>1
    <2>1. PICK m \in Ranked : \A n \in Ranked : m <= n
      <3> HIDE DEF Ranked
      <3> QED
        BY <1>3, <2>0, LeastElement
    <2>2. IsFirst(m, avail)
      BY <1>1, <2>1 DEF IsFirst
    <2> DEFINE i == CHOOSE i \in DOMAIN Priority : IsFirst(i, avail)
    <2>3. i \in DOMAIN Priority /\ IsFirst(i, avail) /\ Candidate(avail) = Priority[i]
      BY <2>1, <2>2 DEF Candidate
    <2> HIDE DEF i
    <2>4. \A k \in DOMAIN Priority : k < i => Priority[k] \notin avail
      BY <1>1, <2>3 DEF IsFirst
    <2> QED
      BY <1>1, <2>1, <2>3, <2>4 DEF IsFirst
  <1> QED
    BY <1>2, <1>3

LEMMA WishedStands ==
    ASSUME TypeOK, Shape, [Next]_vars, NEW w, NEW t, Wished(w, t)
    PROVE  Wished(w, t)'
  <1>1. CASE t \in Acceptable
    BY <1>1 DEF Wished, Acceptable
  <1>2. CASE \E j \in DOMAIN jobs :
                jobs[j].type = "RESERVE_NOW" /\ jobs[j].watch = w /\ jobs[j].time = t
    BY <1>2, JobsStand DEF Wished
  <1> QED
    BY <1>1, <1>2 DEF Wished

OnlyWished == OnlyWishedTimes /\ OnlyWishedPending

LEMMA OnlyWishedInit == Init => OnlyWished
  BY DEF Init, OnlyWished, OnlyWishedTimes, OnlyWishedPending, Busy, Unregistered

LEMMA PendingOfSave ==
    ASSUME TypeOK, NEW w \in Watches, NEW r, SaveRow(w, r), NEW P,
           r.pending \in P, \A v \in Watches : row[v].pending \in P
    PROVE  \A v \in Watches : row'[v].pending \in P
  BY DEF SaveRow, TypeOK

LEMMA PendingStep ==
    ASSUME TypeOK, Shape, OnlyWishedPending, [Next]_vars
    PROVE  \A w \in Watches : row'[w].pending \in Acceptable \cup {NoTime}
  <1> DEFINE P == Acceptable \cup {NoTime}
  <1>a. \A w \in Watches : row[w].pending \in P /\ row[w] \in Row
    BY DEF OnlyWishedPending, TypeOK
  <1>1. CASE UNCHANGED row
    BY <1>1, <1>a
  <1>2. ASSUME NEW w \in Watches, NEW r, SaveRow(w, r), r.pending \in P
        PROVE  \A v \in Watches : row'[v].pending \in P
    <2> HIDE DEF P
    <2> QED
      BY <1>a, <1>2, PendingOfSave
  <1>3. CASE User
    <2>1. ASSUME NEW w \in Watches, (\E m \in Modes : Register(w, m)) \/ Remove(w)
          PROVE  \A v \in Watches : row'[v].pending \in P
      BY <1>a, <2>1 DEF Register, Remove, Unregistered, TypeOK
    <2> QED
      BY <1>1, <1>3, <2>1 DEF User, Request, ClickToast
  <1>4. ASSUME NEW j \in batch, HandleJob(j)
        PROVE  \A v \in Watches : row'[v].pending \in P
    <2> DEFINE w == jobs[j].watch
    <2>1. w \in Watches /\ row[w] \in Row
      BY JobFields
    <2>2. /\ ResumedRow(row[w]).pending \in P
          /\ BackToWatching(row[w]).pending \in P
          /\ DeclinedRow(row[w]).pending \in P
      BY <1>a, <2>1 DEF ResumedRow, BackToWatching, DeclinedRow, Row
    <2>3. row' = row \/ (\E r : SaveRow(w, r) /\ r.pending \in P)
      BY <1>4, <2>2 DEF HandleJob, CheckNow, ReserveNowStarts, ReserveNowRefused,
            ApproveStarts, ApproveFindsGone, AnswerGone, ApproveRefused, Decline, tables
    <2> QED
      BY <1>1, <1>2, <2>1, <2>3
  <1>5. ASSUME NEW e \in due, ProcessOneWatch(e)
        PROVE  \A v \in Watches : row'[v].pending \in P
    <2> DEFINE w == e.watch
    <2>1. w \in Watches /\ row[w] \in Row
      BY EntryFields
    <2>2. /\ \A s : [row[w] EXCEPT !.status = s].pending \in P
          /\ \A s, n, d : [Marked(row[w], n, d) EXCEPT !.status = s].pending \in P
          /\ \A n, d : Marked(row[w], n, d).pending \in P
          /\ OfferedRow(row[w], Found, e.copy).pending \in P
      BY <1>a, <2>1, FoundIsAcceptable DEF Marked, OfferedRow, Row
    <2>3. row' = row \/ (\E r : SaveRow(w, r) /\ r.pending \in P)
      BY <1>5, <2>2 DEF ProcessOneWatch, Expire, CheckBlocked, NothingFound, KeepWatching,
            AskSilently, Announce, AutoStarts, tables
    <2> QED
      BY <1>1, <1>2, <2>1, <2>3
  <1>6. CASE Finish
    <2> DEFINE w == act.watch
    <2>1. Busy /\ w \in Watches /\ row[w] \in Row /\ (act.job = 0 => act.time \in P)
      BY <1>6, ActFields DEF Finish, SaveAnnounced, FinishAuto, FinishJob, Busy,
                             OnlyWishedPending
    <2>2. /\ act.job = 0 => AnnouncedRow(row[w], act.time, act.copy).pending \in P
          /\ act.job = 0 => AutoRow(row[w], act).pending \in P
          /\ ApproveRow(row[w], act).pending \in P
          /\ ReserveNowRow(row[w], act).pending \in P
      BY <1>a, <2>1 DEF AnnouncedRow, OfferedRow, AutoRow, ApproveRow, ReserveNowRow, Marked,
                        ReservedRow, BackToWatching, Row
    <2>3. \E r : SaveRow(w, r) /\ r.pending \in P
      BY <1>6, <2>2 DEF Finish, SaveAnnounced, FinishAuto, FinishJob, Shape, ToldByCycle
    <2> QED
      BY <1>2, <2>1, <2>3
  <1>7. CASE Environment \/ ClaimJobs \/ ReadDue \/ Attempt \/ Faults \/ Restart
             \/ UNCHANGED vars
    BY <1>1, <1>7 DEF Environment, BookingOpens, SlotOpens, SlotCloses, EndPasses,
          ClaimJobs, ReadDue, Attempt, Click, NotBooked, RecordReservation, Faults,
          ClickUnconfirmed, StorageError, LoopAborts, Crash, Restart, tables, vars
  <1> QED
    BY <1>3, <1>4, <1>5, <1>6, <1>7 DEF Next, Loop

\* What the loop holds is a time it may book.
InHandWished ==
    Busy => Wished(act.watch, act.time) /\ (act.job = 0 => act.time \in Acceptable)

LEMMA InHandWishedStep ==
    ASSUME TypeOK, Shape, OnlyWishedPending, [Next]_vars
    PROVE  InHandWished'
  <1> USE DEF InHandWished
  <1>1. ASSUME ~Busy' PROVE InHandWished'
    BY <1>1
  <1>2. ASSUME Busy, act'.watch = act.watch, act'.time = act.time, act'.job = act.job
        PROVE  InHandWished'
    <2>1. PICK w, t : w = act.watch /\ t = act.time
      OBVIOUS
    <2>2. Wished(w, t)'
      BY <1>2, <2>1, WishedStands DEF OnlyWishedPending
    <2>3. w = act'.watch /\ t = act'.time /\ (act'.job = 0 => act'.time \in Acceptable)
      BY <1>2, <2>1 DEF OnlyWishedPending
    <2> QED
      BY <2>2, <2>3 DEF Wished, Acceptable
  <1>3. CASE (User \/ Environment) \/ UNCHANGED vars
    BY <1>1, <1>2, <1>3, OutsideEffects DEF memory, vars, Busy
  <1>4. ASSUME NEW j \in batch, HandleJob(j) PROVE InHandWished'
    <2>0. j # 0 /\ jobs[j].watch \in Watches /\ j \in DOMAIN jobs
      BY JobFields DEF TypeOK
    <2>1. CASE ReserveNowStarts(j)
      <3>1. /\ act'.watch = jobs[j].watch /\ act'.time = jobs[j].time /\ act'.job = j
            /\ jobs[j].type = "RESERVE_NOW" /\ jobs' = jobs
        BY <2>1 DEF ReserveNowStarts, Handling, Serving, BeginAttempt, tables
      <3> QED
        BY <2>0, <3>1 DEF Wished
    <2>2. CASE ApproveStarts(j)
      <3>1. /\ act'.time = row[jobs[j].watch].pending /\ act'.job = j
            /\ row[jobs[j].watch].pending # NoTime
        BY <2>2 DEF ApproveStarts, MayApprove, BeginAttempt
      <3>2. act'.time \in Acceptable
        BY <2>0, <3>1 DEF OnlyWishedPending
      <3> QED
        BY <2>0, <3>1, <3>2 DEF Wished, Acceptable
    <2>3. CASE ~ReserveNowStarts(j) /\ ~ApproveStarts(j)
      BY <1>1, <1>4, <2>3 DEF HandleJob, CheckNow, ReserveNowRefused, ApproveFindsGone,
            AnswerGone, ApproveRefused, Decline, EndJob, Busy
    <2> QED
      BY <2>1, <2>2, <2>3
  <1>5. ASSUME NEW e \in due, ProcessOneWatch(e) PROVE InHandWished'
    <2>1. CASE Announce(e) \/ AutoStarts(e)
      <3>1. act'.time = Found /\ Found # NoTime
        BY <2>1 DEF Announce, AutoStarts, BeginAttempt, Hit
      <3>2. act'.time \in Acceptable
        BY <3>1, FoundIsAcceptable
      <3> QED
        BY <3>2 DEF Wished, Acceptable
    <2>2. CASE ~Announce(e) /\ ~AutoStarts(e)
      BY <1>1, <1>5, <2>2 DEF ProcessOneWatch, Expire, CheckBlocked, NothingFound,
            KeepWatching, AskSilently, EndCheck, Busy
    <2> QED
      BY <2>1, <2>2
  <1>6. CASE Attempt \/ ClickUnconfirmed
    BY <1>2, <1>6, AttemptEffects
  <1>7. CASE ClaimJobs \/ ReadDue \/ Finish \/ StorageError \/ LoopAborts \/ Crash \/ Restart
    BY <1>1, <1>7 DEF ClaimJobs, ReadDue, Finish, SaveAnnounced, FinishAuto, FinishJob,
          StorageError, LoopAborts, Crash, Restart, EndCheck, EndJob, Busy
  <1> QED
    BY <1>3, <1>4, <1>5, <1>6, <1>7 DEF Next, Loop, Faults

LEMMA OnlyWishedTimesStep ==
    ASSUME TypeOK, Shape, OnlyWished, [Next]_vars
    PROVE  OnlyWishedTimes'
  <1>1. CASE RecordReservation
    <2>1. reservations' = Append(reservations, [watch |-> act.watch, time |-> act.time])
            /\ Wished(act.watch, act.time) /\ jobs' = jobs
      BY <1>1 DEF RecordReservation, OnlyWished, OnlyWishedPending, Busy
    <2>2. reservations \in Seq(Reservation)
      BY DEF TypeOK
    <2>3. \A i \in DOMAIN reservations' :
             \/ i \in DOMAIN reservations /\ reservations'[i] = reservations[i]
             \/ reservations'[i].watch = act.watch /\ reservations'[i].time = act.time
      BY <2>1, <2>2, AppendProperties, LenProperties
    <2> QED
      BY <2>1, <2>3 DEF OnlyWished, OnlyWishedTimes, Wished, Acceptable
  <1>2. CASE UNCHANGED reservations
    <2>1. ASSUME NEW i \in DOMAIN reservations', NEW w, NEW t,
                 w = reservations[i].watch, t = reservations[i].time
          PROVE  Wished(w, t)'
      BY <1>2, <2>1, WishedStands DEF OnlyWished, OnlyWishedTimes
    <2> QED
      BY <1>2, <2>1 DEF OnlyWishedTimes, Wished, Acceptable
  <1>3. RecordReservation \/ UNCHANGED reservations
    <2>1. \A j \in batch : HandleJob(j) => UNCHANGED reservations
      BY HandleJobEffects
    <2>2. \A e \in due : ProcessOneWatch(e) => UNCHANGED reservations
      BY ProcessEffects
    <2> QED
      BY <2>1, <2>2, OutsideEffects
         DEF Next, Loop, ClaimJobs, ReadDue, Attempt, Click, NotBooked, Finish, SaveAnnounced,
             FinishAuto, FinishJob, Faults, ClickUnconfirmed, StorageError, LoopAborts,
             Crash, Restart, tables, vars
  <1> QED
    BY <1>1, <1>2, <1>3

\* A watch is only ever booked for a time its user ranked, or named in a reserve_now.
THEOREM OnlyWishedTimesBooked == Spec => []OnlyWishedTimes
  <1>1. TypeOK /\ Shape /\ OnlyWished /\ [Next]_vars => OnlyWished'
    <2> SUFFICES ASSUME TypeOK, Shape, OnlyWished, [Next]_vars PROVE OnlyWished'
      OBVIOUS
    <2>1. OnlyWishedTimes'
      BY OnlyWishedTimesStep
    <2>2. OnlyWishedPending'
      <3>1. InHandWished' /\ \A w \in Watches : row'[w].pending \in Acceptable \cup {NoTime}
        BY InHandWishedStep, PendingStep DEF OnlyWished
      <3> QED
        BY <3>1 DEF OnlyWishedPending, InHandWished, Acceptable
    <2> QED
      BY <2>1, <2>2 DEF OnlyWished
  <1>2. OnlyWished => OnlyWishedTimes
    BY DEF OnlyWished
  <1> QED
    BY TypeCorrect, ShapeInvariant, OnlyWishedInit, <1>1, <1>2, PTL DEF Spec

-----------------------------------------------------------------------------
(* Watches that are booked, and watches that are gone. *)

LEMMA ReservedStep ==
    ASSUME TypeOK, Shape, CopiesAreCurrent, AttemptsAreAuthorised, [Next]_vars
    PROVE  StaysReserved
  <1>1. CASE User \/ Environment
    BY <1>1, OutsideEffects DEF StaysReserved
  <1>2. ASSUME NEW w \in Watches,
               row' = row \/ (\E r : SaveRow(w, r) /\ (row[w].status = "RESERVED" =>
                                                         r.status = "RESERVED"))
        PROVE  StaysReserved
    BY <1>2 DEF StaysReserved, SaveRow, TypeOK
  <1>3. ASSUME NEW j \in batch, HandleJob(j) PROVE StaysReserved
    <2> DEFINE w == jobs[j].watch
    <2>1. w \in Watches /\ row[w] \in Row
      BY JobFields
    <2>2. CASE Decline(j)
      <3>1. Serving(j) /\ jobs[j].type = "DECLINE" /\ (\E r : SaveRow(w, r))
        BY <2>2 DEF Decline, Handling
      <3>2. jobs[j].status = "RUNNING" /\ j \in DOMAIN jobs
        BY DEF TypeOK, Shape, BatchIsRunning
      <3>3. jobs'[j].status # jobs[j].status
        BY <2>2, <3>2, EndJobEffects DEF Decline
      <3>4. BeingDeclined(w)
        BY <3>1, <3>3, Zenon DEF BeingDeclined
      <3> QED
        BY <2>1, <3>1, <3>4, SaveChangesOneRow DEF StaysReserved
    <2>3. CASE ~Decline(j)
      <3>1. row[w].status = "RESERVED" => ResumedRow(row[w]).status = "RESERVED"
        BY DEF ResumedRow
      <3> QED
        BY <1>2, <1>3, <2>1, <2>3, <3>1
           DEF HandleJob, CheckNow, ReserveNowStarts, ReserveNowRefused, ApproveStarts,
               ApproveFindsGone, AnswerGone, ApproveRefused, MayApprove, tables
    <2> QED
      BY <2>2, <2>3
  <1>4. ASSUME NEW e \in due
        PROVE  e.watch \in Watches /\ row[e.watch].status # "RESERVED"
    BY EntryFields DEF CopiesAreCurrent, Shape, DueIsActive, Active
  <1>5. ASSUME NEW e \in due, ProcessOneWatch(e) PROVE StaysReserved
    <2>1. row' = row \/ (\E r : SaveRow(e.watch, r))
      BY <1>5 DEF ProcessOneWatch, Expire, CheckBlocked, NothingFound, KeepWatching,
                  AskSilently, Announce, AutoStarts, tables
    <2> QED
      BY <1>2, <1>4, <2>1
  <1>6. CASE SaveAnnounced \/ FinishAuto
    <2>1. ActRow \in due /\ ActRow.watch = act.watch /\ (\E r : SaveRow(act.watch, r))
      BY <1>6 DEF SaveAnnounced, FinishAuto, Shape, ActInHand, ToldByCycle, Busy, ActRow
    <2> QED
      BY <1>2, <1>4, <2>1
  <1>7. CASE FinishJob
    <2>1. act.watch \in Watches /\ row[act.watch] \in Row /\ Authorised(act)
      BY <1>7, ActFields DEF FinishJob, AttemptsAreAuthorised, Busy
    <2>2. CASE jobs[act.job].type = "APPROVE"
      <3>1. row[act.watch].status # "RESERVED"
        BY <1>7, <2>1, <2>2 DEF FinishJob, Authorised, CopiesAreCurrent, Busy
      <3> QED
        BY <1>2, <1>7, <2>1, <3>1 DEF FinishJob
    <2>3. CASE jobs[act.job].type # "APPROVE"
      <3>1. row[act.watch].status = "RESERVED" =>
              ReserveNowRow(row[act.watch], act).status = "RESERVED"
        BY <2>1 DEF ReserveNowRow, ReservedRow, Row
      <3> QED
        BY <1>2, <1>7, <2>1, <2>3, <3>1 DEF FinishJob
    <2> QED
      BY <2>2, <2>3
  <1>8. CASE UNCHANGED row
    BY <1>8 DEF StaysReserved
  <1>9. CASE Attempt \/ ClickUnconfirmed \/ ClaimJobs \/ ReadDue \/ StorageError
             \/ LoopAborts \/ Crash \/ Restart \/ UNCHANGED vars
    BY <1>8, <1>9, AttemptEffects
       DEF ClaimJobs, ReadDue, StorageError, LoopAborts, Crash, Restart, tables, vars
  <1> QED
    BY <1>1, <1>3, <1>5, <1>6, <1>7, <1>9 DEF Next, Loop, Finish, Faults

\* A booked watch stays booked until it is removed or a DECLINE on it is handled.
THEOREM ReservedStays == Spec => ReservedUntilDeclined
  <1>1. TypeOK /\ Shape /\ CopiesAreCurrent /\ AttemptsAreAuthorised /\ [Next]_vars
          => [StaysReserved]_vars
    BY ReservedStep
  <1> QED
    BY TypeCorrect, ShapeInvariant, CopiesStayCurrent, AttemptsAuthorised, <1>1, PTL
       DEF Spec, ReservedUntilDeclined

\* The jobs in the table are of the kinds the user can send.
JobsAreCommands == \A j \in DOMAIN jobs : jobs[j].type \in Commands

LEMMA JobsAreCommandsStep ==
    ASSUME TypeOK, Shape, JobsAreCommands, [Next]_vars
    PROVE  JobsAreCommands'
  <1>1. ASSUME NEW type \in Commands, NEW w \in Watches, NEW t \in MaybeTime, AddJob(type, w, t)
        PROVE  JobsAreCommands'
    <2>1. jobs \in Seq(Job)
      BY DEF TypeOK
    <2> DEFINE job == [type |-> type, watch |-> w, time |-> t, status |-> "PENDING"]
    <2>2. job \in Job
      BY <1>1, ConstantsAssumption DEF Job
    <2>3. /\ DOMAIN jobs' = 1..(Len(jobs) + 1) /\ DOMAIN jobs = 1..Len(jobs)
          /\ \A j \in 1..Len(jobs) : jobs'[j] = jobs[j]
          /\ jobs'[Len(jobs) + 1] = job
          /\ Len(jobs) \in Nat
      BY <1>1, <2>1, <2>2, AppendProperties, LenProperties DEF AddJob
    <2> QED
      BY <2>3 DEF JobsAreCommands
  <1>2. CASE User \/ Environment
    <2>1. NoTime \in MaybeTime /\ \A o \in toasts : o.watch \in Watches
      BY DEF TypeOK, MaybeTime
    <2>2. UNCHANGED jobs \/ (\E type \in Commands, w \in Watches, t \in MaybeTime :
                               AddJob(type, w, t))
      BY <1>2, <2>1 DEF User, Register, Remove, Request, ClickToast, Environment,
             BookingOpens, SlotOpens, SlotCloses, EndPasses, tables
    <2> QED
      BY <1>1, <2>2 DEF JobsAreCommands
  <1>3. CASE ~(User \/ Environment)
    <2>1. DOMAIN jobs' = DOMAIN jobs
      BY <1>3, JobsMove, ClaimType, EndJobEffects DEF Answers, TypeOK
    <2> QED
      BY <2>1, JobsStand DEF JobsAreCommands
  <1> QED
    BY <1>2, <1>3

\* Where no DECLINE can be sent, the claim of models.py holds: a booked watch is over.
THEOREM FinalWithoutDecline ==
    ASSUME "DECLINE" \notin Commands
    PROVE  Spec => ReservedIsFinal
  <1>1. Init => JobsAreCommands
    BY DEF Init, JobsAreCommands
  <1>2. TypeOK /\ Shape /\ JobsAreCommands /\ [Next]_vars => JobsAreCommands'
    BY JobsAreCommandsStep
  <1>3. TypeOK /\ Shape /\ CopiesAreCurrent /\ AttemptsAreAuthorised /\ JobsAreCommands
          /\ [Next]_vars
          => [\A w \in Watches :
                row[w].status = "RESERVED" => row'[w].status \in {"RESERVED", "REMOVED"}]_vars
    <2> SUFFICES ASSUME TypeOK, Shape, CopiesAreCurrent, AttemptsAreAuthorised,
                        JobsAreCommands, [Next]_vars, NEW w \in Watches,
                        row[w].status = "RESERVED"
                 PROVE  row'[w].status \in {"RESERVED", "REMOVED"}
      OBVIOUS
    <2>1. ~BeingDeclined(w)
      BY DEF BeingDeclined, JobsAreCommands, TypeOK
    <2> QED
      BY <2>1, ReservedStep DEF StaysReserved
  <1> QED
    BY TypeCorrect, ShapeInvariant, CopiesStayCurrent, AttemptsAuthorised, <1>1, <1>2, <1>3,
       PTL DEF Spec, ReservedIsFinal

LEMMA ForgottenStep ==
    ASSUME TypeOK, Shape, [Next]_vars
    PROVE  StaysForgotten
  <1> SUFFICES ASSUME NEW w \in Watches, Forgotten(w) PROVE Forgotten(w)'
    BY DEF StaysForgotten
  <1>a. row[w].status = "REMOVED" /\ ~InHand(w)
    BY DEF Forgotten
  <1>1. ASSUME UNCHANGED row \/ (\E v \in Watches : \E r : SaveRow(v, r))
        PROVE  row'[w].status = "REMOVED"
    BY <1>1, <1>a DEF SaveRow, Exists, TypeOK
  <1>2. ASSUME due' \subseteq due, ~Busy' \/ (Busy /\ act'.watch = act.watch)
        PROVE  ~InHand(w)'
    BY <1>2, <1>a DEF InHand
  <1>3. CASE (User \/ Environment) \/ UNCHANGED vars
    <2>1. UNCHANGED <<pc, due, act>>
      BY <1>3, OutsideEffects DEF memory, vars
    <2>2. row'[w].status = "REMOVED"
      BY <1>3, <1>a, OutsideEffects DEF vars
    <2> QED
      BY <1>2, <2>1, <2>2 DEF Forgotten, Busy
  <1>4. ASSUME NEW j \in batch, HandleJob(j) PROVE Forgotten(w)'
    <2> DEFINE v == jobs[j].watch
    <2>1. v \in Watches
      BY JobFields
    <2>2. UNCHANGED row \/ (\E r : SaveRow(v, r))
      BY <1>4 DEF HandleJob, CheckNow, ReserveNowStarts, ReserveNowRefused, ApproveStarts,
                  ApproveFindsGone, AnswerGone, ApproveRefused, Decline, tables
    <2>3. UNCHANGED due
      BY <1>4, HandleJobEffects
    <2>4. ~Busy' \/ (act'.watch = v /\ Exists(v))
      BY <1>4, HandleJobEffects DEF EndJob, Busy
    <2>5. v # w \/ ~Busy'
      BY <1>a, <2>4 DEF Exists
    <2> QED
      BY <1>1, <1>a, <2>1, <2>2, <2>3, <2>4, <2>5 DEF Forgotten, InHand
  <1>5. ASSUME NEW e \in due, ProcessOneWatch(e) PROVE Forgotten(w)'
    <2>1. e.watch \in Watches /\ e.watch # w
      BY <1>a, EntryFields DEF InHand
    <2>2. UNCHANGED row \/ (\E r : SaveRow(e.watch, r))
      BY <1>5 DEF ProcessOneWatch, Expire, CheckBlocked, NothingFound, KeepWatching,
                  AskSilently, Announce, AutoStarts, tables
    <2>3. due' \subseteq due /\ (~Busy' \/ act'.watch = e.watch)
      BY <1>5, ProcessEffects DEF EndCheck, Busy
    <2> QED
      BY <1>1, <1>a, <2>1, <2>2, <2>3 DEF Forgotten, InHand
  <1>6. CASE Attempt \/ ClickUnconfirmed
    BY <1>1, <1>2, <1>6, AttemptEffects DEF Forgotten
  <1>7. CASE Finish
    <2>1. \E v \in Watches : \E r : SaveRow(v, r)
      BY <1>7, ActFields DEF Finish, SaveAnnounced, FinishAuto, FinishJob, Busy
    <2>2. due' \subseteq due /\ ~Busy'
      BY <1>7 DEF Finish, SaveAnnounced, FinishAuto, FinishJob, EndCheck, EndJob, Busy
    <2> QED
      BY <1>1, <1>2, <2>1, <2>2 DEF Forgotten
  <1>8. CASE ReadDue
    <2>1. UNCHANGED row /\ ~Busy' /\ (\A e \in due' : row[e.watch].status \in Active)
      BY <1>8 DEF ReadDue, tables, Busy
    <2> QED
      BY <1>1, <1>a, <2>1 DEF Forgotten, InHand, Active
  <1>9. CASE ClaimJobs \/ StorageError \/ LoopAborts \/ Crash \/ Restart
    <2>1. UNCHANGED row /\ due' \subseteq due /\ ~Busy'
      BY <1>9 DEF ClaimJobs, StorageError, LoopAborts, Crash, Restart, EndCheck, EndJob,
                  tables, Busy
    <2> QED
      BY <1>1, <1>2, <2>1 DEF Forgotten
  <1> QED
    BY <1>3, <1>4, <1>5, <1>6, <1>7, <1>8, <1>9 DEF Next, Loop, Faults

\* A removed watch that the loop no longer holds is never touched again, whatever jobs on
\* it are still queued and whatever the loop read before.
THEOREM ForgottenStays == Spec => ForgottenForGood
  <1>1. TypeOK /\ Shape /\ [Next]_vars => [StaysForgotten]_vars
    BY ForgottenStep
  <1> QED
    BY TypeCorrect, ShapeInvariant, <1>1, PTL DEF Spec, ForgottenForGood

-----------------------------------------------------------------------------
(* The life of a watch. *)

LEMMA ActsWhenOpenStep ==
    ASSUME TypeOK, Shape, ActsWhenOpen, [Next]_vars
    PROVE  ActsWhenOpen'
  <1> USE DEF ActsWhenOpen, Busy, world, tables
  <1>1. CASE User \/ Environment
    <2>1. page' \in {page, "OPEN"}
      BY <1>1 DEF User, Register, Remove, Request, ClickToast, Environment, BookingOpens,
                  SlotOpens, SlotCloses, EndPasses
    <2> QED
      BY <1>1, <2>1, OutsideEffects DEF memory
  <1>2. ASSUME NEW j \in batch, HandleJob(j) PROVE ActsWhenOpen'
    BY <1>2, HandleJobEffects, JobFields DEF EndJob
  <1>3. ASSUME NEW e \in due, ProcessOneWatch(e) PROVE ActsWhenOpen'
    <2>1. CASE Announce(e) \/ AutoStarts(e)
      <3>1. page = "OPEN" /\ page' = page
        BY <2>1 DEF Announce, AutoStarts, Hit, Found, TypeOK
      <3> QED
        BY <3>1
    <2>2. CASE ~Announce(e) /\ ~AutoStarts(e)
      BY <1>3, <2>2 DEF ProcessOneWatch, Expire, CheckBlocked, NothingFound,
            KeepWatching, AskSilently, EndCheck
    <2> QED
      BY <2>1, <2>2
  <1>4. CASE Attempt \/ ClickUnconfirmed
    <2>1. page' = page
      BY <1>4 DEF Attempt, Click, NotBooked, RecordReservation, ClickUnconfirmed
    <2> QED
      BY <1>4, <2>1, AttemptEffects
  <1>5. CASE ClaimJobs \/ ReadDue \/ Finish \/ StorageError \/ LoopAborts \/ Crash \/ Restart
    BY <1>5 DEF ClaimJobs, ReadDue, Finish, SaveAnnounced, FinishAuto, FinishJob,
          StorageError, LoopAborts, Crash, Restart, EndCheck, EndJob
  <1>6. CASE UNCHANGED vars
    BY <1>6 DEF vars
  <1> QED
    BY <1>1, <1>2, <1>3, <1>4, <1>5, <1>6 DEF Next, Loop, Faults

\* The forms a step takes in the life of one watch.
Unmoved(w) == row'[w].status = row[w].status

SameCommand(w) == Commanded(w)' = Commanded(w)

Rounds(w) ==
    /\ row[w].status \in Active
    /\ row'[w].status \in {"EXPIRED", "NEEDS_HUMAN"} \cup
                          (IF page = "OPEN" THEN {"WATCHING", "AWAITING_APPROVAL", "RESERVED"}
                                            ELSE {"WAITING_OPEN"})

Obeys(w) ==
    \/ Exists(w) /\ row'[w].status \in {"WATCHING", "RESERVED"}
    \/ row[w].status = "NEEDS_HUMAN" /\ page # "OPEN" /\ row'[w].status = "WAITING_OPEN"
    \/ row[w].status = "AWAITING_APPROVAL" /\ row'[w].status = "NEEDS_HUMAN"

LEMMA CommandedIsBoolean ==
    ASSUME NEW w PROVE Commanded(w) \in BOOLEAN /\ Commanded(w)' \in BOOLEAN
  BY DEF Commanded

\* A command is taken up or ends.
LEMMA StutterForm ==
    ASSUME NEW w \in Watches, Unmoved(w), page' = page
    PROVE  LifecycleStep(w)
  <1>1. CASE SameCommand(w)
    BY <1>1 DEF LifecycleStep, Unmoved, SameCommand, Lifecycle!vars
  <1>2. CASE ~SameCommand(w)
    <2>1. Commanded(w) \/ Commanded(w)'
      BY <1>2, CommandedIsBoolean, Zenon DEF SameCommand
    <2>2. Lifecycle(w)!Command
      BY <2>1, CommandedIsBoolean DEF Unmoved, Lifecycle!Command
    <2> QED
      BY <2>2 DEF LifecycleStep, Lifecycle!Next
  <1> QED
    BY <1>1, <1>2

LEMMA TableForm ==
    ASSUME NEW w \in Watches, SameCommand(w),
           \/ Unmoved(w) /\ page # "OPEN" /\ page' = "OPEN"
           \/ /\ page' = page
              /\ \/ row[w].status = "UNREGISTERED" /\ row'[w].status = "PENDING"
                 \/ Exists(w) /\ row'[w].status = "REMOVED"
                 \/ Rounds(w)
    PROVE  LifecycleStep(w)
  <1>1. Lifecycle(w)!Register \/ Lifecycle(w)!Remove \/ Lifecycle(w)!Open \/ Lifecycle(w)!Round
    BY DEF SameCommand, Unmoved, Exists, Rounds, Active, Lifecycle!Register, Lifecycle!Remove,
           Lifecycle!Open, Lifecycle!Round, Lifecycle!Active, Lifecycle!Gone
  <1> QED
    BY <1>1 DEF LifecycleStep, Lifecycle!Next

LEMMA CommandForm ==
    ASSUME NEW w \in Watches, Commanded(w), page' = page, Unmoved(w) \/ Obeys(w)
    PROVE  LifecycleStep(w)
  <1>1. Lifecycle(w)!Command
    BY CommandedIsBoolean DEF Unmoved, Obeys, Exists, Lifecycle!Command, Lifecycle!Gone
  <1> QED
    BY <1>1 DEF LifecycleStep, Lifecycle!Next

LEMMA SaveMoves ==
    ASSUME TypeOK, NEW w \in Watches, NEW r, SaveRow(w, r)
    PROVE  /\ \A v \in Watches \ {w} : Unmoved(v)
           /\ Exists(w) => row'[w] = r
           /\ ~Exists(w) => Unmoved(w)
  BY DEF SaveRow, Unmoved, TypeOK

KeepsAll == \A w \in Watches : LifecycleStep(w)

\* A round of checks writes the row it read.
LEMMA RoundKeeps ==
    ASSUME TypeOK, UNCHANGED <<jobs, page, batch>>, NEW w \in Watches,
           row[w].status \in Active \/ row[w].status = "REMOVED",
           row' = row \/ (\E r : SaveRow(w, r) /\ (Exists(w) =>
               \/ r.status = row[w].status
               \/ r.status \in {"EXPIRED", "NEEDS_HUMAN"}
               \/ page = "OPEN" /\ r.status \in {"WATCHING", "AWAITING_APPROVAL", "RESERVED"}
               \/ page # "OPEN" /\ r.status = "WAITING_OPEN"))
    PROVE  KeepsAll
  <1>1. \A v \in Watches : SameCommand(v)
    BY DEF SameCommand, Commanded, Serving
  <1>2. ASSUME NEW v \in Watches, Unmoved(v) PROVE LifecycleStep(v)
    BY <1>2, StutterForm
  <1>3. CASE row' = row
    BY <1>2, <1>3 DEF KeepsAll, Unmoved
  <1>4. CASE row' # row
    <2>1. PICK r : SaveRow(w, r) /\ (Exists(w) =>
               \/ r.status = row[w].status
               \/ r.status \in {"EXPIRED", "NEEDS_HUMAN"}
               \/ page = "OPEN" /\ r.status \in {"WATCHING", "AWAITING_APPROVAL", "RESERVED"}
               \/ page # "OPEN" /\ r.status = "WAITING_OPEN")
      BY <1>4
    <2>2. /\ \A v \in Watches \ {w} : Unmoved(v)
          /\ Exists(w) => row'[w] = r
          /\ ~Exists(w) => Unmoved(w)
      BY <2>1, SaveMoves
    <2>3. Unmoved(w) \/ Rounds(w)
      BY <2>1, <2>2 DEF Unmoved, Rounds, Exists
    <2>4. LifecycleStep(w)
      BY <1>1, <1>2, <2>3, TableForm
    <2> QED
      BY <1>2, <2>2, <2>4 DEF KeepsAll
  <1> QED
    BY <1>3, <1>4

\* A job that is being handled writes the row of its watch.
LEMMA CommandKeeps ==
    ASSUME TypeOK, page' = page, NEW w \in Watches, Commanded(w),
           row' = row \/ (\E r : SaveRow(w, r) /\ (Exists(w) =>
               \/ r.status \in {row[w].status, "WATCHING", "RESERVED"}
               \/ row[w].status = "NEEDS_HUMAN" /\ page # "OPEN" /\ r.status = "WAITING_OPEN"
               \/ row[w].status = "AWAITING_APPROVAL" /\ r.status = "NEEDS_HUMAN"))
    PROVE  KeepsAll
  <1>1. CASE row' = row
    BY <1>1, StutterForm DEF KeepsAll, Unmoved
  <1>2. CASE row' # row
    <2>1. PICK r : SaveRow(w, r) /\ (Exists(w) =>
               \/ r.status \in {row[w].status, "WATCHING", "RESERVED"}
               \/ row[w].status = "NEEDS_HUMAN" /\ page # "OPEN" /\ r.status = "WAITING_OPEN"
               \/ row[w].status = "AWAITING_APPROVAL" /\ r.status = "NEEDS_HUMAN")
      BY <1>2
    <2>2. /\ \A v \in Watches \ {w} : Unmoved(v)
          /\ Exists(w) => row'[w] = r
          /\ ~Exists(w) => Unmoved(w)
      BY <2>1, SaveMoves
    <2>3. Unmoved(w) \/ Obeys(w)
      BY <2>1, <2>2 DEF Unmoved, Obeys
    <2>4. LifecycleStep(w)
      BY <2>3, CommandForm
    <2> QED
      BY <2>2, <2>4, StutterForm DEF KeepsAll
  <1> QED
    BY <1>1, <1>2

LEMMA OutsideKeeps ==
    ASSUME TypeOK, User \/ Environment
    PROVE  KeepsAll
  <1>1. ASSUME NEW w \in Watches PROVE SameCommand(w)
    <2>1. batch' = batch /\ batch \subseteq DOMAIN jobs /\ \A j \in DOMAIN jobs : jobs'[j] = jobs[j]
      BY OutsideEffects DEF memory, TypeOK
    <2>2. Commanded(w)' <=> Commanded(w)
      BY <2>1 DEF Commanded, Serving
    <2> QED
      BY <2>2, CommandedIsBoolean, Zenon DEF SameCommand
  <1>2. CASE UNCHANGED row /\ (page' = page \/ (page # "OPEN" /\ page' = "OPEN"))
    BY <1>1, <1>2, StutterForm, TableForm DEF KeepsAll, Unmoved
  <1>3. ASSUME NEW w \in Watches, (\E m \in Modes : Register(w, m)) \/ Remove(w)
        PROVE  KeepsAll
    <2>1. /\ \A v \in Watches \ {w} : row'[v] = row[v]
          /\ \/ row[w].status = "UNREGISTERED" /\ row'[w].status = "PENDING"
             \/ Exists(w) /\ row'[w].status = "REMOVED"
          /\ page' = page
      BY <1>3 DEF Register, Remove, Unregistered, TypeOK, world
    <2> QED
      BY <1>1, <2>1, StutterForm, TableForm DEF KeepsAll, Unmoved
  <1>4. CASE Environment
    BY <1>2, <1>4 DEF Environment, BookingOpens, SlotOpens, SlotCloses, EndPasses, tables
  <1> QED
    BY <1>2, <1>3, <1>4 DEF User, Request, ClickToast, world

LEMMA HandleJobKeeps ==
    ASSUME TypeOK, Shape, NEW j \in batch, HandleJob(j)
    PROVE  KeepsAll
  <1> USE DEF world, tables
  <1> DEFINE w == jobs[j].watch
  <1>1. w \in Watches /\ row[w] \in Row /\ page \in {"BEFORE_OPEN", "OPEN"}
    BY JobFields DEF TypeOK
  <1>2. page' = page
    BY DEF HandleJob, CheckNow, ReserveNowStarts, ReserveNowRefused, ApproveStarts,
           ApproveFindsGone, AnswerGone, ApproveRefused, Decline
  <1>3. Commanded(w)
    BY HandleJobEffects DEF Commanded
  <1>4. /\ BackToWatching(row[w]).status = "WATCHING"
        /\ DeclinedRow(row[w]).status = "WATCHING"
        /\ \/ ResumedRow(row[w]).status \in {row[w].status, "WATCHING"}
           \/ /\ row[w].status = "NEEDS_HUMAN" /\ page # "OPEN"
              /\ ResumedRow(row[w]).status = "WAITING_OPEN"
    BY <1>1 DEF BackToWatching, DeclinedRow, ResumedRow, Row
  <1>5. row' = row \/ SaveRow(w, BackToWatching(row[w])) \/ SaveRow(w, DeclinedRow(row[w]))
          \/ SaveRow(w, ResumedRow(row[w]))
    BY DEF HandleJob, CheckNow, ReserveNowStarts, ReserveNowRefused, ApproveStarts,
           ApproveFindsGone, AnswerGone, ApproveRefused, Decline
  <1>6. row' = row \/ (\E r : SaveRow(w, r) /\ (Exists(w) =>
             \/ r.status \in {row[w].status, "WATCHING", "RESERVED"}
             \/ row[w].status = "NEEDS_HUMAN" /\ page # "OPEN" /\ r.status = "WAITING_OPEN"
             \/ row[w].status = "AWAITING_APPROVAL" /\ r.status = "NEEDS_HUMAN"))
    BY <1>4, <1>5
  <1> QED
    BY <1>1, <1>2, <1>3, <1>6, CommandKeeps

LEMMA ProcessKeeps ==
    ASSUME TypeOK, Shape, CopiesAreCurrent, NEW e \in due, ProcessOneWatch(e)
    PROVE  KeepsAll
  <1> USE DEF world, tables
  <1> DEFINE w == e.watch
  <1>1. w \in Watches /\ row[w] \in Row /\ page \in {"BEFORE_OPEN", "OPEN"}
    BY EntryFields DEF TypeOK
  <1>2. row[w].status \in Active \/ row[w].status = "REMOVED"
    BY DEF CopiesAreCurrent, Shape, DueIsActive
  <1>3. UNCHANGED <<jobs, page, batch>>
    BY DEF ProcessOneWatch, Expire, CheckBlocked, NothingFound, KeepWatching, AskSilently,
           Announce, AutoStarts
  <1>4. /\ \A n, d, s : [Marked(row[w], n, d) EXCEPT !.status = s].status = s
        /\ \A s : [row[w] EXCEPT !.status = s].status = s
        /\ OfferedRow(row[w], Found, e.copy).status = "AWAITING_APPROVAL"
    BY <1>1 DEF Marked, OfferedRow, Row
  <1>5. Hit(e) => page = "OPEN"
    BY <1>1 DEF Hit, Found
  <1>6. row' = row \/ (\E r : SaveRow(w, r) /\
               \/ r.status \in {"EXPIRED", "NEEDS_HUMAN"}
               \/ page = "OPEN" /\ r.status \in {"WATCHING", "AWAITING_APPROVAL", "RESERVED"}
               \/ page # "OPEN" /\ r.status = "WAITING_OPEN")
    <2>1. CASE Expire(e) \/ CheckBlocked(e)
      BY <1>4, <2>1 DEF Expire, CheckBlocked
    <2>2. CASE NothingFound(e)
      <3> DEFINE r == [Marked(row[w], NoTime, NoTime) EXCEPT
                         !.status = IF page = "BEFORE_OPEN" THEN "WAITING_OPEN" ELSE "WATCHING"]
      <3>1. SaveRow(w, r)
        BY <2>2 DEF NothingFound
      <3>2. IF page = "OPEN" THEN r.status = "WATCHING" ELSE r.status = "WAITING_OPEN"
        BY <1>1, <1>4
      <3> HIDE DEF r
      <3> QED
        BY <3>1, <3>2
    <2>3. CASE KeepWatching(e)
      <3> DEFINE r == [Marked(row[w], e.copy.notified, e.copy.declined)
                         EXCEPT !.status = "WATCHING"]
      <3>1. SaveRow(w, r) /\ page = "OPEN" /\ r.status = "WATCHING"
        BY <1>4, <1>5, <2>3 DEF KeepWatching
      <3> HIDE DEF r
      <3> QED
        BY <3>1
    <2>4. CASE AskSilently(e)
      <3>1. SaveRow(w, OfferedRow(row[w], Found, e.copy)) /\ page = "OPEN"
        BY <1>5, <2>4 DEF AskSilently
      <3> QED
        BY <1>4, <3>1
    <2>5. CASE Announce(e) \/ AutoStarts(e)
      BY <2>5 DEF Announce, AutoStarts
    <2> QED
      BY <2>1, <2>2, <2>3, <2>4, <2>5 DEF ProcessOneWatch
  <1> QED
    BY <1>1, <1>2, <1>3, <1>6, RoundKeeps

LEMMA FinishKeeps ==
    ASSUME TypeOK, Shape, CopiesAreCurrent, AttemptsAreAuthorised, ServesOldest,
           ActsWhenOpen, Finish
    PROVE  KeepsAll
  <1> USE DEF world, tables
  <1> DEFINE w == act.watch
  <1>1. Busy /\ w \in Watches /\ row[w] \in Row /\ act \in Act /\ act.copy \in Row
    BY ActFields DEF Finish, SaveAnnounced, FinishAuto, FinishJob, Busy
  <1>2. row[w].status = "REMOVED" \/ row[w] = act.copy
    BY <1>1 DEF CopiesAreCurrent
  <1>3. CASE SaveAnnounced \/ FinishAuto
    <2>1. ActRow \in due /\ act.job = 0 /\ page = "OPEN" /\ UNCHANGED <<jobs, page, batch>>
      BY <1>1, <1>3 DEF SaveAnnounced, FinishAuto, Shape, ActInHand, ToldByCycle, ActsWhenOpen
    <2>2. row[w].status \in Active \/ row[w].status = "REMOVED"
      BY <1>2, <2>1 DEF Shape, DueIsActive, ActRow
    <2>3. /\ AnnouncedRow(row[w], act.time, act.copy).status \in {"AWAITING_APPROVAL", "WATCHING"}
          /\ AutoRow(row[w], act).status \in
                {"RESERVED", "AWAITING_APPROVAL", "NEEDS_HUMAN", "WATCHING"}
      BY <1>1 DEF AnnouncedRow, OfferedRow, AutoRow, Marked, ReservedRow, Row
    <2>4. \E r : SaveRow(w, r) /\ r.status \in
                {"RESERVED", "AWAITING_APPROVAL", "NEEDS_HUMAN", "WATCHING"}
      BY <1>3, <2>3 DEF SaveAnnounced, FinishAuto
    <2> QED
      BY <1>1, <2>1, <2>2, <2>4, RoundKeeps
  <1>4. CASE FinishJob
    <2>1. page' = page /\ Commanded(w) /\ Authorised(act)
      BY <1>1, <1>4, AttemptIsServed DEF FinishJob, AttemptsAreAuthorised
    <2>2. jobs[act.job].type = "APPROVE" /\ Exists(w) =>
             /\ row[w].status = "AWAITING_APPROVAL"
             /\ ApproveRow(row[w], act).status \in
                   {"RESERVED", "AWAITING_APPROVAL", "NEEDS_HUMAN", "WATCHING"}
      <3>1. jobs[act.job].type = "APPROVE" => act.copy.status = "AWAITING_APPROVAL"
        BY <1>4, <2>1 DEF FinishJob, Authorised
      <3>2. ApproveRow(row[w], act).status \in
                   {"RESERVED", "AWAITING_APPROVAL", "NEEDS_HUMAN", "WATCHING"}
        BY <1>1 DEF ApproveRow, ReservedRow, BackToWatching, Row
      <3> QED
        BY <1>2, <3>1, <3>2 DEF Exists
    <2>3. ReserveNowRow(row[w], act).status \in {row[w].status, "RESERVED"}
      BY <1>1 DEF ReserveNowRow, ReservedRow, Row
    <2>4. \E r : SaveRow(w, r) /\ (Exists(w) =>
               \/ r.status \in {row[w].status, "WATCHING", "RESERVED"}
               \/ row[w].status = "AWAITING_APPROVAL" /\ r.status = "NEEDS_HUMAN")
      BY <1>4, <2>2, <2>3 DEF FinishJob
    <2> QED
      BY <1>1, <2>1, <2>4, CommandKeeps
  <1> QED
    BY <1>3, <1>4 DEF Finish

LEMMA LifecycleKeeps ==
    ASSUME TypeOK, Shape, CopiesAreCurrent, AttemptsAreAuthorised, ServesOldest, ActsWhenOpen,
           [Next]_vars
    PROVE  KeepsAll
  <1> USE DEF world, tables
  <1>1. ASSUME UNCHANGED <<row, page>> PROVE KeepsAll
    BY <1>1, StutterForm DEF KeepsAll, Unmoved
  <1>2. CASE Attempt \/ ClickUnconfirmed \/ ClaimJobs \/ ReadDue \/ StorageError \/ LoopAborts
             \/ Crash \/ Restart \/ UNCHANGED vars
    BY <1>1, <1>2 DEF Attempt, Click, NotBooked, RecordReservation, ClickUnconfirmed, ClaimJobs,
       ReadDue, StorageError, LoopAborts, Crash, Restart, vars
  <1> QED
    BY <1>2, OutsideKeeps, HandleJobKeeps, ProcessKeeps, FinishKeeps DEF Next, Loop, Faults

LEMMA LifecycleInit == Init => ActsWhenOpen /\ \A w \in Watches : Lifecycle(w)!Init
  <1> SUFFICES ASSUME Init PROVE ActsWhenOpen /\ \A w \in Watches : Lifecycle(w)!Init
    OBVIOUS
  <1>1. ActsWhenOpen
    BY DEF Init, ActsWhenOpen, Busy
  <1>2. ASSUME NEW w \in Watches PROVE Lifecycle(w)!Init
    <2>1. Commanded(w) = FALSE
      BY DEF Init, Commanded
    <2> QED
      BY <2>1 DEF Init, Unregistered, Lifecycle!Init
  <1> QED
    BY <1>1, <1>2

\* The loop acts on its own only on an open page.
THEOREM OpenWhenActing == Spec => []ActsWhenOpen
  BY TypeCorrect, ShapeInvariant, LifecycleInit, ActsWhenOpenStep, PTL DEF Spec

\* Whoever writes the rows, each watch goes through the life WatchLifecycle promises.
THEOREM LifecycleKept == Spec => KeepsLifecycle
  <1>1. TypeOK /\ Shape /\ CopiesAreCurrent /\ AttemptsAreAuthorised /\ ServesOldest
          /\ ActsWhenOpen /\ [Next]_vars => [\A w \in Watches : LifecycleStep(w)]_vars
    BY LifecycleKeeps DEF KeepsAll
  <1> QED
    BY TypeCorrect, ShapeInvariant, CopiesStayCurrent, AttemptsAuthorised, OldestIsServed,
       OpenWhenActing, LifecycleInit, <1>1, PTL DEF Spec, KeepsLifecycle

\* In the words of refinement: what happens to one watch is a behaviour of WatchLifecycle.
THEOREM EachLifecycle == ASSUME NEW w \in Watches PROVE Spec => Lifecycle(w)!Spec
  <1>1. TypeOK /\ Shape /\ CopiesAreCurrent /\ AttemptsAreAuthorised /\ ServesOldest
          /\ ActsWhenOpen /\ [Next]_vars => [Lifecycle(w)!Next]_(Lifecycle(w)!vars)
    BY LifecycleKeeps DEF KeepsAll, LifecycleStep
  <1>2. Init => Lifecycle(w)!Init
    BY LifecycleInit
  <1> QED
    BY TypeCorrect, ShapeInvariant, CopiesStayCurrent, AttemptsAuthorised, OldestIsServed,
       OpenWhenActing, <1>1, <1>2, PTL DEF Spec, Lifecycle!Spec
=============================================================================
