---------------------------- MODULE ServiceProofs ----------------------------
(* Proofs about CommandService for every value of its constants. *)
EXTENDS ServiceInvariant, TLAPS

-----------------------------------------------------------------------------
(* Types. *)

LEMMA ConstantTypes ==
    /\ MaxCommands \in Nat /\ StaleAfter \in Nat \ {0} /\ LockWait \in Nat /\ LoginTime \in Nat
    /\ MaxFaults \in Nat /\ MaxLogins \in Nat
    /\ \A t \in Waits : t \in Nat
    /\ \A w \in Watchers : w # LOGIN /\ w # FREE
    /\ LOGIN # FREE
  BY ServiceAssumption DEF LOGIN, FREE

\* What a new job changes.
LEMMA NewJobType ==
    ASSUME TypeOK, NEW who \in {"WAITING", "NOBODY"}, NEW t \in Nat, NewJob(who, t)
    PROVE  TypeOK'
  <1>1. sent' \in 0..MaxCommands /\ sent + 1 \in Commands
    BY ConstantTypes DEF TypeOK, NewJob, Commands
  <1>2. /\ status' \in [Commands -> {"NONE", "PENDING", "RUNNING"} \cup Outcomes]
        /\ client' \in [Commands -> {"NOBODY", "WAITING", "TIMEOUT"} \cup Outcomes]
        /\ wait' \in [Commands -> Nat]
    BY DEF TypeOK, NewJob
  <1> QED
    BY <1>1 DEF TypeOK, NewJob, service

\* Letting go of the jobs in hand.
LEMMA DropType ==
    ASSUME TypeOK, NEW w \in Watchers, NEW why \in {"TIMEOUT", "CRASH", "FAULT"}, Drop(w, why)
    PROVE  /\ dropped' \in [Commands -> {"NO", "TIMEOUT", "CRASH", "FAULT"}]
           /\ hands' \in [Watchers -> SUBSET Commands]
           /\ at' \in [Watchers -> Commands \cup {0}]
  <1>1. dropped' \in [Commands -> {"NO", "TIMEOUT", "CRASH", "FAULT"}]
    BY DEF TypeOK, Drop
  <1>2. hands' \in [Watchers -> SUBSET Commands] /\ at' \in [Watchers -> Commands \cup {0}]
    BY DEF TypeOK, Drop
  <1> QED
    BY <1>1, <1>2

\* Every action keeps the types.
LEMMA TypeStep ==
    ASSUME TypeOK, Next
    PROVE  TypeOK'
  <1>1. CASE Call
    BY <1>1, NewJobType, ConstantTypes DEF Call
  <1>2. CASE ClickToast
    BY <1>2, NewJobType DEF ClickToast
  <1>3. ASSUME NEW c \in Commands, Answer(c) PROVE TypeOK'
    BY <1>3 DEF Answer, service, TypeOK
  <1>4. ASSUME NEW c \in Commands, GiveUp(c) PROVE TypeOK'
    BY <1>4 DEF GiveUp, service, TypeOK
  <1>5. ASSUME NEW w \in Watchers, Start(w) PROVE TypeOK'
    BY <1>5 DEF Start, Goto, queue, ghosts, TypeOK, Steps
  <1>6. ASSUME NEW w \in Watchers, Beat(w) PROVE TypeOK'
    <2>1. beat' \in 0..(StaleAfter + 1) /\ left' \in [Watchers \cup {LOGIN} -> Nat]
      BY <1>6, ConstantTypes DEF Beat, SetTimer, TypeOK
    <2> QED
      BY <1>6, <2>1 DEF Beat, Goto, queue, ghosts, TypeOK, Steps
  <1>7. ASSUME NEW w \in Watchers, Select(w) PROVE TypeOK'
    <2>1. \A B \in FirstPending : B \subseteq Commands
      BY DEF FirstPending, Pending
    <2> QED
      BY <1>7, <2>1 DEF Select, Goto, queue, ghosts, TypeOK, Steps
  <1>8. ASSUME NEW w \in Watchers, Mark(w) PROVE TypeOK'
    BY <1>8, ConstantTypes DEF Mark, Goto, SetTimer, ghosts, TypeOK, Steps
  <1>9. ASSUME NEW w \in Watchers, JobLock(w) PROVE TypeOK'
    BY <1>9 DEF JobLock, Goto, SetTimer, queue, ghosts, TypeOK, Steps
  <1>10. ASSUME NEW w \in Watchers, JobLockTimesOut(w) PROVE TypeOK'
    BY <1>10, DropType DEF JobLockTimesOut, Goto, queue, TypeOK, Steps
  <1>11. ASSUME NEW w \in Watchers, Begin(w) PROVE TypeOK'
    <2>1. PICK c \in hands[w] : /\ at' = [at EXCEPT ![w] = c]
                               /\ latest' = [latest EXCEPT ![w] = c]
                               /\ hands' = [hands EXCEPT ![w] = @ \ {c}]
      BY <1>11 DEF Begin
    <2>2. c \in Commands /\ hands[w] \ {c} \subseteq Commands
      BY DEF TypeOK
    <2>3. /\ at' \in [Watchers -> Commands \cup {0}] /\ latest' \in [Watchers -> Commands \cup {0}]
          /\ hands' \in [Watchers -> SUBSET Commands]
      BY <2>1 DEF TypeOK
    <2> QED
      BY <1>11 DEF Begin, Goto, queue, ghosts, TypeOK, Steps
  <1>12. ASSUME NEW w \in Watchers, Complete(w) PROVE TypeOK'
    <2>1. PICK o \in Outcomes : /\ status' = [status EXCEPT ![at[w]] = o]
                               /\ produced' = [produced EXCEPT ![at[w]] = @ \cup {o}]
      BY <1>12 DEF Complete
    <2>2. /\ status' \in [Commands -> {"NONE", "PENDING", "RUNNING"} \cup Outcomes]
          /\ produced' \in [Commands -> SUBSET Outcomes]
      BY <2>1 DEF TypeOK
    <2> QED
      BY <1>12, <2>2 DEF Complete, Goto, TypeOK, Steps
  <1>13. ASSUME NEW w \in Watchers, JobsDone(w) PROVE TypeOK'
    BY <1>13 DEF JobsDone, Goto, queue, ghosts, TypeOK, Steps
  <1>14. ASSUME NEW w \in Watchers, NothingDue(w) PROVE TypeOK'
    BY <1>14 DEF NothingDue, Goto, SetTimer, queue, ghosts, TypeOK, Steps
  <1>15. ASSUME NEW w \in Watchers, SomeDue(w) PROVE TypeOK'
    BY <1>15, ConstantTypes DEF SomeDue, Goto, SetTimer, queue, ghosts, TypeOK, Steps
  <1>16. ASSUME NEW w \in Watchers, DueLock(w) PROVE TypeOK'
    BY <1>16 DEF DueLock, Goto, SetTimer, queue, ghosts, TypeOK, Steps
  <1>17. ASSUME NEW w \in Watchers, DueLockTimesOut(w) PROVE TypeOK'
    BY <1>17 DEF DueLockTimesOut, Goto, SetTimer, queue, ghosts, TypeOK, Steps
  <1>18. ASSUME NEW w \in Watchers, Checked(w) PROVE TypeOK'
    BY <1>18 DEF Checked, Goto, SetTimer, queue, ghosts, TypeOK, Steps
  <1>19. ASSUME NEW w \in Watchers, Crash(w) PROVE TypeOK'
    <2>1. lock' \in Watchers \cup {LOGIN, FREE} /\ faults' \in 0..MaxFaults
      BY <1>19, ConstantTypes DEF Crash, Released, TypeOK
    <2>2. left' \in [Watchers \cup {LOGIN} -> Nat] /\ pc' \in [Watchers -> Steps]
      BY <1>19 DEF Crash, SetTimer, Goto, TypeOK, Steps
    <2> QED
      BY <1>19, <2>1, <2>2, DropType DEF Crash, queue, TypeOK
  <1>20. ASSUME NEW w \in Watchers, PollFails(w) PROVE TypeOK'
    <2>1. lock' \in Watchers \cup {LOGIN, FREE} /\ faults' \in 0..MaxFaults
      BY <1>20, ConstantTypes DEF PollFails, Released, TypeOK
    <2>2. pc' \in [Watchers -> Steps]
      BY <1>20 DEF PollFails, Goto, TypeOK, Steps
    <2> QED
      BY <1>20, <2>1, <2>2, DropType DEF PollFails, queue, TypeOK
  <1>21. CASE StartLogin
    <2>1. left' \in [Watchers \cup {LOGIN} -> Nat] /\ logins' \in 0..MaxLogins
      BY <1>21, ConstantTypes DEF StartLogin, SetTimer, TypeOK
    <2> QED
      BY <1>21, <2>1 DEF StartLogin, ScriptUnchanged, queue, loop, ghosts, TypeOK, ScriptSteps
  <1>22. CASE OpenProfile
    BY <1>22, ConstantTypes DEF OpenProfile, SetTimer, ScriptUnchanged, queue, loop, ghosts,
       TypeOK, ScriptSteps
  <1>23. CASE LoginLockTimesOut
    BY <1>23 DEF LoginLockTimesOut, ScriptUnchanged, queue, loop, ghosts, TypeOK, ScriptSteps
  <1>24. CASE LoggedIn
    BY <1>24 DEF LoggedIn, SetTimer, ScriptUnchanged, queue, loop, ghosts, TypeOK, ScriptSteps
  <1>25. CASE Reopen
    BY <1>25, ConstantTypes DEF Reopen, SetTimer, ScriptUnchanged, queue, loop, ghosts, TypeOK,
       ScriptSteps
  <1>26. CASE LoginEnds
    BY <1>26 DEF LoginEnds, Released, SetTimer, ScriptUnchanged, queue, loop, ghosts, TypeOK,
       ScriptSteps
  <1>27. CASE Tick
    <2>1. \A n \in Nat : Before(n) \in Nat
      BY DEF Before
    <2>2. /\ wait' \in [Commands -> Nat]
          /\ left' \in [Watchers \cup {LOGIN} -> Nat]
          /\ beat' \in 0..(StaleAfter + 1)
      BY <1>27, <2>1, ConstantTypes DEF Tick, TypeOK
    <2> QED
      BY <1>27, <2>2 DEF Tick, ghosts, TypeOK
  <1> QED
    BY <1>1, <1>2, <1>3, <1>4, <1>5, <1>6, <1>7, <1>8, <1>9, <1>10, <1>11, <1>12, <1>13, <1>14,
       <1>15, <1>16, <1>17, <1>18, <1>19, <1>20, <1>21, <1>22, <1>23, <1>24, <1>25, <1>26, <1>27 DEF
       Next, Loop, Script

-----------------------------------------------------------------------------
(* The profile lock. *)

\* Whoever takes or leaves the profile takes or leaves its lock.
LEMMA LockStep ==
    ASSUME TypeOK, LockIsUsed, Next
    PROVE  LockIsUsed'
  <1>1. CASE Call
    BY <1>1 DEF Call, NewJob, service, LockIsUsed
  <1>2. CASE ClickToast
    BY <1>2 DEF ClickToast, NewJob, service, LockIsUsed
  <1>3. ASSUME NEW c \in Commands, Answer(c) PROVE LockIsUsed'
    BY <1>3 DEF Answer, service, LockIsUsed
  <1>4. ASSUME NEW c \in Commands, GiveUp(c) PROVE LockIsUsed'
    BY <1>4 DEF GiveUp, service, LockIsUsed
  <1>5. ASSUME NEW w \in Watchers, Start(w) PROVE LockIsUsed'
    BY <1>5 DEF Start, Goto, LockIsUsed, Browsing
  <1>6. ASSUME NEW w \in Watchers, Beat(w) PROVE LockIsUsed'
    BY <1>6 DEF Beat, Goto, LockIsUsed, Browsing
  <1>7. ASSUME NEW w \in Watchers, Select(w) PROVE LockIsUsed'
    BY <1>7 DEF Select, Goto, LockIsUsed, Browsing
  <1>8. ASSUME NEW w \in Watchers, Mark(w) PROVE LockIsUsed'
    BY <1>8 DEF Mark, Goto, LockIsUsed, Browsing
  <1>9. ASSUME NEW w \in Watchers, JobLock(w) PROVE LockIsUsed'
    BY <1>9, ConstantTypes DEF JobLock, Goto, TypeOK, LockIsUsed, Browsing
  <1>10. ASSUME NEW w \in Watchers, JobLockTimesOut(w) PROVE LockIsUsed'
    BY <1>10 DEF JobLockTimesOut, Goto, LockIsUsed, Browsing
  <1>11. ASSUME NEW w \in Watchers, Begin(w) PROVE LockIsUsed'
    BY <1>11 DEF Begin, Goto, LockIsUsed, Browsing
  <1>12. ASSUME NEW w \in Watchers, Complete(w) PROVE LockIsUsed'
    BY <1>12 DEF Complete, Goto, LockIsUsed, Browsing
  <1>13. ASSUME NEW w \in Watchers, JobsDone(w) PROVE LockIsUsed'
    BY <1>13, ConstantTypes DEF JobsDone, Goto, TypeOK, LockIsUsed, Browsing
  <1>14. ASSUME NEW w \in Watchers, NothingDue(w) PROVE LockIsUsed'
    BY <1>14 DEF NothingDue, Goto, LockIsUsed, Browsing
  <1>15. ASSUME NEW w \in Watchers, SomeDue(w) PROVE LockIsUsed'
    BY <1>15 DEF SomeDue, Goto, LockIsUsed, Browsing
  <1>16. ASSUME NEW w \in Watchers, DueLock(w) PROVE LockIsUsed'
    BY <1>16, ConstantTypes DEF DueLock, Goto, TypeOK, LockIsUsed, Browsing
  <1>17. ASSUME NEW w \in Watchers, DueLockTimesOut(w) PROVE LockIsUsed'
    BY <1>17 DEF DueLockTimesOut, Goto, LockIsUsed, Browsing
  <1>18. ASSUME NEW w \in Watchers, Checked(w) PROVE LockIsUsed'
    BY <1>18, ConstantTypes DEF Checked, Goto, TypeOK, LockIsUsed, Browsing
  <1>19. ASSUME NEW w \in Watchers, Crash(w) PROVE LockIsUsed'
    BY <1>19, ConstantTypes DEF Crash, Released, Goto, TypeOK, LockIsUsed, Browsing
  <1>20. ASSUME NEW w \in Watchers, PollFails(w) PROVE LockIsUsed'
    BY <1>20, ConstantTypes DEF PollFails, Released, Goto, TypeOK, LockIsUsed, Browsing
  <1>21. CASE StartLogin
    BY <1>21 DEF StartLogin, ScriptUnchanged, loop, LockIsUsed
  <1>22. CASE OpenProfile
    BY <1>22, ConstantTypes DEF OpenProfile, ScriptUnchanged, loop, LockIsUsed
  <1>23. CASE LoginLockTimesOut
    BY <1>23 DEF LoginLockTimesOut, ScriptUnchanged, loop, LockIsUsed
  <1>24. CASE LoggedIn
    BY <1>24, ConstantTypes DEF LoggedIn, ScriptUnchanged, loop, LockIsUsed
  <1>25. CASE Reopen
    BY <1>25 DEF Reopen, ScriptUnchanged, loop, LockIsUsed
  <1>26. CASE LoginEnds
    BY <1>26, ConstantTypes DEF LoginEnds, Released, ScriptUnchanged, loop, LockIsUsed
  <1>27. CASE Tick
    BY <1>27 DEF Tick, LockIsUsed
  <1> QED
    BY <1>1, <1>2, <1>3, <1>4, <1>5, <1>6, <1>7, <1>8, <1>9, <1>10, <1>11, <1>12, <1>13, <1>14,
       <1>15, <1>16, <1>17, <1>18, <1>19, <1>20, <1>21, <1>22, <1>23, <1>24, <1>25, <1>26, <1>27 DEF
       Next, Loop, Script

\* A second process, or the script, leaves a trace.
LEMMA OthersStep ==
    ASSUME TypeOK, OthersAreKnown, Next
    PROVE  OthersAreKnown'
  <1>1. CASE Call
    BY <1>1 DEF Call, NewJob, service, OthersAreKnown, Up
  <1>2. CASE ClickToast
    BY <1>2 DEF ClickToast, NewJob, service, OthersAreKnown, Up
  <1>3. ASSUME NEW c \in Commands, Answer(c) PROVE OthersAreKnown'
    BY <1>3 DEF Answer, service, OthersAreKnown, Up
  <1>4. ASSUME NEW c \in Commands, GiveUp(c) PROVE OthersAreKnown'
    BY <1>4 DEF GiveUp, service, OthersAreKnown, Up
  <1>5. ASSUME NEW w \in Watchers, Start(w) PROVE OthersAreKnown'
    BY <1>5 DEF Start, Goto, TypeOK, OthersAreKnown, Up
  <1>6. ASSUME NEW w \in Watchers, Beat(w) PROVE OthersAreKnown'
    BY <1>6 DEF Beat, Goto, OthersAreKnown, Up
  <1>7. ASSUME NEW w \in Watchers, Select(w) PROVE OthersAreKnown'
    BY <1>7 DEF Select, Goto, OthersAreKnown, Up
  <1>8. ASSUME NEW w \in Watchers, Mark(w) PROVE OthersAreKnown'
    BY <1>8 DEF Mark, Goto, OthersAreKnown, Up
  <1>9. ASSUME NEW w \in Watchers, JobLock(w) PROVE OthersAreKnown'
    BY <1>9 DEF JobLock, Goto, OthersAreKnown, Up
  <1>10. ASSUME NEW w \in Watchers, JobLockTimesOut(w) PROVE OthersAreKnown'
    BY <1>10 DEF JobLockTimesOut, Goto, OthersAreKnown, Up
  <1>11. ASSUME NEW w \in Watchers, Begin(w) PROVE OthersAreKnown'
    BY <1>11 DEF Begin, Goto, OthersAreKnown, Up
  <1>12. ASSUME NEW w \in Watchers, Complete(w) PROVE OthersAreKnown'
    BY <1>12 DEF Complete, Goto, OthersAreKnown, Up
  <1>13. ASSUME NEW w \in Watchers, JobsDone(w) PROVE OthersAreKnown'
    BY <1>13 DEF JobsDone, Goto, OthersAreKnown, Up
  <1>14. ASSUME NEW w \in Watchers, NothingDue(w) PROVE OthersAreKnown'
    BY <1>14 DEF NothingDue, Goto, OthersAreKnown, Up
  <1>15. ASSUME NEW w \in Watchers, SomeDue(w) PROVE OthersAreKnown'
    BY <1>15 DEF SomeDue, Goto, OthersAreKnown, Up
  <1>16. ASSUME NEW w \in Watchers, DueLock(w) PROVE OthersAreKnown'
    BY <1>16 DEF DueLock, Goto, OthersAreKnown, Up
  <1>17. ASSUME NEW w \in Watchers, DueLockTimesOut(w) PROVE OthersAreKnown'
    BY <1>17 DEF DueLockTimesOut, Goto, OthersAreKnown, Up
  <1>18. ASSUME NEW w \in Watchers, Checked(w) PROVE OthersAreKnown'
    BY <1>18 DEF Checked, Goto, OthersAreKnown, Up
  <1>19. ASSUME NEW w \in Watchers, Crash(w) PROVE OthersAreKnown'
    BY <1>19 DEF Crash, Goto, OthersAreKnown, Up
  <1>20. ASSUME NEW w \in Watchers, PollFails(w) PROVE OthersAreKnown'
    BY <1>20 DEF PollFails, Goto, OthersAreKnown, Up
  <1>21. CASE StartLogin
    BY <1>21 DEF StartLogin, ScriptUnchanged, loop, TypeOK, OthersAreKnown, Up
  <1>22. CASE OpenProfile
    BY <1>22 DEF OpenProfile, ScriptUnchanged, loop, OthersAreKnown, Up
  <1>23. CASE LoginLockTimesOut
    BY <1>23 DEF LoginLockTimesOut, ScriptUnchanged, loop, OthersAreKnown, Up
  <1>24. CASE LoggedIn
    BY <1>24 DEF LoggedIn, ScriptUnchanged, loop, OthersAreKnown, Up
  <1>25. CASE Reopen
    BY <1>25 DEF Reopen, ScriptUnchanged, loop, OthersAreKnown, Up
  <1>26. CASE LoginEnds
    BY <1>26 DEF LoginEnds, ScriptUnchanged, loop, OthersAreKnown, Up
  <1>27. CASE Tick
    BY <1>27 DEF Tick, OthersAreKnown, Up
  <1> QED
    BY <1>1, <1>2, <1>3, <1>4, <1>5, <1>6, <1>7, <1>8, <1>9, <1>10, <1>11, <1>12, <1>13, <1>14,
       <1>15, <1>16, <1>17, <1>18, <1>19, <1>20, <1>21, <1>22, <1>23, <1>24, <1>25, <1>26, <1>27 DEF
       Next, Loop, Script

-----------------------------------------------------------------------------
(* The jobs in a process's hands. *)

\* What has nothing to do with jobs: the due watches, the script, and time.
CheckWatches(w) ==
    NothingDue(w) \/ SomeDue(w) \/ DueLock(w) \/ DueLockTimesOut(w) \/ Checked(w)
Elsewhere == StartLogin \/ Script \/ Tick

LEMMA CheckLeavesJobs ==
    ASSUME TypeOK, JobsInPlace, NEW w \in Watchers, CheckWatches(w)
    PROVE  /\ UNCHANGED <<sent, status, client, hands, at, latest, produced, dropped, alone>>
           /\ hands[w] = {}
           /\ pc[w] \in {"DUE", "DUELOCK", "CHECK"} /\ pc'[w] \in {"TOP", "DUELOCK", "CHECK"}
           /\ \A v \in Watchers : v # w => pc'[v] = pc[v]
  <1>1. /\ UNCHANGED <<sent, status, client, hands, at, latest, produced, dropped, alone>>
        /\ pc[w] \in {"DUE", "DUELOCK", "CHECK"}
        /\ \E s \in {"TOP", "DUELOCK", "CHECK"} : pc' = [pc EXCEPT ![w] = s]
    BY DEF CheckWatches, NothingDue, SomeDue, DueLock, DueLockTimesOut, Checked, Goto, queue,
       ghosts
  <1> QED
    BY <1>1 DEF TypeOK, JobsInPlace, WithJobs

LEMMA ElsewhereLeavesJobs ==
    ASSUME Elsewhere
    PROVE  UNCHANGED <<sent, status, client, hands, at, latest, produced, dropped, alone, pc>>
  BY DEF Elsewhere, StartLogin, Script, OpenProfile, LoginLockTimesOut, LoggedIn, Reopen,
     LoginEnds, Tick, ScriptUnchanged, queue, loop, ghosts

LEMMA FirstArePending ==
    ASSUME NEW B \in FirstPending
    PROVE  /\ \A c \in B : c \in Commands /\ status[c] = "PENDING"
           /\ \A c \in B, d \in Commands : status[d] = "PENDING" /\ d \notin B => c < d
  BY DEF FirstPending, Pending

LEMMA SelectTakesFirst ==
    ASSUME TypeOK, JobsInPlace, NEW w \in Watchers, Select(w)
    PROVE  \E B \in FirstPending :
              /\ hands[w] = {} /\ hands'[w] = B
              /\ B # {} => pc'[w] = "MARK"
              /\ pc[w] = "SELECT" /\ pc'[w] # "RUN"
              /\ \A v \in Watchers : v # w => hands'[v] = hands[v] /\ pc'[v] = pc[v]
  <1>1. PICK B \in FirstPending : /\ hands' = [hands EXCEPT ![w] = B]
                                 /\ pc' = [pc EXCEPT ![w] = IF B = {} THEN "DUE" ELSE "MARK"]
    BY DEF Select, Goto
  <1>2. pc[w] = "SELECT" /\ hands[w] = {}
    BY DEF Select, JobsInPlace, WithJobs
  <1> QED
    BY <1>1, <1>2 DEF TypeOK

LEMMA NextIsNew ==
    ASSUME TypeOK, NEW who, NEW t, NewJob(who, t)
    PROVE  /\ sent' = sent + 1 /\ sent + 1 \in Commands /\ sent \in Nat
           /\ \A c \in Commands : c <= sent => status'[c] = status[c]
  BY ConstantTypes DEF TypeOK, NewJob, Commands

LEMMA NewJobKeepsOrder ==
    ASSUME TypeOK, RowsAreReal, ClaimsInOrder, NEW who, NEW t, NewJob(who, t)
    PROVE  ClaimsInOrder'
  <1>1. /\ sent' = sent + 1 /\ sent + 1 \in Commands /\ sent \in Nat
        /\ \A c \in Commands : c <= sent => status'[c] = status[c]
    BY NextIsNew
  <1>2. /\ hands' = hands /\ latest' = latest /\ pc' = pc
        /\ \A v \in Watchers : hands[v] \subseteq Commands /\ latest[v] \in Nat
    BY DEF NewJob, service, TypeOK, Commands
  <1>3. \A v \in Watchers : /\ latest'[v] <= sent'
                            /\ \A c \in hands'[v] : latest'[v] < c /\ c <= sent'
    BY <1>1, <1>2 DEF ClaimsInOrder, Commands
  <1>4. \A v \in Watchers, d \in Commands : d <= latest'[v] => status'[d] # "PENDING"
    BY <1>1, <1>2 DEF ClaimsInOrder, Commands
  <1>5. \A v \in Watchers : \A c \in hands'[v], d \in Commands :
            d <= c /\ status'[d] = "PENDING" => pc'[v] = "MARK" /\ d \in hands'[v]
    BY <1>1, <1>2 DEF ClaimsInOrder, Commands
  <1> QED
    BY <1>3, <1>4, <1>5 DEF ClaimsInOrder

\* The rows of the jobs.
LEMMA RowsStep ==
    ASSUME TypeOK, RowsAreReal, JobsInPlace, ClaimsInOrder, Next
    PROVE  RowsAreReal'
  <1>1. CASE Call
    BY <1>1 DEF Call, NewJob, service, TypeOK, RowsAreReal, Commands, Outcomes
  <1>2. CASE ClickToast
    BY <1>2 DEF ClickToast, NewJob, service, TypeOK, RowsAreReal, Commands, Outcomes
  <1>3. ASSUME NEW c \in Commands, Answer(c) PROVE RowsAreReal'
    BY <1>3 DEF Answer, service, RowsAreReal
  <1>4. ASSUME NEW c \in Commands, GiveUp(c) PROVE RowsAreReal'
    BY <1>4 DEF GiveUp, service, RowsAreReal
  <1>5. ASSUME NEW w \in Watchers, Start(w) PROVE RowsAreReal'
    BY <1>5 DEF Start, queue, ghosts, RowsAreReal
  <1>6. ASSUME NEW w \in Watchers, Beat(w) PROVE RowsAreReal'
    BY <1>6 DEF Beat, queue, ghosts, RowsAreReal
  <1>7. ASSUME NEW w \in Watchers, Select(w) PROVE RowsAreReal'
    BY <1>7 DEF Select, queue, ghosts, RowsAreReal
  <1>8. ASSUME NEW w \in Watchers, Mark(w) PROVE RowsAreReal'
    BY <1>8 DEF Mark, ghosts, TypeOK, RowsAreReal, ClaimsInOrder, Commands, Outcomes
  <1>9. ASSUME NEW w \in Watchers, JobLock(w) PROVE RowsAreReal'
    BY <1>9 DEF JobLock, queue, ghosts, RowsAreReal
  <1>10. ASSUME NEW w \in Watchers, JobLockTimesOut(w) PROVE RowsAreReal'
    BY <1>10 DEF JobLockTimesOut, queue, RowsAreReal
  <1>11. ASSUME NEW w \in Watchers, Begin(w) PROVE RowsAreReal'
    BY <1>11 DEF Begin, queue, ghosts, RowsAreReal
  <1>12. ASSUME NEW w \in Watchers, Complete(w) PROVE RowsAreReal'
    BY <1>12 DEF Complete, TypeOK, RowsAreReal, JobsInPlace, ClaimsInOrder, Commands
  <1>13. ASSUME NEW w \in Watchers, JobsDone(w) PROVE RowsAreReal'
    BY <1>13 DEF JobsDone, queue, ghosts, RowsAreReal
  <1>14. ASSUME NEW w \in Watchers, CheckWatches(w) PROVE RowsAreReal'
    <2>1. UNCHANGED <<sent, status, client, produced>>
      BY <1>14, CheckLeavesJobs
    <2> QED
      BY <2>1 DEF RowsAreReal
  <1>15. ASSUME NEW w \in Watchers, Crash(w) PROVE RowsAreReal'
    BY <1>15 DEF Crash, queue, RowsAreReal
  <1>16. ASSUME NEW w \in Watchers, PollFails(w) PROVE RowsAreReal'
    BY <1>16 DEF PollFails, queue, RowsAreReal
  <1>17. CASE Elsewhere
    BY <1>17, ElsewhereLeavesJobs DEF RowsAreReal
  <1> QED
    BY <1>1, <1>2, <1>3, <1>4, <1>5, <1>6, <1>7, <1>8, <1>9, <1>10, <1>11, <1>12, <1>13, <1>14,
       <1>15, <1>16, <1>17 DEF Next, Loop, CheckWatches, Elsewhere

\* Where the jobs are.
LEMMA PlaceStep ==
    ASSUME TypeOK, JobsInPlace, Next
    PROVE  JobsInPlace'
  <1>1. CASE Call
    BY <1>1 DEF Call, NewJob, service, JobsInPlace
  <1>2. CASE ClickToast
    BY <1>2 DEF ClickToast, NewJob, service, JobsInPlace
  <1>3. ASSUME NEW c \in Commands, Answer(c) PROVE JobsInPlace'
    BY <1>3 DEF Answer, service, JobsInPlace
  <1>4. ASSUME NEW c \in Commands, GiveUp(c) PROVE JobsInPlace'
    BY <1>4 DEF GiveUp, service, JobsInPlace
  <1>5. ASSUME NEW w \in Watchers, Start(w) PROVE JobsInPlace'
    BY <1>5 DEF Start, Goto, JobsInPlace, WithJobs
  <1>6. ASSUME NEW w \in Watchers, Beat(w) PROVE JobsInPlace'
    BY <1>6 DEF Beat, Goto, JobsInPlace, WithJobs
  <1>7. ASSUME NEW w \in Watchers, Select(w) PROVE JobsInPlace'
    BY <1>7 DEF Select, Goto, TypeOK, JobsInPlace, WithJobs
  <1>8. ASSUME NEW w \in Watchers, Mark(w) PROVE JobsInPlace'
    BY <1>8 DEF Mark, Goto, JobsInPlace, WithJobs
  <1>9. ASSUME NEW w \in Watchers, JobLock(w) PROVE JobsInPlace'
    BY <1>9 DEF JobLock, Goto, JobsInPlace, WithJobs
  <1>10. ASSUME NEW w \in Watchers, JobLockTimesOut(w) PROVE JobsInPlace'
    BY <1>10 DEF JobLockTimesOut, Drop, Goto, TypeOK, JobsInPlace
  <1>11. ASSUME NEW w \in Watchers, Begin(w) PROVE JobsInPlace'
    BY <1>11 DEF Begin, Goto, TypeOK, JobsInPlace, WithJobs, Commands
  <1>12. ASSUME NEW w \in Watchers, Complete(w) PROVE JobsInPlace'
    BY <1>12 DEF Complete, Goto, TypeOK, JobsInPlace, WithJobs
  <1>13. ASSUME NEW w \in Watchers, JobsDone(w) PROVE JobsInPlace'
    BY <1>13 DEF JobsDone, Goto, JobsInPlace
  <1>14. ASSUME NEW w \in Watchers, CheckWatches(w) PROVE JobsInPlace'
    BY <1>14, CheckLeavesJobs DEF JobsInPlace
  <1>15. ASSUME NEW w \in Watchers, Crash(w) PROVE JobsInPlace'
    BY <1>15 DEF Crash, Drop, Goto, TypeOK, JobsInPlace
  <1>16. ASSUME NEW w \in Watchers, PollFails(w) PROVE JobsInPlace'
    BY <1>16 DEF PollFails, Drop, Goto, TypeOK, JobsInPlace
  <1>17. CASE Elsewhere
    BY <1>17, ElsewhereLeavesJobs DEF JobsInPlace
  <1> QED
    BY <1>1, <1>2, <1>3, <1>4, <1>5, <1>6, <1>7, <1>8, <1>9, <1>10, <1>11, <1>12, <1>13, <1>14,
       <1>15, <1>16, <1>17 DEF Next, Loop, CheckWatches, Elsewhere

\* The order of the claims.
LEMMA ClaimsStep ==
    ASSUME TypeOK, RowsAreReal, JobsInPlace, ClaimsInOrder, Next
    PROVE  ClaimsInOrder'
  <1>1. CASE Call
    BY <1>1, NewJobKeepsOrder DEF Call
  <1>2. CASE ClickToast
    BY <1>2, NewJobKeepsOrder DEF ClickToast
  <1>3. ASSUME NEW c \in Commands, Answer(c) PROVE ClaimsInOrder'
    BY <1>3 DEF Answer, service, ClaimsInOrder
  <1>4. ASSUME NEW c \in Commands, GiveUp(c) PROVE ClaimsInOrder'
    BY <1>4 DEF GiveUp, service, ClaimsInOrder
  <1>5. ASSUME NEW w \in Watchers, Start(w) PROVE ClaimsInOrder'
    BY <1>5 DEF Start, Goto, queue, ClaimsInOrder
  <1>6. ASSUME NEW w \in Watchers, Beat(w) PROVE ClaimsInOrder'
    BY <1>6 DEF Beat, Goto, queue, ClaimsInOrder
  <1>7. ASSUME NEW w \in Watchers, Select(w) PROVE ClaimsInOrder'
    <2>1. PICK B \in FirstPending :
              /\ hands[w] = {} /\ hands'[w] = B
              /\ B # {} => pc'[w] = "MARK"
              /\ pc[w] = "SELECT" /\ pc'[w] # "RUN"
              /\ \A v \in Watchers : v # w => hands'[v] = hands[v] /\ pc'[v] = pc[v]
      BY <1>7, SelectTakesFirst
    <2>2. /\ \A c \in B : c \in Commands /\ status[c] = "PENDING"
          /\ \A c \in B, d \in Commands : status[d] = "PENDING" /\ d \notin B => c < d
      BY FirstArePending
    <2>3. \A v \in Watchers : /\ latest'[v] <= sent'
                              /\ \A d \in Commands : d <= latest'[v] => status'[d] # "PENDING"
      BY <1>7 DEF Select, queue, ClaimsInOrder
    <2>4. \A v \in Watchers : \A c \in hands'[v] : latest'[v] < c /\ c <= sent'
      BY <1>7, <2>1, <2>2 DEF Select, queue, ghosts, ClaimsInOrder, RowsAreReal, TypeOK, Commands
    <2>5. \A v \in Watchers : \A c \in hands'[v], d \in Commands :
              d <= c /\ status'[d] = "PENDING" => pc'[v] = "MARK" /\ d \in hands'[v]
      <3>1. \A c \in B, d \in Commands : d <= c /\ status[d] = "PENDING" => d \in B
        BY <2>2 DEF Commands
      <3>2. \A c \in B : pc'[w] = "MARK"
        BY <2>1
      <3> QED
        BY <1>7, <2>1, <3>1 DEF Select, queue, ClaimsInOrder
    <2> QED
      BY <2>3, <2>4, <2>5 DEF ClaimsInOrder
  <1>8. ASSUME NEW w \in Watchers, Mark(w) PROVE ClaimsInOrder'
    BY <1>8 DEF Mark, Goto, ClaimsInOrder
  <1>9. ASSUME NEW w \in Watchers, JobLock(w) PROVE ClaimsInOrder'
    BY <1>9 DEF JobLock, Goto, queue, ClaimsInOrder
  <1>10. ASSUME NEW w \in Watchers, JobLockTimesOut(w) PROVE ClaimsInOrder'
    BY <1>10 DEF JobLockTimesOut, Drop, Goto, queue, ClaimsInOrder
  <1>11. ASSUME NEW w \in Watchers, Begin(w) PROVE ClaimsInOrder'
    BY <1>11 DEF Begin, Goto, queue, TypeOK, ClaimsInOrder, Commands
  <1>12. ASSUME NEW w \in Watchers, Complete(w) PROVE ClaimsInOrder'
    BY <1>12 DEF Complete, Goto, ClaimsInOrder, Outcomes
  <1>13. ASSUME NEW w \in Watchers, JobsDone(w) PROVE ClaimsInOrder'
    BY <1>13 DEF JobsDone, Goto, queue, ClaimsInOrder
  <1>14. ASSUME NEW w \in Watchers, CheckWatches(w) PROVE ClaimsInOrder'
    <2>1. /\ UNCHANGED <<sent, status, hands, latest>> /\ hands[w] = {}
          /\ \A v \in Watchers : v # w => pc'[v] = pc[v]
      BY <1>14, CheckLeavesJobs
    <2> QED
      BY <2>1 DEF ClaimsInOrder
  <1>15. ASSUME NEW w \in Watchers, Crash(w) PROVE ClaimsInOrder'
    BY <1>15 DEF Crash, Drop, Goto, queue, TypeOK, ClaimsInOrder
  <1>16. ASSUME NEW w \in Watchers, PollFails(w) PROVE ClaimsInOrder'
    BY <1>16 DEF PollFails, Drop, Goto, queue, TypeOK, ClaimsInOrder
  <1>17. CASE Elsewhere
    BY <1>17, ElsewhereLeavesJobs DEF ClaimsInOrder
  <1> QED
    BY <1>1, <1>2, <1>3, <1>4, <1>5, <1>6, <1>7, <1>8, <1>9, <1>10, <1>11, <1>12, <1>13, <1>14,
       <1>15, <1>16, <1>17 DEF Next, Loop, CheckWatches, Elsewhere

\* Whoever lets go of a job leaves a trace.
LEMMA RunningStep ==
    ASSUME TypeOK, JobsInPlace, RunningIsHeld, Next
    PROVE  RunningIsHeld'
  <1>1. CASE Call
    BY <1>1 DEF Call, NewJob, service, RunningIsHeld, Holds
  <1>2. CASE ClickToast
    BY <1>2 DEF ClickToast, NewJob, service, RunningIsHeld, Holds
  <1>3. ASSUME NEW c \in Commands, Answer(c) PROVE RunningIsHeld'
    BY <1>3 DEF Answer, service, RunningIsHeld, Holds
  <1>4. ASSUME NEW c \in Commands, GiveUp(c) PROVE RunningIsHeld'
    BY <1>4 DEF GiveUp, service, RunningIsHeld, Holds
  <1>5. ASSUME NEW w \in Watchers, Start(w) PROVE RunningIsHeld'
    BY <1>5 DEF Start, Goto, queue, ghosts, RunningIsHeld, Holds
  <1>6. ASSUME NEW w \in Watchers, Beat(w) PROVE RunningIsHeld'
    BY <1>6 DEF Beat, Goto, queue, ghosts, RunningIsHeld, Holds
  <1>7. ASSUME NEW w \in Watchers, Select(w) PROVE RunningIsHeld'
    <2>1. PICK B \in FirstPending :
              /\ hands[w] = {} /\ hands'[w] = B
              /\ B # {} => pc'[w] = "MARK"
              /\ pc[w] = "SELECT" /\ pc'[w] # "RUN"
              /\ \A v \in Watchers : v # w => hands'[v] = hands[v] /\ pc'[v] = pc[v]
      BY <1>7, SelectTakesFirst
    <2>2. /\ \A c \in B : c \in Commands /\ status[c] = "PENDING"
          /\ \A c \in B, d \in Commands : status[d] = "PENDING" /\ d \notin B => c < d
      BY FirstArePending
    <2>3. \A v \in Watchers, c \in Commands : Holds(v, c) => Holds(v, c)'
      BY <1>7, <2>1 DEF Select, Holds
    <2> QED
      BY <1>7, <2>3 DEF Select, queue, ghosts, RunningIsHeld
  <1>8. ASSUME NEW w \in Watchers, Mark(w) PROVE RunningIsHeld'
    BY <1>8 DEF Mark, Goto, ghosts, TypeOK, RunningIsHeld, Holds
  <1>9. ASSUME NEW w \in Watchers, JobLock(w) PROVE RunningIsHeld'
    BY <1>9 DEF JobLock, Goto, queue, ghosts, RunningIsHeld, Holds
  <1>10. ASSUME NEW w \in Watchers, JobLockTimesOut(w) PROVE RunningIsHeld'
    <2>1. \A c \in Commands : dropped[c] # "NO" => dropped'[c] # "NO"
      BY <1>10 DEF JobLockTimesOut, Drop
    <2>2. \A v \in Watchers, c \in Commands : Holds(v, c) => Holds(v, c)' \/ dropped'[c] # "NO"
      BY <1>10 DEF JobLockTimesOut, Drop, Goto, Holds
    <2> QED
      BY <1>10, <2>1, <2>2 DEF JobLockTimesOut, queue, RunningIsHeld
  <1>11. ASSUME NEW w \in Watchers, Begin(w) PROVE RunningIsHeld'
    <2>1. \A v \in Watchers, c \in Commands : Holds(v, c) => Holds(v, c)'
      BY <1>11 DEF Begin, Goto, TypeOK, JobsInPlace, Holds, Commands
    <2> QED
      BY <1>11, <2>1 DEF Begin, queue, ghosts, RunningIsHeld
  <1>12. ASSUME NEW w \in Watchers, Complete(w) PROVE RunningIsHeld'
    <2>1. \A c \in Commands : status'[c] = "RUNNING" => c # at[w] /\ status[c] = "RUNNING"
      BY <1>12 DEF Complete, TypeOK, Outcomes
    <2>2. \A v \in Watchers, c \in Commands : Holds(v, c) /\ c # at[w] => Holds(v, c)'
      BY <1>12 DEF Complete, Goto, Holds
    <2> QED
      BY <1>12, <2>1, <2>2 DEF Complete, RunningIsHeld
  <1>13. ASSUME NEW w \in Watchers, JobsDone(w) PROVE RunningIsHeld'
    BY <1>13 DEF JobsDone, Goto, queue, ghosts, RunningIsHeld, Holds
  <1>14. ASSUME NEW w \in Watchers, CheckWatches(w) PROVE RunningIsHeld'
    <2>1. \A v \in Watchers, c \in Commands : Holds(v, c) => Holds(v, c)'
      BY <1>14, CheckLeavesJobs DEF Holds
    <2> QED
      BY <1>14, <2>1, CheckLeavesJobs DEF RunningIsHeld
  <1>15. ASSUME NEW w \in Watchers, Crash(w) PROVE RunningIsHeld'
    <2>1. \A c \in Commands : dropped[c] # "NO" => dropped'[c] # "NO"
      BY <1>15 DEF Crash, Drop
    <2>2. \A v \in Watchers, c \in Commands : Holds(v, c) => Holds(v, c)' \/ dropped'[c] # "NO"
      BY <1>15 DEF Crash, Drop, Goto, JobsInPlace, Holds
    <2> QED
      BY <1>15, <2>1, <2>2 DEF Crash, queue, RunningIsHeld
  <1>16. ASSUME NEW w \in Watchers, PollFails(w) PROVE RunningIsHeld'
    <2>1. \A c \in Commands : dropped[c] # "NO" => dropped'[c] # "NO"
      BY <1>16 DEF PollFails, Drop
    <2>2. \A v \in Watchers, c \in Commands : Holds(v, c) => Holds(v, c)' \/ dropped'[c] # "NO"
      BY <1>16 DEF PollFails, Drop, Goto, JobsInPlace, Holds
    <2> QED
      BY <1>16, <2>1, <2>2 DEF PollFails, queue, RunningIsHeld
  <1>17. CASE Elsewhere
    BY <1>17, ElsewhereLeavesJobs DEF RunningIsHeld, Holds
  <1> QED
    BY <1>1, <1>2, <1>3, <1>4, <1>5, <1>6, <1>7, <1>8, <1>9, <1>10, <1>11, <1>12, <1>13, <1>14,
       <1>15, <1>16, <1>17 DEF Next, Loop, CheckWatches, Elsewhere

\* A lock timeout needs another holder.
LEMMA TimeoutStep ==
    ASSUME TypeOK, LockIsUsed, OthersAreKnown, TimeoutHasCause, Next
    PROVE  TimeoutHasCause'
  <1>1. CASE Call
    BY <1>1 DEF Call, NewJob, service, TimeoutHasCause
  <1>2. CASE ClickToast
    BY <1>2 DEF ClickToast, NewJob, service, TimeoutHasCause
  <1>3. ASSUME NEW c \in Commands, Answer(c) PROVE TimeoutHasCause'
    BY <1>3 DEF Answer, service, TimeoutHasCause
  <1>4. ASSUME NEW c \in Commands, GiveUp(c) PROVE TimeoutHasCause'
    BY <1>4 DEF GiveUp, service, TimeoutHasCause
  <1>5. ASSUME NEW w \in Watchers, Start(w) PROVE TimeoutHasCause'
    BY <1>5 DEF Start, ghosts, TimeoutHasCause
  <1>6. ASSUME NEW w \in Watchers, Beat(w) PROVE TimeoutHasCause'
    BY <1>6 DEF Beat, ghosts, TimeoutHasCause
  <1>7. ASSUME NEW w \in Watchers, Select(w) PROVE TimeoutHasCause'
    BY <1>7 DEF Select, ghosts, TimeoutHasCause
  <1>8. ASSUME NEW w \in Watchers, Mark(w) PROVE TimeoutHasCause'
    BY <1>8 DEF Mark, ghosts, TimeoutHasCause
  <1>9. ASSUME NEW w \in Watchers, JobLock(w) PROVE TimeoutHasCause'
    BY <1>9 DEF JobLock, ghosts, TimeoutHasCause
  <1>10. ASSUME NEW w \in Watchers, JobLockTimesOut(w) PROVE TimeoutHasCause'
    BY <1>10 DEF JobLockTimesOut, TypeOK, LockIsUsed, OthersAreKnown, TimeoutHasCause, Up,
       Browsing
  <1>11. ASSUME NEW w \in Watchers, Begin(w) PROVE TimeoutHasCause'
    BY <1>11 DEF Begin, ghosts, TimeoutHasCause
  <1>12. ASSUME NEW w \in Watchers, Complete(w) PROVE TimeoutHasCause'
    BY <1>12 DEF Complete, TimeoutHasCause
  <1>13. ASSUME NEW w \in Watchers, JobsDone(w) PROVE TimeoutHasCause'
    BY <1>13 DEF JobsDone, ghosts, TimeoutHasCause
  <1>14. ASSUME NEW w \in Watchers, NothingDue(w) PROVE TimeoutHasCause'
    BY <1>14 DEF NothingDue, ghosts, TimeoutHasCause
  <1>15. ASSUME NEW w \in Watchers, SomeDue(w) PROVE TimeoutHasCause'
    BY <1>15 DEF SomeDue, ghosts, TimeoutHasCause
  <1>16. ASSUME NEW w \in Watchers, DueLock(w) PROVE TimeoutHasCause'
    BY <1>16 DEF DueLock, ghosts, TimeoutHasCause
  <1>17. ASSUME NEW w \in Watchers, DueLockTimesOut(w) PROVE TimeoutHasCause'
    BY <1>17 DEF DueLockTimesOut, ghosts, TimeoutHasCause
  <1>18. ASSUME NEW w \in Watchers, Checked(w) PROVE TimeoutHasCause'
    BY <1>18 DEF Checked, ghosts, TimeoutHasCause
  <1>19. ASSUME NEW w \in Watchers, Crash(w) PROVE TimeoutHasCause'
    BY <1>19 DEF Crash, Drop, TimeoutHasCause
  <1>20. ASSUME NEW w \in Watchers, PollFails(w) PROVE TimeoutHasCause'
    BY <1>20 DEF PollFails, Drop, TimeoutHasCause
  <1>21. CASE StartLogin
    BY <1>21 DEF StartLogin, TypeOK, TimeoutHasCause
  <1>22. CASE OpenProfile
    BY <1>22 DEF OpenProfile, ScriptUnchanged, ghosts, TimeoutHasCause
  <1>23. CASE LoginLockTimesOut
    BY <1>23 DEF LoginLockTimesOut, ScriptUnchanged, ghosts, TimeoutHasCause
  <1>24. CASE LoggedIn
    BY <1>24 DEF LoggedIn, ScriptUnchanged, ghosts, TimeoutHasCause
  <1>25. CASE Reopen
    BY <1>25 DEF Reopen, ScriptUnchanged, ghosts, TimeoutHasCause
  <1>26. CASE LoginEnds
    BY <1>26 DEF LoginEnds, ScriptUnchanged, ghosts, TimeoutHasCause
  <1>27. CASE Tick
    BY <1>27 DEF Tick, ghosts, TimeoutHasCause
  <1> QED
    BY <1>1, <1>2, <1>3, <1>4, <1>5, <1>6, <1>7, <1>8, <1>9, <1>10, <1>11, <1>12, <1>13, <1>14,
       <1>15, <1>16, <1>17, <1>18, <1>19, <1>20, <1>21, <1>22, <1>23, <1>24, <1>25, <1>26, <1>27 DEF
       Next, Loop, Script

\* One process alone.
LEMMA HeldStep ==
    ASSUME TypeOK, OthersAreKnown, JobsInPlace, ClaimsInOrder, RowsAreReal, HeldIsUnfinished, Next
    PROVE  HeldIsUnfinished'
  <1>1. CASE Call
    BY <1>1 DEF Call, NewJob, service, TypeOK, JobsInPlace, ClaimsInOrder, HeldIsUnfinished
  <1>2. CASE ClickToast
    BY <1>2 DEF ClickToast, NewJob, service, TypeOK, JobsInPlace, ClaimsInOrder, HeldIsUnfinished
  <1>3. ASSUME NEW c \in Commands, Answer(c) PROVE HeldIsUnfinished'
    BY <1>3 DEF Answer, service, HeldIsUnfinished
  <1>4. ASSUME NEW c \in Commands, GiveUp(c) PROVE HeldIsUnfinished'
    BY <1>4 DEF GiveUp, service, HeldIsUnfinished
  <1>5. ASSUME NEW w \in Watchers, Start(w) PROVE HeldIsUnfinished'
    BY <1>5 DEF Start, Goto, queue, TypeOK, HeldIsUnfinished
  <1>6. ASSUME NEW w \in Watchers, Beat(w) PROVE HeldIsUnfinished'
    BY <1>6 DEF Beat, Goto, queue, HeldIsUnfinished
  <1>7. ASSUME NEW w \in Watchers, Select(w) PROVE HeldIsUnfinished'
    <2>1. PICK B \in FirstPending :
              /\ hands[w] = {} /\ hands'[w] = B
              /\ B # {} => pc'[w] = "MARK"
              /\ pc[w] = "SELECT" /\ pc'[w] # "RUN"
              /\ \A v \in Watchers : v # w => hands'[v] = hands[v] /\ pc'[v] = pc[v]
      BY <1>7, SelectTakesFirst
    <2>2. /\ \A c \in B : c \in Commands /\ status[c] = "PENDING"
          /\ \A c \in B, d \in Commands : status[d] = "PENDING" /\ d \notin B => c < d
      BY FirstArePending
    <2>3. \A v \in Watchers : pc'[v] = "RUN" => v # w /\ pc[v] = "RUN"
      BY <2>1
    <2> QED
      BY <1>7, <2>1, <2>2 DEF Select, queue, HeldIsUnfinished
  <1>8. ASSUME NEW w \in Watchers, Mark(w) PROVE HeldIsUnfinished'
    BY <1>8 DEF Mark, Goto, TypeOK, JobsInPlace, HeldIsUnfinished
  <1>9. ASSUME NEW w \in Watchers, JobLock(w) PROVE HeldIsUnfinished'
    BY <1>9 DEF JobLock, Goto, queue, HeldIsUnfinished
  <1>10. ASSUME NEW w \in Watchers, JobLockTimesOut(w) PROVE HeldIsUnfinished'
    BY <1>10 DEF JobLockTimesOut, Drop, Goto, queue, HeldIsUnfinished
  <1>11. ASSUME NEW w \in Watchers, Begin(w) PROVE HeldIsUnfinished'
    BY <1>11 DEF Begin, Goto, queue, TypeOK, ClaimsInOrder, HeldIsUnfinished
  <1>12. ASSUME NEW w \in Watchers, Complete(w) PROVE HeldIsUnfinished'
    <2>1. alone => \A v \in Watchers : v # w => hands[v] = {} /\ pc[v] # "RUN"
      BY <1>12 DEF Complete, OthersAreKnown, JobsInPlace, WithJobs, Up
    <2>2. at[w] \notin hands[w]
      BY DEF JobsInPlace, ClaimsInOrder, TypeOK, Commands
    <2>3. \A c \in Commands : c # at[w] => status'[c] = status[c]
      BY <1>12 DEF Complete
    <2> QED
      BY <1>12, <2>1, <2>2 DEF Complete, Goto, TypeOK, HeldIsUnfinished
  <1>13. ASSUME NEW w \in Watchers, JobsDone(w) PROVE HeldIsUnfinished'
    BY <1>13 DEF JobsDone, Goto, queue, HeldIsUnfinished
  <1>14. ASSUME NEW w \in Watchers, CheckWatches(w) PROVE HeldIsUnfinished'
    <2>1. /\ UNCHANGED <<alone, status, hands, at>> /\ pc'[w] # "RUN"
          /\ \A v \in Watchers : v # w => pc'[v] = pc[v]
      BY <1>14, CheckLeavesJobs
    <2> QED
      BY <2>1 DEF HeldIsUnfinished
  <1>15. ASSUME NEW w \in Watchers, Crash(w) PROVE HeldIsUnfinished'
    BY <1>15 DEF Crash, Drop, Goto, queue, TypeOK, HeldIsUnfinished
  <1>16. ASSUME NEW w \in Watchers, PollFails(w) PROVE HeldIsUnfinished'
    BY <1>16 DEF PollFails, Drop, Goto, queue, TypeOK, HeldIsUnfinished
  <1>17. CASE Elsewhere
    BY <1>17, ElsewhereLeavesJobs DEF HeldIsUnfinished
  <1> QED
    BY <1>1, <1>2, <1>3, <1>4, <1>5, <1>6, <1>7, <1>8, <1>9, <1>10, <1>11, <1>12, <1>13, <1>14,
       <1>15, <1>16, <1>17 DEF Next, Loop, CheckWatches, Elsewhere

\* Answers.
LEMMA AnswerStep ==
    ASSUME TypeOK, JobsInPlace, RowsAreReal, HeldIsUnfinished, AnswerStands, Next
    PROVE  AnswerStands'
  <1>1. CASE Call
    BY <1>1 DEF Call, NewJob, service, TypeOK, AnswerStands, Outcomes
  <1>2. CASE ClickToast
    BY <1>2 DEF ClickToast, NewJob, service, TypeOK, RowsAreReal, AnswerStands
  <1>3. ASSUME NEW c \in Commands, Answer(c) PROVE AnswerStands'
    BY <1>3 DEF Answer, service, AnswerStands
  <1>4. ASSUME NEW c \in Commands, GiveUp(c) PROVE AnswerStands'
    BY <1>4 DEF GiveUp, service, AnswerStands, Outcomes
  <1>5. ASSUME NEW w \in Watchers, Start(w) PROVE AnswerStands'
    BY <1>5 DEF Start, queue, AnswerStands
  <1>6. ASSUME NEW w \in Watchers, Beat(w) PROVE AnswerStands'
    BY <1>6 DEF Beat, queue, AnswerStands
  <1>7. ASSUME NEW w \in Watchers, Select(w) PROVE AnswerStands'
    BY <1>7 DEF Select, queue, AnswerStands
  <1>8. ASSUME NEW w \in Watchers, Mark(w) PROVE AnswerStands'
    BY <1>8 DEF Mark, HeldIsUnfinished, AnswerStands, Outcomes
  <1>9. ASSUME NEW w \in Watchers, JobLock(w) PROVE AnswerStands'
    BY <1>9 DEF JobLock, queue, AnswerStands
  <1>10. ASSUME NEW w \in Watchers, JobLockTimesOut(w) PROVE AnswerStands'
    BY <1>10 DEF JobLockTimesOut, queue, AnswerStands
  <1>11. ASSUME NEW w \in Watchers, Begin(w) PROVE AnswerStands'
    BY <1>11 DEF Begin, queue, AnswerStands
  <1>12. ASSUME NEW w \in Watchers, Complete(w) PROVE AnswerStands'
    BY <1>12 DEF Complete, HeldIsUnfinished, AnswerStands, Outcomes
  <1>13. ASSUME NEW w \in Watchers, JobsDone(w) PROVE AnswerStands'
    BY <1>13 DEF JobsDone, queue, AnswerStands
  <1>14. ASSUME NEW w \in Watchers, CheckWatches(w) PROVE AnswerStands'
    <2>1. UNCHANGED <<alone, status, client>>
      BY <1>14, CheckLeavesJobs
    <2> QED
      BY <2>1 DEF AnswerStands
  <1>15. ASSUME NEW w \in Watchers, Crash(w) PROVE AnswerStands'
    BY <1>15 DEF Crash, queue, AnswerStands
  <1>16. ASSUME NEW w \in Watchers, PollFails(w) PROVE AnswerStands'
    BY <1>16 DEF PollFails, queue, AnswerStands
  <1>17. CASE Elsewhere
    BY <1>17, ElsewhereLeavesJobs DEF AnswerStands
  <1> QED
    BY <1>1, <1>2, <1>3, <1>4, <1>5, <1>6, <1>7, <1>8, <1>9, <1>10, <1>11, <1>12, <1>13, <1>14,
       <1>15, <1>16, <1>17 DEF Next, Loop, CheckWatches, Elsewhere

\* Only a heartbeat and time change its age; a process with nothing to do for the
\* browser comes to its next heartbeat before long.
LEMMA QuietStep ==
    ASSUME TypeOK, QuietIsShort, Next
    PROVE  QuietIsShort'
  <1>1. ASSUME NEW w \in Watchers, Beat(w) PROVE QuietIsShort'
    <2>1. beat' = 0 /\ pc'[w] = "SELECT" /\ \A v \in Watchers : v # w =>
              pc'[v] = pc[v] /\ left'[v] = left[v] /\ worked'[v] = worked[v]
      BY <1>1 DEF Beat, Goto, SetTimer, TypeOK
    <2>2. beat \in Nat /\ \A v \in Watchers : left[v] \in Nat
      BY DEF TypeOK
    <2> QED
      BY <2>1, <2>2 DEF QuietIsShort, Up
  <1>2. ASSUME NEW w \in Watchers, Start(w) \/ Mark(w) \/ SomeDue(w) PROVE QuietIsShort'
    <2>1. worked'[w] /\ UNCHANGED beat /\ \A v \in Watchers : v # w =>
              pc'[v] = pc[v] /\ left'[v] = left[v] /\ worked'[v] = worked[v]
      BY <1>2 DEF Start, Mark, SomeDue, Goto, SetTimer, TypeOK
    <2> QED
      BY <2>1 DEF QuietIsShort, Up
  <1>3. ASSUME NEW w \in Watchers, Select(w) \/ NothingDue(w) \/ PollFails(w) \/ Crash(w)
        PROVE  QuietIsShort'
    <2>1. /\ UNCHANGED <<beat, worked>>
          /\ \A v \in Watchers : v # w => pc'[v] = pc[v] /\ left'[v] = left[v]
      BY <1>3 DEF Select, NothingDue, PollFails, Crash, Goto, SetTimer, TypeOK
    <2>2. \/ pc[w] = "SELECT" /\ pc'[w] \in {"DUE", "MARK"}
          \/ pc[w] = "DUE" /\ pc'[w] = "TOP" /\ left'[w] = 1
          \/ pc[w] \in {"MARK", "WORK", "RUN"} /\ pc'[w] = "DUE"
          \/ pc'[w] = "DOWN"
      BY <1>3 DEF Select, NothingDue, PollFails, Crash, Goto, SetTimer, TypeOK
    <2> QED
      BY <2>1, <2>2 DEF QuietIsShort, Up
  <1>4. ASSUME NEW w \in Watchers,
               JobLock(w) \/ JobLockTimesOut(w) \/ Begin(w) \/ Complete(w) \/ JobsDone(w)
               \/ DueLock(w) \/ DueLockTimesOut(w) \/ Checked(w)
        PROVE  QuietIsShort'
    <2>1. /\ UNCHANGED <<beat, worked>> /\ pc[w] \in {"JOBLOCK", "WORK", "RUN", "DUELOCK", "CHECK"}
          /\ \A v \in Watchers : v # w => pc'[v] = pc[v] /\ left'[v] = left[v]
      BY <1>4 DEF JobLock, JobLockTimesOut, Begin, Complete, JobsDone, DueLock, DueLockTimesOut,
         Checked, Goto, SetTimer, TypeOK
    <2> QED
      BY <2>1 DEF QuietIsShort, Up
  <1>5. CASE Tick
    <2>1. \A w \in Watchers :
              /\ pc[w] \notin {"SELECT", "MARK", "DUE"}
              /\ pc[w] = "TOP" => left[w] > 0 /\ left'[w] = left[w] - 1
      BY <1>5, ConstantTypes DEF Tick, Idles, Timed, Before
    <2>2. /\ UNCHANGED <<pc, worked>> /\ beat' \in {beat, beat + 1}
          /\ beat \in Nat /\ \A w \in Watchers : left[w] \in Nat
      BY <1>5 DEF Tick, TypeOK
    <2> QED
      BY <2>1, <2>2 DEF QuietIsShort, Up
  <1>6. ASSUME Call \/ ClickToast \/ \E c \in Commands : Answer(c) \/ GiveUp(c)
        PROVE  QuietIsShort'
    <2>1. UNCHANGED <<beat, pc, left, worked>>
      BY <1>6 DEF Call, ClickToast, NewJob, Answer, GiveUp, service
    <2> QED
      BY <2>1 DEF QuietIsShort, Up
  <1>7. CASE StartLogin \/ Script
    <2>1. UNCHANGED <<beat, pc, worked>> /\ \A w \in Watchers : left'[w] = left[w]
      BY <1>7, ConstantTypes DEF StartLogin, Script, OpenProfile, LoginLockTimesOut, LoggedIn,
         Reopen, LoginEnds, ScriptUnchanged, loop, SetTimer, TypeOK
    <2> QED
      BY <2>1 DEF QuietIsShort, Up
  <1> QED
    BY <1>1, <1>2, <1>3, <1>4, <1>5, <1>6, <1>7 DEF Next, Loop

-----------------------------------------------------------------------------
(* The invariant. *)

LEMMA InvInit == Init => IInv
  <1> SUFFICES ASSUME Init PROVE IInv
    OBVIOUS
  <1>1. TypeOK
    <2>1. beat \in 0..(StaleAfter + 1) /\ sent \in 0..MaxCommands
          /\ faults \in 0..MaxFaults /\ logins \in 0..MaxLogins
      BY ConstantTypes DEF Init
    <2> QED
      BY <2>1 DEF Init, TypeOK, Steps, ScriptSteps
  <1>2. LockIsUsed /\ OthersAreKnown
    BY ConstantTypes DEF Init, LockIsUsed, OthersAreKnown, Browsing, Up
  <1>3. RowsAreReal /\ JobsInPlace /\ ClaimsInOrder
    BY DEF Init, RowsAreReal, JobsInPlace, ClaimsInOrder, Outcomes
  <1>4. RunningIsHeld /\ TimeoutHasCause /\ HeldIsUnfinished /\ AnswerStands
    BY DEF Init, RunningIsHeld, TimeoutHasCause, HeldIsUnfinished, AnswerStands, Outcomes
  <1>5. QuietIsShort
    BY DEF Init, QuietIsShort, Up
  <1> QED
    BY <1>1, <1>2, <1>3, <1>4, <1>5 DEF IInv

LEMMA InvStep == IInv /\ [Next]_vars => IInv'
  <1>1. ASSUME IInv, Next PROVE IInv'
    BY <1>1, TypeStep, LockStep, OthersStep, RowsStep, PlaceStep, ClaimsStep, RunningStep,
       TimeoutStep, HeldStep, AnswerStep, QuietStep DEF IInv
  <1>2. ASSUME IInv, UNCHANGED vars PROVE IInv'
    <2>1. TypeOK' /\ LockIsUsed' /\ OthersAreKnown' /\ RowsAreReal'
      BY <1>2 DEF IInv, vars, TypeOK, LockIsUsed, OthersAreKnown, RowsAreReal, Up
    <2>2. JobsInPlace' /\ ClaimsInOrder' /\ RunningIsHeld'
      BY <1>2 DEF IInv, vars, JobsInPlace, ClaimsInOrder, RunningIsHeld, Holds
    <2>3. TimeoutHasCause' /\ HeldIsUnfinished' /\ AnswerStands' /\ QuietIsShort'
      BY <1>2 DEF IInv, vars, TimeoutHasCause, HeldIsUnfinished, AnswerStands, QuietIsShort, Up
    <2> QED
      BY <2>1, <2>2, <2>3 DEF IInv
  <1> QED
    BY <1>1, <1>2

\* The service reaches only states that satisfy the invariant.
THEOREM Invariance == Spec => []IInv
  BY InvInit, InvStep, PTL DEF Spec

\* The tables, the lock file and the loop keep their types (TypeOK), for any number of
\* processes and jobs.
THEOREM TypeCorrect == Spec => []TypeOK
  <1>1. IInv => TypeOK
    BY DEF IInv
  <1> QED
    BY <1>1, Invariance, PTL

\* Chromium runs on the profile in one process at a time.
THEOREM BrowserIsExclusive == Spec => []OneBrowser
  <1>1. IInv => OneBrowser
    BY DEF IInv, OneBrowser, Users, LockIsUsed, Browsing
  <1> QED
    BY <1>1, Invariance, PTL

\* While only the scheduled process has run, an answer is never contradicted.
THEOREM AnswersStand == Spec => []AnswerStands
  <1>1. IInv => AnswerStands
    BY DEF IInv
  <1> QED
    BY <1>1, Invariance, PTL

\* Every job left RUNNING has a cause, and a lock timeout has another holder for its.
THEOREM LossIsExplained == Spec => []LossHasCause
  <1>1. IInv => LossHasCause
    BY DEF IInv, LossHasCause, RunningIsHeld, TimeoutHasCause, InHand, Holds
  <1> QED
    BY <1>1, Invariance, PTL

\* A live process seems dead only while, or right after, it has to do with the browser.
THEOREM StaleIsExplained == Spec => []StaleOnlyAfterBrowserWork
  <1>1. IInv => StaleOnlyAfterBrowserWork
    BY ConstantTypes DEF IInv, TypeOK, QuietIsShort, StaleOnlyAfterBrowserWork, WatcherAlive
  <1> QED
    BY <1>1, Invariance, PTL

-----------------------------------------------------------------------------
(* The contract. *)

LEMMA ContractInit == Init => Contract!Init
  BY DEF Init, Contract!Init

\* Every step is one of the contract, or leaves its variables alone.
LEMMA ContractStep ==
    ASSUME IInv, Next
    PROVE  [Contract!Next]_(Contract!vars)
  <1>1. CASE Call
    <2>1. /\ sent + 1 \in Commands /\ sent' = sent + 1
          /\ client' = [client EXCEPT ![sent + 1] = "WAITING"]
          /\ UNCHANGED <<at, latest, produced>>
      BY <1>1, ConstantTypes DEF Call, NewJob, service, IInv, TypeOK, Commands
    <2>2. Contract!Send
      BY <2>1 DEF Contract!Send
    <2> QED
      BY <2>2 DEF Contract!Next
  <1>2. CASE ClickToast
    <2>1. /\ sent + 1 \in Commands /\ sent' = sent + 1
          /\ client' = [client EXCEPT ![sent + 1] = "NOBODY"]
          /\ UNCHANGED <<at, latest, produced>>
      BY <1>2, ConstantTypes DEF ClickToast, NewJob, service, IInv, TypeOK, Commands
    <2>2. Contract!Send
      BY <2>1 DEF Contract!Send
    <2> QED
      BY <2>2 DEF Contract!Next
  <1>3. ASSUME NEW c \in Commands, Answer(c) PROVE [Contract!Next]_(Contract!vars)
    <2>1. status[c] \in produced[c]
      BY <1>3 DEF Answer, IInv, RowsAreReal
    <2>2. Contract!Answer(c)
      BY <1>3, <2>1 DEF Answer, service, Contract!Answer
    <2> QED
      BY <2>2 DEF Contract!Next
  <1>4. ASSUME NEW c \in Commands, GiveUp(c) PROVE [Contract!Next]_(Contract!vars)
    <2>1. Contract!Answer(c)
      BY <1>4 DEF GiveUp, service, Contract!Answer
    <2> QED
      BY <2>1 DEF Contract!Next
  <1>5. ASSUME NEW w \in Watchers, Start(w) PROVE [Contract!Next]_(Contract!vars)
    BY <1>5 DEF Start, queue, ghosts, Contract!vars
  <1>6. ASSUME NEW w \in Watchers, Beat(w) PROVE [Contract!Next]_(Contract!vars)
    BY <1>6 DEF Beat, queue, ghosts, Contract!vars
  <1>7. ASSUME NEW w \in Watchers, Select(w) PROVE [Contract!Next]_(Contract!vars)
    BY <1>7 DEF Select, queue, ghosts, Contract!vars
  <1>8. ASSUME NEW w \in Watchers, Mark(w) PROVE [Contract!Next]_(Contract!vars)
    BY <1>8 DEF Mark, ghosts, Contract!vars
  <1>9. ASSUME NEW w \in Watchers, JobLock(w) PROVE [Contract!Next]_(Contract!vars)
    BY <1>9 DEF JobLock, queue, ghosts, Contract!vars
  <1>10. ASSUME NEW w \in Watchers, JobLockTimesOut(w) PROVE [Contract!Next]_(Contract!vars)
    <2>1. at' = [at EXCEPT ![w] = 0] /\ UNCHANGED <<sent, latest, produced, client>>
      BY <1>10 DEF JobLockTimesOut, Drop, queue
    <2>2. Contract!Abort(w)
      BY <2>1 DEF Contract!Abort
    <2> QED
      BY <2>2 DEF Contract!Next
  <1>11. ASSUME NEW w \in Watchers, Begin(w) PROVE [Contract!Next]_(Contract!vars)
    <2>1. at[w] = 0
      BY <1>11 DEF Begin, IInv, JobsInPlace
    <2>2. PICK c \in hands[w] : /\ at' = [at EXCEPT ![w] = c]
                               /\ latest' = [latest EXCEPT ![w] = c]
      BY <1>11 DEF Begin
    <2>3. c \in Commands /\ latest[w] < c /\ c <= sent
      BY DEF IInv, TypeOK, ClaimsInOrder
    <2>4. UNCHANGED <<sent, produced, client>>
      BY <1>11 DEF Begin, queue, ghosts
    <2>5. Contract!Begin(w)
      BY <2>1, <2>2, <2>3, <2>4 DEF Contract!Begin
    <2> QED
      BY <2>5 DEF Contract!Next
  <1>12. ASSUME NEW w \in Watchers, Complete(w) PROVE [Contract!Next]_(Contract!vars)
    <2>1. at[w] \in Commands
      BY <1>12 DEF Complete, IInv, TypeOK, JobsInPlace
    <2>2. Contract!End(w)
      BY <1>12, <2>1 DEF Complete, Contract!End
    <2> QED
      BY <2>2 DEF Contract!Next
  <1>13. ASSUME NEW w \in Watchers, JobsDone(w) PROVE [Contract!Next]_(Contract!vars)
    BY <1>13 DEF JobsDone, queue, ghosts, Contract!vars
  <1>14. ASSUME NEW w \in Watchers, CheckWatches(w) PROVE [Contract!Next]_(Contract!vars)
    BY <1>14, CheckLeavesJobs DEF Contract!vars, IInv
  <1>15. ASSUME NEW w \in Watchers, Crash(w) PROVE [Contract!Next]_(Contract!vars)
    <2>1. at' = [at EXCEPT ![w] = 0] /\ UNCHANGED <<sent, latest, produced, client>>
      BY <1>15 DEF Crash, Drop, queue
    <2>2. Contract!Abort(w)
      BY <2>1 DEF Contract!Abort
    <2> QED
      BY <2>2 DEF Contract!Next
  <1>16. ASSUME NEW w \in Watchers, PollFails(w) PROVE [Contract!Next]_(Contract!vars)
    <2>1. at' = [at EXCEPT ![w] = 0] /\ UNCHANGED <<sent, latest, produced, client>>
      BY <1>16 DEF PollFails, Drop, queue
    <2>2. Contract!Abort(w)
      BY <2>1 DEF Contract!Abort
    <2> QED
      BY <2>2 DEF Contract!Next
  <1>17. CASE Elsewhere
    BY <1>17, ElsewhereLeavesJobs DEF Contract!vars
  <1> QED
    BY <1>1, <1>2, <1>3, <1>4, <1>5, <1>6, <1>7, <1>8, <1>9, <1>10, <1>11, <1>12, <1>13, <1>14,
       <1>15, <1>16, <1>17 DEF Next, Loop, CheckWatches, Elsewhere

\* The queue implements CommandContract: no process executes a command twice or out
\* of order, and every answer is an outcome of the caller's own command.
THEOREM QueueKeepsContract == Spec => KeepsContract
  <1>1. Init => Contract!Init
    BY ContractInit
  <1>2. IInv /\ [Next]_vars => [Contract!Next]_(Contract!vars)
    <2>1. ASSUME IInv, Next PROVE [Contract!Next]_(Contract!vars)
      BY <2>1, ContractStep
    <2>2. ASSUME UNCHANGED vars PROVE UNCHANGED Contract!vars
      BY <2>2 DEF vars, Contract!vars
    <2> QED
      BY <2>1, <2>2
  <1> QED
    BY <1>1, <1>2, Invariance, PTL DEF Spec, Contract!Spec, KeepsContract
=============================================================================
