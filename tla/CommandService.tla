--------------------------- MODULE CommandService ---------------------------
(***************************************************************************)
(* The command queue from end to end: the MCP tools and toast buttons that *)
(* insert a job and, the tools, wait for it; the watcher's main loop,      *)
(* possibly in two processes (the scheduled one and one started by hand);  *)
(* the heartbeat the tools judge the watcher by; and the lock on the       *)
(* browser profile, which the login script takes too.                      *)
(*                                                                         *)
(* Time is counted in units of the job poll interval's order; the waits    *)
(* that matter (client, heartbeat, lock, login) are constants.  Database   *)
(* steps take no time; executing a command or checking watches takes any.  *)
(***************************************************************************)
EXTENDS Naturals, FiniteSets

CONSTANTS
    Watchers,           \* the watcher processes
    Scheduled,          \* the one the task scheduler runs; others are started by hand
    MaxCommands,        \* bound: jobs created
    Batch,              \* claim_pending_jobs(limit=5)
    Waits,              \* timeout_sec of the tools
    StaleAfter,         \* heartbeat_stale_after_sec
    LockWait,           \* _LOCK_TIMEOUT_SEC
    LoginTime,          \* TIMEOUT_SEC of the login script
    MaxFaults,          \* bound: crashes and failed database or launch calls
    MaxLogins           \* bound: runs of the login script

Commands == 1..MaxCommands
Outcomes == {"DONE", "ERROR"}
LOGIN == "login"
FREE == "free"

ASSUME ServiceAssumption ==
    /\ {MaxCommands, Batch, StaleAfter, LockWait, LoginTime, MaxFaults, MaxLogins} \subseteq Nat
    /\ Waits \subseteq Nat /\ StaleAfter > 0
    /\ Scheduled \in Watchers
    /\ {LOGIN, FREE} \cap Watchers = {}

VARIABLES
    sent,       \* jobs created so far; a job's id is its number
    status,     \* jobs.status (and result: an outcome is DONE or ERROR)
    client,     \* per job: what the call that created it has returned, if it waits
    wait,       \* per job: time its client still waits
    beat,       \* age of the heartbeat row, StaleAfter + 1 when stale or absent
    lock,       \* who holds the browser profile's lock file
    pc,         \* per process: where the loop is
    hands,      \* per process: claimed jobs not yet begun
    at,         \* per process: the job in handle_job, or 0
    left,       \* per process and for the script: time its timer still has
    login,      \* where the login script is
    faults, logins,     \* counters of the bounds
    \* ghosts
    latest,     \* per process: the last job it began
    produced,   \* per job: outcomes recorded for it
    dropped,    \* per job: why a process let go of it
    worked,     \* per process: has started, or turned to the browser, since its last heartbeat
    alone       \* only the scheduled process has ever run

queue == <<sent, status, client, wait>>
loop == <<beat, pc, hands, at, worked, latest>>
ghosts == <<produced, dropped>>
service == <<beat, lock, pc, hands, at, left, login, faults, logins,
             latest, produced, dropped, worked, alone>>
vars == <<sent, status, client, wait, beat, lock, pc, hands, at, left, login,
          faults, logins, latest, produced, dropped, worked, alone>>

Steps == {"DOWN", "TOP", "SELECT", "MARK", "JOBLOCK", "WORK", "RUN", "DUE", "DUELOCK", "CHECK"}
ScriptSteps == {"OUT", "WAIT", "OPEN", "GAP", "WAIT2", "OPEN2"}
Up(w) == pc[w] # "DOWN"

Init ==
    /\ sent = 0
    /\ status = [c \in Commands |-> "NONE"]
    /\ client = [c \in Commands |-> "NOBODY"]
    /\ wait = [c \in Commands |-> 0]
    /\ beat = StaleAfter + 1
    /\ lock = FREE
    /\ pc = [w \in Watchers |-> "DOWN"]
    /\ hands = [w \in Watchers |-> {}]
    /\ at = [w \in Watchers |-> 0]
    /\ left = [p \in Watchers \cup {LOGIN} |-> 0]
    /\ login = "OUT"
    /\ faults = 0 /\ logins = 0
    /\ latest = [w \in Watchers |-> 0]
    /\ produced = [c \in Commands |-> {}]
    /\ dropped = [c \in Commands |-> "NO"]
    /\ worked = [w \in Watchers |-> FALSE]
    /\ alone = TRUE

-----------------------------------------------------------------------------
(* Clients *)

\* is_watcher_alive
WatcherAlive == beat <= StaleAfter

NewJob(who, t) ==
    /\ sent < MaxCommands
    /\ sent' = sent + 1
    /\ status' = [status EXCEPT ![sent + 1] = "PENDING"]
    /\ client' = [client EXCEPT ![sent + 1] = who]
    /\ wait' = [wait EXCEPT ![sent + 1] = t]
    /\ UNCHANGED service

\* check_availability, reserve_now, approve_reservation: a job, unless the
\* heartbeat is stale (the refusal changes nothing)
Call == WatcherAlive /\ \E t \in Waits : NewJob("WAITING", t)

\* _handle_click: a toast lives in a thread of a watcher process; nobody waits
ClickToast == (\E w \in Watchers : Up(w)) /\ NewJob("NOBODY", 0)

\* wait_for_job polls every half second
Answer(c) ==
    /\ client[c] = "WAITING"
    /\ status[c] \in Outcomes
    /\ client' = [client EXCEPT ![c] = status[c]]
    /\ UNCHANGED <<sent, status, wait, service>>

\* Mutant: waits on for a job that has been claimed
M_GiveUpUnclaimed(c) ==
    /\ client[c] = "WAITING"
    /\ wait[c] = 0
    /\ status[c] = "PENDING"
    /\ client' = [client EXCEPT ![c] = "TIMEOUT"]
    /\ UNCHANGED <<sent, status, wait, service>>

\* after the deadline it looks once more
GiveUp(c) ==
    /\ client[c] = "WAITING"
    /\ wait[c] = 0
    /\ status[c] \notin Outcomes
    /\ client' = [client EXCEPT ![c] = "TIMEOUT"]
    /\ UNCHANGED <<sent, status, wait, service>>

-----------------------------------------------------------------------------
(* The loop: run_forever, poll_and_handle_jobs, claim_pending_jobs *)

Goto(w, step) == pc' = [pc EXCEPT ![w] = step]
SetTimer(p, t) == left' = [left EXCEPT ![p] = t]

\* The jobs a process lets go of: RUNNING for ever, as far as it is concerned
Drop(w, why) ==
    LET held == (hands[w] \cup {at[w]}) \cap Commands IN
    /\ dropped' = [c \in Commands |->
                    IF c \in held /\ pc[w] # "MARK" THEN why ELSE dropped[c]]
    /\ hands' = [hands EXCEPT ![w] = {}]
    /\ at' = [at EXCEPT ![w] = 0]

Start(w) ==
    /\ pc[w] = "DOWN"
    /\ Goto(w, "TOP")
    /\ alone' = (alone /\ w = Scheduled)
    /\ worked' = [worked EXCEPT ![w] = TRUE]
    /\ UNCHANGED <<queue, beat, lock, hands, at, left, login, faults, logins, latest, ghosts>>

\* A new round, after the sleep of job_poll_interval_sec that ends the last
Beat(w) ==
    /\ pc[w] = "TOP"
    /\ Goto(w, "SELECT")
    /\ SetTimer(w, 0)
    /\ beat' = 0
    /\ worked' = [worked EXCEPT ![w] = FALSE]
    /\ UNCHANGED <<queue, lock, hands, at, login, faults, logins, latest, ghosts, alone>>

\* Mutant: a claim takes every unfinished job
M_Pending == {c \in Commands : status[c] # "NONE"}

Pending == {c \in Commands : status[c] = "PENDING"}

\* SELECT id ... WHERE status = 'PENDING' ORDER BY id LIMIT ?
FirstPending == {B \in SUBSET Pending :
    /\ \A c \in B, d \in Pending \ B : c < d
    /\ \/ B = Pending /\ Cardinality(B) <= Batch
       \/ Cardinality(B) = Batch}

Select(w) ==
    /\ pc[w] = "SELECT"
    /\ \E B \in FirstPending :
        /\ hands' = [hands EXCEPT ![w] = B]
        /\ Goto(w, IF B = {} THEN "DUE" ELSE "MARK")
    /\ UNCHANGED <<queue, beat, lock, at, left, login, faults, logins, latest, ghosts, worked, alone>>

\* UPDATE jobs SET status = 'RUNNING' WHERE id IN (...): whatever their status is by now
Mark(w) ==
    /\ pc[w] = "MARK"
    /\ status' = [c \in Commands |-> IF c \in hands[w] THEN "RUNNING" ELSE status[c]]
    /\ Goto(w, "JOBLOCK")
    /\ SetTimer(w, LockWait)
    /\ worked' = [worked EXCEPT ![w] = TRUE]
    /\ UNCHANGED <<sent, client, wait, beat, lock, hands, at, login, faults, logins,
                   latest, ghosts, alone>>

\* persistent_context: every job, a DECLINE too, waits for the browser
JobLock(w) ==
    /\ pc[w] = "JOBLOCK"
    /\ lock = FREE
    /\ lock' = w
    /\ Goto(w, "WORK")
    /\ SetTimer(w, 0)
    /\ UNCHANGED <<queue, beat, hands, at, login, faults, logins, latest, ghosts, worked, alone>>

\* The timeout leaves poll_and_handle_jobs; the claimed jobs go with its locals
JobLockTimesOut(w) ==
    /\ pc[w] = "JOBLOCK"
    /\ left[w] = 0
    /\ lock # FREE
    /\ Drop(w, "TIMEOUT")
    /\ Goto(w, "DUE")
    /\ UNCHANGED <<queue, beat, lock, left, login, faults, logins, latest, produced, worked, alone>>

\* Mutant: in any order
M_Begin(w) ==
    /\ pc[w] = "WORK"
    /\ \E c \in hands[w] :
        /\ at' = [at EXCEPT ![w] = c]
        /\ latest' = [latest EXCEPT ![w] = c]
        /\ hands' = [hands EXCEPT ![w] = @ \ {c}]
    /\ Goto(w, "RUN")
    /\ UNCHANGED <<queue, beat, lock, left, login, faults, logins, ghosts, worked, alone>>

Begin(w) ==
    /\ pc[w] = "WORK"
    /\ \E c \in hands[w] :
        /\ \A d \in hands[w] : c <= d
        /\ at' = [at EXCEPT ![w] = c]
        /\ latest' = [latest EXCEPT ![w] = c]
        /\ hands' = [hands EXCEPT ![w] = @ \ {c}]
    /\ Goto(w, "RUN")
    /\ UNCHANGED <<queue, beat, lock, left, login, faults, logins, ghosts, worked, alone>>

\* complete_job, whatever the row's status is
Complete(w) ==
    /\ pc[w] = "RUN"
    /\ \E o \in Outcomes :
        /\ status' = [status EXCEPT ![at[w]] = o]
        /\ produced' = [produced EXCEPT ![at[w]] = @ \cup {o}]
    /\ at' = [at EXCEPT ![w] = 0]
    /\ Goto(w, "WORK")
    /\ UNCHANGED <<sent, client, wait, beat, lock, hands, left, login, faults, logins,
                   latest, dropped, worked, alone>>

\* Mutant: the context stays open
M_JobsDone(w) ==
    /\ pc[w] = "WORK"
    /\ hands[w] = {}
    /\ Goto(w, "DUE")
    /\ UNCHANGED <<queue, beat, lock, hands, at, left, login, faults, logins, latest, ghosts,
                   worked, alone>>

JobsDone(w) ==
    /\ pc[w] = "WORK"
    /\ hands[w] = {}
    /\ lock' = FREE
    /\ Goto(w, "DUE")
    /\ UNCHANGED <<queue, beat, hands, at, left, login, faults, logins, latest, ghosts, worked, alone>>

\* Mutant: sleeps as long as the heartbeat counts
M_NothingDue(w) ==
    /\ pc[w] = "DUE"
    /\ Goto(w, "TOP")
    /\ SetTimer(w, StaleAfter + 1)
    /\ UNCHANGED <<queue, beat, lock, hands, at, login, faults, logins, latest, ghosts, worked, alone>>

\* due_watches: anything to check?
NothingDue(w) ==
    /\ pc[w] = "DUE"
    /\ Goto(w, "TOP")
    /\ SetTimer(w, 1)
    /\ UNCHANGED <<queue, beat, lock, hands, at, login, faults, logins, latest, ghosts, worked, alone>>

SomeDue(w) ==
    /\ pc[w] = "DUE"
    /\ Goto(w, "DUELOCK")
    /\ SetTimer(w, LockWait)
    /\ worked' = [worked EXCEPT ![w] = TRUE]
    /\ UNCHANGED <<queue, beat, lock, hands, at, login, faults, logins, latest, ghosts, alone>>

DueLock(w) ==
    /\ pc[w] = "DUELOCK"
    /\ lock = FREE
    /\ lock' = w
    /\ Goto(w, "CHECK")
    /\ SetTimer(w, 0)
    /\ UNCHANGED <<queue, beat, hands, at, login, faults, logins, latest, ghosts, worked, alone>>

DueLockTimesOut(w) ==
    /\ pc[w] = "DUELOCK"
    /\ left[w] = 0
    /\ lock # FREE
    /\ Goto(w, "TOP")
    /\ SetTimer(w, 1)
    /\ UNCHANGED <<queue, beat, lock, hands, at, login, faults, logins, latest, ghosts, worked, alone>>

\* Mutant: an error leaves the lock behind
M_Checked(w) ==
    /\ pc[w] = "CHECK"
    /\ Goto(w, "TOP")
    /\ SetTimer(w, 1)
    /\ UNCHANGED <<queue, beat, lock, hands, at, login, faults, logins, latest, ghosts, worked, alone>>

\* run_due_watches ends or raises: the lock is released either way
Checked(w) ==
    /\ pc[w] = "CHECK"
    /\ lock' = FREE
    /\ Goto(w, "TOP")
    /\ SetTimer(w, 1)
    /\ UNCHANGED <<queue, beat, hands, at, login, faults, logins, latest, ghosts, worked, alone>>

-----------------------------------------------------------------------------
(* Faults *)

\* Mutant: whoever holds it
M_Released(w) == FREE

Released(w) == IF lock = w THEN FREE ELSE lock

\* The process dies; the system releases its lock
Crash(w) ==
    /\ Up(w)
    /\ faults < MaxFaults
    /\ faults' = faults + 1
    /\ Drop(w, "CRASH")
    /\ lock' = Released(w)
    /\ Goto(w, "DOWN")
    /\ SetTimer(w, 0)
    /\ UNCHANGED <<queue, beat, login, logins, latest, produced, worked, alone>>

\* Claiming raises, the browser does not start, or complete_job raises twice:
\* the exception reaches run_forever, which goes on to the due watches
PollFails(w) ==
    /\ pc[w] \in {"MARK", "WORK", "RUN"}
    /\ faults < MaxFaults
    /\ faults' = faults + 1
    /\ Drop(w, "FAULT")
    /\ lock' = Released(w)
    /\ Goto(w, "DUE")
    /\ UNCHANGED <<queue, beat, left, login, logins, latest, produced, worked, alone>>

-----------------------------------------------------------------------------
(* scripts/login_naver.py *)

ScriptUnchanged == UNCHANGED <<queue, loop, faults, ghosts, alone>>

StartLogin ==
    /\ login = "OUT"
    /\ logins < MaxLogins
    /\ logins' = logins + 1
    /\ login' = "WAIT"
    /\ SetTimer(LOGIN, LockWait)
    /\ ScriptUnchanged /\ UNCHANGED lock

\* The window for the user, later a headless one that checks the session
OpenProfile ==
    /\ login \in {"WAIT", "WAIT2"}
    /\ lock = FREE
    /\ lock' = LOGIN
    /\ login' = IF login = "WAIT" THEN "OPEN" ELSE "OPEN2"
    /\ SetTimer(LOGIN, LoginTime)
    /\ ScriptUnchanged /\ UNCHANGED logins

LoginLockTimesOut ==
    /\ login \in {"WAIT", "WAIT2"}
    /\ left[LOGIN] = 0
    /\ lock # FREE
    /\ login' = "OUT"
    /\ ScriptUnchanged /\ UNCHANGED <<lock, left, logins>>

\* wait_for_login saw the session: close, then open once more
LoggedIn ==
    /\ login = "OPEN"
    /\ lock' = FREE
    /\ login' = "GAP"
    /\ SetTimer(LOGIN, 0)
    /\ ScriptUnchanged /\ UNCHANGED logins

Reopen ==
    /\ login = "GAP"
    /\ login' = "WAIT2"
    /\ SetTimer(LOGIN, LockWait)
    /\ ScriptUnchanged /\ UNCHANGED <<lock, logins>>

\* No login in time, the session checked, an error, or Ctrl-C
LoginEnds ==
    /\ login # "OUT"
    /\ lock' = Released(LOGIN)
    /\ login' = "OUT"
    /\ SetTimer(LOGIN, 0)
    /\ ScriptUnchanged /\ UNCHANGED logins

-----------------------------------------------------------------------------
(* Time *)

Timed(step) == step \in {"JOBLOCK", "DUELOCK", "TOP", "WAIT", "WAIT2", "OPEN", "OPEN2"}
Before(n) == IF n = 0 THEN 0 ELSE n - 1

\* A process lets a unit pass unless it has something to do at once
Idles(step, t) ==
    /\ step \notin {"SELECT", "MARK", "DUE"}
    /\ step \in {"JOBLOCK", "DUELOCK", "WAIT", "WAIT2"} => lock # FREE
    /\ Timed(step) => t > 0

Tick ==
    /\ \A w \in Watchers : Idles(pc[w], left[w])
    /\ Idles(login, left[LOGIN])
    /\ \A c \in Commands : client[c] = "WAITING" => wait[c] > 0 /\ status[c] \notin Outcomes
    /\ beat' = IF beat > StaleAfter THEN beat ELSE beat + 1
    /\ wait' = [c \in Commands |-> IF client[c] = "WAITING" THEN Before(wait[c]) ELSE wait[c]]
    /\ left' = [p \in Watchers \cup {LOGIN} |->
                 IF Timed(IF p = LOGIN THEN login ELSE pc[p]) THEN Before(left[p]) ELSE left[p]]
    /\ UNCHANGED <<sent, status, client, lock, pc, hands, at, login, faults, logins,
                   latest, ghosts, worked, alone>>

-----------------------------------------------------------------------------
Loop(w) ==
    \/ Beat(w) \/ Select(w) \/ Mark(w) \/ JobLock(w) \/ JobLockTimesOut(w)
    \/ Begin(w) \/ Complete(w) \/ JobsDone(w)
    \/ NothingDue(w) \/ SomeDue(w) \/ DueLock(w) \/ DueLockTimesOut(w) \/ Checked(w)

Script == OpenProfile \/ LoginLockTimesOut \/ LoggedIn \/ Reopen \/ LoginEnds

Next ==
    \/ Call \/ ClickToast
    \/ \E c \in Commands : Answer(c) \/ GiveUp(c)
    \/ \E w \in Watchers : Start(w) \/ Loop(w) \/ Crash(w) \/ PollFails(w)
    \/ StartLogin \/ Script
    \/ Tick

Spec == Init /\ [][Next]_vars

\* Every await of the loop and of the script is bounded; the scheduler starts
\* its process again; a waiting call polls; time passes whenever nothing is due
FairSpec ==
    /\ Spec
    /\ \A w \in Watchers : WF_vars(Loop(w))
    /\ WF_vars(Start(Scheduled))
    /\ WF_vars(Script)
    /\ \A c \in Commands : WF_vars(Answer(c) \/ GiveUp(c))
    /\ SF_vars(Tick)
=============================================================================
