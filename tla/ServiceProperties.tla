-------------------------- MODULE ServiceProperties --------------------------
(***************************************************************************)
(* What the command queue, the heartbeat and the profile lock should       *)
(* ensure together.                                                        *)
(***************************************************************************)
EXTENDS CommandService

\* Every variable holds what the tables, the lock file and the loop can hold.
TypeOK ==
    /\ sent \in 0..MaxCommands
    /\ status \in [Commands -> {"NONE", "PENDING", "RUNNING"} \cup Outcomes]
    /\ client \in [Commands -> {"NOBODY", "WAITING", "TIMEOUT"} \cup Outcomes]
    /\ wait \in [Commands -> Nat]
    /\ beat \in 0..(StaleAfter + 1)
    /\ lock \in Watchers \cup {LOGIN, FREE}
    /\ pc \in [Watchers -> Steps]
    /\ hands \in [Watchers -> SUBSET Commands]
    /\ at \in [Watchers -> Commands \cup {0}]
    /\ left \in [Watchers \cup {LOGIN} -> Nat]
    /\ login \in ScriptSteps
    /\ faults \in 0..MaxFaults /\ logins \in 0..MaxLogins
    /\ latest \in [Watchers -> Commands \cup {0}]
    /\ produced \in [Commands -> SUBSET Outcomes]
    /\ dropped \in [Commands -> {"NO", "TIMEOUT", "CRASH", "FAULT"}]
    /\ worked \in [Watchers -> BOOLEAN]
    /\ alone \in BOOLEAN

Users == {w \in Watchers : pc[w] \in {"WORK", "RUN", "CHECK"}}
            \cup (IF login \in {"OPEN", "OPEN2"} THEN {LOGIN} ELSE {})

\* Chromium runs on the profile in one process at a time: two watchers and the
\* login script never use it together, whoever crashes or times out
\* (persistent_context and its finally clauses).
OneBrowser == \A p, q \in Users : p = q

\* While only the scheduled watcher has run, what a caller was told stays what
\* the jobs table says: complete_job never overwrites an outcome and a claim
\* never reopens a finished job (neither looks at the status it replaces).
AnswerStands ==
    alone => \A c \in Commands : client[c] \in Outcomes => status[c] = client[c]

InHand(c) == \E w \in Watchers : c = at[w] \/ c \in hands[w]

\* A job is left RUNNING with nobody working on it only after a crash, a failed
\* call, or a lock timeout; and a lock timeout only if the login script or a
\* second watcher has been started: the watcher never starves itself of the
\* profile (poll_and_handle_jobs claims before it has the browser).
LossHasCause ==
    /\ \A c \in Commands : status[c] = "RUNNING" /\ ~InHand(c) => dropped[c] # "NO"
    /\ \A c \in Commands : dropped[c] = "TIMEOUT" => logins > 0 \/ ~alone

\* A live watcher is judged dead only if it has just started or, since its last
\* heartbeat, waited for the profile or used it (update_heartbeat runs once per round, so jobs,
\* checks and the pauses inside them count as silence).
StaleOnlyAfterBrowserWork ==
    ~WatcherAlive => \A w \in Watchers : Up(w) => worked[w]

Contract == INSTANCE CommandContract WITH answer <- client

\* The queue implements CommandContract: no process executes a command twice or
\* out of order, nobody is told of an outcome that did not happen.
KeepsContract == Contract!Spec

\* Every waiting call returns, whatever happens to the watcher (wait_for_job).
CallsReturn == \A c \in Commands : client[c] = "WAITING" ~> client[c] # "WAITING"

\* Whoever holds the profile gives it back: finished, failed or dead.
ProfileIsFreed == lock # FREE ~> lock = FREE
=============================================================================
