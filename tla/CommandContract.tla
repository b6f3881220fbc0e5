-------------------------- MODULE CommandContract --------------------------
(***************************************************************************)
(* What the command queue promises whoever sends a command, with any       *)
(* number of watcher processes serving it: a process executes no command   *)
(* twice and none out of order, and a caller is told either an outcome of  *)
(* an execution of its own command or that none came in time.  A command   *)
(* may be lost; it is then simply never begun, or never ends.              *)
(***************************************************************************)
EXTENDS Naturals

CONSTANTS Commands, Watchers, Outcomes

VARIABLES
    sent,       \* how many commands have been created; they are numbered in order
    at,         \* the command a process is executing, or 0
    latest,     \* the last command a process began
    produced,   \* outcomes of the executions of a command
    answer      \* what the caller knows

vars == <<sent, at, latest, produced, answer>>

Init ==
    /\ sent = 0
    /\ at = [w \in Watchers |-> 0]
    /\ latest = [w \in Watchers |-> 0]
    /\ produced = [c \in Commands |-> {}]
    /\ answer = [c \in Commands |-> "NOBODY"]

Send ==
    /\ sent + 1 \in Commands
    /\ sent' = sent + 1
    /\ \E a \in {"NOBODY", "WAITING"} : answer' = [answer EXCEPT ![sent + 1] = a]
    /\ UNCHANGED <<at, latest, produced>>

Begin(w) ==
    /\ at[w] = 0
    /\ \E c \in Commands :
        /\ latest[w] < c /\ c <= sent
        /\ at' = [at EXCEPT ![w] = c]
        /\ latest' = [latest EXCEPT ![w] = c]
    /\ UNCHANGED <<sent, produced, answer>>

End(w) ==
    /\ at[w] \in Commands
    /\ at' = [at EXCEPT ![w] = 0]
    /\ \E o \in Outcomes : produced' = [produced EXCEPT ![at[w]] = @ \cup {o}]
    /\ UNCHANGED <<sent, latest, answer>>

Abort(w) ==
    /\ at' = [at EXCEPT ![w] = 0]
    /\ UNCHANGED <<sent, latest, produced, answer>>

Answer(c) ==
    /\ answer[c] = "WAITING"
    /\ \E a \in produced[c] \cup {"TIMEOUT"} : answer' = [answer EXCEPT ![c] = a]
    /\ UNCHANGED <<sent, at, latest, produced>>

Next ==
    \/ Send
    \/ \E w \in Watchers : Begin(w) \/ End(w) \/ Abort(w)
    \/ \E c \in Commands : Answer(c)

Spec == Init /\ [][Next]_vars
=============================================================================
