--------------------------- MODULE WatcherInvariant ---------------------------
(***************************************************************************)
(* The inductive strengthening from which WatcherSafety derives the safety  *)
(* invariants of WatcherProperties.  None of those is inductive by itself:  *)
(* each depends on what the loop's memory may hold at each await.           *)
(***************************************************************************)
EXTENDS WatcherProperties

\* What the loop holds in memory at each of its awaits.
DueWhileChecking == due # {} => pc = "cycle" \/ (Busy /\ act.job = 0)

BatchWhileHandling ==
    batch # {} => pc \in {"jobs", "gone"} \/ (Busy /\ act.job # 0)

ActInHand == Busy => IF act.job = 0 THEN ActRow \in due ELSE act.job \in batch

ToldByCycle == pc = "told" => act.job = 0 /\ act.copy.mode # "AUTO"

OneEntryPerWatch == \A d, e \in due : d.watch = e.watch => d = e

DueIsActive == \A e \in due : e.copy.status \in Active

ActIsRegistered == Busy => act.copy.status \notin {"UNREGISTERED", "REMOVED"}

BatchIsRunning == \A j \in batch : jobs[j].status = "RUNNING"

Shape ==
    /\ DueWhileChecking
    /\ BatchWhileHandling
    /\ ActInHand
    /\ ToldByCycle
    /\ OneEntryPerWatch
    /\ DueIsActive
    /\ ActIsRegistered
    /\ BatchIsRunning

\* The outcome about to be saved names a reservation of its own watch.
OutcomeIsBacked ==
    pc = "outcome" /\ act.result = "RESERVED" =>
        act.reservation \in DOMAIN reservations
          /\ reservations[act.reservation].watch = act.watch

Backed == RowsAreBacked /\ OutcomeIsBacked

\* A watch that may still be booked has no booking without a cause; it is out of reach
\* while it is RESERVED, removed, or held by the attempt that booked it.
OutOfReach(w) == row[w].status \in {"RESERVED", "REMOVED"} \/ Holding(w)

Budget ==
    /\ SurplusHasCause
    /\ \A w \in Watches : OutOfReach(w) \/ booked[w] <= causes[w]
    /\ \A e \in due : Holding(e.watch) \/ booked[e.watch] <= causes[e.watch]
    /\ pc = "attempt" /\ act.copy.status # "RESERVED" =>
           booked[act.watch] <= causes[act.watch]

\* A job that can still come to an attempt has not booked.
InFront(j) ==
    \/ j \notin DOMAIN jobs
    \/ jobs[j].status = "PENDING"
    \/ j \in batch /\ ~(pc \in {"clicked", "outcome"} /\ act.job = j)

Unspent == \A j \in JobIds : spent[j] <= 1 /\ (InFront(j) => spent[j] = 0)

Inductive ==
    /\ TypeOK
    /\ Shape
    /\ CopiesAreCurrent
    /\ AttemptsAreAuthorised
    /\ Backed
    /\ Budget
    /\ Unspent

-----------------------------------------------------------------------------
(* The strengthenings of the other invariants, on top of Inductive. *)

\* An event has caused a surplus booking only if it was a fault, a DECLINE that has been
\* answered or a reserve_now that has booked.
Spent(w) == {j \in DOMAIN jobs :
               /\ jobs[j].watch = w
               /\ \/ jobs[j].type = "DECLINE" /\ jobs[j].status \in Answers
                  \/ jobs[j].type = "RESERVE_NOW" /\ spent[j] > 0}

CausesAreCounted == \A w \in Watches : causes[w] <= faults + Cardinality(Spent(w))

\* Nothing has been booked for a watch that is not registered yet, nor will be.
FreshIsUnbooked ==
    \A w \in Watches : row[w].status = "UNREGISTERED" => booked[w] = 0

\* The job being served is the oldest in hand.
ServesOldest == Busy /\ act.job # 0 => \A k \in batch : act.job <= k

\* Only wished times are pending, or in hand.
OnlyWishedPending ==
    /\ \A w \in Watches : row[w].pending \in Acceptable \cup {NoTime}
    /\ Busy => Wished(act.watch, act.time)
    /\ Busy /\ act.job = 0 => act.time \in Acceptable

\* The loop acts on its own only on an open page.
ActsWhenOpen == Busy /\ act.job = 0 => page = "OPEN"

AlsoInductive ==
    /\ BookingsAreAccounted
    /\ CausesAreCounted
    /\ NothingIsUnasked
    /\ FreshIsUnbooked
    /\ CommandsInOrder
    /\ ServesOldest
    /\ OnlyWishedTimes
    /\ OnlyWishedPending
    /\ ActsWhenOpen
=============================================================================
