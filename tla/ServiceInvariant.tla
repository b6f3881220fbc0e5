-------------------------- MODULE ServiceInvariant --------------------------
(***************************************************************************)
(* The inductive strengthening from which ServiceProofs derives the safety *)
(* properties of ServiceProperties.                                        *)
(***************************************************************************)
EXTENDS ServiceProperties

Browsing == {"WORK", "RUN", "CHECK"}
WithJobs == {"MARK", "JOBLOCK", "WORK", "RUN"}

\* The lock file names whoever runs Chromium on the profile, and nobody else.
LockIsUsed ==
    /\ \A w \in Watchers : lock = w <=> pc[w] \in Browsing
    /\ lock = LOGIN <=> login \in {"OPEN", "OPEN2"}

\* Who else may have held the lock while a process waited for it.
OthersAreKnown ==
    /\ login # "OUT" => logins > 0
    /\ alone => \A w \in Watchers : Up(w) => w = Scheduled

\* Jobs are numbered as they come, and an outcome in the table has been produced.
RowsAreReal ==
    \A c \in Commands :
        /\ c > sent => status[c] = "NONE" /\ client[c] = "NOBODY"
        /\ status[c] \in Outcomes => status[c] \in produced[c]

\* A process has jobs only between their claim and the end of the batch, one of
\* them in handle_job.
JobsInPlace ==
    \A w \in Watchers :
        /\ hands[w] # {} => pc[w] \in WithJobs
        /\ at[w] = IF pc[w] = "RUN" THEN latest[w] ELSE 0
        /\ pc[w] = "RUN" => latest[w] # 0

\* What a process has begun is behind it: everything up to there has been claimed,
\* and what it claimed last comes after, with no gap for a pending job.
ClaimsInOrder ==
    \A w \in Watchers :
        /\ latest[w] <= sent
        /\ \A c \in hands[w] : latest[w] < c /\ c <= sent
        /\ \A d \in Commands : d <= latest[w] => status[d] # "PENDING"
        /\ \A c \in hands[w], d \in Commands :
              d <= c /\ status[d] = "PENDING" => pc[w] = "MARK" /\ d \in hands[w]

Holds(w, c) == c = at[w] \/ (c \in hands[w] /\ pc[w] # "MARK")

\* A RUNNING job is held by somebody, or was let go of.
RunningIsHeld ==
    \A c \in Commands :
        status[c] = "RUNNING" => dropped[c] # "NO" \/ \E w \in Watchers : Holds(w, c)

\* A lock timeout let go of a job only with somebody else about.
TimeoutHasCause ==
    \A c \in Commands : dropped[c] = "TIMEOUT" => logins > 0 \/ ~alone

\* One process alone never has a finished job in hand.
HeldIsUnfinished ==
    alone => \A w \in Watchers :
                /\ \A c \in hands[w] : status[c] \in {"PENDING", "RUNNING"}
                /\ pc[w] = "RUN" => status[at[w]] = "RUNNING"

\* A process that has left the browser alone since its heartbeat is at most one
\* sleep away from the next.
QuietIsShort ==
    \A w \in Watchers : Up(w) /\ ~worked[w] =>
        \/ pc[w] \in {"SELECT", "MARK", "DUE"} /\ beat = 0
        \/ pc[w] = "TOP" /\ beat + left[w] <= 1

IInv ==
    /\ TypeOK
    /\ LockIsUsed
    /\ OthersAreKnown
    /\ RowsAreReal
    /\ JobsInPlace
    /\ ClaimsInOrder
    /\ RunningIsHeld
    /\ TimeoutHasCause
    /\ HeldIsUnfinished
    /\ AnswerStands
    /\ QuietIsShort
=============================================================================
