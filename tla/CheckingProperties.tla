------------------------- MODULE CheckingProperties -------------------------
(***************************************************************************)
(* What a check should ensure of the candidate it comes to.                *)
(***************************************************************************)
EXTENDS Checking

\* Every variable holds what the page, the watch and the snapshot can hold.
TypeOK ==
    /\ layout \in {"CHIPS", "GENERIC"}
    /\ page \in Pages
    /\ wish \in Wishes
    /\ open \subseteq 0..23
    /\ step \in {"START", "TEXT", "MARK", "READ", "DONE", "ERROR", "BLOCKED"}
    /\ i \in 1..(Len(page) + 1)
    /\ text \in Texts
    /\ slots \subseteq [time : Texts, available : BOOLEAN]
    /\ state \in {"NONE", "BEFORE_OPEN", "SOLD_OUT", "OPEN", "UNKNOWN"}
    /\ pick \in Texts
    /\ flips \in 0..MaxFlips /\ failures \in 0..MaxFailures
    /\ ever \subseteq 0..23 /\ always \subseteq 0..23

\* Elements that a page without chips may hold and that are read wrongly: the
\* closed mark is missed, or the hour is one of twelve without its label.
Misleading(e) == layout = "GENERIC" /\ (~Counts(e) \/ Number(e) # e.hour)

\* A candidate is a time that could be booked at some moment of the check,
\* whatever opens and closes meanwhile, unless the page has no chips and holds an
\* element that misleads or whose mark could not be read: nobody is told of, and
\* nothing is tried at, a time that was closed all along.
CandidateWasOpen ==
    pick # None =>
        \/ pick.n \in ever
        \/ \E k \in DOMAIN page : Misleading(page[k])
        \/ layout = "GENERIC" /\ failures > 0

Preferred(h) == \E k \in DOMAIN wish.priority : wish.priority[k].n = h
RankOf(h) == CHOOSE k \in DOMAIN wish.priority :
    wish.priority[k].n = h /\ \A j \in 1..(k - 1) : wish.priority[j].n # h
Suits(h) == h \in wish.lo..wish.hi /\ (wish.priority = <<>> \/ Preferred(h))
AtLeastAsGood(g, h) == IF wish.priority = <<>> THEN g <= h ELSE RankOf(g) <= RankOf(h)

\* The page was read as a whole and as it is meant.
ReadWell ==
    /\ i > Len(page) /\ state \notin {"NONE", "BEFORE_OPEN"}
    /\ failures = 0
    /\ \A k \in DOMAIN page : ~Misleading(page[k])

\* The preferences are written as the page writes its times.
SpelledAlike ==
    \A k \in DOMAIN wish.priority, m \in DOMAIN page :
        wish.priority[k].n = page[m].hour => wish.priority[k] = TextOf(page[m])

\* A suitable time that is open throughout the check is taken, or one at least as
\* good is, unless the page could not be read as a whole, has a text like 24:00, or
\* writes a preferred time in another way than the user (pick_best_candidate).
BestIsTaken ==
    step = "DONE" /\ ReadWell /\ SpelledAlike =>
        \A h \in always : Suits(h) =>
            pick # None /\ Suits(pick.n) /\ AtLeastAsGood(pick.n, h)

\* A check that was not disturbed ends in an error only if the day cannot be found
\* or the page shows a text like 24:00 as available.
ErrorHasCause ==
    step = "ERROR" /\ failures = 0 =>
        \/ layout = "CHIPS" /\ i = 1 /\ slots = {}
        \/ \E s \in slots : s.available /\ s.time.n = 24
=============================================================================
