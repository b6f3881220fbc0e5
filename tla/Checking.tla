------------------------------ MODULE Checking ------------------------------
(***************************************************************************)
(* One check of a watch: the page is read one element at a time while      *)
(* times open and close, and a candidate is chosen among what was read.    *)
(*                                                                         *)
(* Two layouts are read: the booking widget with its date chips and modal, *)
(* and any other page, by its texts.  Minutes are left out: a time is an   *)
(* hour, its text is the number and whether it is written with two digits. *)
(***************************************************************************)
EXTENDS Naturals, Sequences, FiniteSets

CONSTANTS
    Pages,          \* bound: pages, each a sequence of elements
    Wishes,         \* bound: what the watch asks for
    Limit,          \* how many elements of a page without chips are read
    MaxFlips,       \* bound: times opening and closing during the check
    MaxFailures     \* bound: elements that cannot be read

Hours == 0..24      \* 24:00 is no time of the day
Styles == {"12H", "PLAIN", "PADDED"}
Marks == {"BARE", "VALUE", "CLASS", "ARIA", "NONE"}

\* An element shows an hour in some style; a closed one is marked by the bare
\* attribute, one with a value, a class, or aria-disabled; NONE is an element
\* around another that carries the mark
Elements == [hour : Hours, style : Styles, mark : Marks]
Texts == [n : Hours, padded : BOOLEAN]

ASSUME CheckingAssumption ==
    /\ Pages \subseteq Seq(Elements)
    /\ Wishes \subseteq [lo : Hours, hi : Hours, priority : Seq(Texts)]
    /\ {Limit, MaxFlips, MaxFailures} \subseteq Nat

VARIABLES
    layout, page, wish,     \* given
    open,       \* the hours that can be booked
    step, i, text,          \* where the check is
    slots,      \* the slots read so far
    state,      \* page_state of the snapshot
    pick,       \* the candidate
    flips, failures,        \* counters of the bounds
    \* ghosts
    ever, always            \* hours open at some moment, at every moment of the check

given == <<layout, page, wish>>
check == <<step, i, text, slots, state, pick>>
vars == <<layout, page, wish, open, step, i, text, slots, state, pick,
          flips, failures, ever, always>>

NoText == [n |-> 0, padded |-> FALSE]
None == [n |-> 24, padded |-> FALSE]    \* no candidate

Shown == {page[k].hour : k \in DOMAIN page}

Init ==
    /\ layout \in {"CHIPS", "GENERIC"}
    /\ page \in Pages
    /\ wish \in Wishes
    /\ open \in SUBSET (Shown \ {24})
    /\ step = "START" /\ i = 1 /\ text = NoText
    /\ slots = {}
    /\ state = "NONE" /\ pick = None
    /\ flips = 0 /\ failures = 0
    /\ ever = open /\ always = open

-----------------------------------------------------------------------------
(* How times are written, and read *)

Number(e) == IF e.style # "12H" THEN e.hour ELSE IF e.hour % 12 = 0 THEN 12 ELSE e.hour % 12
Afternoon(e) == e.style = "12H" /\ e.hour \in 12..23

\* Faulty variants (M_): midnight is forgotten
M_To24NoMidnight(n, period) == IF period = "PM" /\ n # 12 THEN n + 12 ELSE n

\* _period_time_to_24h: with the label of the group the button is in
To24(n, period) ==
    CASE period = "PM" -> IF n # 12 THEN n + 12 ELSE n
      [] period = "AM" -> IF n = 12 THEN 0 ELSE n
      [] OTHER -> n

Period(e) == IF e.style # "12H" THEN "" ELSE IF Afternoon(e) THEN "PM" ELSE "AM"

\* The widget's times are formatted; of any other page the text is taken as it is
TextOf(e) ==
    IF layout = "CHIPS"
    THEN [n |-> To24(Number(e), Period(e)), padded |-> TRUE]
    ELSE [n |-> Number(e), padded |-> e.style = "PADDED" \/ Number(e) > 9]

\* What shows that a slot is closed: the widget's buttons are asked whether they
\* are disabled; elsewhere an attribute with an empty value does not count
Counts(e) == layout = "CHIPS" \/ e.mark \notin {"BARE", "NONE"}
LooksOpen(e) == e.hour \in open \/ ~Counts(e)

-----------------------------------------------------------------------------
(* check_availability *)

Report(s) ==
    /\ state' = s
    /\ step' = "READ"
    /\ UNCHANGED <<i, text, slots, pick>>

Raise ==
    /\ step' = "ERROR"
    /\ UNCHANGED <<i, text, slots, state, pick>>

\* _check_via_date_chips: the wanted day is closed, or cannot be found;
\* _read_snapshot_generic: the page says that booking opens later; both: a captcha
Start ==
    /\ step = "START"
    /\ \/ layout = "CHIPS" /\ Report("SOLD_OUT")
       \/ layout = "CHIPS" /\ Raise
       \/ layout = "GENERIC" /\ Report("BEFORE_OPEN")
       \/ step' = "BLOCKED" /\ UNCHANGED <<i, text, slots, state, pick>>
       \/ step' = "TEXT" /\ UNCHANGED <<i, text, slots, state, pick>>
    /\ UNCHANGED <<given, open, flips, failures, ever, always>>

Last == IF layout = "GENERIC" /\ Limit < Len(page) THEN Limit ELSE Len(page)

Skip ==
    /\ i' = i + 1
    /\ UNCHANGED <<step, text, slots, state, pick>>

\* Of a page without chips only the first element with a text is looked at
ReadText ==
    /\ step = "TEXT" /\ i <= Last
    /\ LET t == TextOf(page[i]) IN
        IF layout = "GENERIC" /\ \E s \in slots : s.time = t
        THEN Skip
        ELSE /\ text' = t
             /\ step' = "MARK"
             /\ UNCHANGED <<i, slots, state, pick>>
    /\ UNCHANGED <<given, open, flips, failures, ever, always>>

TextFails ==
    /\ step = "TEXT" /\ i <= Last
    /\ failures < MaxFailures
    /\ failures' = failures + 1
    /\ Skip
    /\ UNCHANGED <<given, open, flips, ever, always>>

AddSlot(available) ==
    /\ slots' = slots \cup {[time |-> text, available |-> available]}
    /\ i' = i + 1
    /\ step' = "TEXT"
    /\ UNCHANGED <<text, state, pick>>

ReadMark ==
    /\ step = "MARK"
    /\ AddSlot(LooksOpen(page[i]))
    /\ UNCHANGED <<given, open, flips, failures, ever, always>>

\* A slot whose mark cannot be read passes for available, but not in the widget
MarkFails ==
    /\ step = "MARK"
    /\ failures < MaxFailures
    /\ failures' = failures + 1
    /\ IF layout = "CHIPS" THEN Raise ELSE AddSlot(TRUE)
    /\ UNCHANGED <<given, open, flips, ever, always>>

AvailableTimes == {s.time : s \in {s \in slots : s.available}}

Verdicts ==
    CASE AvailableTimes # {} -> {"OPEN"}
      [] AvailableTimes = {} /\ slots # {} -> {"SOLD_OUT"}
      [] slots = {} -> IF layout = "GENERIC" THEN {"SOLD_OUT", "UNKNOWN"} ELSE {"UNKNOWN"}

AllRead ==
    /\ step = "TEXT" /\ i > Last
    /\ \E s \in Verdicts : Report(s)
    /\ UNCHANGED <<given, open, flips, failures, ever, always>>

-----------------------------------------------------------------------------
(* pick_best_candidate *)

InRange(t) == wish.lo <= t.n /\ t.n <= wish.hi
InRangeTimes == {t \in AvailableTimes : InRange(t)}

\* the preferences taken as a set
M_FirstPreferredAny == {wish.priority[k] : k \in DOMAIN wish.priority} \cap InRangeTimes

\* The first preference that is among the times, compared as text
FirstPreferred == {wish.priority[k] : k \in {k \in DOMAIN wish.priority :
    /\ wish.priority[k] \in InRangeTimes
    /\ \A j \in 1..(k - 1) : wish.priority[j] \notin InRangeTimes}}

Earliest == {t \in InRangeTimes : \A u \in InRangeTimes : t.n <= u.n}

Best == IF wish.priority # <<>> THEN FirstPreferred ELSE Earliest

\* min() of no times raises
M_ChooseMinOfNone ==
    /\ step = "READ"
    /\ IF state # "BEFORE_OPEN" /\ Best = {}
       THEN Raise
       ELSE /\ IF state = "BEFORE_OPEN" THEN pick' = None ELSE pick' \in Best
            /\ step' = "DONE"
            /\ UNCHANGED <<i, text, slots, state>>
    /\ UNCHANGED <<given, open, flips, failures, ever, always>>

\* process_one_watch: the choice; parse_hhmm raises on what is no time of the day
Choose ==
    /\ step = "READ"
    /\ IF state # "BEFORE_OPEN" /\ \E t \in AvailableTimes : t.n = 24
       THEN Raise
       ELSE /\ IF state = "BEFORE_OPEN" \/ Best = {} THEN pick' = None ELSE pick' \in Best
            /\ step' = "DONE"
            /\ UNCHANGED <<i, text, slots, state>>
    /\ UNCHANGED <<given, open, flips, failures, ever, always>>

-----------------------------------------------------------------------------
\* The site: a time opens or closes while the check runs
Flip(h) ==
    /\ step \notin {"DONE", "ERROR", "BLOCKED"}
    /\ flips < MaxFlips
    /\ flips' = flips + 1
    /\ open' = IF h \in open THEN open \ {h} ELSE open \cup {h}
    /\ ever' = ever \cup open'
    /\ always' = always \cap open'
    /\ UNCHANGED <<given, check, failures>>

Check ==
    \/ Start \/ ReadText \/ TextFails \/ ReadMark \/ MarkFails \/ AllRead \/ Choose

Next == Check \/ \E h \in Shown \ {24} : Flip(h)

Spec == Init /\ [][Next]_vars
=============================================================================
