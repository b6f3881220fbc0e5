--------------------------- MODULE CheckingProofs ---------------------------
(***************************************************************************)
(* Proofs about Checking for every value of its constants, and the         *)
(* inductive invariant they rest on.                                       *)
(***************************************************************************)
EXTENDS CheckingProperties, WellFoundedInduction, TLAPS

\* Nothing has been read at the start; a mark is read of the element whose text
\* was read last.
PlaceInPage ==
    /\ step = "START" => i = 1 /\ slots = {}
    /\ step = "MARK" => i \in DOMAIN page /\ text = TextOf(page[i])

\* What excuses a slot that was never open.
Excused ==
    \/ \E k \in DOMAIN page : Misleading(page[k])
    \/ layout = "GENERIC" /\ failures > 0

\* Every slot reported as available was open when it was looked at.
SlotsWereOpen ==
    /\ open \subseteq ever
    /\ \A s \in slots : s.available => s.time.n \in ever \/ Excused

NothingMissed == failures = 0 /\ \A k \in DOMAIN page : ~Misleading(page[k])

\* What has been open throughout is on the page.
OpenIsShown == always \subseteq open /\ open \subseteq Shown

\* Undisturbed, every element passed that was open throughout is listed as
\* available, and nothing is listed but the elements passed.
PassedAreListed ==
    NothingMissed =>
        /\ \A s \in slots : \E m \in 1..(i - 1) : s.time = TextOf(page[m])
        /\ \A k \in 1..(i - 1) : page[k].hour \in always =>
              [time |-> TextOf(page[k]), available |-> TRUE] \in slots

IInv ==
    /\ TypeOK
    /\ PlaceInPage
    /\ SlotsWereOpen
    /\ OpenIsShown
    /\ PassedAreListed
    /\ CandidateWasOpen
    /\ BestIsTaken
    /\ ErrorHasCause

-----------------------------------------------------------------------------
(* Texts. *)

LEMMA ConstantTypes ==
    /\ \A p \in Pages : p \in Seq(Elements)
    /\ \A w \in Wishes : w \in [lo : Hours, hi : Hours, priority : Seq(Texts)]
    /\ Limit \in Nat /\ MaxFlips \in Nat /\ MaxFailures \in Nat
  BY CheckingAssumption

LEMMA PageTypes ==
    ASSUME TypeOK
    PROVE  /\ Len(page) \in Nat /\ DOMAIN page = 1..Len(page)
           /\ \A k \in DOMAIN page : page[k] \in Elements
           /\ Last \in Nat /\ Last <= Len(page)
  <1>1. page \in Seq(Elements)
    BY ConstantTypes DEF TypeOK
  <1> QED
    BY <1>1, ConstantTypes DEF Last

LEMMA NumberType ==
    ASSUME NEW e \in Elements
    PROVE  /\ Number(e) \in Hours
           /\ e.style = "12H" => Number(e) \in 1..12
  <1>1. e.hour \in 0..24 /\ e.hour % 12 \in 0..11
    BY DEF Elements, Hours
  <1> QED
    BY <1>1 DEF Number, Hours

LEMMA TextType ==
    ASSUME NEW e \in Elements
    PROVE  TextOf(e) \in Texts
  <1>1. To24(Number(e), Period(e)) \in Hours
    BY NumberType DEF To24, Period, Hours
  <1> QED
    BY <1>1, NumberType DEF TextOf, Texts

\* The widget's twelve-hour texts are read back as the hour they show.
LEMMA ReadsBack ==
    ASSUME NEW e \in Elements, e.hour \in 0..23
    PROVE  To24(Number(e), Period(e)) = e.hour
  <1>1. CASE e.style # "12H"
    BY <1>1 DEF Number, Period, To24
  <1>2. CASE e.style = "12H" /\ e.hour \in 0..11
    <2>1. e.hour % 12 = e.hour
      BY <1>2
    <2> QED
      BY <1>2, <2>1 DEF Number, Period, Afternoon, To24
  <1>3. CASE e.style = "12H" /\ e.hour \in 12..23
    <2>1. e.hour % 12 = e.hour - 12
      BY <1>3
    <2> QED
      BY <1>3, <2>1 DEF Number, Period, Afternoon, To24
  <1> QED
    BY <1>1, <1>2, <1>3

\* A slot that looks open is open, unless something misleads.
LEMMA LookIsRight ==
    ASSUME TypeOK, NEW k \in DOMAIN page, LooksOpen(page[k])
    PROVE  TextOf(page[k]).n \in open \/ \E m \in DOMAIN page : Misleading(page[m])
  <1>1. CASE Misleading(page[k])
    BY <1>1
  <1>2. CASE ~Misleading(page[k])
    <2>1. page[k].hour \in open /\ page[k].hour \in 0..23 /\ page[k] \in Elements
      BY <1>2, PageTypes DEF LooksOpen, Misleading, Counts, TypeOK
    <2>2. TextOf(page[k]).n = page[k].hour
      BY <1>2, <2>1, ReadsBack DEF TextOf, Misleading, TypeOK
    <2> QED
      BY <2>1, <2>2
  <1> QED
    BY <1>1, <1>2

-----------------------------------------------------------------------------
(* The choice. *)

LEMMA BestIsAvailable == \A t \in Best : t \in AvailableTimes
  BY DEF Best, FirstPreferred, Earliest, InRangeTimes

LEMMA AvailableTypes ==
    ASSUME TypeOK
    PROVE  AvailableTimes \subseteq Texts
  BY DEF AvailableTimes, TypeOK

\* Sets of numbers have least elements.
LEMMA LeastElement ==
    ASSUME NEW T, T \subseteq Nat, T # {}
    PROVE  \E m \in T : \A n \in T : m <= n
  <1> DEFINE Less == OpToRel(<, Nat)
  <1>1. IsWellFoundedOn(Less, Nat)
    BY NatLessThanWellFounded
  <1>2. \A m, n \in Nat : <<n, m>> \in Less <=> n < m
    BY DEF OpToRel
  <1> HIDE DEF Less
  <1>3. PICK m \in T : \A n \in T : ~(<<n, m>> \in Less)
    BY <1>1, WFMin
  <1>4. \A n \in T : ~(n < m)
    <2>1. \A n \in T : n \in Nat /\ m \in Nat
      OBVIOUS
    <2> QED
      BY <1>2, <1>3, <2>1, Zenon
  <1> QED
    BY <1>4

\* Among suitable times one is earliest.
LEMMA EarliestExists ==
    ASSUME TypeOK, InRangeTimes # {}
    PROVE  Earliest # {}
  <1> DEFINE T == {t.n : t \in InRangeTimes}
  <1>1. InRangeTimes \subseteq Texts
    BY AvailableTypes DEF InRangeTimes
  <1>2. T \subseteq Nat /\ T # {}
    BY <1>1 DEF Texts, Hours
  <1>3. PICK m \in T : \A n \in T : m <= n
    BY <1>2, LeastElement
  <1> QED
    BY <1>3 DEF Earliest

\* The preferences are texts.
LEMMA PriorityTypes ==
    ASSUME TypeOK
    PROVE  /\ DOMAIN wish.priority \subseteq Nat \ {0}
           /\ \A k \in DOMAIN wish.priority : \A j \in 1..k : j \in DOMAIN wish.priority
           /\ \A k \in DOMAIN wish.priority : wish.priority[k].n \in Nat
           /\ wish.lo \in Nat /\ wish.hi \in Nat
  <1>1. wish.priority \in Seq(Texts) /\ wish.lo \in Hours /\ wish.hi \in Hours
    BY ConstantTypes DEF TypeOK
  <1>2. /\ Len(wish.priority) \in Nat /\ DOMAIN wish.priority = 1..Len(wish.priority)
        /\ \A k \in DOMAIN wish.priority : wish.priority[k] \in Texts
    BY <1>1
  <1>3. DOMAIN wish.priority \subseteq Nat \ {0}
    BY <1>2
  <1>4. \A k \in DOMAIN wish.priority : \A j \in 1..k : j \in DOMAIN wish.priority
    BY <1>2
  <1>5. ASSUME NEW k \in DOMAIN wish.priority PROVE wish.priority[k].n \in Nat
    <2>1. \A t \in Texts : t.n \in Nat
      BY DEF Texts, Hours
    <2> QED
      BY <1>2, <2>1
  <1>6. wish.lo \in Nat /\ wish.hi \in Nat
    <2>1. \A n \in Hours : n \in Nat
      BY DEF Hours
    <2> QED
      BY <1>1, <2>1
  <1> QED
    BY <1>3, <1>4, <1>5, <1>6

\* If a preference is among the times, one no later in the list is chosen.
LEMMA PreferredExists ==
    ASSUME TypeOK, NEW r \in DOMAIN wish.priority, wish.priority[r] \in InRangeTimes
    PROVE  /\ FirstPreferred # {}
           /\ \A t \in FirstPreferred : \E k \in DOMAIN wish.priority :
                  k <= r /\ wish.priority[k] = t
  <1> DEFINE T == {k \in DOMAIN wish.priority : wish.priority[k] \in InRangeTimes}
  <1>1. PICK m \in T : \A n \in T : m <= n
    BY PriorityTypes, LeastElement
  <1>2. FirstPreferred # {}
    <2>1. \A j \in 1..(m - 1) : wish.priority[j] \notin InRangeTimes
      BY <1>1, PriorityTypes
    <2> QED
      BY <1>1, <2>1 DEF FirstPreferred
  <1>3. ASSUME NEW t \in FirstPreferred
        PROVE  \E k \in DOMAIN wish.priority : k <= r /\ wish.priority[k] = t
    <2>1. PICK k \in DOMAIN wish.priority :
              /\ wish.priority[k] = t
              /\ \A j \in 1..(k - 1) : wish.priority[j] \notin InRangeTimes
      BY DEF FirstPreferred
    <2>2. k <= r
      BY <2>1, PriorityTypes
    <2> QED
      BY <2>1, <2>2
  <1> QED
    BY <1>2, <1>3

\* The rank of a preferred hour is its first place in the list.
LEMMA RankIsFirst ==
    ASSUME TypeOK, NEW k \in DOMAIN wish.priority
    PROVE  LET h == wish.priority[k].n IN
           /\ RankOf(h) \in DOMAIN wish.priority /\ wish.priority[RankOf(h)].n = h
           /\ RankOf(h) <= k
  <1> DEFINE h == wish.priority[k].n
             T == {j \in DOMAIN wish.priority : wish.priority[j].n = h}
  <1>1. PICK m \in T : \A n \in T : m <= n
    BY PriorityTypes, LeastElement
  <1>2. \A j \in 1..(m - 1) : wish.priority[j].n # h
    BY <1>1, PriorityTypes
  <1> HIDE DEF h
  <1>3. /\ RankOf(h) \in DOMAIN wish.priority /\ wish.priority[RankOf(h)].n = h
        /\ \A j \in 1..(RankOf(h) - 1) : wish.priority[j].n # h
    BY <1>1, <1>2 DEF RankOf
  <1>4. RankOf(h) <= k
    BY <1>3, PriorityTypes DEF h
  <1> QED
    BY <1>3, <1>4 DEF h

-----------------------------------------------------------------------------
(* The steps. *)

\* Every action keeps the types.
LEMMA TypeStep ==
    ASSUME TypeOK, PlaceInPage, Next
    PROVE  TypeOK'
  <1> USE DEF given, Report, Raise, Skip
  <1>1. CASE Start
    BY <1>1 DEF Start, TypeOK
  <1>2. CASE ReadText
    <2>1. TextOf(page[i]) \in Texts /\ i + 1 \in 1..(Len(page) + 1)
      BY <1>2, PageTypes, TextType DEF ReadText, TypeOK
    <2> QED
      BY <1>2, <2>1 DEF ReadText, TypeOK
  <1>3. CASE TextFails
    <2>1. i + 1 \in 1..(Len(page) + 1) /\ failures + 1 \in 0..MaxFailures
      BY <1>3, PageTypes, ConstantTypes DEF TextFails, TypeOK
    <2> QED
      BY <1>3, <2>1 DEF TextFails, TypeOK
  <1>4. CASE ReadMark
    <2>1. i + 1 \in 1..(Len(page) + 1) /\ LooksOpen(page[i]) \in BOOLEAN
      BY <1>4, PageTypes DEF ReadMark, PlaceInPage, LooksOpen, Counts, TypeOK
    <2>2. slots' \subseteq [time : Texts, available : BOOLEAN]
      BY <1>4, <2>1 DEF ReadMark, AddSlot, TypeOK
    <2> QED
      BY <1>4, <2>1, <2>2 DEF ReadMark, AddSlot, TypeOK
  <1>5. CASE MarkFails
    <2>1. i + 1 \in 1..(Len(page) + 1) /\ failures + 1 \in 0..MaxFailures
      BY <1>5, PageTypes, ConstantTypes DEF MarkFails, PlaceInPage, TypeOK
    <2>2. slots' = slots \/ slots' = slots \cup {[time |-> text, available |-> TRUE]}
      BY <1>5 DEF MarkFails, AddSlot
    <2>3. slots' \subseteq [time : Texts, available : BOOLEAN]
      <3>1. [time |-> text, available |-> TRUE] \in [time : Texts, available : BOOLEAN]
        BY DEF TypeOK
      <3> QED
        BY <2>2, <3>1 DEF TypeOK
    <2> QED
      BY <1>5, <2>1, <2>3 DEF MarkFails, AddSlot, TypeOK
  <1>6. CASE AllRead
    <2>1. \A s \in Verdicts : s \in {"SOLD_OUT", "OPEN", "UNKNOWN"}
      BY DEF Verdicts
    <2> QED
      BY <1>6, <2>1 DEF AllRead, TypeOK
  <1>7. CASE Choose
    <2>1. None \in Texts /\ \A t \in Best : t \in Texts
      BY BestIsAvailable, AvailableTypes DEF None, Texts, Hours
    <2> QED
      BY <1>7, <2>1 DEF Choose, TypeOK
  <1>8. ASSUME NEW h \in Shown \ {24}, Flip(h) PROVE TypeOK'
    <2>1. h \in 0..23
      BY PageTypes DEF Shown, Elements, Hours
    <2>2. flips + 1 \in 0..MaxFlips
      BY <1>8, ConstantTypes DEF Flip, TypeOK
    <2>3. open' \subseteq 0..23 /\ ever' \subseteq 0..23 /\ always' \subseteq 0..23
      BY <1>8, <2>1 DEF Flip, TypeOK
    <2> QED
      BY <1>8, <2>2, <2>3 DEF Flip, check, TypeOK
  <1> QED
    BY <1>1, <1>2, <1>3, <1>4, <1>5, <1>6, <1>7, <1>8 DEF Next, Check

\* Reading goes on from where it is.
LEMMA PlaceStep ==
    ASSUME TypeOK, PlaceInPage, Next
    PROVE  PlaceInPage'
  <1> USE DEF given, Report, Raise, Skip
  <1>1. CASE Start
    BY <1>1 DEF Start, PlaceInPage
  <1>2. CASE ReadText
    <2>1. i \in DOMAIN page
      BY <1>2, PageTypes DEF ReadText, TypeOK
    <2>2. step' = "MARK" => text' = TextOf(page[i]) /\ i' = i
      BY <1>2 DEF ReadText
    <2>3. step' # "START" /\ page' = page /\ layout' = layout
      BY <1>2 DEF ReadText
    <2> QED
      BY <2>1, <2>2, <2>3 DEF PlaceInPage, TextOf
  <1>3. CASE TextFails
    BY <1>3 DEF TextFails, PlaceInPage
  <1>4. CASE ReadMark
    BY <1>4 DEF ReadMark, AddSlot, PlaceInPage
  <1>5. CASE MarkFails
    BY <1>5 DEF MarkFails, AddSlot, PlaceInPage
  <1>6. CASE AllRead
    BY <1>6 DEF AllRead, PlaceInPage
  <1>7. CASE Choose
    BY <1>7 DEF Choose, PlaceInPage
  <1>8. ASSUME NEW h \in Shown \ {24}, Flip(h) PROVE PlaceInPage'
    BY <1>8 DEF Flip, check, PlaceInPage, TextOf
  <1> QED
    BY <1>1, <1>2, <1>3, <1>4, <1>5, <1>6, <1>7, <1>8 DEF Next, Check

\* An excuse stays one.
LEMMA ExcuseStays ==
    ASSUME TypeOK, Next
    PROVE  Excused => Excused'
  <1> USE DEF given, Report, Raise, Skip
  <1>1. page' = page /\ layout' = layout
    BY DEF Next, Check, Start, ReadText, TextFails, ReadMark, MarkFails, AddSlot, AllRead, Choose, Flip
  <1>2. failures' \in {failures, failures + 1} /\ failures \in Nat
    BY ConstantTypes DEF TypeOK, Next, Check, Start, ReadText, TextFails, ReadMark, MarkFails, AddSlot,
       AllRead, Choose, Flip
  <1>3. \A k \in DOMAIN page : Misleading(page[k]) => Misleading(page[k])'
    BY <1>1 DEF Misleading, Counts, Number
  <1>4. failures > 0 => failures' > 0
    BY <1>2
  <1> QED
    BY <1>1, <1>3, <1>4 DEF Excused

\* A slot is added as open only if it is, or something excuses it.
LEMMA SlotsStep ==
    ASSUME TypeOK, PlaceInPage, SlotsWereOpen, Next
    PROVE  SlotsWereOpen'
  <1> USE DEF given, Report, Raise, Skip
  <1>1. CASE ReadMark
    <2>1. i \in DOMAIN page /\ text = TextOf(page[i])
      BY <1>1 DEF ReadMark, PlaceInPage
    <2>2. LooksOpen(page[i]) => text.n \in ever \/ Excused
      BY <2>1, LookIsRight DEF SlotsWereOpen, Excused
    <2>3. /\ slots' = slots \cup {[time |-> text, available |-> LooksOpen(page[i])]}
          /\ UNCHANGED <<open, ever>>
      BY <1>1 DEF ReadMark, AddSlot
    <2> QED
      BY <2>2, <2>3, ExcuseStays DEF SlotsWereOpen
  <1>2. CASE MarkFails
    <2>1. layout # "CHIPS" => Excused'
      BY <1>2 DEF MarkFails, TypeOK, Excused
    <2>2. /\ UNCHANGED <<open, ever>>
          /\ \A s \in slots' : s \in slots \/ layout # "CHIPS"
      BY <1>2 DEF MarkFails, AddSlot
    <2> QED
      BY <2>1, <2>2, ExcuseStays DEF SlotsWereOpen
  <1>3. ASSUME NEW h \in Shown \ {24}, Flip(h) PROVE SlotsWereOpen'
    BY <1>3, ExcuseStays DEF Flip, check, SlotsWereOpen
  <1>4. ASSUME Start \/ ReadText \/ TextFails \/ AllRead \/ Choose PROVE SlotsWereOpen'
    <2>1. UNCHANGED <<open, ever, slots>>
      BY <1>4 DEF Start, ReadText, TextFails, AllRead, Choose
    <2> QED
      BY <2>1, ExcuseStays DEF SlotsWereOpen
  <1> QED
    BY <1>1, <1>2, <1>3, <1>4 DEF Next, Check

\* The candidate is one of the slots reported as available.
LEMMA CandidateStep ==
    ASSUME TypeOK, SlotsWereOpen, CandidateWasOpen, Next
    PROVE  CandidateWasOpen'
  <1> USE DEF given, Report, Raise, Skip
  <1>1. CASE Choose
    <2>1. UNCHANGED ever /\ (pick' = pick \/ pick' = None \/ pick' \in Best)
      BY <1>1 DEF Choose
    <2>2. \A t \in Best : t.n \in ever \/ Excused
      BY BestIsAvailable DEF AvailableTimes, SlotsWereOpen
    <2> QED
      BY <2>1, <2>2, ExcuseStays DEF CandidateWasOpen, Excused
  <1>2. ASSUME NEW h \in Shown \ {24}, Flip(h) PROVE CandidateWasOpen'
    BY <1>2, ExcuseStays DEF Flip, check, CandidateWasOpen, Excused
  <1>3. ASSUME Start \/ ReadText \/ TextFails \/ ReadMark \/ MarkFails \/ AllRead
        PROVE  CandidateWasOpen'
    <2>1. UNCHANGED <<ever, pick>>
      BY <1>3 DEF Start, ReadText, TextFails, ReadMark, MarkFails, AllRead, AddSlot
    <2> QED
      BY <2>1, ExcuseStays DEF CandidateWasOpen, Excused
  <1> QED
    BY <1>1, <1>2, <1>3 DEF Next, Check

\* What is open throughout is shown, whatever opens and closes.
LEMMA ShownStep ==
    ASSUME TypeOK, OpenIsShown, Next
    PROVE  OpenIsShown'
  <1>1. ASSUME NEW h \in Shown \ {24}, Flip(h) PROVE OpenIsShown'
    BY <1>1 DEF Flip, given, OpenIsShown, Shown
  <1>2. CASE Check
    BY <1>2 DEF Check, Start, ReadText, TextFails, ReadMark, MarkFails, AddSlot, AllRead, Choose, given,
       OpenIsShown, Shown
  <1> QED
    BY <1>1, <1>2 DEF Next

\* Reading on, nothing that is open is left out.
LEMMA ListedStep ==
    ASSUME TypeOK, PlaceInPage, OpenIsShown, PassedAreListed, Next
    PROVE  PassedAreListed'
  <1> USE DEF given, Report, Raise, Skip
  <1> SUFFICES ASSUME NothingMissed'
               PROVE  /\ \A s \in slots' : \E m \in 1..(i' - 1) : s.time = TextOf(page[m])
                      /\ \A k \in 1..(i' - 1) : page[k].hour \in always' =>
                            [time |-> TextOf(page[k]), available |-> TRUE] \in slots'
    <2>1. page' = page /\ layout' = layout
      BY DEF Next, Check, Start, ReadText, TextFails, ReadMark, MarkFails, AddSlot, AllRead, Choose, Flip
    <2> QED
      BY <2>1 DEF PassedAreListed, TextOf
  <1>1. NothingMissed /\ failures' = 0
    <2>1. page' = page /\ layout' = layout /\ failures' \in {failures, failures + 1}
      BY DEF Next, Check, Start, ReadText, TextFails, ReadMark, MarkFails, AddSlot, AllRead, Choose, Flip
    <2>2. failures \in Nat
      BY ConstantTypes DEF TypeOK
    <2> QED
      BY <2>1, <2>2 DEF NothingMissed, Misleading, Counts, Number
  <1>2. /\ \A s \in slots : \E m \in 1..(i - 1) : s.time = TextOf(page[m])
        /\ \A k \in 1..(i - 1) : page[k].hour \in always =>
              [time |-> TextOf(page[k]), available |-> TRUE] \in slots
    BY <1>1 DEF PassedAreListed
  <1>3. i \in Nat /\ i > 0
    BY PageTypes DEF TypeOK
  <1>4. CASE ReadText
    <2>1. CASE layout = "GENERIC" /\ \E s \in slots : s.time = TextOf(page[i])
      <3>1. PICK m \in 1..(i - 1) : TextOf(page[m]) = TextOf(page[i])
        BY <1>2, <2>1
      <3>2. m \in DOMAIN page /\ i \in DOMAIN page
        BY <1>3, <1>4, <3>1, PageTypes DEF ReadText
      <3>3. page[m].hour = page[i].hour
        BY <1>1, <2>1, <3>1, <3>2 DEF NothingMissed, Misleading, TextOf
      <3>4. i' = i + 1 /\ UNCHANGED <<slots, always>>
        BY <1>4, <2>1 DEF ReadText
      <3> QED
        BY <1>2, <1>3, <3>1, <3>3, <3>4
    <2>2. CASE ~(layout = "GENERIC" /\ \E s \in slots : s.time = TextOf(page[i]))
      BY <1>2, <1>4, <2>2 DEF ReadText
    <2> QED
      BY <2>1, <2>2
  <1>5. CASE ReadMark
    <2>1. i \in DOMAIN page /\ text = TextOf(page[i])
      BY <1>5 DEF ReadMark, PlaceInPage
    <2>2. page[i].hour \in always => LooksOpen(page[i])
      BY DEF OpenIsShown, LooksOpen
    <2>3. /\ slots' = slots \cup {[time |-> text, available |-> LooksOpen(page[i])]}
          /\ i' = i + 1 /\ UNCHANGED always
      BY <1>5 DEF ReadMark, AddSlot
    <2>4. \A s \in slots' : \E m \in 1..i : s.time = TextOf(page[m])
      BY <1>2, <1>3, <2>1, <2>3
    <2>5. \A k \in 1..i : k = i \/ k \in 1..(i - 1)
      BY <1>3
    <2>6. \A k \in 1..i : page[k].hour \in always =>
              [time |-> TextOf(page[k]), available |-> TRUE] \in slots'
      BY <1>2, <2>1, <2>2, <2>3, <2>5 DEF LooksOpen
    <2> QED
      BY <1>3, <2>3, <2>4, <2>6
  <1>6. CASE MarkFails \/ TextFails
    BY <1>1, <1>6 DEF MarkFails, TextFails, NothingMissed
  <1>7. CASE Start \/ AllRead \/ Choose
    BY <1>2, <1>7 DEF Start, AllRead, Choose
  <1>8. ASSUME NEW h \in Shown \ {24}, Flip(h)
        PROVE  /\ \A s \in slots' : \E m \in 1..(i' - 1) : s.time = TextOf(page[m])
               /\ \A k \in 1..(i' - 1) : page[k].hour \in always' =>
                     [time |-> TextOf(page[k]), available |-> TRUE] \in slots'
    BY <1>2, <1>8 DEF Flip, check
  <1> QED
    BY <1>4, <1>5, <1>6, <1>7, <1>8 DEF Next, Check

\* Of a page read as it is meant, a time open throughout is among the times to
\* choose from.
LEMMA OpenIsAvailable ==
    ASSUME TypeOK, OpenIsShown, PassedAreListed, ReadWell, NEW h \in always
    PROVE  \E m \in DOMAIN page :
              page[m].hour = h /\ TextOf(page[m]).n = h /\ TextOf(page[m]) \in AvailableTimes
  <1>1. PICK m \in DOMAIN page : page[m].hour = h
    BY DEF OpenIsShown, Shown
  <1>2. m \in 1..(i - 1) /\ NothingMissed
    BY PageTypes DEF ReadWell, NothingMissed, TypeOK
  <1>3. TextOf(page[m]) \in AvailableTimes
    BY <1>1, <1>2 DEF PassedAreListed, AvailableTimes
  <1>4. TextOf(page[m]).n = h
    <2>1. h \in 0..23 /\ page[m] \in Elements
      BY PageTypes DEF TypeOK
    <2> QED
      BY <1>1, <1>2, <2>1, ReadsBack DEF NothingMissed, Misleading, TextOf, TypeOK
  <1> QED
    BY <1>1, <1>3, <1>4

\* The choice is at least as good as any time open throughout.
LEMMA BestIsBest ==
    ASSUME TypeOK, OpenIsShown, PassedAreListed, ReadWell, SpelledAlike, NEW h \in always, Suits(h)
    PROVE  Best # {} /\ \A t \in Best : Suits(t.n) /\ AtLeastAsGood(t.n, h)
  <1>1. PICK m \in DOMAIN page :
            page[m].hour = h /\ TextOf(page[m]).n = h /\ TextOf(page[m]) \in AvailableTimes
    BY OpenIsAvailable
  <1>2. TextOf(page[m]) \in InRangeTimes
    BY <1>1, PriorityTypes DEF InRangeTimes, InRange, Suits
  <1>3. \A t \in InRangeTimes : t.n \in wish.lo..wish.hi
    BY AvailableTypes, PriorityTypes DEF InRangeTimes, InRange, Texts, Hours
  <1>4. CASE wish.priority = <<>>
    <2>1. Best = Earliest /\ Earliest # {}
      BY <1>2, <1>4, EarliestExists DEF Best
    <2>2. \A t \in Earliest : t \in InRangeTimes /\ t.n <= h
      BY <1>1, <1>2 DEF Earliest
    <2> QED
      BY <1>3, <1>4, <2>1, <2>2 DEF Suits, AtLeastAsGood
  <1>5. CASE wish.priority # <<>>
    <2>1. PICK k \in DOMAIN wish.priority : wish.priority[k].n = h
      BY <1>5 DEF Suits, Preferred
    <2>2. /\ RankOf(h) \in DOMAIN wish.priority /\ wish.priority[RankOf(h)].n = h
      BY <2>1, RankIsFirst
    <2>3. wish.priority[RankOf(h)] \in InRangeTimes
      BY <1>1, <1>2, <2>2 DEF SpelledAlike
    <2>4. Best = FirstPreferred /\ FirstPreferred # {}
      BY <1>5, <2>2, <2>3, PreferredExists DEF Best
    <2>5. ASSUME NEW t \in FirstPreferred PROVE Suits(t.n) /\ AtLeastAsGood(t.n, h)
      <3>1. t \in InRangeTimes
        BY DEF FirstPreferred
      <3>2. PICK j \in DOMAIN wish.priority : j <= RankOf(h) /\ wish.priority[j] = t
        BY <2>2, <2>3, PreferredExists
      <3>3. RankOf(t.n) \in DOMAIN wish.priority /\ RankOf(t.n) <= j
        BY <3>2, RankIsFirst
      <3>4. RankOf(t.n) <= RankOf(h)
        BY <2>2, <3>2, <3>3, PriorityTypes
      <3> QED
        BY <1>3, <1>5, <3>1, <3>2, <3>4 DEF Suits, Preferred, AtLeastAsGood
    <2> QED
      BY <2>4, <2>5
  <1> QED
    BY <1>4, <1>5

\* Only the choice ends a check with a result.
LEMMA BestStep ==
    ASSUME TypeOK, OpenIsShown, PassedAreListed, BestIsTaken, Next
    PROVE  BestIsTaken'
  <1> USE DEF given, Report, Raise, Skip
  <1>1. CASE Choose
    <2> SUFFICES ASSUME step' = "DONE", ReadWell', SpelledAlike', NEW h \in always', Suits(h)'
                 PROVE  pick' # None /\ Suits(pick.n)' /\ AtLeastAsGood(pick.n, h)'
      BY DEF BestIsTaken
    <2>1. UNCHANGED <<layout, page, wish, i, failures, state, always>>
      BY <1>1 DEF Choose
    <2>2. ReadWell /\ SpelledAlike /\ h \in always /\ Suits(h)
      BY <2>1 DEF ReadWell, SpelledAlike, Suits, Preferred, Misleading, Counts, Number, TextOf,
         To24, Period, Afternoon
    <2>3. Best # {} /\ \A t \in Best : Suits(t.n) /\ AtLeastAsGood(t.n, h)
      BY <2>2, BestIsBest
    <2>4. pick' \in Best /\ pick' # None
      <3>1. pick' \in Best
        BY <1>1, <2>2, <2>3 DEF Choose, ReadWell
      <3>2. pick'.n # 24
        BY <1>1, <2>2, <3>1, BestIsAvailable DEF Choose, ReadWell
      <3> QED
        BY <3>1, <3>2 DEF None
    <2>5. \A g : RankOf(g)' = RankOf(g)
      BY <2>1 DEF RankOf
    <2>6. Suits(pick.n)' /\ AtLeastAsGood(pick.n, h)'
      BY <2>1, <2>3, <2>4, <2>5 DEF Suits, Preferred, AtLeastAsGood
    <2> QED
      BY <2>4, <2>6
  <1>2. ASSUME NEW h \in Shown \ {24}, Flip(h) PROVE BestIsTaken'
    BY <1>2 DEF Flip, check, BestIsTaken
  <1>3. ASSUME Start \/ ReadText \/ TextFails \/ ReadMark \/ MarkFails \/ AllRead
        PROVE  BestIsTaken'
    <2>1. step' # "DONE"
      BY <1>3 DEF Start, ReadText, TextFails, ReadMark, MarkFails, AllRead, AddSlot
    <2> QED
      BY <2>1 DEF BestIsTaken
  <1> QED
    BY <1>1, <1>2, <1>3 DEF Next, Check

\* An error is the first step's, a failure's or the choice's.
LEMMA ErrorStep ==
    ASSUME TypeOK, PlaceInPage, ErrorHasCause, Next
    PROVE  ErrorHasCause'
  <1> USE DEF given, Report, Raise, Skip
  <1>1. CASE Start
    BY <1>1 DEF Start, PlaceInPage, ErrorHasCause
  <1>2. CASE MarkFails
    BY <1>2 DEF MarkFails, AddSlot, TypeOK, ErrorHasCause
  <1>3. CASE Choose
    <2>1. step' = "ERROR" => \E s \in slots : s.available /\ s.time.n = 24
      BY <1>3 DEF Choose, AvailableTimes
    <2>2. slots' = slots
      BY <1>3 DEF Choose
    <2> QED
      BY <2>1, <2>2 DEF ErrorHasCause
  <1>4. ASSUME NEW h \in Shown \ {24}, Flip(h) PROVE ErrorHasCause'
    BY <1>4 DEF Flip, check, ErrorHasCause
  <1>5. ASSUME ReadText \/ TextFails \/ ReadMark \/ AllRead PROVE ErrorHasCause'
    <2>1. step' # "ERROR"
      BY <1>5 DEF ReadText, TextFails, ReadMark, AddSlot, AllRead
    <2> QED
      BY <2>1 DEF ErrorHasCause
  <1> QED
    BY <1>1, <1>2, <1>3, <1>4, <1>5 DEF Next, Check

-----------------------------------------------------------------------------
(* The invariant. *)

LEMMA InvInit == Init => IInv
  <1> SUFFICES ASSUME Init PROVE IInv
    OBVIOUS
  <1>1. page \in Seq(Elements) /\ Shown \ {24} \subseteq 0..23
    <2>1. page \in Seq(Elements)
      BY ConstantTypes DEF Init
    <2>2. \A k \in DOMAIN page : page[k] \in Elements
      BY <2>1
    <2> QED
      BY <2>1, <2>2 DEF Shown, Elements, Hours
  <1>2. /\ i \in 1..(Len(page) + 1) /\ flips \in 0..MaxFlips /\ failures \in 0..MaxFailures
        /\ text \in Texts /\ pick \in Texts
    BY <1>1, ConstantTypes DEF Init, NoText, None, Texts, Hours
  <1>3. TypeOK
    BY <1>1, <1>2 DEF Init, TypeOK
  <1> QED
    BY <1>1, <1>3 DEF Init, IInv, PlaceInPage, SlotsWereOpen, OpenIsShown, PassedAreListed, CandidateWasOpen,
       BestIsTaken, ErrorHasCause

LEMMA InvStep == IInv /\ [Next]_vars => IInv'
  <1>1. ASSUME IInv, Next PROVE IInv'
    BY <1>1, TypeStep, PlaceStep, SlotsStep, ShownStep, ListedStep, CandidateStep, BestStep, ErrorStep
       DEF IInv
  <1>2. ASSUME IInv, UNCHANGED vars PROVE IInv'
    <2>1. TypeOK' /\ PlaceInPage' /\ SlotsWereOpen' /\ CandidateWasOpen' /\ ErrorHasCause'
      BY <1>2 DEF IInv, vars, given, TypeOK, PlaceInPage, TextOf, SlotsWereOpen, Excused, Misleading,
         Counts, CandidateWasOpen, ErrorHasCause
    <2>2. OpenIsShown' /\ PassedAreListed'
      BY <1>2 DEF IInv, vars, given, OpenIsShown, Shown, PassedAreListed, NothingMissed, Misleading,
         Counts, TextOf
    <2>3. BestIsTaken'
      BY <1>2 DEF IInv, vars, given, BestIsTaken, ReadWell, Misleading, Counts, SpelledAlike, TextOf,
         Suits, Preferred, AtLeastAsGood, RankOf
    <2> QED
      BY <2>1, <2>2, <2>3 DEF IInv
  <1> QED
    BY <1>1, <1>2

\* The check reaches only states that satisfy the invariant.
THEOREM Invariance == Spec => []IInv
  BY InvInit, InvStep, PTL DEF Spec

\* The page, the watch and the snapshot keep their types (TypeOK).
THEOREM TypeCorrect == Spec => []TypeOK
  <1>1. IInv => TypeOK
    BY DEF IInv
  <1> QED
    BY <1>1, Invariance, PTL

\* For any page, wish and number of changes meanwhile: the candidate could be
\* booked at some moment of the check, or one of the two named causes misled it.
THEOREM CandidatesAreReal == Spec => []CandidateWasOpen
  <1>1. IInv => CandidateWasOpen
    BY DEF IInv
  <1> QED
    BY <1>1, Invariance, PTL

\* On any page that is read as a whole and as it is meant: a suitable time that is
\* open throughout, or one at least as good, is taken.
THEOREM BestIsChosen == Spec => []BestIsTaken
  <1>1. IInv => BestIsTaken
    BY DEF IInv
  <1> QED
    BY <1>1, Invariance, PTL

\* An undisturbed check ends in an error only for one of the two named causes.
THEOREM ErrorsAreExplained == Spec => []ErrorHasCause
  <1>1. IInv => ErrorHasCause
    BY DEF IInv
  <1> QED
    BY <1>1, Invariance, PTL
=============================================================================
