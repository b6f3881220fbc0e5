---------------------------- MODULE PollingProofs ----------------------------
(* Proofs about Polling for every value of its constants. *)
EXTENDS PollingInvariant, TLAPS

-----------------------------------------------------------------------------
(* Times, and the delays that are added to them. *)

LEMMA ConstantTypes ==
    /\ IntervalMin \in Nat /\ IntervalMax \in Nat /\ Window \in Nat
    /\ TightMin \in Nat /\ TightMax \in Nat /\ BackoffBase \in Nat /\ BackoffMax \in Nat
    /\ ZoneAhead \in Nat /\ Lag \in Nat /\ MaxErrors \in Nat /\ MaxUnsaved \in Nat /\ MaxNow \in Nat
    /\ TightMin <= TightMax /\ TightMax <= IntervalMax
    /\ TightMin <= IntervalMin /\ IntervalMin <= IntervalMax /\ MaxErrors > 0
    /\ \A t \in Starts \cup Ends \cup Openings : t \in Nat
  BY PollingAssumption

Stamps == [at : Int, how : Spellings]

LEMMA StampTypes ==
    ASSUME NEW s \in Stamps
    PROVE  SortsBy(s) \in Int /\ Parsed(s) \in Int /\ (s.at >= 0 => SortsBy(s) >= 0)
  BY ConstantTypes DEF Stamps, Spellings, Iso, SortsBy, Parsed

LEMMA UTCStamps ==
    ASSUME NEW t \in Int
    PROVE  UTCStamp(t) \in Stamps /\ SortsBy(UTCStamp(t)) = t
  BY DEF Stamps, Spellings, Iso, SortsBy, UTCStamp, Stamp

\* The named dates of a watch as numbers.
LEMMA GivenTypes ==
    ASSUME TypeOK
    PROVE  /\ start \in Stamps /\ end \in Stamps /\ next \in Stamps /\ now \in Nat
           /\ SortsBy(start) \in Nat /\ SortsBy(next) \in Int /\ Parsed(end) \in Int
  <1>1. start \in Stamps /\ start.at >= 0 /\ end \in Stamps /\ next \in Stamps /\ now \in Nat
    BY ConstantTypes DEF TypeOK, Stamps
  <1> QED
    BY <1>1, StampTypes

LEMMA BackoffType ==
    ASSUME NEW n \in Nat, n > 0
    PROVE  Backoff(n) \in Int /\ (6 * Backoff(n)) \div 5 \in Int
  <1>1. n - 1 \in Nat
    OBVIOUS
  <1>2. 2^(n - 1) \in Int
    BY <1>1
  <1>3. Backoff(n) \in Int
    BY <1>2, ConstantTypes DEF Backoff
  <1> QED
    BY <1>3

LEMMA NextErrorsType ==
    ASSUME TypeOK
    PROVE  NextErrors \in 1..MaxErrors
  BY ConstantTypes DEF TypeOK, NextErrors

\* What an error writes.
LEMMA ErrorStamp ==
    ASSUME TypeOK, NEW s \in AfterErrors(NextErrors)
    PROVE  /\ s \in Stamps /\ now <= SortsBy(s)
           /\ now + Backoff(NextErrors) <= SortsBy(s)
           /\ SortsBy(s) <= now + (6 * Backoff(NextErrors)) \div 5
  <1>1. PICK d \in ErrorDelays(NextErrors) : s = UTCStamp(now + d)
    BY DEF AfterErrors
  <1>2. Backoff(NextErrors) \in Int /\ (6 * Backoff(NextErrors)) \div 5 \in Int
    BY NextErrorsType, BackoffType, ConstantTypes
  <1>3. d \in Nat /\ Backoff(NextErrors) <= d /\ d <= (6 * Backoff(NextErrors)) \div 5
    BY <1>2 DEF ErrorDelays
  <1>4. now \in Nat /\ now + d \in Int
    BY <1>3, GivenTypes
  <1>5. s \in Stamps /\ SortsBy(s) = now + d
    BY <1>1, <1>4, UTCStamps
  <1> QED
    BY <1>2, <1>3, <1>4, <1>5

\* What a visit without an error writes.
LEMMA VisitStamp ==
    ASSUME TypeOK, NEW s \in AfterReading \cup AfterBeforeOpen
    PROVE  /\ s \in Stamps /\ now <= SortsBy(s)
           /\ now + TightMin <= SortsBy(s) /\ SortsBy(s) <= now + IntervalMax
  <1>1. PICK d \in Nat : s = UTCStamp(now + d) /\ TightMin <= d /\ d <= IntervalMax
    BY ConstantTypes DEF AfterReading, AfterBeforeOpen, BeforeOpenDelays
  <1>2. now \in Nat /\ now + d \in Int
    BY GivenTypes
  <1>3. s \in Stamps /\ SortsBy(s) = now + d
    BY <1>1, <1>2, UTCStamps
  <1> QED
    BY <1>1, <1>2, <1>3, ConstantTypes

LEMMA LookType ==
    ASSUME TypeOK, Look
    PROVE  first' \in 0..MaxNow \cup {Never} /\ last' \in 0..MaxNow \cup {Never} /\ prompted' \in BOOLEAN
  <1>1. now \in 0..MaxNow /\ first \in 0..MaxNow \cup {Never}
    BY DEF TypeOK
  <1> QED
    BY <1>1 DEF Look

LEMMA NoStampType == NoStamp \in Stamps
  BY DEF NoStamp, Stamp, Never, Stamps, Spellings, Iso

-----------------------------------------------------------------------------
(* The steps. *)

\* Every action keeps the types.
LEMMA TypeStep ==
    ASSUME TypeOK, Next
    PROVE  TypeOK'
  <1>1. CASE EndUnreadable
    <2>1. next' \in AfterErrors(NextErrors)
      BY <1>1 DEF EndUnreadable, Due, Save, NoVisit, given
    <2>2. /\ next' \in Stamps /\ now <= SortsBy(next')
          /\ now + Backoff(NextErrors) <= SortsBy(next')
          /\ SortsBy(next') <= now + (6 * Backoff(NextErrors)) \div 5
      BY <2>1, ErrorStamp
    <2> QED
      BY <1>1, <2>2, ConstantTypes, NextErrorsType DEF EndUnreadable, Due, Save, NoVisit, given,
         TypeOK, Stamps, Statuses, Active, Paused, Never
  <1>2. CASE Retire
    BY <1>2, ConstantTypes, NoStampType DEF Retire, Due, Save, NoVisit, given, TypeOK, Stamps,
       Statuses, Active, Paused, Never
  <1>3. CASE VisitBlocked
    BY <1>3, ConstantTypes, NoStampType DEF VisitBlocked, Looks, Due, Visit, Look, Save, given,
       TypeOK, Stamps, Statuses, Active, Paused, Never
  <1>4. CASE VisitFails
    <2>1. next' \in AfterErrors(NextErrors)
      BY <1>4 DEF VisitFails, Looks, Due, Visit, Look, Save, given
    <2>2. /\ next' \in Stamps /\ now <= SortsBy(next')
          /\ now + Backoff(NextErrors) <= SortsBy(next')
          /\ SortsBy(next') <= now + (6 * Backoff(NextErrors)) \div 5
      BY <2>1, ErrorStamp
    <2> QED
      BY <1>4, <2>2, LookType, ConstantTypes, NextErrorsType DEF VisitFails, Looks, Due, Visit,
         Save, given, TypeOK, Stamps, Statuses, Active, Paused
  <1>5. CASE VisitBeforeOpen
    <2>1. next' \in AfterReading \cup AfterBeforeOpen
      BY <1>5 DEF VisitBeforeOpen, Looks, Due, Visit, Look, Save, given
    <2>2. /\ next' \in Stamps /\ now <= SortsBy(next')
          /\ now + TightMin <= SortsBy(next') /\ SortsBy(next') <= now + IntervalMax
      BY <2>1, VisitStamp
    <2> QED
      BY <1>5, <2>2, LookType, ConstantTypes, NextErrorsType DEF VisitBeforeOpen, Looks, Due,
         Visit, Save, given, TypeOK, Stamps, Statuses, Active, Paused
  <1>6. CASE VisitGoesOn
    <2>1. next' \in AfterReading \cup AfterBeforeOpen
      BY <1>6 DEF VisitGoesOn, Looks, Due, Visit, Look, Save, given
    <2>2. /\ next' \in Stamps /\ now <= SortsBy(next')
          /\ now + TightMin <= SortsBy(next') /\ SortsBy(next') <= now + IntervalMax
      BY <2>1, VisitStamp
    <2> QED
      BY <1>6, <2>2, LookType, ConstantTypes, NextErrorsType DEF VisitGoesOn, Looks, Due, Visit,
         Save, given, TypeOK, Stamps, Statuses, Active, Paused
  <1>7. CASE VisitEnds
    BY <1>7, LookType, NoStampType, ConstantTypes DEF VisitEnds, Looks, Due, Visit, Save, given,
       TypeOK, Stamps, Statuses, Active, Paused
  <1>8. CASE VisitUnsaved
    BY <1>8, ConstantTypes, NoStampType DEF VisitUnsaved, Looks, Due, given, TypeOK, Stamps,
       Statuses, Active, Paused, Never
  <1>9. CASE CheckNow
    <2>1. next' \in AfterReading \cup AfterBeforeOpen
      BY <1>9 DEF CheckNow, Look, Save, given
    <2>2. /\ next' \in Stamps /\ now <= SortsBy(next')
          /\ now + TightMin <= SortsBy(next') /\ SortsBy(next') <= now + IntervalMax
      BY <2>1, VisitStamp
    <2> QED
      BY <1>9, <2>2, LookType, ConstantTypes, NextErrorsType DEF CheckNow, Save, given, TypeOK,
         Stamps, Statuses, Active, Paused
  <1>10. CASE LookAgain
    <2>1. next' = UTCStamp(now)
      BY <1>10 DEF LookAgain, Save, given
    <2>2. next' \in Stamps /\ SortsBy(next') = now
      BY <2>1, GivenTypes, UTCStamps
    <2> QED
      BY <1>10, <2>2, ConstantTypes, NextErrorsType DEF LookAgain, Save, given, TypeOK, Stamps,
         Statuses, Active, Paused, Never
  <1>11. CASE JobEnds
    BY <1>11, ConstantTypes, NoStampType DEF JobEnds, Save, given, TypeOK, Stamps, Statuses,
       Active, Paused, Never
  <1>12. CASE Tick
    BY <1>12, ConstantTypes, NoStampType DEF Tick, Due, given, TypeOK, Stamps, Statuses, Active,
       Paused, Never
  <1> QED
    BY <1>1, <1>2, <1>3, <1>4, <1>5, <1>6, <1>7, <1>8, <1>9, <1>10, <1>11, <1>12 DEF Next

\* The clock waits for the loop.
LEMMA InTimeStep ==
    ASSUME TypeOK, InTime, Next
    PROVE  InTime'
  <1>1. CASE EndUnreadable
    <2>1. next' \in AfterErrors(NextErrors)
      BY <1>1 DEF EndUnreadable, Due, Save, NoVisit, given
    <2>2. /\ next' \in Stamps /\ now <= SortsBy(next')
          /\ now + Backoff(NextErrors) <= SortsBy(next')
          /\ SortsBy(next') <= now + (6 * Backoff(NextErrors)) \div 5
      BY <2>1, ErrorStamp
    <2> QED
      BY <1>1, <2>2, ConstantTypes, GivenTypes, StampTypes DEF EndUnreadable, Due, Save, NoVisit,
         given, InTime
  <1>2. CASE Retire
    BY <1>2, ConstantTypes, GivenTypes DEF Retire, Due, Save, NoVisit, given, InTime, On,
       Active, Paused
  <1>3. CASE VisitBlocked
    BY <1>3, ConstantTypes, GivenTypes DEF VisitBlocked, Looks, Due, Visit, Look, Save, given,
       InTime, On, Active, Paused
  <1>4. CASE VisitFails
    <2>1. next' \in AfterErrors(NextErrors)
      BY <1>4 DEF VisitFails, Looks, Due, Visit, Look, Save, given
    <2>2. /\ next' \in Stamps /\ now <= SortsBy(next')
          /\ now + Backoff(NextErrors) <= SortsBy(next')
          /\ SortsBy(next') <= now + (6 * Backoff(NextErrors)) \div 5
      BY <2>1, ErrorStamp
    <2> QED
      BY <1>4, <2>2, ConstantTypes, GivenTypes, StampTypes DEF VisitFails, Looks, Due, Visit, Look,
         Save, given, InTime
  <1>5. CASE VisitBeforeOpen
    <2>1. next' \in AfterReading \cup AfterBeforeOpen
      BY <1>5 DEF VisitBeforeOpen, Looks, Due, Visit, Look, Save, given
    <2>2. /\ next' \in Stamps /\ now <= SortsBy(next')
          /\ now + TightMin <= SortsBy(next') /\ SortsBy(next') <= now + IntervalMax
      BY <2>1, VisitStamp
    <2> QED
      BY <1>5, <2>2, ConstantTypes, GivenTypes, StampTypes DEF VisitBeforeOpen, Looks, Due, Visit,
         Look, Save, given, InTime
  <1>6. CASE VisitGoesOn
    <2>1. next' \in AfterReading \cup AfterBeforeOpen
      BY <1>6 DEF VisitGoesOn, Looks, Due, Visit, Look, Save, given
    <2>2. /\ next' \in Stamps /\ now <= SortsBy(next')
          /\ now + TightMin <= SortsBy(next') /\ SortsBy(next') <= now + IntervalMax
      BY <2>1, VisitStamp
    <2> QED
      BY <1>6, <2>2, ConstantTypes, GivenTypes, StampTypes DEF VisitGoesOn, Looks, Due, Visit,
         Look, Save, given, InTime
  <1>7. CASE VisitEnds
    BY <1>7, ConstantTypes, GivenTypes DEF VisitEnds, Looks, Due, Visit, Look, Save, given,
       InTime, On, Active, Paused
  <1>8. CASE VisitUnsaved
    BY <1>8, ConstantTypes, GivenTypes DEF VisitUnsaved, Looks, Due, given, InTime, On, Active,
       Paused
  <1>9. CASE CheckNow
    <2>1. next' \in AfterReading \cup AfterBeforeOpen
      BY <1>9 DEF CheckNow, Look, Save, given
    <2>2. /\ next' \in Stamps /\ now <= SortsBy(next')
          /\ now + TightMin <= SortsBy(next') /\ SortsBy(next') <= now + IntervalMax
      BY <2>1, VisitStamp
    <2> QED
      BY <1>9, <2>2, ConstantTypes, GivenTypes, StampTypes DEF CheckNow, Look, Save, given, InTime
  <1>10. CASE LookAgain
    <2>1. next' = UTCStamp(now)
      BY <1>10 DEF LookAgain, Save, given
    <2>2. next' \in Stamps /\ SortsBy(next') = now
      BY <2>1, GivenTypes, UTCStamps
    <2> QED
      BY <1>10, <2>2, ConstantTypes, GivenTypes, StampTypes DEF LookAgain, Save, given, InTime
  <1>11. CASE JobEnds
    BY <1>11, ConstantTypes, GivenTypes DEF JobEnds, Save, given, InTime, On, Active, Paused
  <1>12. CASE Tick
    BY <1>12, ConstantTypes, GivenTypes DEF Tick, Due, given, InTime, On, Active, Paused
  <1> QED
    BY <1>1, <1>2, <1>3, <1>4, <1>5, <1>6, <1>7, <1>8, <1>9, <1>10, <1>11, <1>12 DEF Next

\* Visits happen now.
LEMMA PastStep ==
    ASSUME TypeOK, VisitsArePast, Next
    PROVE  VisitsArePast'
  <1>1. CASE EndUnreadable
    BY <1>1, ConstantTypes DEF EndUnreadable, Due, Save, NoVisit, given, VisitsArePast, Never,
       TypeOK
  <1>2. CASE Retire
    BY <1>2, ConstantTypes DEF Retire, Due, Save, NoVisit, given, VisitsArePast, Never, TypeOK
  <1>3. CASE VisitBlocked
    BY <1>3, ConstantTypes DEF VisitBlocked, Looks, Due, Visit, Look, Save, given,
       VisitsArePast, Never, TypeOK
  <1>4. CASE VisitFails
    BY <1>4, ConstantTypes DEF VisitFails, Looks, Due, Visit, Look, Save, given, VisitsArePast,
       Never, TypeOK
  <1>5. CASE VisitBeforeOpen
    BY <1>5, ConstantTypes DEF VisitBeforeOpen, Looks, Due, Visit, Look, Save, given,
       VisitsArePast, Never, TypeOK
  <1>6. CASE VisitGoesOn
    BY <1>6, ConstantTypes DEF VisitGoesOn, Looks, Due, Visit, Look, Save, given, VisitsArePast,
       Never, TypeOK
  <1>7. CASE VisitEnds
    BY <1>7, ConstantTypes DEF VisitEnds, Looks, Due, Visit, Look, Save, given, VisitsArePast,
       Never, TypeOK
  <1>8. CASE VisitUnsaved
    BY <1>8, ConstantTypes DEF VisitUnsaved, Looks, Due, given, VisitsArePast, Never, TypeOK
  <1>9. CASE CheckNow
    BY <1>9, ConstantTypes DEF CheckNow, Look, Save, given, VisitsArePast, Never, TypeOK
  <1>10. CASE LookAgain
    BY <1>10, ConstantTypes DEF LookAgain, Save, given, VisitsArePast, Never, TypeOK
  <1>11. CASE JobEnds
    BY <1>11, ConstantTypes DEF JobEnds, Save, given, VisitsArePast, Never, TypeOK
  <1>12. CASE Tick
    BY <1>12, ConstantTypes DEF Tick, Due, given, VisitsArePast, Never, TypeOK
  <1> QED
    BY <1>1, <1>2, <1>3, <1>4, <1>5, <1>6, <1>7, <1>8, <1>9, <1>10, <1>11, <1>12 DEF Next

\* Whatever is written after a visit lies between the two waits.
LEMMA FollowsStep ==
    ASSUME TypeOK, VisitsArePast, NextFollowsLast, Next
    PROVE  NextFollowsLast'
  <1>1. CASE EndUnreadable
    <2>1. next' \in AfterErrors(NextErrors)
      BY <1>1 DEF EndUnreadable, Due, Save, NoVisit, given
    <2>2. /\ next' \in Stamps /\ now <= SortsBy(next')
          /\ now + Backoff(NextErrors) <= SortsBy(next')
          /\ SortsBy(next') <= now + (6 * Backoff(NextErrors)) \div 5
      BY <2>1, ErrorStamp
    <2> QED
      BY <1>1, <2>2, ConstantTypes, GivenTypes, StampTypes, NextErrorsType, BackoffType DEF
         EndUnreadable, Due, Save, NoVisit, given, NextFollowsLast, ShortestWait, LongestWait,
         VisitsArePast, TypeOK, Never
  <1>2. CASE Retire
    BY <1>2, ConstantTypes DEF Retire, Due, Save, NoVisit, given, NextFollowsLast, ShortestWait,
       LongestWait, On, Active, Paused
  <1>3. CASE VisitBlocked
    BY <1>3, ConstantTypes DEF VisitBlocked, Looks, Due, Visit, Look, Save, given,
       NextFollowsLast, ShortestWait, LongestWait, On, Active, Paused
  <1>4. CASE VisitFails
    <2>1. next' \in AfterErrors(NextErrors)
      BY <1>4 DEF VisitFails, Looks, Due, Visit, Look, Save, given
    <2>2. /\ next' \in Stamps /\ now <= SortsBy(next')
          /\ now + Backoff(NextErrors) <= SortsBy(next')
          /\ SortsBy(next') <= now + (6 * Backoff(NextErrors)) \div 5
      BY <2>1, ErrorStamp
    <2> QED
      BY <1>4, <2>2, ConstantTypes, GivenTypes, StampTypes, NextErrorsType, BackoffType DEF
         VisitFails, Looks, Due, Visit, Look, Save, given, NextFollowsLast, ShortestWait,
         LongestWait, VisitsArePast, TypeOK, Never
  <1>5. CASE VisitBeforeOpen
    <2>1. next' \in AfterReading \cup AfterBeforeOpen
      BY <1>5 DEF VisitBeforeOpen, Looks, Due, Visit, Look, Save, given
    <2>2. /\ next' \in Stamps /\ now <= SortsBy(next')
          /\ now + TightMin <= SortsBy(next') /\ SortsBy(next') <= now + IntervalMax
      BY <2>1, VisitStamp
    <2> QED
      BY <1>5, <2>2, ConstantTypes, GivenTypes, StampTypes, NextErrorsType, BackoffType DEF
         VisitBeforeOpen, Looks, Due, Visit, Look, Save, given, NextFollowsLast, ShortestWait,
         LongestWait, VisitsArePast, TypeOK, Never
  <1>6. CASE VisitGoesOn
    <2>1. next' \in AfterReading \cup AfterBeforeOpen
      BY <1>6 DEF VisitGoesOn, Looks, Due, Visit, Look, Save, given
    <2>2. /\ next' \in Stamps /\ now <= SortsBy(next')
          /\ now + TightMin <= SortsBy(next') /\ SortsBy(next') <= now + IntervalMax
      BY <2>1, VisitStamp
    <2> QED
      BY <1>6, <2>2, ConstantTypes, GivenTypes, StampTypes, NextErrorsType, BackoffType DEF
         VisitGoesOn, Looks, Due, Visit, Look, Save, given, NextFollowsLast, ShortestWait,
         LongestWait, VisitsArePast, TypeOK, Never
  <1>7. CASE VisitEnds
    BY <1>7, ConstantTypes DEF VisitEnds, Looks, Due, Visit, Look, Save, given, NextFollowsLast,
       ShortestWait, LongestWait, On, Active, Paused
  <1>8. CASE VisitUnsaved
    BY <1>8, ConstantTypes DEF VisitUnsaved, Looks, Due, given, NextFollowsLast, ShortestWait,
       LongestWait, On, Active, Paused
  <1>9. CASE CheckNow
    <2>1. next' \in AfterReading \cup AfterBeforeOpen
      BY <1>9 DEF CheckNow, Look, Save, given
    <2>2. /\ next' \in Stamps /\ now <= SortsBy(next')
          /\ now + TightMin <= SortsBy(next') /\ SortsBy(next') <= now + IntervalMax
      BY <2>1, VisitStamp
    <2> QED
      BY <1>9, <2>2, ConstantTypes, GivenTypes, StampTypes, NextErrorsType, BackoffType DEF
         CheckNow, Look, Save, given, NextFollowsLast, ShortestWait, LongestWait, VisitsArePast,
         TypeOK, Never
  <1>10. CASE LookAgain
    BY <1>10, ConstantTypes DEF LookAgain, Save, given, NextFollowsLast, ShortestWait,
       LongestWait, On, Active, Paused
  <1>11. CASE JobEnds
    BY <1>11, ConstantTypes DEF JobEnds, Save, given, NextFollowsLast, ShortestWait,
       LongestWait, On, Active, Paused
  <1>12. CASE Tick
    BY <1>12, ConstantTypes DEF Tick, Due, given, NextFollowsLast, ShortestWait, LongestWait,
       On, Active, Paused
  <1> QED
    BY <1>1, <1>2, <1>3, <1>4, <1>5, <1>6, <1>7, <1>8, <1>9, <1>10, <1>11, <1>12 DEF Next

\* Only a visit or a command moves a watch whose end can be read.
LEMMA UntouchedStep ==
    ASSUME TypeOK, UnseenIsUntouched, Next
    PROVE  UnseenIsUntouched'
  <1>1. CASE EndUnreadable
    BY <1>1, ConstantTypes DEF EndUnreadable, Due, Save, NoVisit, given, UnseenIsUntouched, On,
       Active, Never, TypeOK
  <1>2. CASE Retire
    BY <1>2, ConstantTypes DEF Retire, Due, Save, NoVisit, given, UnseenIsUntouched, On, Active,
       Never, TypeOK
  <1>3. CASE VisitBlocked
    BY <1>3, ConstantTypes DEF VisitBlocked, Looks, Due, Visit, Look, Save, given,
       UnseenIsUntouched, On, Active, Never, TypeOK
  <1>4. CASE VisitFails
    BY <1>4, ConstantTypes DEF VisitFails, Looks, Due, Visit, Look, Save, given,
       UnseenIsUntouched, On, Active, Never, TypeOK
  <1>5. CASE VisitBeforeOpen
    BY <1>5, ConstantTypes DEF VisitBeforeOpen, Looks, Due, Visit, Look, Save, given,
       UnseenIsUntouched, On, Active, Never, TypeOK
  <1>6. CASE VisitGoesOn
    BY <1>6, ConstantTypes DEF VisitGoesOn, Looks, Due, Visit, Look, Save, given,
       UnseenIsUntouched, On, Active, Never, TypeOK
  <1>7. CASE VisitEnds
    BY <1>7, ConstantTypes DEF VisitEnds, Looks, Due, Visit, Look, Save, given,
       UnseenIsUntouched, On, Active, Never, TypeOK
  <1>8. CASE VisitUnsaved
    BY <1>8, ConstantTypes DEF VisitUnsaved, Looks, Due, given, UnseenIsUntouched, On, Active,
       Never, TypeOK
  <1>9. CASE CheckNow
    BY <1>9, ConstantTypes DEF CheckNow, Look, Save, given, UnseenIsUntouched, On, Active,
       Never, TypeOK
  <1>10. CASE LookAgain
    BY <1>10, ConstantTypes DEF LookAgain, Save, given, UnseenIsUntouched, On, Active, Never,
       TypeOK
  <1>11. CASE JobEnds
    BY <1>11, ConstantTypes DEF JobEnds, Save, given, UnseenIsUntouched, On, Active, Never,
       TypeOK
  <1>12. CASE Tick
    BY <1>12, ConstantTypes DEF Tick, Due, given, UnseenIsUntouched, On, Active, Never, TypeOK
  <1> QED
    BY <1>1, <1>2, <1>3, <1>4, <1>5, <1>6, <1>7, <1>8, <1>9, <1>10, <1>11, <1>12 DEF Next

\* The loop visits what is due and not over.
LEMMA DueStep ==
    ASSUME TypeOK, InTime, VisitsArePast, UnseenIsUntouched, VisitsAreDue, Next
    PROVE  VisitsAreDue'
  <1>1. CASE EndUnreadable
    BY <1>1, ConstantTypes, GivenTypes DEF EndUnreadable, Due, Save, NoVisit, given, InTime, On,
       VisitsArePast, UnseenIsUntouched, VisitsAreDue, Never
  <1>2. CASE Retire
    BY <1>2, ConstantTypes, GivenTypes DEF Retire, Due, Save, NoVisit, given, InTime, On,
       VisitsArePast, UnseenIsUntouched, VisitsAreDue, Never
  <1>3. CASE VisitBlocked
    BY <1>3, ConstantTypes, GivenTypes DEF VisitBlocked, Looks, Due, Visit, Look, Save, given,
       InTime, On, VisitsArePast, UnseenIsUntouched, VisitsAreDue, Never
  <1>4. CASE VisitFails
    BY <1>4, ConstantTypes, GivenTypes DEF VisitFails, Looks, Due, Visit, Look, Save, given,
       InTime, On, VisitsArePast, UnseenIsUntouched, VisitsAreDue, Never
  <1>5. CASE VisitBeforeOpen
    BY <1>5, ConstantTypes, GivenTypes DEF VisitBeforeOpen, Looks, Due, Visit, Look, Save,
       given, InTime, On, VisitsArePast, UnseenIsUntouched, VisitsAreDue, Never
  <1>6. CASE VisitGoesOn
    BY <1>6, ConstantTypes, GivenTypes DEF VisitGoesOn, Looks, Due, Visit, Look, Save, given,
       InTime, On, VisitsArePast, UnseenIsUntouched, VisitsAreDue, Never
  <1>7. CASE VisitEnds
    BY <1>7, ConstantTypes, GivenTypes DEF VisitEnds, Looks, Due, Visit, Look, Save, given,
       InTime, On, VisitsArePast, UnseenIsUntouched, VisitsAreDue, Never
  <1>8. CASE VisitUnsaved
    BY <1>8, ConstantTypes, GivenTypes DEF VisitUnsaved, Looks, Due, given, InTime, On,
       VisitsArePast, UnseenIsUntouched, VisitsAreDue, Never
  <1>9. CASE CheckNow
    BY <1>9, ConstantTypes, GivenTypes DEF CheckNow, Look, Save, given, InTime, On,
       VisitsArePast, UnseenIsUntouched, VisitsAreDue, Never
  <1>10. CASE LookAgain
    BY <1>10, ConstantTypes, GivenTypes DEF LookAgain, Save, given, InTime, On, VisitsArePast,
       UnseenIsUntouched, VisitsAreDue, Never
  <1>11. CASE JobEnds
    BY <1>11, ConstantTypes, GivenTypes DEF JobEnds, Save, given, InTime, On, VisitsArePast,
       UnseenIsUntouched, VisitsAreDue, Never
  <1>12. CASE Tick
    BY <1>12, ConstantTypes, GivenTypes DEF Tick, Due, given, InTime, On, VisitsArePast,
       UnseenIsUntouched, VisitsAreDue, Never
  <1> QED
    BY <1>1, <1>2, <1>3, <1>4, <1>5, <1>6, <1>7, <1>8, <1>9, <1>10, <1>11, <1>12 DEF Next

\* A watch that was never looked at is retired when its start is reached.
LEMMA UnseenStep ==
    ASSUME TypeOK, InTime, UnseenIsUntouched, UnseenHasCause, Next
    PROVE  UnseenHasCause'
  <1>1. CASE EndUnreadable
    BY <1>1, ConstantTypes, GivenTypes DEF EndUnreadable, Due, Save, NoVisit, given, InTime, On,
       UnseenIsUntouched, UnseenHasCause, Active, Paused
  <1>2. CASE Retire
    BY <1>2, ConstantTypes, GivenTypes DEF Retire, Due, Save, NoVisit, given, InTime, On,
       UnseenIsUntouched, UnseenHasCause, Active, Paused
  <1>3. CASE VisitBlocked
    BY <1>3, ConstantTypes, GivenTypes DEF VisitBlocked, Looks, Due, Visit, Look, Save, given,
       InTime, On, UnseenIsUntouched, UnseenHasCause, Active, Paused
  <1>4. CASE VisitFails
    BY <1>4, ConstantTypes, GivenTypes DEF VisitFails, Looks, Due, Visit, Look, Save, given,
       InTime, On, UnseenIsUntouched, UnseenHasCause, Active, Paused
  <1>5. CASE VisitBeforeOpen
    BY <1>5, ConstantTypes, GivenTypes DEF VisitBeforeOpen, Looks, Due, Visit, Look, Save,
       given, InTime, On, UnseenIsUntouched, UnseenHasCause, Active, Paused
  <1>6. CASE VisitGoesOn
    BY <1>6, ConstantTypes, GivenTypes DEF VisitGoesOn, Looks, Due, Visit, Look, Save, given,
       InTime, On, UnseenIsUntouched, UnseenHasCause, Active, Paused
  <1>7. CASE VisitEnds
    BY <1>7, ConstantTypes, GivenTypes DEF VisitEnds, Looks, Due, Visit, Look, Save, given,
       InTime, On, UnseenIsUntouched, UnseenHasCause, Active, Paused
  <1>8. CASE VisitUnsaved
    BY <1>8, ConstantTypes, GivenTypes DEF VisitUnsaved, Looks, Due, given, InTime, On,
       UnseenIsUntouched, UnseenHasCause, Active, Paused
  <1>9. CASE CheckNow
    BY <1>9, ConstantTypes, GivenTypes DEF CheckNow, Look, Save, given, InTime, On,
       UnseenIsUntouched, UnseenHasCause, Active, Paused
  <1>10. CASE LookAgain
    BY <1>10, ConstantTypes, GivenTypes DEF LookAgain, Save, given, InTime, On,
       UnseenIsUntouched, UnseenHasCause, Active, Paused
  <1>11. CASE JobEnds
    BY <1>11, ConstantTypes, GivenTypes DEF JobEnds, Save, given, InTime, On, UnseenIsUntouched,
       UnseenHasCause, Active, Paused
  <1>12. CASE Tick
    BY <1>12, ConstantTypes, GivenTypes DEF Tick, Due, given, InTime, On, UnseenIsUntouched,
       UnseenHasCause, Active, Paused
  <1> QED
    BY <1>1, <1>2, <1>3, <1>4, <1>5, <1>6, <1>7, <1>8, <1>9, <1>10, <1>11, <1>12 DEF Next

-----------------------------------------------------------------------------
(* The invariant. *)

LEMMA InvInit == Init => IInv
  <1> SUFFICES ASSUME Init PROVE IInv
    OBVIOUS
  <1>1. TypeOK
    <2>1. PICK t \in Starts, h \in Spellings : start = Stamp(t, h)
      BY DEF Init
    <2>2. PICK u \in Ends, k \in Spellings : end = Stamp(u, k)
      BY DEF Init
    <2>3. start \in [at : Starts, how : Spellings] /\ end \in [at : Ends, how : Spellings]
      BY <2>1, <2>2 DEF Stamp
    <2>4. next \in [at : Int, how : Spellings]
      BY <2>1, ConstantTypes DEF Init, Stamp
    <2>5. now \in 0..MaxNow /\ errors \in 0..MaxErrors /\ unsaved \in 0..MaxUnsaved
      BY ConstantTypes DEF Init
    <2> QED
      BY <2>3, <2>4, <2>5 DEF Init, TypeOK, Statuses, Active
  <1>2. SortsBy(start) \in Nat
    BY <1>1, GivenTypes
  <1>3. InTime /\ VisitsArePast /\ NextFollowsLast /\ UnseenIsUntouched /\ VisitsAreDue
    BY <1>2, ConstantTypes DEF Init, InTime, VisitsArePast, NextFollowsLast, UnseenIsUntouched,
       VisitsAreDue
  <1>4. UnseenHasCause
    BY DEF Init, UnseenHasCause
  <1> QED
    BY <1>1, <1>3, <1>4 DEF IInv

LEMMA InvStep == IInv /\ [Next]_vars => IInv'
  <1>1. ASSUME IInv, Next PROVE IInv'
    <2>1. TypeOK'
      BY <1>1, TypeStep DEF IInv
    <2> QED
      BY <1>1, <2>1, InTimeStep, PastStep, FollowsStep, UntouchedStep, DueStep, UnseenStep DEF IInv
  <1>2. ASSUME IInv, UNCHANGED vars PROVE IInv'
    BY <1>2 DEF IInv, vars, given, TypeOK, InTime, On, VisitsArePast, NextFollowsLast, ShortestWait,
       LongestWait, UnseenIsUntouched, VisitsAreDue, UnseenHasCause
  <1> QED
    BY <1>1, <1>2

\* The watch reaches only states that satisfy the invariant.
THEOREM Invariance == Spec => []IInv
  BY InvInit, InvStep, PTL DEF Spec

\* The row, the clock and the client's dates keep their types (TypeOK).
THEOREM TypeCorrect == Spec => []TypeOK
  <1>1. IInv => TypeOK
    BY DEF IInv
  <1> QED
    BY <1>1, Invariance, PTL

\* A watch that is on is looked at within the longest wait, whatever the configured
\* intervals and backoff (compute_next_check_at, due_watches).
THEOREM OpeningsAreMet == Spec => []OpeningIsMet
  <1>1. ASSUME IInv PROVE OpeningIsMet
    <2> SUFFICES ASSUME On, last # Never, ~prompted, Parses(end)
                 PROVE  now <= last + LongestWait + Lag
      BY DEF OpeningIsMet, On
    <2>1. now <= SortsBy(next) + Lag /\ SortsBy(next) <= last + LongestWait
      BY <1>1 DEF IInv, InTime, NextFollowsLast
    <2>2. now \in Int /\ SortsBy(next) \in Int /\ last \in Int /\ LongestWait \in Int
      BY <1>1, GivenTypes, BackoffType, ConstantTypes DEF IInv, TypeOK, LongestWait
    <2> QED
      BY <2>1, <2>2, ConstantTypes
  <1> QED
    BY <1>1, Invariance, PTL

\* The first look comes with the start, or ZoneAhead later (due_watches compares texts).
THEOREM StartsAreKept == Spec => []StartIsKept
  <1>1. ASSUME IInv PROVE StartIsKept
    <2> SUFFICES ASSUME ~moved, start.how \in Iso
                 PROVE  /\ first # Never => first \in start.at..(start.at + ZoneAhead + Lag)
                        /\ status = "PENDING" /\ first = Never /\ Parses(end)
                             => now <= start.at + ZoneAhead + Lag
      BY DEF StartIsKept
    <2>1. start.at \in Nat /\ SortsBy(start) \in {start.at, start.at + ZoneAhead}
      BY <1>1, ConstantTypes DEF IInv, TypeOK, Iso, SortsBy
    <2>2. first # Never => first \in start.at..(start.at + ZoneAhead + Lag)
      BY <1>1, <2>1, ConstantTypes DEF IInv, TypeOK, VisitsAreDue
    <2>3. status = "PENDING" /\ first = Never /\ Parses(end) => now <= start.at + ZoneAhead + Lag
      BY <1>1, <2>1, ConstantTypes DEF IInv, TypeOK, InTime, On, Active, UnseenIsUntouched
    <2> QED
      BY <2>2, <2>3
  <1> QED
    BY <1>1, Invariance, PTL

\* A watch expires unseen only when its end precedes its start as text.
THEOREM UnseenIsExplained == Spec => []UnseenHasCause
  <1>1. IInv => UnseenHasCause
    BY DEF IInv
  <1> QED
    BY <1>1, Invariance, PTL

\* A watch does not outlive its end by more than one longest wait.
THEOREM EndsAreNoticed == Spec => []EndIsNoticed
  <1>1. ASSUME IInv PROVE EndIsNoticed
    <2> SUFFICES ASSUME On, ~moved, ~prompted, Parses(end), start.how \in Iso
                 PROVE  now <= Later(Parsed(end), SortsBy(start)) + LongestWait + Lag
      BY DEF EndIsNoticed, On
    <2>1. /\ now \in Int /\ SortsBy(next) \in Int /\ SortsBy(start) \in Int /\ Parsed(end) \in Int
          /\ LongestWait \in Int
      BY <1>1, GivenTypes, BackoffType, ConstantTypes DEF IInv, TypeOK, LongestWait
    <2>2. now <= SortsBy(next) + Lag
      BY <1>1 DEF IInv, InTime
    <2>3. CASE first = Never
      <3>1. next = start /\ errors = 0
        BY <1>1, <2>3 DEF IInv, UnseenIsUntouched
      <3> QED
        BY <2>1, <2>2, <3>1, ConstantTypes DEF Later, LongestWait
    <2>4. CASE first # Never
      <3>1. last \in Int /\ last <= Parsed(end) /\ SortsBy(next) <= last + LongestWait
        BY <1>1, <2>4, ConstantTypes DEF IInv, TypeOK, VisitsAreDue, VisitsArePast, NextFollowsLast
      <3> QED
        BY <2>1, <2>2, <3>1, ConstantTypes DEF Later
    <2> QED
      BY <2>3, <2>4
  <1> QED
    BY <1>1, Invariance, PTL

\* The site is not hammered: between two looks of the loop lies the shortest interval, or
\* the backoff.
THEOREM SiteIsSpared == Spec => NoHammering
  <1>1. ASSUME IInv, Next, last # Never, On, last' # last, ~prompted
        PROVE  now - last >= ShortestWait
    <2>1. Looks
      BY <1>1 DEF Next, EndUnreadable, Retire, VisitBlocked, VisitFails, VisitBeforeOpen, VisitGoesOn,
         VisitEnds, VisitUnsaved, CheckNow, LookAgain, JobEnds, Tick, NoVisit, On, Active
    <2>2. SortsBy(next) <= now /\ last + ShortestWait <= SortsBy(next)
      BY <1>1, <2>1 DEF Looks, Due, IInv, NextFollowsLast
    <2>3. now \in Int /\ SortsBy(next) \in Int /\ last \in Int /\ ShortestWait \in Int
      BY <1>1, GivenTypes, BackoffType, ConstantTypes DEF IInv, TypeOK, ShortestWait
    <2> QED
      BY <2>2, <2>3
  <1>2. IInv /\ [Next]_vars =>
            [last # Never /\ status \in Active /\ last' # last /\ ~prompted
               => now - last >= (IF errors > 0 THEN Backoff(errors) ELSE TightMin)]_vars
    BY <1>1 DEF On, ShortestWait, vars
  <1> QED
    BY <1>2, Invariance, PTL DEF Spec, NoHammering

-----------------------------------------------------------------------------
(* The tight interval. *)

LEMMA SeenClosedDelay ==
    ASSUME TypeOK, Next, SeenClosed
    PROVE  now < opens /\ \E d \in BeforeOpenDelays : next'.at = now + d
  <1>1. VisitBeforeOpen \/ (CheckNow /\ now < opens)
    <2>1. ~EndUnreadable /\ ~Retire /\ ~LookAgain /\ ~JobEnds /\ ~Tick
      BY DEF SeenClosed, EndUnreadable, Retire, LookAgain, JobEnds, Tick, NoVisit
    <2>2. ~VisitBlocked /\ ~VisitGoesOn /\ ~VisitEnds /\ ~VisitUnsaved
      BY DEF SeenClosed, VisitBlocked, VisitGoesOn, VisitEnds, VisitUnsaved, Save, Paused
    <2>3. ~VisitFails
      BY NextErrorsType, ConstantTypes DEF SeenClosed, VisitFails, Save
    <2>4. CheckNow => now < opens
      BY DEF SeenClosed, CheckNow, Save
    <2> QED
      BY <2>1, <2>2, <2>3, <2>4 DEF Next
  <1>2. now < opens /\ next' \in AfterBeforeOpen
    BY <1>1 DEF VisitBeforeOpen, CheckNow, Save, SeenClosed
  <1> QED
    BY <1>2 DEF AfterBeforeOpen, UTCStamp, Stamp

\* Around the opening as the code reads it, the tight interval is kept.
THEOREM TightIsShifted == Spec => TightWhenShifted
  <1>1. ASSUME TypeOK, Next, SeenClosed, shown, opens + ZoneAhead - now <= Window
        PROVE  next'.at <= now + TightMax
    <2>1. PICK d \in BeforeOpenDelays : next'.at = now + d /\ now < opens
      BY <1>1, SeenClosedDelay
    <2>2. now \in Nat /\ opens \in Nat
      BY <1>1, GivenTypes, ConstantTypes DEF TypeOK
    <2>3. 0 <= UntilOpen /\ UntilOpen <= Window
      BY <1>1, <2>1, <2>2, ConstantTypes DEF UntilOpen
    <2>4. d \in TightMin..TightMax
      BY <1>1, <2>3 DEF BeforeOpenDelays
    <2> QED
      BY <2>1, <2>2, <2>4, ConstantTypes
  <1>2. TypeOK /\ [Next]_vars =>
            [SeenClosed /\ shown /\ opens + ZoneAhead - now <= Window
               => next'.at <= now + TightMax]_vars
    BY <1>1
  <1> QED
    BY <1>2, TypeCorrect, PTL DEF Spec, TightWhenShifted

\* Where local time is ahead of UTC by the whole window, it is never used.
THEOREM TightIsNeverUsed == Spec => NeverTight
  <1>1. ASSUME TypeOK, Next, SeenClosed, ZoneAhead >= Window
        PROVE  next'.at >= now + IntervalMin
    <2>1. PICK d \in BeforeOpenDelays : next'.at = now + d /\ now < opens
      BY <1>1, SeenClosedDelay
    <2>2. now \in Nat /\ opens \in Nat
      BY <1>1, GivenTypes, ConstantTypes DEF TypeOK
    <2>3. UntilOpen > Window
      BY <1>1, <2>1, <2>2, ConstantTypes DEF UntilOpen
    <2>4. d \in IntervalMin..IntervalMax
      BY <2>2, <2>3, ConstantTypes DEF BeforeOpenDelays, UntilOpen
    <2> QED
      BY <2>1, <2>2, <2>4, ConstantTypes
  <1>2. TypeOK /\ [Next]_vars =>
            [SeenClosed /\ ZoneAhead >= Window => next'.at >= now + IntervalMin]_vars
    BY <1>1
  <1> QED
    BY <1>2, TypeCorrect, PTL DEF Spec, NeverTight

-----------------------------------------------------------------------------
(* The life of a watch. *)

LEMMA LifecycleInit == ASSUME TypeOK, Init PROVE Lifecycle!Init
  BY DEF Init, Lifecycle!Init

LEMMA LifecycleStep ==
    ASSUME TypeOK, [Next]_vars
    PROVE  [Lifecycle!Next]_(Lifecycle!vars)
  <1> USE DEF Lifecycle!Active, Lifecycle!Gone, Lifecycle!vars
  <1>0. now \in Nat /\ opens \in Nat
    BY GivenTypes, ConstantTypes DEF TypeOK
  <1>1. ASSUME UNCHANGED <<opens, now, moved>>, status \in Active,
               status' \in {"EXPIRED", "NEEDS_HUMAN"} \cup
                    (IF now >= opens THEN {"WATCHING", "AWAITING_APPROVAL", "RESERVED"}
                                     ELSE {"WAITING_OPEN"})
        PROVE  Lifecycle!Next
    BY <1>1 DEF Active, Lifecycle!Next, Lifecycle!Round
  <1>2. CASE Retire \/ VisitBlocked \/ VisitBeforeOpen \/ VisitGoesOn
    BY <1>0, <1>1, <1>2 DEF Retire, VisitBlocked, VisitBeforeOpen, VisitGoesOn, Looks, Due,
       Visit, NoVisit, Save, given
  <1>3. CASE VisitEnds
    BY <1>0, <1>1, <1>3 DEF VisitEnds, Looks, Due, Visit, Save, given, Paused
  <1>4. CASE EndUnreadable \/ VisitFails \/ VisitUnsaved \/ UNCHANGED vars
    BY <1>4 DEF EndUnreadable, VisitFails, VisitUnsaved, Looks, Visit, NoVisit, Save, given, vars
  <1>5. CASE CheckNow
    <2>1. /\ status = "NEEDS_HUMAN" /\ moved' = TRUE /\ (now >= opens)' = (now >= opens)
          /\ status' \in {"WAITING_OPEN", "WATCHING"}
          /\ now < opens \/ status' = "WATCHING"
      BY <1>5 DEF CheckNow, Save, given
    <2>2. ~(now >= opens) \/ status' = "WATCHING"
      BY <1>0, <2>1
    <2> QED
      BY <2>1, <2>2, Zenon DEF Lifecycle!Next, Lifecycle!Command
  <1>6. CASE LookAgain \/ JobEnds
    <2>1. status \notin {"UNREGISTERED", "REMOVED"}
      BY DEF TypeOK, Statuses, Active, Paused
    <2> QED
      BY <1>6, <2>1 DEF LookAgain, JobEnds, Save, given, Lifecycle!Next, Lifecycle!Command
  <1>7. CASE Tick
    <2>1. UNCHANGED <<status, moved, opens>> /\ now' = now + 1
      BY <1>7 DEF Tick, given
    <2>2. CASE now >= opens \/ ~(now + 1 >= opens)
      <3>1. (now >= opens)' = (now >= opens)
        BY <1>0, <2>1, <2>2
      <3> QED
        BY <2>1, <3>1
    <2>3. CASE ~(now >= opens) /\ now + 1 >= opens
      <3>1. (now >= opens) = FALSE /\ (now >= opens)' = TRUE
        BY <1>0, <2>1, <2>3
      <3> QED
        BY <2>1, <3>1 DEF Lifecycle!Next, Lifecycle!Open
    <2> QED
      BY <2>2, <2>3
  <1> QED
    BY <1>2, <1>3, <1>4, <1>5, <1>6, <1>7 DEF Next

\* The clock, the loop and the jobs together take the watch through the life that
\* WatchLifecycle promises.
THEOREM LifecycleKept == Spec => KeepsLifecycle
  <1>1. TypeOK /\ Init => Lifecycle!Init
    BY LifecycleInit
  <1>2. TypeOK /\ [Next]_vars => [Lifecycle!Next]_(Lifecycle!vars)
    BY LifecycleStep
  <1> QED
    BY <1>1, <1>2, TypeCorrect, PTL DEF Spec, KeepsLifecycle, Lifecycle!Spec
=============================================================================
