-------------------------- MODULE PaginationProofs --------------------------
(***************************************************************************)
(* Theorems about Pagination, for every value of its constants.            *)
(***************************************************************************)
EXTENDS Pagination, FiniteSetTheorems, TLAPS

(* Times of events are milliseconds, ordered as the events are. *)
LEMMA TimeType ==
  ASSUME NEW k \in Bars
  PROVE  /\ k \in Nat
         /\ k * Interval \in Nat
         /\ Time(k) \in Nat
<1>1. k \in Nat
  BY RangeAssumption DEF Bars
<1>2. k * Interval \in Nat
  BY <1>1, UnitsAssumption
<1>3. QED
  BY <1>1, <1>2, UnitsAssumption DEF Time

LEMMA Multiples ==
  ASSUME NEW m \in Nat \ {0}, NEW a \in Int, NEW b \in Int
  PROVE  a < b <=> a * m < b * m
<1>1. ASSUME a < b PROVE a * m < b * m
  <2>1. PICK d \in Nat \ {0} : b = a + d
    BY <1>1
  <2>2. b * m = a * m + d * m /\ d * m > 0 /\ a * m \in Int /\ d * m \in Int
    BY <2>1
  <2>3. QED
    BY <2>2
<1>2. ASSUME b <= a PROVE b * m <= a * m
  <2>1. PICK d \in Nat : a = b + d
    BY <1>2
  <2>2. a * m = b * m + d * m /\ d * m >= 0 /\ b * m \in Int /\ d * m \in Int
    BY <2>1
  <2>3. QED
    BY <2>2
<1>3. QED
  BY <1>1, <1>2

LEMMA TimeOrder ==
  ASSUME NEW j \in Bars, NEW k \in Bars
  PROVE  Time(j) < Time(k) <=> j < k
<1>1. j * Interval < k * Interval <=> j < k
  BY Multiples, TimeType, UnitsAssumption
<1>2. Time(j) < Time(k) <=> j * Interval < k * Interval
  BY Multiples, TimeType, UnitsAssumption DEF Time
<1>3. QED
  BY <1>1, <1>2

(* Dividing by m: the quotient is the last multiple that fits. *)
LEMMA Quotient ==
  ASSUME NEW m \in Nat \ {0}, NEW x \in Nat
  PROVE  /\ x \div m \in Nat
         /\ (x \div m) * m <= x
         /\ x < (x \div m) * m + m
  OBVIOUS

(* Whatever the unit of its stamp, an event is given its time (lines 334-339). *)
LEMMA StampIsTime ==
  ASSUME TypeOK, NEW k \in Bars, NEW unit \in Units
  PROVE  Normalised(k * Interval * unit) = Time(k)
<1>1. Time(k) = k * Interval * Second /\ k * Interval * 1 = k * Interval
  BY TimeType DEF Time
<1>2. k = 0 => k * Interval = 0 /\ Time(k) = 0
  BY UnitsAssumption DEF Time
<1>3. k > 0 => k * Interval > 0
  BY TimeType, UnitsAssumption
<1>4. CASE unit = Second
  BY <1>1, <1>2, <1>4, TimeType, CutAssumption, UnitsAssumption DEF Normalised
<1>5. CASE unit = 1 /\ kind = "fundings"
  BY <1>1, <1>2, <1>3, <1>5, TimeType, CutAssumption, UnitsAssumption DEF Normalised
<1>6. QED
  BY <1>4, <1>5 DEF Units, TypeOK

----------------------------------------------------------------------------
(* What the loop's arithmetic gives.                                       *)

LEMMA RangeType ==
  ASSUME TypeOK
  PROVE  /\ from \in Nat /\ to \in Nat
         /\ fromSec \in Nat /\ toSec \in Nat
         /\ fromSec * Second <= from /\ from < fromSec * Second + Second
<1>1. from \in Nat /\ to \in Nat
  BY RangeAssumption DEF TypeOK
<1>2. QED
  BY <1>1, Quotient, UnitsAssumption DEF fromSec, toSec

(* A window that is asked for is not empty, ends within the range, and is so
   short that the cap on count_back never acts (lines 280-282, 328-330). *)
LEMMA Window ==
  ASSUME TypeOK, cursor < toSec
  PROVE  /\ BatchEnd(cursor) \in Nat
         /\ cursor < BatchEnd(cursor) /\ BatchEnd(cursor) <= toSec
         /\ CountBack(cursor, BatchEnd(cursor)) =
              (BatchEnd(cursor) - cursor) \div Interval + 1
<1> DEFINE end == BatchEnd(cursor)
           w   == (MaxBars - 1) * Interval
           q   == (end - cursor) \div Interval
<1>1. cursor \in Nat /\ toSec \in Nat
  BY RangeType DEF TypeOK
<1>2. w \in Nat \ {0} /\ w = Interval * (MaxBars - 1)
  BY Multiples, UnitsAssumption
<1>3. end = IF cursor + w < toSec THEN cursor + w ELSE toSec
  BY <1>2 DEF BatchEnd
<1>4. end \in Nat /\ cursor < end /\ end <= toSec /\ end - cursor <= w
  BY <1>1, <1>2, <1>3
<1>5. q \in Nat /\ q * Interval <= end - cursor
  BY <1>1, <1>4, Quotient, UnitsAssumption
<1>6. q * Interval <= (MaxBars - 1) * Interval
  BY <1>1, <1>2, <1>4, <1>5, UnitsAssumption
<1>7. q <= MaxBars - 1
  BY <1>5, <1>6, Multiples, UnitsAssumption
<1>8. CountBack(cursor, end) = q + 1
  BY <1>5, <1>7, UnitsAssumption DEF CountBack
<1>9. QED
  BY <1>4, <1>8

(* count_back reaches the start of the window: the answer has every event of
   the venue from the window's first second to its last. *)
LEMMA CountBackSuffices ==
  ASSUME TypeOK, cursor < toSec,
         NEW S \in Answers(CountBack(cursor, BatchEnd(cursor)), BatchEnd(cursor)),
         NEW k \in history,
         cursor <= k * Interval, k * Interval <= BatchEnd(cursor)
  PROVE  k \in S
<1> DEFINE end == BatchEnd(cursor)
           e   == end \div Interval
           q   == (end - cursor) \div Interval
<1>1. /\ end \in Nat /\ cursor \in Nat /\ cursor < end
      /\ CountBack(cursor, end) = q + 1
  BY Window DEF TypeOK
<1>2. /\ e \in Nat /\ q \in Nat
      /\ end < e * Interval + Interval
      /\ e * Interval <= end
      /\ end - cursor < q * Interval + Interval
  <2>1. e \in Nat /\ e * Interval <= end /\ end < e * Interval + Interval
    BY <1>1, Quotient, UnitsAssumption
  <2>2. end - cursor \in Nat
    BY <1>1
  <2>3. q \in Nat /\ end - cursor < q * Interval + Interval
    BY <2>2, Quotient, UnitsAssumption
  <2>4. QED
    BY <2>1, <2>3
<1>3. history \subseteq Bars /\ k \in Nat /\ k * Interval \in Nat
  BY TimeType DEF TypeOK
<1>4. k \in Within(end) /\ S \subseteq Within(end) /\ Within(end) \subseteq history
  BY DEF Within, Answers
<1>5. SUFFICES ASSUME k \notin S PROVE FALSE
  OBVIOUS
<1>6. ASSUME NEW x \in S PROVE x \in Nat /\ k < x /\ x <= e
  <2>1. x \in Within(end) /\ x \in Nat /\ x * Interval <= end /\ x * Interval \in Nat
    BY <1>3, <1>4, <1>6, TimeType DEF Within
  <2>2. ~(k > x)
    BY <1>4, <1>5, <1>6 DEF Answers, IsTail
  <2>3. k < x
    BY <1>3, <1>5, <2>1, <2>2
  <2>4. (e + 1) * Interval = e * Interval + Interval /\ e + 1 \in Int
    BY <1>2, UnitsAssumption
  <2>5. x * Interval < (e + 1) * Interval
    BY <1>1, <1>2, <2>1, <2>4, UnitsAssumption
  <2>6. x < e + 1
    BY <2>1, <2>4, <2>5, Multiples, UnitsAssumption
  <2>7. QED
    BY <1>2, <2>1, <2>3, <2>6
<1>7. Cardinality(S) >= q + 1
  BY <1>1, <1>4, <1>5 DEF Answers
<1>8. S \subseteq (k + 1)..e
  BY <1>3, <1>2, <1>6
<1>9. /\ IsFiniteSet((k + 1)..e)
      /\ Cardinality((k + 1)..e) = IF k + 1 > e THEN 0 ELSE e - (k + 1) + 1
  <2>1. k + 1 \in Int /\ e \in Int
    BY <1>2, <1>3
  <2>2. QED
    BY <2>1, FS_Interval
<1>10. Cardinality(S) <= Cardinality((k + 1)..e) /\ Cardinality(S) \in Nat
  BY <1>8, <1>9, FS_Subset, FS_CardinalityType
<1>11. q + 1 <= e - k
  BY <1>2, <1>3, <1>7, <1>9, <1>10
<1>12. (q + 1) * Interval <= (e - k) * Interval
  BY <1>2, <1>3, <1>11, Multiples, UnitsAssumption
<1>13. /\ (q + 1) * Interval = q * Interval + Interval
       /\ (e - k) * Interval = e * Interval - k * Interval
  BY <1>2, <1>3, UnitsAssumption
<1>14. QED
  BY <1>1, <1>2, <1>3, <1>12, <1>13, UnitsAssumption

(* An event of the range lies within its seconds (lines 275-276, 323-324). *)
LEMMA RangeInSeconds ==
  ASSUME TypeOK, NEW k \in Bars, InRange(Time(k))
  PROVE  /\ fromSec <= k * Interval
         /\ k * Interval <= toSec
         /\ kind = "candles" => k * Interval < toSec
<1> DEFINE s == k * Interval
<1>1. s \in Nat /\ Time(k) \in Nat /\ Time(k) = s * Second
  BY TimeType DEF Time
<1>2. /\ from \in Nat /\ to \in Nat /\ fromSec \in Nat /\ toSec \in Nat
      /\ fromSec * Second <= from /\ to < toSec * Second + Second
  BY RangeType, Quotient, UnitsAssumption DEF toSec
<1>3. fromSec * Second <= s * Second
  BY <1>1, <1>2, UnitsAssumption DEF InRange
<1>4. fromSec <= s
  BY <1>1, <1>2, <1>3, Multiples, UnitsAssumption
<1>5. Time(k) <= to /\ (kind = "candles" => Time(k) + Second <= to)
  <2>1. Interval * Second \in Nat /\ Second <= Interval * Second
    <3>1. PICK d \in Nat : Interval = d + 1
      BY UnitsAssumption
    <3>2. Interval * Second = d * Second + Second /\ d * Second \in Nat
      BY <3>1, UnitsAssumption
    <3>3. QED
      BY <3>2, UnitsAssumption
  <2>2. QED
    BY <1>1, <1>2, <2>1, UnitsAssumption DEF InRange
<1>6. (toSec + 1) * Second = toSec * Second + Second
      /\ (s + 1) * Second = s * Second + Second
  BY <1>1, <1>2, UnitsAssumption
<1>7. s * Second < (toSec + 1) * Second
  BY <1>1, <1>2, <1>5, <1>6, UnitsAssumption
<1>8. s < toSec + 1
  BY <1>1, <1>2, <1>7, Multiples, UnitsAssumption
<1>9. ASSUME kind = "candles" PROVE s < toSec
  <2>1. (s + 1) * Second < (toSec + 1) * Second
    BY <1>1, <1>2, <1>5, <1>6, <1>9, UnitsAssumption
  <2>2. s + 1 < toSec + 1
    BY <1>1, <1>2, <2>1, Multiples, UnitsAssumption
  <2>3. QED
    BY <1>1, <1>2, <2>2
<1>10. QED
  BY <1>1, <1>2, <1>4, <1>8, <1>9

(* What a turn of the loop does, the units of the stamps aside. *)
LEMMA BatchEffect ==
  ASSUME TypeOK, Batch
  PROVE  \E S \in Answers(CountBack(cursor, BatchEnd(cursor)), BatchEnd(cursor)) :
           /\ S \subseteq Within(BatchEnd(cursor))
           /\ kept' = {k \in S : InRange(Time(k)) /\ IsNew(Time(k))}
           /\ TakeNewest(kept')
           /\ taken' = taken \cup kept'
           /\ cursor' = BatchEnd(cursor)
<1> DEFINE end == BatchEnd(cursor)
<1>1. PICK S \in Answers(CountBack(cursor, end), end), unit \in Units :
        /\ kept' = {k \in S : /\ InRange(Normalised(k * Interval * unit))
                              /\ IsNew(Normalised(k * Interval * unit))}
        /\ TakeNewest(kept')
        /\ taken' = taken \cup kept'
        /\ cursor' = end
  BY DEF Batch, Advance
<1>2. S \subseteq Within(end) /\ Within(end) \subseteq Bars
  BY DEF Answers, Within, TypeOK
<1>3. \A k \in S : Normalised(k * Interval * unit) = Time(k)
  BY <1>2, StampIsTime
<1>4. kept' = {k \in S : InRange(Time(k)) /\ IsNew(Time(k))}
  BY <1>1, <1>3
<1>5. QED
  BY <1>1, <1>2, <1>4

----------------------------------------------------------------------------
(* The invariant.                                                          *)

(* What the windows passed so far have given. *)
Passed ==
  /\ fromSec <= cursor
  /\ cursor = fromSec => taken = {}
  /\ cursor > fromSec =>
       \A k \in Wanted(atStart) : k * Interval <= cursor => k \in taken
  /\ \A k \in taken : Time(k) <= newest /\ k * Interval <= cursor
  /\ newest # -1 => \E k \in taken : newest = Time(k)

PageInv == /\ TypeOK
           /\ taken \subseteq Wanted(history)
           /\ Passed
           /\ outcome = "returned" => cursor >= toSec

LEMMA InitInv == Init => PageInv
<1> SUFFICES ASSUME Init PROVE PageInv
  OBVIOUS
<1>1. from \in Nat /\ fromSec \in Nat
  BY RangeAssumption, Quotient, UnitsAssumption DEF Init, fromSec
<1>2. TypeOK
  BY <1>1 DEF Init, TypeOK
<1>3. QED
  BY <1>1, <1>2 DEF Init, PageInv, Passed

(* A turn of the loop: nothing it should have got is left behind, and what it
   adds comes after what was taken. *)
LEMMA BatchInv ==
  ASSUME PageInv, Batch
  PROVE  PageInv' /\ \A k \in kept', j \in taken : k > j
<1> DEFINE end == BatchEnd(cursor)
<1>1. TypeOK /\ Passed /\ taken \subseteq Wanted(history)
  BY DEF PageInv
<1>2. PICK S \in Answers(CountBack(cursor, end), end) :
        /\ S \subseteq Within(end)
        /\ kept' = {k \in S : InRange(Time(k)) /\ IsNew(Time(k))}
        /\ TakeNewest(kept')
        /\ taken' = taken \cup kept'
        /\ cursor' = end
  BY <1>1, BatchEffect
<1>3. /\ UNCHANGED <<kind, from, to, atStart, history, outcome>>
      /\ outcome = "running" /\ cursor < toSec
      /\ fromSec' = fromSec /\ toSec' = toSec
  BY DEF Batch, input, fromSec, toSec
<1>4. /\ end \in Nat /\ cursor \in Nat /\ fromSec \in Nat /\ toSec \in Nat
      /\ cursor < end /\ end <= toSec /\ fromSec < end
  BY <1>1, <1>3, Window, RangeType DEF TypeOK, Passed
<1>5. history \subseteq Bars /\ taken \subseteq Bars /\ atStart \subseteq history
  BY <1>1 DEF TypeOK
<1>6. kept' \subseteq Wanted(history) /\ kept' \subseteq Bars
      /\ \A k \in kept' : k * Interval <= end /\ newest < Time(k)
  BY <1>2, <1>5 DEF Wanted, Within, IsNew
<1>7. newest \in Int
  BY <1>1, TimeType DEF TypeOK
<1>8. ASSUME NEW k \in kept', NEW j \in taken PROVE k > j
  <2>1. Time(j) < Time(k)
    BY <1>1, <1>5, <1>6, <1>7, TimeType DEF Passed
  <2>2. QED
    BY <1>5, <1>6, <2>1, TimeOrder, TimeType
<1>9. \/ kept' = {} /\ newest' = newest
      \/ \E k \in kept' : (\A j \in kept' : j <= k) /\ newest' = Time(k)
  BY <1>2 DEF TakeNewest
<1>10. TypeOK'
  <2>1. newest' \in {-1} \cup {Time(k) : k \in Bars}
    BY <1>1, <1>6, <1>9 DEF TypeOK
  <2>2. QED
    BY <1>1, <1>2, <1>3, <1>4, <1>5, <1>6, <2>1 DEF TypeOK
<1>11. taken' \subseteq Wanted(history)'
  <2>1. Wanted(history)' = Wanted(history)
    BY <1>3 DEF Wanted, InRange
  <2>2. QED
    BY <1>1, <1>2, <1>6, <2>1
<1>12. Passed'
  <2>1. \A k \in taken' : Time(k) <= newest'
    <3>1. CASE kept' = {} /\ newest' = newest
      BY <1>1, <1>2, <3>1 DEF Passed
    <3>2. CASE \E k \in kept' : (\A j \in kept' : j <= k) /\ newest' = Time(k)
      <4>1. PICK k \in kept' : (\A j \in kept' : j <= k) /\ newest' = Time(k)
        BY <3>2
      <4>2. ASSUME NEW j \in taken' PROVE j \in Bars /\ j <= k
        <5>1. CASE j \in kept'
          BY <4>1, <5>1, <1>6
        <5>2. CASE j \in taken
          BY <1>5, <1>6, <1>8, <4>1, <5>2, TimeType
        <5>3. QED
          BY <1>2, <5>1, <5>2
      <4>3. QED
        BY <1>6, <4>1, <4>2, TimeOrder, TimeType
    <3>3. QED
      BY <1>9, <3>1, <3>2
  <2>2. \A k \in taken' : k * Interval <= cursor'
    BY <1>1, <1>2, <1>4, <1>5, <1>6, TimeType DEF Passed
  <2>3. newest' # -1 => \E k \in taken' : newest' = Time(k)
    BY <1>1, <1>2, <1>9 DEF Passed
  <2>4. ASSUME NEW k \in Wanted(atStart), k * Interval <= end, k \notin taken
        PROVE  k \in kept'
    <3>1. /\ k \in history /\ k \in Bars /\ InRange(Time(k))
          /\ k * Interval \in Nat /\ fromSec <= k * Interval
      BY <1>1, <1>5, <2>4, TimeType, RangeInSeconds DEF Wanted
    <3>2. cursor <= k * Interval
      BY <1>1, <1>4, <2>4, <3>1 DEF Passed
    <3>3. k \in S
      BY <1>1, <1>2, <1>3, <2>4, <3>1, <3>2, CountBackSuffices
    <3>4. newest < Time(k)
      <4>1. CASE newest = -1
        BY <3>1, <4>1, TimeType
      <4>2. CASE newest # -1
        <5>1. PICK j \in taken : newest = Time(j)
          BY <1>1, <4>2 DEF Passed
        <5>2. cursor # fromSec /\ cursor > fromSec
          BY <1>1, <1>4, <5>1 DEF Passed
        <5>3. cursor < k * Interval
          BY <1>1, <1>4, <2>4, <3>1, <5>2 DEF Passed
        <5>4. j \in Bars /\ j * Interval <= cursor
          BY <1>1, <1>5 DEF Passed
        <5>5. j * Interval < k * Interval
          BY <1>4, <3>1, <5>3, <5>4, TimeType
        <5>6. j < k
          BY <3>1, <5>4, <5>5, TimeType, Multiples, UnitsAssumption
        <5>7. QED
          BY <3>1, <5>1, <5>4, <5>6, TimeOrder
      <4>3. QED
        BY <4>1, <4>2
    <3>5. QED
      BY <1>2, <1>7, <3>1, <3>3, <3>4, TimeType DEF IsNew
  <2>5. \A k \in Wanted(atStart) : k * Interval <= end => k \in taken'
    BY <1>2, <2>4
  <2>6. Wanted(atStart)' = Wanted(atStart)
    BY <1>3 DEF Wanted, InRange
  <2>7. QED
    BY <1>2, <1>3, <1>4, <2>1, <2>2, <2>3, <2>5, <2>6 DEF Passed
<1>13. QED
  BY <1>3, <1>8, <1>10, <1>11, <1>12 DEF PageInv

LEMMA StepInv ==
  ASSUME PageInv, [Next]_vars
  PROVE  PageInv'
<1>1. CASE Batch
  BY <1>1, BatchInv
<1>2. CASE Return \/ Throw \/ UNCHANGED vars
  BY <1>2 DEF Return, Throw, vars, input, PageInv, Passed, TypeOK, fromSec,
     toSec, Wanted, InRange
<1>3. CASE Grow
  <2>1. /\ UNCHANGED <<kind, from, to, atStart, cursor, newest, kept, taken, outcome>>
        /\ history \subseteq history' /\ history' \subseteq Bars
    BY <1>3 DEF Grow, input, PageInv, TypeOK
  <2>2. TypeOK'
    BY <2>1 DEF PageInv, TypeOK, fromSec, toSec
  <2>3. taken' \subseteq Wanted(history)'
    BY <2>1 DEF PageInv, Wanted, InRange
  <2>4. QED
    BY <2>1, <2>2, <2>3 DEF PageInv, Passed, fromSec, toSec, Wanted, InRange
<1>4. QED
  BY <1>1, <1>2, <1>3 DEF Next

----------------------------------------------------------------------------
(* The theorems.                                                           *)

LEMMA PagesInvariant == Spec => []PageInv
<1>1. PageInv /\ [Next]_vars => PageInv'
  BY StepInv
<1>2. QED
  BY InitInv, <1>1, PTL DEF Spec

(* The cursor stays in the range it walks, and newest is the time of an
   event: the types of the loop's variables. *)
THEOREM TypeCorrect == Spec => []TypeOK
<1>1. PageInv => TypeOK
  BY DEF PageInv
<1>2. QED
  BY PagesInvariant, <1>1, PTL

(* A call that returns has returned all that it was asked for that the venue
   had when it began, for every interval, window size, unit of stamps and
   range, whatever the venue skips, adds or returns in excess
   (getHistoricalPrices, getFundingRates). *)
THEOREM WholeRange == Spec => []ReturnsTheRange
<1>1. ASSUME PageInv PROVE ReturnsTheRange
  <2>1. SUFFICES ASSUME outcome = "returned", kind = "fundings" => fromSec < toSec,
                        NEW k \in Wanted(atStart)
                 PROVE  k \in taken
    BY <1>1 DEF PageInv, ReturnsTheRange
  <2>2. k \in Bars /\ InRange(Time(k)) /\ k * Interval \in Nat
    BY <1>1, TimeType DEF PageInv, TypeOK, Wanted
  <2>3. /\ fromSec <= k * Interval /\ k * Interval <= toSec
        /\ kind = "candles" => k * Interval < toSec
    BY <1>1, <2>2, RangeInSeconds DEF PageInv
  <2>4. /\ kind \in {"candles", "fundings"} /\ cursor \in Nat
        /\ fromSec \in Nat /\ toSec \in Nat /\ cursor >= toSec
    BY <1>1, <2>1, RangeType DEF PageInv, TypeOK
  <2>5. fromSec < toSec
    BY <2>1, <2>2, <2>3, <2>4
  <2>6. cursor > fromSec /\ k * Interval <= cursor
    BY <2>2, <2>3, <2>4, <2>5
  <2>7. QED
    BY <1>1, <2>6 DEF PageInv, Passed
<1>2. QED
  BY PagesInvariant, <1>1, PTL

(* No event is returned twice or out of order, and the writer is handed each
   one once: what a batch adds comes after all that was taken (the check
   against lastOpenTime and lastTime, lines 290 and 344). *)
THEOREM NewestLast == Spec => Ascends
<1>1. PageInv /\ [Next]_vars =>
        [cursor' # cursor => \A k \in kept', j \in taken : k > j]_vars
  <2>1. ASSUME PageInv, Next, cursor' # cursor
        PROVE  \A k \in kept', j \in taken : k > j
    <3>1. Batch
      BY <2>1 DEF Next, Return, Throw, Grow
    <3>2. QED
      BY <2>1, <3>1, BatchInv
  <2>2. QED
    BY <2>1
<1>2. QED
  BY PagesInvariant, <1>1, PTL DEF Spec, Ascends

----------------------------------------------------------------------------
(* How many requests a call sends: Pagination with a count of them beside, *)
(* which is read by nothing.                                               *)

VARIABLE requests

CountedSpec ==
  Init /\ requests = 0
    /\ [][Next /\ requests' = IF Batch THEN requests + 1 ELSE requests]_<<vars, requests>>

windowSec == Interval * (MaxBars - 1)

(* The window before the last one ended before the end of the range. *)
FewRequests == requests = 0 \/ fromSec + (requests - 1) * windowSec < toSec

(* Until the end is reached, each request was for a whole window. *)
WholeWindows ==
  /\ requests \in Nat
  /\ cursor < toSec => cursor = fromSec + requests * windowSec

LEMMA WindowType == windowSec \in Nat
<1>1. MaxBars - 1 \in Nat
  BY UnitsAssumption
<1>2. QED
  BY <1>1, UnitsAssumption DEF windowSec

LEMMA CountStep ==
  ASSUME TypeOK, WholeWindows, FewRequests, Next,
         requests' = IF Batch THEN requests + 1 ELSE requests
  PROVE  WholeWindows' /\ FewRequests'
<1>1. UNCHANGED <<from, to>> /\ fromSec' = fromSec /\ toSec' = toSec
  BY DEF Next, Batch, Return, Throw, Grow, input, fromSec, toSec
<1>2. CASE Batch
  <2>1. /\ fromSec \in Nat /\ toSec \in Nat /\ cursor \in Nat /\ windowSec \in Nat
        /\ requests \in Nat /\ requests' = requests + 1 /\ cursor < toSec
    BY <1>2, RangeType, WindowType DEF TypeOK, WholeWindows, Batch
  <2>2. cursor' = BatchEnd(cursor)
    BY <1>2 DEF Batch, Advance
  <2>3. cursor' = IF cursor + windowSec < toSec THEN cursor + windowSec ELSE toSec
    BY <2>2 DEF BatchEnd, windowSec
  <2>4. /\ (requests + 1) * windowSec = requests * windowSec + windowSec
        /\ requests * windowSec \in Nat
    BY <2>1
  <2>5. cursor = fromSec + requests * windowSec
    BY <2>1 DEF WholeWindows
  <2>6. WholeWindows'
    BY <1>1, <2>1, <2>3, <2>4, <2>5 DEF WholeWindows, windowSec
  <2>7. fromSec' + (requests' - 1) * windowSec < toSec'
    BY <1>1, <2>1, <2>5
  <2>8. QED
    BY <2>6, <2>7 DEF FewRequests, windowSec
<1>3. CASE ~Batch
  <2>1. UNCHANGED <<cursor, requests>>
    BY <1>3 DEF Next, Return, Throw, Grow
  <2>2. QED
    BY <1>1, <2>1 DEF WholeWindows, FewRequests, windowSec
<1>4. QED
  BY <1>2, <1>3

(* The venue is not flooded: a range is fetched with one request for each window
   it spans and no more, whatever the venue answers. That "cursorSec strictly
   increases each iteration" (line 300) makes the loop end, and so soon. *)
THEOREM RequestsAreFew == CountedSpec => []FewRequests
<1> DEFINE Step == Next /\ requests' = IF Batch THEN requests + 1 ELSE requests
           Counts == WholeWindows /\ FewRequests
<1>1. CountedSpec => Spec
  <2>1. [Step]_<<vars, requests>> => [Next]_vars
    OBVIOUS
  <2>2. QED
    BY <2>1, PTL DEF CountedSpec, Spec
<1>2. Init /\ requests = 0 => Counts
  <2> SUFFICES ASSUME Init, requests = 0 PROVE Counts
    OBVIOUS
  <2>1. cursor = fromSec /\ fromSec \in Nat /\ windowSec \in Nat
    BY InitInv, RangeType, WindowType DEF Init, PageInv
  <2>2. QED
    BY <2>1 DEF WholeWindows, FewRequests
<1>3. TypeOK /\ Counts /\ [Step]_<<vars, requests>> => Counts'
  <2>1. ASSUME TypeOK, Counts, Step PROVE Counts'
    BY <2>1, CountStep
  <2>2. ASSUME Counts, UNCHANGED <<vars, requests>> PROVE Counts'
    BY <2>2 DEF WholeWindows, FewRequests, vars, input, fromSec, toSec, windowSec
  <2>3. QED
    BY <2>1, <2>2
<1>4. Counts => FewRequests
  OBVIOUS
<1>5. QED
  BY <1>1, <1>2, <1>3, <1>4, TypeCorrect, PTL DEF CountedSpec
=============================================================================
