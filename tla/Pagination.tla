----------------------------- MODULE Pagination -----------------------------
(***************************************************************************)
(* The loops of getHistoricalPrices() and getFundingRates() in             *)
(* src/src/lighter_rest_client.cpp: a range of milliseconds is fetched in  *)
(* windows of whole seconds, each by its end and a number of events to     *)
(* count back from there.                                                  *)
(*                                                                         *)
(* An event (a candle or a funding) is named by its number k: it belongs   *)
(* to time k * Interval seconds.  The venue may skip events and adds new   *)
(* ones while the loop runs.                                               *)
(***************************************************************************)
EXTENDS Integers, FiniteSets

CONSTANTS
  Second,    \* milliseconds in a second
  Interval,  \* seconds between events: intervalSec, fundingIntervalSec
  MaxBars,   \* kMaxBarsPerCall
  Cut,       \* stamps below it are taken for seconds
  FirstBar, LastBar,  \* bound: the events the venue may have
  Times               \* bound: the ends of the ranges asked for

Bars == FirstBar..LastBar

Time(k) == k * Interval * Second

ASSUME UnitsAssumption == /\ Second \in Nat \ {0}
                          /\ Interval \in Nat \ {0}
                          /\ MaxBars \in Nat \ {0, 1}
                          /\ Cut \in Nat
ASSUME RangeAssumption == FirstBar \in Nat /\ LastBar \in Nat /\ Times \subseteq Nat
(* No stamp in seconds can be one in milliseconds (line 336: 1973 to 5138). *)
ASSUME CutAssumption == \A k \in Bars : k * Interval < Cut /\ (k > 0 => Cut <= Time(k))

VARIABLES
  kind,      \* the function called
  from, to,  \* its range
  atStart,   \* what the venue had when it was called
  history,   \* what the venue has
  cursor,    \* cursorSec
  newest,    \* lastOpenTime, lastTime
  kept,      \* what the last batch added
  taken,     \* retVal
  outcome

input == <<kind, from, to, atStart>>
vars == <<input, history, cursor, newest, kept, taken, outcome>>

fromSec == from \div Second
toSec   == to \div Second

TypeOK ==
  /\ kind \in {"candles", "fundings"}
  /\ from \in Times /\ to \in Times
  /\ atStart \subseteq history /\ history \subseteq Bars
  /\ cursor \in Nat /\ (cursor = fromSec \/ cursor <= toSec)
  /\ newest \in {-1} \cup {Time(k) : k \in Bars}
  /\ taken \subseteq Bars /\ kept \subseteq taken
  /\ outcome \in {"running", "returned", "threw"}

Init ==
  /\ kind \in {"candles", "fundings"}
  /\ from \in Times /\ to \in Times
  /\ history \in SUBSET Bars /\ atStart = history
  /\ cursor = fromSec
  /\ newest = -1
  /\ kept = {} /\ taken = {}
  /\ outcome = "running"
----------------------------------------------------------------------------
(* Faulty variants of the definitions below, each a slip the code could    *)
(* have: no behaviour of the specification uses them.                      *)

FaultyWholeWindow(c) == c + Interval * (MaxBars - 1)
FaultyCountExclusive(c, end) == (end - c) \div Interval
FaultyKeepsOld(t) == TRUE
FaultyAdvanceByNewest(end, n) == IF n >= 0 THEN n \div Second ELSE end
----------------------------------------------------------------------------
(* The venue (external): the last count_back events up to the end, all of  *)
(* them when there are fewer. Of fundings it may return more than asked.   *)

Within(end) == {k \in history : k * Interval <= end}

IsTail(S, T) == /\ S \subseteq T
                /\ \A x \in S : \A y \in T : y > x => y \in S

Answers(n, end) ==
  {S \in SUBSET Within(end) :
     /\ IsTail(S, Within(end))
     /\ Cardinality(S) >= n \/ S = Within(end)
     /\ kind = "candles" => Cardinality(S) <= n}

(* Fundings are stamped in seconds or in milliseconds. *)
Units == IF kind = "candles" THEN {Second} ELSE {1, Second}
----------------------------------------------------------------------------
(* The loop.                                                               *)

(* A window spans MaxBars - 1 intervals. *)
BatchEnd(c) == LET end == c + Interval * (MaxBars - 1)
               IN IF end < toSec THEN end ELSE toSec

CountBack(c, end) == LET n == (end - c) \div Interval + 1
                     IN IF n > MaxBars THEN MaxBars ELSE n

Normalised(raw) ==
  IF kind = "fundings" /\ 0 < raw /\ raw < Cut THEN raw * Second ELSE raw

InRange(t) == /\ from <= t
              /\ IF kind = "candles" THEN t + Interval * Second <= to ELSE t <= to

(* Not taken in a previous window: they overlap at their ends. *)
IsNew(t) == t > newest

(* The end of the next window, not the newest event, moves the cursor. *)
Advance(end, n) == end

(* The loop over the batch leaves the stamp of the last event it took. *)
TakeNewest(S) == IF S = {} THEN newest' = newest
                 ELSE \E k \in S : /\ \A j \in S : j <= k
                                   /\ newest' = Time(k)

(* One turn of the loop, with its request. *)
Batch ==
  /\ outcome = "running" /\ cursor < toSec
  /\ LET end == BatchEnd(cursor) IN
       \E S \in Answers(CountBack(cursor, end), end), unit \in Units :
         LET stamp(k) == Normalised(k * Interval * unit) IN
         /\ kept' = {k \in S : InRange(stamp(k)) /\ IsNew(stamp(k))}
         /\ TakeNewest(kept')
         /\ taken' = taken \cup kept'
         /\ cursor' = Advance(end, newest')
  /\ UNCHANGED <<input, history, outcome>>

Return ==
  /\ outcome = "running" /\ cursor >= toSec
  /\ outcome' = "returned"
  /\ UNCHANGED <<input, history, cursor, newest, kept, taken>>

(* The request fails, or its answer is no list of events. *)
Throw ==
  /\ outcome = "running" /\ cursor < toSec
  /\ outcome' = "threw"
  /\ UNCHANGED <<input, history, cursor, newest, kept, taken>>

(* The venue's next event. *)
Grow ==
  /\ outcome = "running"
  /\ \E k \in Bars : /\ \A j \in history : k > j
                     /\ history' = history \cup {k}
  /\ UNCHANGED <<input, cursor, newest, kept, taken, outcome>>

Next == Batch \/ Return \/ Throw \/ Grow

Spec == Init /\ [][Next]_vars

(* The calling thread goes on. *)
FairSpec == Spec /\ WF_vars(Batch \/ Return)
----------------------------------------------------------------------------
(* Properties.                                                             *)

Wanted(H) == {k \in H : InRange(Time(k))}

(* A call that returns has returned every event of the range that the venue
   had when it was called, and none outside the range, whatever the windows'
   ends fall on and whatever came meanwhile. A range of fundings within one
   second is the exception: it is never asked for (line 327). *)
ReturnsTheRange ==
  /\ taken \subseteq Wanted(history)
  /\ outcome = "returned" /\ (kind = "fundings" => fromSec < toSec)
       => Wanted(atStart) \subseteq taken

(* What a batch adds, and hands to the writer, is newer than all that was
   taken before: no event comes twice and none out of order, though windows
   overlap and count_back reaches behind them (lines 287-298, 341-347). *)
Ascends ==
  [][cursor' # cursor => \A k \in kept', j \in taken : k > j]_vars

(* The loop ends; it once did not, when the venue kept answering with the
   events it had already given (lines 263-270, 300). *)
Ends == <>(outcome # "running")
=============================================================================
