-------------------------- MODULE OrderBooksProofs --------------------------
(***************************************************************************)
(* Theorems about OrderBooks, for every value of its constants.            *)
(***************************************************************************)
EXTENDS OrderBooks, FiniteSetTheorems, SequenceTheorems, WellFoundedInduction,
        TLAPS

----------------------------------------------------------------------------
(* Least elements.  The library's induction takes a predicate as an        *)
(* operator; here its place is taken by a counterexample that no smaller   *)
(* one precedes: sets have a smallest member in every family of subsets.   *)

HasSmallestSubsets(S) ==
  \A F \in SUBSET (SUBSET S) :
    F # {} => \E A \in F : \A B \in F : B \subseteq A => B = A

LEMMA SmallestSubset ==
  ASSUME NEW S, IsFiniteSet(S)
  PROVE  HasSmallestSubsets(S)
<1> SUFFICES ASSUME NEW F \in SUBSET (SUBSET S), F # {}
             PROVE  \E A \in F : \A B \in F : B \subseteq A => B = A
  BY DEF HasSmallestSubsets
<1>1. IsWellFoundedOn(StrictSubsetOrdering(S), SUBSET S)
  BY FS_StrictSubsetOrderingWellFounded, FS_FiniteSubsetsOfFinite
<1>2. PICK A \in F : \A B \in F : <<B, A>> \notin StrictSubsetOrdering(S)
  BY <1>1, WFMin
<1>3. ASSUME NEW B \in F, B \subseteq A
      PROVE  B = A
  <2>1. <<B, A>> \in (SUBSET S) \X (SUBSET S)
    OBVIOUS
  <2>2. <<B, A>>[1] = B /\ <<B, A>>[2] = A
    OBVIOUS
  <2>3. QED
    BY <1>2, <1>3, <2>1, <2>2 DEF StrictSubsetOrdering
<1>4. QED
  BY <1>3

(* A finite set of numbers has a greatest and a least. *)
LEMMA HasGreatest ==
  ASSUME NEW S, S \subseteq Int, IsFiniteSet(S), S # {}
  PROVE  \E x \in S : \A y \in S : x >= y
<1> DEFINE Above(p) == {q \in S : q >= p}
           F == {Above(p) : p \in S}
<1>1. HasSmallestSubsets(S)
  BY SmallestSubset
<1>2. F \subseteq SUBSET S /\ F # {}
  OBVIOUS
<1>3. PICK A \in F : \A B \in F : B \subseteq A => B = A
  <2> HIDE DEF F
  <2>1. QED
    BY <1>1, <1>2 DEF HasSmallestSubsets
<1>4. PICK x \in S : A = Above(x)
  BY <1>3
<1>5. ASSUME NEW y \in S, y > x
      PROVE  FALSE
  <2>1. \A q \in S : q >= y => q >= x
    BY <1>5
  <2>2. Above(y) \in F /\ Above(y) \subseteq A
    BY <1>4, <2>1
  <2>3. x \in A /\ x \notin Above(y)
    BY <1>4, <1>5
  <2>4. QED
    BY <1>3, <2>2, <2>3
<1>6. QED
  BY <1>5

LEMMA HasLeast ==
  ASSUME NEW S, S \subseteq Int, IsFiniteSet(S), S # {}
  PROVE  \E x \in S : \A y \in S : x =< y
<1> DEFINE Below(p) == {q \in S : q =< p}
           F == {Below(p) : p \in S}
<1>1. HasSmallestSubsets(S)
  BY SmallestSubset
<1>2. F \subseteq SUBSET S /\ F # {}
  OBVIOUS
<1>3. PICK A \in F : \A B \in F : B \subseteq A => B = A
  <2> HIDE DEF F
  <2>1. QED
    BY <1>1, <1>2 DEF HasSmallestSubsets
<1>4. PICK x \in S : A = Below(x)
  BY <1>3
<1>5. ASSUME NEW y \in S, y < x
      PROVE  FALSE
  <2>1. \A q \in S : q =< y => q =< x
    BY <1>5
  <2>2. Below(y) \in F /\ Below(y) \subseteq A
    BY <1>4, <2>1
  <2>3. x \in A /\ x \notin Below(y)
    BY <1>4, <1>5
  <2>4. QED
    BY <1>3, <2>2, <2>3
<1>6. QED
  BY <1>5

(* What Max and Min of a side of the book are. *)
LEMMA Extremes ==
  ASSUME NEW S \in SUBSET Prices, S # {}
  PROVE  /\ Max(S) \in S /\ \A p \in S : p =< Max(S)
         /\ Min(S) \in S /\ \A p \in S : Min(S) =< p
<1>1. S \subseteq Int
  BY PricesAssumption
<1>2. IsFiniteSet(S)
  BY PricesAssumption, FS_Subset
<1>3. \E x \in S : \A y \in S : x >= y
  BY <1>1, <1>2, HasGreatest
<1>4. \E x \in S : \A y \in S : x =< y
  BY <1>1, <1>2, HasLeast
<1>5. Max(S) \in S /\ \A y \in S : Max(S) >= y
  BY <1>3 DEF Max
<1>6. Min(S) \in S /\ \A y \in S : Min(S) =< y
  BY <1>4 DEF Min
<1>7. QED
  BY <1>1, <1>5, <1>6

(* The top of a book is made of its prices, or zero for an empty side. *)
LEMMA TopType ==
  ASSUME NEW b \in Book
  PROVE  Top(b) \in [bid : Prices \cup {0}, ask : Prices \cup {0}]
BY Extremes DEF Top, BestBid, BestAsk, Book

LEMMA TopOfEmpty == Top(Empty) = NoQuote
BY DEF Top, BestBid, BestAsk, Empty, NoQuote

(* A book whose bids are all below its asks is not crossed. *)
LEMMA SoundIsUncrossed ==
  ASSUME NEW b \in Book, Sound(b)
  PROVE  ~Crossed(b)
<1>1. CASE b.bids # {} /\ b.asks # {}
  <2>1. b.bids \in SUBSET Prices /\ b.asks \in SUBSET Prices
    BY DEF Book
  <2>2. Max(b.bids) \in b.bids /\ Min(b.asks) \in b.asks
    BY <1>1, <2>1, Extremes
  <2>3. Max(b.bids) < Min(b.asks)
    BY <2>2 DEF Sound
  <2>4. Max(b.bids) \in Nat /\ Min(b.asks) \in Nat
    BY <2>1, <2>2, PricesAssumption
  <2>5. QED
    BY <1>1, <2>3, <2>4 DEF Crossed, BestBid, BestAsk
<1>2. CASE b.bids = {} \/ b.asks = {}
  BY <1>2 DEF Crossed
<1>3. QED
  BY <1>1, <1>2

----------------------------------------------------------------------------
(* Messages and books.                                                     *)

LEMMA ApplyType ==
  ASSUME NEW b \in Book, NEW m \in Message
  PROVE  Apply(b, m) \in Book /\ Received(b, m) \in Book
BY DEF Apply, applyLevels, Received, Empty, Book, Message

(* A snapshot replaces a book, and a change turns the venue's book into its
   next one. *)
LEMMA SnapshotGives ==
  ASSUME NEW b \in Book, NEW c \in Book
  PROVE  Snapshot(c) \in Message /\ Received(b, Snapshot(c)) = c
BY DEF Snapshot, Received, Apply, applyLevels, Empty, Message, Book

LEMMA ChangeGives ==
  ASSUME NEW b \in Book, NEW c \in Book
  PROVE  Change(b, c) \in Message /\ Received(b, Change(b, c)) = c
<1>1. Change(b, c) \in Message
  BY DEF Change, Message, Book
<1>2. Received(b, Change(b, c))
        = [bids |-> (b.bids \ (b.bids \ c.bids)) \cup (c.bids \ b.bids),
           asks |-> (b.asks \ (b.asks \ c.asks)) \cup (c.asks \ b.asks)]
  BY DEF Change, Received, Apply, applyLevels
<1>3. /\ (b.bids \ (b.bids \ c.bids)) \cup (c.bids \ b.bids) = c.bids
      /\ (b.asks \ (b.asks \ c.asks)) \cup (c.asks \ b.asks) = c.asks
  OBVIOUS
<1>4. c = [bids |-> c.bids, asks |-> c.asks]
  BY DEF Book
<1>5. QED
  BY <1>1, <1>2, <1>3, <1>4

(* s lists the books from b on, one for each message of q. *)
IsRun(s, b, q) ==
  s = [i \in 0..Len(q) |-> IF i = 0 THEN b ELSE Received(s[i - 1], q[i])]

(* There is one such list: two would differ at a first place. *)
LEMMA OneRun ==
  ASSUME NEW b, NEW q \in Seq(Message), NEW s, NEW r,
         IsRun(s, b, q), IsRun(r, b, q)
  PROVE  s = r
<1> DEFINE D == 0..Len(q)
           C == {i \in D : s[i] # r[i]}
<1>1. Len(q) \in Nat
  OBVIOUS
<1>2. /\ DOMAIN s = D /\ s = [i \in D |-> s[i]]
      /\ \A i \in D : s[i] = IF i = 0 THEN b ELSE Received(s[i - 1], q[i])
  BY DEF IsRun
<1>3. /\ DOMAIN r = D /\ r = [i \in D |-> r[i]]
      /\ \A i \in D : r[i] = IF i = 0 THEN b ELSE Received(r[i - 1], q[i])
  BY DEF IsRun
<1>4. ASSUME C # {}
      PROVE  FALSE
  <2>1. C \subseteq Int /\ IsFiniteSet(C)
    <3>1. IsFiniteSet(D)
      BY <1>1, FS_Interval
    <3>2. C \subseteq D /\ D \subseteq Int
      BY <1>1
    <3> HIDE DEF C, D
    <3>3. QED
      BY <3>1, <3>2, FS_Subset
  <2>2. PICK i \in C : \A j \in C : i =< j
    <3> HIDE DEF C
    <3>1. QED
      BY <1>4, <2>1, HasLeast
  <2>3. i \in D /\ s[i] # r[i]
    BY <2>2
  <2>4. i # 0
    BY <1>2, <1>3, <2>3
  <2>5. i - 1 \in D /\ i - 1 \notin C
    BY <1>1, <2>2, <2>3, <2>4
  <2>6. s[i - 1] = r[i - 1]
    BY <2>5
  <2>7. QED
    BY <1>2, <1>3, <2>3, <2>4, <2>6
<1>5. \A i \in D : s[i] = r[i]
  BY <1>4
<1>6. QED
  BY <1>2, <1>3, <1>5

(* So a list found is the one that BooksToCome names. *)
LEMMA RunIsBooksToCome ==
  ASSUME NEW s, IsRun(s, book, inbox), inbox \in Seq(Message)
  PROVE  BooksToCome = s
<1> DEFINE R(f) == f = [i \in 0..Len(inbox) |->
                          IF i = 0 THEN book ELSE Received(f[i - 1], inbox[i])]
<1>1. R(s)
  BY DEF IsRun
<1>2. R(CHOOSE f : R(f))
  <2> HIDE DEF R
  <2>1. QED
    BY <1>1, Zenon
<1>3. BooksToCome = CHOOSE f : R(f)
  BY DEF BooksToCome
<1>4. IsRun(BooksToCome, book, inbox)
  BY <1>2, <1>3 DEF IsRun
<1>5. QED
  BY <1>4, OneRun

----------------------------------------------------------------------------
(* Types.                                                                  *)

(* What a step does to the strand, to the frames and to the messages. *)
LEMMA PostedStep ==
  ASSUME [Next]_vars
  PROVE  \/ posted' = posted
         \/ posted # <<>> /\ posted' = Tail(posted)
         \/ calling # "none" /\ posted' = Append(posted, calling)
         \/ posted' = posted \o (IF entry = "sent" THEN <<"unsubscribe">> ELSE <<>>)
                             \o <<"flush">>
<1>1. CASE CoreStep
  BY <1>1 DEF CoreStep, Start, subscribeOrderBook, unsubscribeOrderBook, Post, Call
<1>2. CASE IoStep
  BY <1>2 DEF IoStep, RunFlush, RunUnsubscribe, LinkUp, onOrderBookMessage, Resubscribe
<1>3. CASE VenueStep \/ Move \/ LinkDown
  BY <1>3 DEF VenueStep, VenueSubscribe, VenueUnsubscribe, Move, LinkDown, ledger
<1>4. CASE UNCHANGED vars
  BY <1>4 DEF vars, ledger
<1>5. QED
  BY <1>1, <1>2, <1>3, <1>4 DEF Next

LEMMA FramesStep ==
  ASSUME [Next]_vars
  PROVE  \/ frames' = frames
         \/ frames # <<>> /\ frames' = Tail(frames)
         \/ frames' = Append(frames, "subscribe")
         \/ frames' = Append(frames, "unsubscribe")
         \/ frames' = <<>>
<1>1. CASE CoreStep
  BY <1>1 DEF CoreStep, Start, subscribeOrderBook, unsubscribeOrderBook, Post, Call
<1>2. CASE IoStep
  BY <1>2 DEF IoStep, RunFlush, RunUnsubscribe, LinkUp, onOrderBookMessage, Flush,
              FrameQueued
<1>3. CASE VenueStep \/ Move \/ LinkDown
  BY <1>3 DEF VenueStep, VenueSubscribe, VenueUnsubscribe, Move, LinkDown
<1>4. CASE UNCHANGED vars
  BY <1>4 DEF vars
<1>5. QED
  BY <1>1, <1>2, <1>3, <1>4 DEF Next

LEMMA InboxStep ==
  ASSUME [Next]_vars
  PROVE  \/ inbox' = inbox
         \/ inbox # <<>> /\ inbox' = Tail(inbox)
         \/ inbox' = Append(inbox, Snapshot(venueBook))
         \/ venueBook' \in Book /\ inbox' = Append(inbox, Change(venueBook, venueBook'))
         \/ inbox' = <<>>
<1>1. CASE CoreStep
  BY <1>1 DEF CoreStep, Start, subscribeOrderBook, unsubscribeOrderBook, Post, Call
<1>2. CASE IoStep
  BY <1>2 DEF IoStep, RunFlush, RunUnsubscribe, LinkUp, onOrderBookMessage
<1>3. CASE VenueStep \/ Move \/ LinkDown
  BY <1>3 DEF VenueStep, VenueSubscribe, VenueUnsubscribe, Move, LinkDown
<1>4. CASE UNCHANGED vars
  BY <1>4 DEF vars
<1>5. QED
  BY <1>1, <1>2, <1>3, <1>4 DEF Next

(* What onMessage() stores is a book and a quote of the market's prices, and
   the strand and the connection carry only what the handlers put there; what
   counts as sent was sent on a connection that is up. *)
THEOREM TypeCorrect == Spec => []TypeOK
<1> DEFINE Quotes == [bid : Prices \cup {0}, ask : Prices \cup {0}]
           Plain ==
             /\ session \in BOOLEAN /\ up \in BOOLEAN
             /\ book \in Book /\ venueBook \in Book
             /\ quote \in Quotes
             /\ entry \in {"none", "pending", "sent"}
             /\ calling \in {"none", "flush", "unsubscribe"}
             /\ streaming \in BOOLEAN /\ silenced \in BOOLEAN /\ gap \in BOOLEAN
             /\ (entry = "sent" => up) /\ (up => session)
             /\ moves \in Nat /\ lost \in Nat /\ drops \in Nat /\ calls \in Nat
<1>1. Init => TypeOK
  <2> SUFFICES ASSUME Init PROVE TypeOK
    OBVIOUS
  <2>1. venueBook \in Book
    BY OpeningAssumption DEF Init
  <2>2. Empty \in Book /\ NoQuote \in Quotes
    BY DEF Empty, Book, NoQuote
  <2>3. Plain
    <3> HIDE DEF Quotes
    <3>1. QED
      BY <2>1, <2>2 DEF Init
  <2>4. posted = <<>> /\ frames = <<>> /\ inbox = <<>>
    BY DEF Init
  <2>5. /\ posted \in Seq({"flush", "unsubscribe"})
        /\ frames \in Seq({"subscribe", "unsubscribe"})
        /\ inbox \in Seq(Message)
    BY <2>4, EmptySeq
  <2>6. QED
    BY <2>3, <2>5 DEF TypeOK
<1>2. TypeOK /\ [Next]_vars => TypeOK'
  <2> SUFFICES ASSUME TypeOK, [Next]_vars PROVE TypeOK'
    OBVIOUS
  <2>1. Plain
    BY DEF TypeOK
  <2>2. posted \in Seq({"flush", "unsubscribe"})
    BY DEF TypeOK
  <2>3. frames \in Seq({"subscribe", "unsubscribe"})
    BY DEF TypeOK
  <2>4. inbox \in Seq(Message)
    BY DEF TypeOK
  <2>5. Plain'
    <3> USE DEF ledger, venue, counters
    <3> HIDE DEF Quotes
    <3>1. CASE CoreStep
      <4>1. session' \in BOOLEAN /\ (up' => session')
        <5>1. CASE Start \/ subscribeOrderBook
          BY <5>1 DEF Start, subscribeOrderBook, EnsureSession
        <5>2. CASE unsubscribeOrderBook \/ Post
          BY <2>1, <5>2 DEF unsubscribeOrderBook, Post, Call
        <5>3. QED
          BY <3>1, <5>1, <5>2 DEF CoreStep
      <4>2. /\ up' = up
            /\ entry' = entry \/ entry' \in {"none", "pending"}
        BY <3>1 DEF CoreStep, Start, subscribeOrderBook, unsubscribeOrderBook, Post, Call
      <4>3. calling' \in {"none", "flush", "unsubscribe"} /\ calls' \in Nat
        BY <2>1, <3>1 DEF CoreStep, Start, subscribeOrderBook, unsubscribeOrderBook, Post,
                          Call
      <4>4. UNCHANGED <<book, quote, venue, moves, lost, drops>>
        BY <3>1 DEF CoreStep, Start, subscribeOrderBook, unsubscribeOrderBook, Post, Call
      <4>5. entry' \in {"none", "pending", "sent"} /\ (entry' = "sent" => up')
        BY <2>1, <4>2
      <4>6. QED
        BY <2>1, <4>1, <4>2, <4>3, <4>4, <4>5
    <3>2. CASE RunFlush \/ RunUnsubscribe \/ LinkUp
      <4>1. UNCHANGED <<session, book, quote, calling, venue, counters>>
        BY <3>2 DEF RunFlush, RunUnsubscribe, LinkUp
      <4>2. up' \in BOOLEAN /\ (up' => session')
        <5>1. CASE RunFlush \/ RunUnsubscribe
          BY <2>1, <5>1 DEF RunFlush, RunUnsubscribe
        <5>2. CASE LinkUp
          BY <5>2 DEF LinkUp
        <5>3. QED
          BY <3>2, <5>1, <5>2
      <4>3. entry' \in {"none", "pending", "sent"} /\ (entry' = "sent" => up')
        <5>1. CASE RunFlush
          BY <2>1, <5>1 DEF RunFlush, Flush
        <5>2. CASE RunUnsubscribe
          BY <2>1, <5>2 DEF RunUnsubscribe
        <5>3. CASE LinkUp
          BY <2>1, <5>3 DEF LinkUp, Flush
        <5>4. QED
          BY <3>2, <5>1, <5>2, <5>3
      <4>4. QED
        BY <2>1, <4>1, <4>2, <4>3
    <3>3. CASE onOrderBookMessage
      <4>1. Head(inbox) \in Message
        BY <2>4, <3>3 DEF onOrderBookMessage
      <4>2. book' \in Book
        BY <2>1, <3>3, <4>1, ApplyType DEF onOrderBookMessage, Received, Cleared
      <4>3. quote' \in Quotes
        BY <2>1, <3>3, <4>2, TopType DEF onOrderBookMessage, Publish, Quotes
      <4>4. entry' \in {"pending", entry}
        BY <3>3 DEF onOrderBookMessage, Resubscribe
      <4>5. QED
        BY <2>1, <3>3, <4>2, <4>3, <4>4 DEF onOrderBookMessage
    <3>4. CASE VenueSubscribe
      BY <2>1, <3>4 DEF VenueSubscribe
    <3>5. CASE VenueUnsubscribe
      <4>1. streaming' \in BOOLEAN /\ silenced' \in BOOLEAN
        BY <3>5 DEF VenueUnsubscribe
      <4>2. QED
        BY <2>1, <3>5, <4>1 DEF VenueUnsubscribe
    <3>6. CASE Move
      <4>1. /\ venueBook' \in Book
            /\ UNCHANGED <<session, book, quote, up, entry, calling, streaming, silenced,
                           drops, calls>>
        BY <3>6 DEF Move
      <4>2. moves' \in Nat /\ lost' \in Nat
        BY <2>1, <3>6 DEF Move
      <4>3. gap' = gap \/ gap' = TRUE
        BY <3>6 DEF Move
      <4>4. QED
        BY <2>1, <4>1, <4>2, <4>3
    <3>7. CASE LinkDown
      <4>1. /\ up' = FALSE /\ streaming' = FALSE /\ silenced' = FALSE /\ gap' = FALSE
            /\ UNCHANGED <<session, book, quote, calling, venueBook, moves, lost, calls>>
        BY <3>7 DEF LinkDown
      <4>2. drops' \in Nat /\ entry' \in {"none", "pending"}
        BY <2>1, <3>7 DEF LinkDown, Requeued
      <4>3. QED
        BY <2>1, <4>1, <4>2
    <3>8. CASE UNCHANGED vars
      BY <2>1, <3>8 DEF vars
    <3>9. QED
      BY <3>1, <3>2, <3>3, <3>4, <3>5, <3>6, <3>7, <3>8 DEF Next, IoStep, VenueStep
  <2>6. posted' \in Seq({"flush", "unsubscribe"})
    <3>1. calling # "none" => Append(posted, calling) \in Seq({"flush", "unsubscribe"})
      BY <2>1, <2>2, AppendProperties
    <3>2. /\ <<"unsubscribe">> \in Seq({"flush", "unsubscribe"})
          /\ <<"flush">> \in Seq({"flush", "unsubscribe"})
          /\ <<>> \in Seq({"flush", "unsubscribe"})
      OBVIOUS
    <3>3. posted \o (IF entry = "sent" THEN <<"unsubscribe">> ELSE <<>>) \o <<"flush">>
            \in Seq({"flush", "unsubscribe"})
      BY <2>2, <3>2, ConcatProperties
    <3>4. QED
      BY <2>2, <3>1, <3>3, PostedStep, HeadTailProperties
  <2>7. frames' \in Seq({"subscribe", "unsubscribe"})
    <3>1. /\ Append(frames, "subscribe") \in Seq({"subscribe", "unsubscribe"})
          /\ Append(frames, "unsubscribe") \in Seq({"subscribe", "unsubscribe"})
          /\ <<>> \in Seq({"subscribe", "unsubscribe"})
          /\ frames # <<>> => Tail(frames) \in Seq({"subscribe", "unsubscribe"})
      BY <2>3
    <3>2. QED
      BY <2>3, <3>1, FramesStep
  <2>8. inbox' \in Seq(Message)
    <3>1. Snapshot(venueBook) \in Message
      BY <2>1, SnapshotGives
    <3>2. venueBook' \in Book => Change(venueBook, venueBook') \in Message
      BY <2>1, ChangeGives
    <3>3. /\ Append(inbox, Snapshot(venueBook)) \in Seq(Message)
          /\ venueBook' \in Book => Append(inbox, Change(venueBook, venueBook')) \in Seq(Message)
          /\ <<>> \in Seq(Message)
          /\ inbox # <<>> => Tail(inbox) \in Seq(Message)
      BY <2>4, <3>1, <3>2
    <3>4. QED
      BY <2>4, <3>3, InboxStep
  <2>9. QED
    BY <2>5, <2>6, <2>7, <2>8 DEF TypeOK
<1>3. QED
  BY <1>1, <1>2, PTL DEF Spec

----------------------------------------------------------------------------
(* The list of books when a message is sent, and when one is handled.      *)

Longer(s, q, m) == [i \in 0..(Len(q) + 1) |->
                      IF i = Len(q) + 1 THEN Received(s[Len(q)], m) ELSE s[i]]

Shorter(s, q) == [i \in 0..(Len(q) - 1) |-> s[i + 1]]

Alone(b) == [i \in 0..0 |-> b]

LEMMA RunOfLonger ==
  ASSUME NEW b \in Book, NEW q \in Seq(Message), NEW m \in Message,
         NEW s \in [0..Len(q) -> Book], IsRun(s, b, q)
  PROVE  /\ Longer(s, q, m) \in [0..Len(Append(q, m)) -> Book]
         /\ IsRun(Longer(s, q, m), b, Append(q, m))
<1> DEFINE r == Longer(s, q, m)
           a == Append(q, m)
<1>1. Len(q) \in Nat /\ Len(a) = Len(q) + 1
  BY AppendProperties
<1>2. /\ \A i \in 1..Len(q) : a[i] = q[i]
      /\ a[Len(q) + 1] = m
  BY AppendProperties
<1>3. \A i \in 0..Len(q) : s[i] = IF i = 0 THEN b ELSE Received(s[i - 1], q[i])
  BY DEF IsRun
<1>4. Received(s[Len(q)], m) \in Book
  BY <1>1, ApplyType
<1>5. /\ r = [i \in 0..(Len(q) + 1) |-> r[i]]
      /\ r[Len(q) + 1] = Received(s[Len(q)], m)
      /\ \A i \in 0..Len(q) : r[i] = s[i]
  BY <1>1 DEF Longer
<1>6. r \in [0..(Len(q) + 1) -> Book]
  BY <1>1, <1>4, <1>5
<1>7. ASSUME NEW i \in 0..(Len(q) + 1)
      PROVE  r[i] = IF i = 0 THEN b ELSE Received(r[i - 1], a[i])
  <2> HIDE DEF r, a
  <2>1. CASE i = Len(q) + 1
    <3>1. i # 0 /\ i - 1 = Len(q) /\ Len(q) \in 0..Len(q)
      BY <1>1, <2>1
    <3>2. QED
      BY <1>2, <1>5, <2>1, <3>1
  <2>2. CASE i = 0
    <3>1. 0 \in 0..Len(q)
      BY <1>1
    <3>2. QED
      BY <1>3, <1>5, <2>2, <3>1
  <2>3. CASE i \in 1..Len(q)
    <3>1. i \in 0..Len(q) /\ i - 1 \in 0..Len(q) /\ i # 0
      BY <1>1, <2>3
    <3>2. QED
      BY <1>2, <1>3, <1>5, <2>3, <3>1
  <2>4. QED
    BY <1>1, <2>1, <2>2, <2>3
<1>8. r = [i \in 0..(Len(q) + 1) |-> IF i = 0 THEN b ELSE Received(r[i - 1], a[i])]
  <2> HIDE DEF r, a
  <2>1. QED
    BY <1>5, <1>7
<1>9. QED
  BY <1>1, <1>6, <1>8 DEF IsRun

LEMMA RunOfShorter ==
  ASSUME NEW b \in Book, NEW q \in Seq(Message), q # <<>>,
         NEW s \in [0..Len(q) -> Book], IsRun(s, b, q)
  PROVE  /\ s[0] = b
         /\ Shorter(s, q) \in [0..Len(Tail(q)) -> Book]
         /\ IsRun(Shorter(s, q), Received(b, Head(q)), Tail(q))
<1> DEFINE r == Shorter(s, q)
           a == Tail(q)
<1>1. /\ Len(q) \in Nat \ {0} /\ Len(a) = Len(q) - 1
      /\ \A i \in 1..Len(a) : a[i] = q[i + 1]
  BY HeadTailProperties, EmptySeq
<1>2. Head(q) = q[1]
  OBVIOUS
<1>3. \A i \in 0..Len(q) : s[i] = IF i = 0 THEN b ELSE Received(s[i - 1], q[i])
  BY DEF IsRun
<1>4. s[0] = b /\ s[1] = Received(b, q[1])
  <2>1. 0 \in 0..Len(q) /\ 1 \in 0..Len(q) /\ 1 - 1 = 0
    BY <1>1
  <2>2. QED
    BY <1>3, <2>1
<1>5. /\ r = [i \in 0..Len(a) |-> r[i]]
      /\ \A i \in 0..Len(a) : r[i] = s[i + 1]
  BY <1>1 DEF Shorter
<1>6. r \in [0..Len(a) -> Book]
  <2> HIDE DEF r, a
  <2>1. \A i \in 0..Len(a) : i + 1 \in 0..Len(q)
    BY <1>1
  <2>2. QED
    BY <1>5, <2>1
<1>7. ASSUME NEW i \in 0..Len(a)
      PROVE  r[i] = IF i = 0 THEN Received(b, Head(q)) ELSE Received(r[i - 1], a[i])
  <2> HIDE DEF r, a
  <2>1. CASE i = 0
    BY <1>2, <1>4, <1>5, <2>1
  <2>2. CASE i # 0
    <3>1. /\ i \in 1..Len(a) /\ i - 1 \in 0..Len(a) /\ i - 1 + 1 = i
          /\ i + 1 \in 0..Len(q) /\ i + 1 # 0 /\ i + 1 - 1 = i
      BY <1>1, <2>2
    <3>2. r[i] = s[i + 1] /\ r[i - 1] = s[i] /\ a[i] = q[i + 1]
      BY <1>1, <1>5, <3>1
    <3>3. s[i + 1] = Received(s[i], q[i + 1])
      BY <1>3, <3>1
    <3>4. QED
      BY <2>2, <3>2, <3>3
  <2>3. QED
    BY <2>1, <2>2
<1>8. r = [i \in 0..Len(a) |->
             IF i = 0 THEN Received(b, Head(q)) ELSE Received(r[i - 1], a[i])]
  <2> HIDE DEF r, a
  <2>1. QED
    BY <1>5, <1>7
<1>9. QED
  BY <1>4, <1>6, <1>8 DEF IsRun

LEMMA RunOfNone ==
  ASSUME NEW b \in Book
  PROVE  Alone(b) \in [0..Len(<<>>) -> Book] /\ IsRun(Alone(b), b, <<>>)
<1>1. Len(<<>>) = 0 /\ \A i \in 0..0 : i = 0
  OBVIOUS
<1>2. QED
  BY <1>1 DEF Alone, IsRun

----------------------------------------------------------------------------
(* The invariant: the last book to come is the venue's, unless a change was *)
(* lost, and without such a loss every one of them was the venue's once.    *)

EndsAtVenue(s) == streaming /\ ~gap => s[Len(inbox)] = venueBook

AllShown(s) == lost = 0 => \A i \in 0..Len(inbox) :
                             Sound(s[i]) /\ Top(s[i]) \in tops \cup {NoQuote}

BooksArrive == \E s \in [0..Len(inbox) -> Book] :
                 IsRun(s, book, inbox) /\ EndsAtVenue(s) /\ AllShown(s)

VenueSound == /\ Sound(venueBook) /\ Top(venueBook) \in tops
              /\ lost = 0 => ~gap

QuoteOfBook == ~Crossed(book) => quote = Top(book)

BooksInv == BooksArrive /\ VenueSound /\ QuoteOfBook

LEMMA EmptyBook ==
  /\ Empty \in Book /\ Sound(Empty) /\ ~Crossed(Empty)
BY DEF Empty, Book, Sound, Crossed

LEMMA InitBooks ==
  ASSUME Init
  PROVE  BooksInv
<1>1. /\ inbox = <<>> /\ book = Empty /\ quote = NoQuote /\ streaming = FALSE
      /\ venueBook \in Opening /\ tops = {Top(venueBook)} /\ gap = FALSE
  BY DEF Init
<1>2. Sound(venueBook)
  BY <1>1, OpeningAssumption
<1>3. /\ Alone(Empty) \in [0..Len(inbox) -> Book] /\ IsRun(Alone(Empty), book, inbox)
      /\ 0..Len(inbox) = {0} /\ Alone(Empty)[0] = Empty
  BY <1>1, EmptyBook, RunOfNone DEF Alone
<1>4. EndsAtVenue(Alone(Empty)) /\ AllShown(Alone(Empty))
  BY <1>1, <1>3, EmptyBook, TopOfEmpty DEF EndsAtVenue, AllShown
<1>5. BooksArrive
  BY <1>3, <1>4 DEF BooksArrive
<1>6. QED
  BY <1>1, <1>2, <1>5, TopOfEmpty DEF BooksInv, VenueSound, QuoteOfBook

(* Most steps leave the books alone; the venue may stop sending. *)
LEMMA QuietStep ==
  ASSUME BooksInv, UNCHANGED <<book, quote, inbox, venueBook, tops, gap, lost>>,
         streaming' => streaming
  PROVE  BooksInv'
<1>1. PICK s \in [0..Len(inbox) -> Book] :
        IsRun(s, book, inbox) /\ EndsAtVenue(s) /\ AllShown(s)
  BY DEF BooksInv, BooksArrive
<1>2. EndsAtVenue(s)' /\ AllShown(s)'
  BY <1>1 DEF EndsAtVenue, AllShown
<1>3. BooksArrive'
  BY <1>1, <1>2 DEF BooksArrive
<1>4. QED
  BY <1>3 DEF BooksInv, VenueSound, QuoteOfBook

(* A message that brings the venue's book of then. *)
LEMMA SentStep ==
  ASSUME TypeOK, BooksInv, NEW m \in Message, inbox' = Append(inbox, m),
         m = Snapshot(venueBook') \/ (~gap /\ streaming /\ m = Change(venueBook, venueBook')),
         UNCHANGED <<book, quote, lost>>, tops \subseteq tops', lost = 0 => ~gap',
         venueBook' \in Book, Sound(venueBook'), Top(venueBook') \in tops'
  PROVE  BooksInv'
<1>1. PICK s \in [0..Len(inbox) -> Book] :
        IsRun(s, book, inbox) /\ EndsAtVenue(s) /\ AllShown(s)
  BY DEF BooksInv, BooksArrive
<1>2. book \in Book /\ venueBook \in Book
  BY DEF TypeOK
<1>3. inbox \in Seq(Message) /\ Len(inbox) \in Nat /\ Len(inbox') = Len(inbox) + 1
  BY AppendProperties DEF TypeOK
<1>4. PICK r \in [0..Len(inbox') -> Book] : r = Longer(s, inbox, m) /\ IsRun(r, book', inbox')
  BY <1>1, <1>2, <1>3, RunOfLonger
<1>5. /\ r[Len(inbox')] = Received(s[Len(inbox)], m)
      /\ \A i \in 0..Len(inbox) : r[i] = s[i]
  BY <1>3, <1>4 DEF Longer
<1>6. s[Len(inbox)] \in Book
  BY <1>3
<1>7. r[Len(inbox')] = venueBook'
  <2>1. CASE m = Snapshot(venueBook')
    BY <1>5, <1>6, <2>1, SnapshotGives
  <2>2. CASE ~gap /\ streaming /\ m = Change(venueBook, venueBook')
    <3>1. s[Len(inbox)] = venueBook
      BY <1>1, <2>2 DEF EndsAtVenue
    <3>2. QED
      BY <1>2, <1>5, <2>2, <3>1, ChangeGives
  <2>3. QED
    BY <2>1, <2>2
<1>8. AllShown(r)'
  <2> SUFFICES ASSUME lost' = 0, NEW i \in 0..Len(inbox')
               PROVE  Sound(r[i]) /\ Top(r[i]) \in tops' \cup {NoQuote}
    BY DEF AllShown
  <2>1. CASE i = Len(inbox')
    BY <1>7, <2>1
  <2>2. CASE i \in 0..Len(inbox)
    BY <1>1, <1>5, <2>2 DEF AllShown
  <2>3. QED
    BY <1>3, <2>1, <2>2
<1>9. BooksArrive'
  BY <1>4, <1>7, <1>8 DEF BooksArrive, EndsAtVenue
<1>10. QED
  BY <1>9 DEF BooksInv, VenueSound, QuoteOfBook

(* The manager takes the next message: its book is the next of the list. *)
LEMMA HandledStep ==
  ASSUME TypeOK, BooksInv, onOrderBookMessage
  PROVE  BooksInv'
<1>1. PICK s \in [0..Len(inbox) -> Book] :
        IsRun(s, book, inbox) /\ EndsAtVenue(s) /\ AllShown(s)
  BY DEF BooksInv, BooksArrive
<1>2. /\ inbox # <<>> /\ inbox' = Tail(inbox)
      /\ book' = Received(book, Head(inbox))
      /\ UNCHANGED <<venueBook, streaming, gap, tops, lost>>
  BY DEF onOrderBookMessage, Received, Cleared, venue, counters
<1>3. book \in Book /\ inbox \in Seq(Message)
  BY DEF TypeOK
<1>4. PICK r \in [0..Len(inbox') -> Book] : r = Shorter(s, inbox) /\ IsRun(r, book', inbox')
  BY <1>1, <1>2, <1>3, RunOfShorter
<1>5. Len(inbox) \in Nat \ {0} /\ Len(inbox') = Len(inbox) - 1
  BY <1>2, <1>3, HeadTailProperties, EmptySeq
<1>6. \A i \in 0..Len(inbox') : r[i] = s[i + 1] /\ i + 1 \in 0..Len(inbox)
  BY <1>4, <1>5 DEF Shorter
<1>7. r[Len(inbox')] = s[Len(inbox)]
  BY <1>5, <1>6
<1>8. EndsAtVenue(r)'
  BY <1>1, <1>2, <1>7 DEF EndsAtVenue
<1>9. AllShown(r)'
  BY <1>1, <1>2, <1>6 DEF AllShown
<1>10. BooksArrive'
  BY <1>4, <1>8, <1>9 DEF BooksArrive
<1>11. VenueSound'
  BY <1>2 DEF BooksInv, VenueSound
<1>12. QuoteOfBook'
  <2> SUFFICES ASSUME ~Crossed(book') PROVE quote' = Top(book')
    BY DEF QuoteOfBook
  <2>1. QED
    BY DEF onOrderBookMessage, Publish
<1>13. QED
  BY <1>10, <1>11, <1>12 DEF BooksInv

(* The link is lost, and the list ends with the book the manager has. *)
LEMMA LostStep ==
  ASSUME TypeOK, BooksInv, LinkDown
  PROVE  BooksInv'
<1>1. PICK s \in [0..Len(inbox) -> Book] :
        IsRun(s, book, inbox) /\ EndsAtVenue(s) /\ AllShown(s)
  BY DEF BooksInv, BooksArrive
<1>2. /\ inbox' = <<>> /\ streaming' = FALSE /\ gap' = FALSE
      /\ UNCHANGED <<book, quote, venueBook, tops, lost>>
  BY DEF LinkDown
<1>3. book \in Book /\ Len(inbox) \in Nat
  BY DEF TypeOK
<1>4. s[0] = book /\ 0 \in 0..Len(inbox)
  BY <1>1, <1>3 DEF IsRun
<1>5. PICK r \in [0..Len(inbox') -> Book] : r = Alone(book) /\ IsRun(r, book', inbox')
  BY <1>2, <1>3, RunOfNone
<1>6. 0..Len(inbox') = {0} /\ r[0] = book
  BY <1>2, <1>5 DEF Alone
<1>7. EndsAtVenue(r)'
  BY <1>2 DEF EndsAtVenue
<1>8. AllShown(r)'
  BY <1>1, <1>2, <1>4, <1>6 DEF AllShown
<1>9. BooksArrive'
  BY <1>5, <1>7, <1>8 DEF BooksArrive
<1>10. QED
  BY <1>2, <1>9 DEF BooksInv, VenueSound, QuoteOfBook

(* The market moves, unseen, seen, or lost on the way. *)
LEMMA MoveStep ==
  ASSUME TypeOK, BooksInv, Move
  PROVE  BooksInv'
<1>1. PICK s \in [0..Len(inbox) -> Book] :
        IsRun(s, book, inbox) /\ EndsAtVenue(s) /\ AllShown(s)
  BY DEF BooksInv, BooksArrive
<1>2. /\ venueBook' \in Book /\ Sound(venueBook')
      /\ tops' = tops \cup {Top(venueBook')}
      /\ UNCHANGED <<book, quote, streaming>>
  BY DEF Move
<1>3. book \in Book /\ venueBook \in Book /\ lost \in Nat
  BY DEF TypeOK
<1>4. CASE streaming /\ inbox' = Append(inbox, Change(venueBook, venueBook'))
           /\ ~gap /\ UNCHANGED <<gap, lost>>
  <2>1. PICK m \in Message : m = Change(venueBook, venueBook')
    BY <1>2, <1>3, ChangeGives
  <2>2. QED
    BY <1>2, <1>4, <2>1, SentStep
<1>5. CASE gap /\ UNCHANGED <<gap, lost>> /\ streaming
           /\ inbox' = Append(inbox, Change(venueBook, venueBook'))
  <2>1. PICK m \in Message : m = Change(venueBook, venueBook')
    BY <1>2, <1>3, ChangeGives
  <2>2. PICK r \in [0..Len(inbox') -> Book] : IsRun(r, book', inbox')
    <3>1. inbox \in Seq(Message)
      BY DEF TypeOK
    <3>2. QED
      BY <1>1, <1>2, <1>3, <1>5, <2>1, <3>1, RunOfLonger
  <2>3. lost' # 0
    BY <1>5 DEF BooksInv, VenueSound
  <2>4. BooksArrive'
    BY <1>5, <2>2, <2>3 DEF BooksArrive, EndsAtVenue, AllShown
  <2>5. QED
    BY <1>2, <2>3, <2>4 DEF BooksInv, VenueSound, QuoteOfBook
<1>6. CASE (~streaming \/ gap') /\ inbox' = inbox
           /\ ((gap' = gap /\ lost' = lost) \/ lost' = lost + 1)
  <2>1. lost' = 0 => lost = 0 /\ gap' = gap
    BY <1>3, <1>6
  <2>2. EndsAtVenue(s)'
    BY <1>2, <1>6 DEF EndsAtVenue
  <2>3. AllShown(s)'
    BY <1>1, <1>2, <1>6, <2>1 DEF AllShown
  <2>4. BooksArrive'
    BY <1>1, <1>2, <1>6, <2>2, <2>3 DEF BooksArrive
  <2>5. QED
    BY <1>2, <2>1, <2>4 DEF BooksInv, VenueSound, QuoteOfBook
<1>7. QED
  BY <1>4, <1>5, <1>6 DEF Move

LEMMA BooksStep == TypeOK /\ BooksInv /\ [Next]_vars => BooksInv'
<1> SUFFICES ASSUME TypeOK, BooksInv, [Next]_vars PROVE BooksInv'
  OBVIOUS
<1>1. CASE CoreStep
  BY <1>1, QuietStep
  DEF CoreStep, Start, subscribeOrderBook, unsubscribeOrderBook, Post, Call, venue, counters
<1>2. CASE RunFlush \/ RunUnsubscribe \/ LinkUp
  BY <1>2, QuietStep DEF RunFlush, RunUnsubscribe, LinkUp, venue, counters
<1>3. CASE onOrderBookMessage
  BY <1>3, HandledStep
<1>4. CASE VenueSubscribe
  <2>1. UNCHANGED <<book, quote, venueBook, tops, lost>>
    BY <1>4 DEF VenueSubscribe, counters
  <2>2. CASE streaming /\ UNCHANGED <<inbox, gap>>
    BY <2>1, <2>2, QuietStep
  <2>3. CASE inbox' = Append(inbox, Snapshot(venueBook)) /\ gap' = FALSE
    <3>1. venueBook \in Book
      BY DEF TypeOK
    <3>2. PICK m \in Message : m = Snapshot(venueBook)
      BY <3>1, SnapshotGives
    <3>3. Sound(venueBook) /\ Top(venueBook) \in tops
      BY DEF BooksInv, VenueSound
    <3>4. QED
      BY <2>1, <2>3, <3>1, <3>2, <3>3, SentStep
  <2>4. QED
    BY <1>4, <2>2, <2>3 DEF VenueSubscribe
<1>5. CASE VenueUnsubscribe
  BY <1>5, QuietStep DEF VenueUnsubscribe, counters
<1>6. CASE Move
  BY <1>6, MoveStep
<1>7. CASE LinkDown
  BY <1>7, LostStep
<1>8. CASE UNCHANGED vars
  BY <1>8, QuietStep DEF vars, venue, counters
<1>9. QED
  BY <1>1, <1>2, <1>3, <1>4, <1>5, <1>6, <1>7, <1>8 DEF Next, IoStep, VenueStep

(* What onMessage() makes of the messages on their way, one after the other,
   ends with the venue's book; and unless a change was lost, every book on the
   way there is one the venue has shown. *)
THEOREM BooksInvariant == Spec => [](TypeOK /\ BooksInv)
<1>1. Init => BooksInv
  BY InitBooks
<1>2. QED
  BY <1>1, BooksStep, TypeCorrect, PTL DEF Spec

----------------------------------------------------------------------------
(* The safety properties of the runs.                                      *)

LEMMA BookToComeIsLast ==
  ASSUME TypeOK, NEW s, IsRun(s, book, inbox)
  PROVE  BookToCome = s[Len(inbox)]
<1>1. inbox \in Seq(Message)
  BY DEF TypeOK
<1>2. QED
  BY <1>1, RunIsBooksToCome DEF BookToCome

LEMMA ConvergesHolds == TypeOK /\ BooksInv => Converges
<1> SUFFICES ASSUME TypeOK, BooksInv, streaming, ~gap
             PROVE  BookToCome = venueBook
  BY DEF Converges
<1>1. PICK s \in [0..Len(inbox) -> Book] : IsRun(s, book, inbox) /\ EndsAtVenue(s)
  BY DEF BooksInv, BooksArrive
<1>2. QED
  BY <1>1, BookToComeIsLast DEF EndsAtVenue

(* While the venue sends the channel and nothing was lost since its snapshot,
   onMessage() is on its way to the venue's book, whatever the book was left
   with before (applyLevels(), and the clearing before a snapshot). *)
THEOREM BookConverges == Spec => []Converges
BY BooksInvariant, ConvergesHolds, PTL

(* With no message on its way the gateway's cached quote is the top of the
   venue's book: the handler published it, since a book of the venue is never
   crossed. *)
THEOREM QuoteCurrent == Spec => []QuoteIsCurrent
<1>1. TypeOK /\ BooksInv => QuoteIsCurrent
  <2> SUFFICES ASSUME TypeOK, BooksInv, streaming, ~gap, inbox = <<>>
               PROVE  book = venueBook /\ quote = Top(venueBook)
    BY DEF QuoteIsCurrent
  <2>1. PICK s \in [0..Len(inbox) -> Book] : IsRun(s, book, inbox) /\ EndsAtVenue(s)
    BY DEF BooksInv, BooksArrive
  <2>2. Len(inbox) = 0 /\ s[0] = book
    BY <2>1 DEF IsRun
  <2>3. book = venueBook
    BY <2>1, <2>2 DEF EndsAtVenue
  <2>4. book \in Book /\ Sound(book)
    BY <2>3 DEF TypeOK, BooksInv, VenueSound
  <2>5. ~Crossed(book)
    BY <2>4, SoundIsUncrossed
  <2>6. QED
    BY <2>3, <2>5 DEF BooksInv, QuoteOfBook
<1>2. QED
  BY <1>1, BooksInvariant, PTL

(* Unless a change was lost, the quote cached from the manager's callback is
   one the venue had, and the crossed-book alarm of onMessage() never sounds. *)
THEOREM QuoteIsReal == Spec => []NoPhantomQuote
<1>1. TypeOK /\ BooksInv => NoPhantomQuote
  <2> SUFFICES ASSUME TypeOK, BooksInv, lost = 0
               PROVE  quote \in tops \cup {NoQuote} /\ ~Crossed(book)
    BY DEF NoPhantomQuote
  <2>1. PICK s \in [0..Len(inbox) -> Book] : IsRun(s, book, inbox) /\ AllShown(s)
    BY DEF BooksInv, BooksArrive
  <2>2. 0 \in 0..Len(inbox) /\ book \in Book
    BY DEF TypeOK
  <2>3. s[0] = book
    BY <2>1, <2>2 DEF IsRun
  <2>4. Sound(book) /\ Top(book) \in tops \cup {NoQuote}
    BY <2>1, <2>2, <2>3 DEF AllShown
  <2>5. QED
    BY <2>2, <2>4, SoundIsUncrossed DEF BooksInv, QuoteOfBook
<1>2. QED
  BY <1>1, BooksInvariant, PTL
=============================================================================
