---------------------------- MODULE WsVenueProofs ----------------------------
(***************************************************************************)
(* That the venue sends what the session of WsSession has subscribed to:   *)
(* theorems for every value of its constants.  The argument is about the   *)
(* pipe, the frame being written and those queued behind it, in the order  *)
(* in which the venue gets them.                                           *)
(***************************************************************************)
EXTENDS WsSessionProofs

Carried(inFlight) == IF inFlight THEN <<writeBuffer>> ELSE <<>>

Pipe == Carried(writeInFlight) \o outboundQueue

Has(p, f) == \E i \in DOMAIN p : p[i] = f

(* No subscription to ch is the last word on it that the pipe holds. *)
Undone(p, ch) == \A i \in DOMAIN p : p[i] = On("subscribe", ch) =>
                   \E j \in DOMAIN p : j > i /\ p[j] = On("unsubscribe", ch)

(* Once the pipe is empty, a venue that sends subs now will not send ch. *)
GoesOut(p, subs, ch) == /\ ch \in subs => Has(p, On("unsubscribe", ch))
                        /\ Undone(p, ch)

(* It will send ch, if nothing in the pipe unsubscribes it. *)
GoesIn(p, subs, ch) == ch \in subs \/ Has(p, On("subscribe", ch))

----------------------------------------------------------------------------
(* The pipe as a sequence.                                                 *)

LEMMA Frames ==
  ASSUME NEW ch \in Channels
  PROVE  /\ On("subscribe", ch) \in Frame /\ On("unsubscribe", ch) \in Frame
         /\ On("subscribe", ch) # On("unsubscribe", ch)
         /\ On("subscribe", ch).op = "subscribe" /\ On("subscribe", ch).ch = ch
         /\ On("unsubscribe", ch).op = "unsubscribe" /\ On("unsubscribe", ch).ch = ch
         /\ KeepAlive \in Frame /\ KeepAlive.op = "keepalive"
         /\ KeepAlive # On("subscribe", ch) /\ KeepAlive # On("unsubscribe", ch)
BY DEF On, Frame, KeepAlive, Do

LEMMA HasInAppended ==
  ASSUME NEW p \in Seq(Frame), NEW f \in Frame, NEW e \in Frame
  PROVE  Has(Append(p, f), e) <=> Has(p, e) \/ e = f
<1>1. /\ Append(p, f) \in Seq(Frame) /\ Len(p) \in Nat /\ DOMAIN p = 1..Len(p)
      /\ DOMAIN Append(p, f) = 1..(Len(p) + 1)
      /\ \A i \in 1..Len(p) : Append(p, f)[i] = p[i]
      /\ Append(p, f)[Len(p) + 1] = f
  BY AppendProperties, LenProperties
<1>2. ASSUME Has(p, e) \/ e = f PROVE Has(Append(p, f), e)
  BY <1>1, <1>2 DEF Has
<1>3. ASSUME Has(Append(p, f), e) PROVE Has(p, e) \/ e = f
  BY <1>1, <1>3 DEF Has
<1>4. QED
  BY <1>2, <1>3

LEMMA HasInJoined ==
  ASSUME NEW p \in Seq(Frame), NEW q \in Seq(Frame), NEW e
  PROVE  Has(p \o q, e) <=> Has(p, e) \/ Has(q, e)
<1>1. /\ p \o q \in Seq(Frame) /\ Len(p) \in Nat /\ Len(q) \in Nat
      /\ DOMAIN p = 1..Len(p) /\ DOMAIN q = 1..Len(q)
      /\ DOMAIN (p \o q) = 1..(Len(p) + Len(q))
      /\ \A i \in 1..(Len(p) + Len(q)) :
           (p \o q)[i] = IF i <= Len(p) THEN p[i] ELSE q[i - Len(p)]
  BY ConcatProperties, LenProperties
<1>2. ASSUME Has(p, e) PROVE Has(p \o q, e)
  BY <1>1, <1>2 DEF Has
<1>3. ASSUME Has(q, e) PROVE Has(p \o q, e)
  <2>1. PICK j \in 1..Len(q) : q[j] = e
    BY <1>1, <1>3 DEF Has
  <2>2. /\ j + Len(p) \in 1..(Len(p) + Len(q)) /\ ~(j + Len(p) <= Len(p))
        /\ j + Len(p) - Len(p) = j
    BY <1>1
  <2>3. (p \o q)[j + Len(p)] = e
    BY <1>1, <2>1, <2>2
  <2>4. QED
    BY <1>1, <2>2, <2>3 DEF Has
<1>4. ASSUME Has(p \o q, e) PROVE Has(p, e) \/ Has(q, e)
  <2>1. PICK i \in 1..(Len(p) + Len(q)) : (p \o q)[i] = e
    BY <1>1, <1>4 DEF Has
  <2>2. CASE i <= Len(p)
    BY <1>1, <2>1, <2>2 DEF Has
  <2>3. CASE ~(i <= Len(p))
    <3>1. i - Len(p) \in 1..Len(q) /\ q[i - Len(p)] = e
      BY <1>1, <2>1, <2>3
    <3>2. QED
      BY <1>1, <3>1 DEF Has
  <2>4. QED
    BY <2>2, <2>3
<1>5. QED
  BY <1>2, <1>3, <1>4

LEMMA HasInTail ==
  ASSUME NEW p \in Seq(Frame), p # <<>>, NEW e
  PROVE  /\ Has(p, e) => Head(p) = e \/ Has(Tail(p), e)
         /\ Has(Tail(p), e) => Has(p, e)
<1>1. /\ Tail(p) \in Seq(Frame) /\ Len(p) \in Nat /\ DOMAIN p = 1..Len(p)
      /\ DOMAIN Tail(p) = 1..(Len(p) - 1) /\ Head(p) = p[1]
      /\ \A i \in 1..(Len(p) - 1) : Tail(p)[i] = p[i + 1]
  BY HeadTailProperties, LenProperties
<1>2. ASSUME NEW i \in DOMAIN p, p[i] = e, i # 1 PROVE Has(Tail(p), e)
  <2>1. i - 1 \in 1..(Len(p) - 1) /\ i - 1 + 1 = i
    BY <1>1, <1>2
  <2>2. Tail(p)[i - 1] = e
    BY <1>1, <1>2, <2>1
  <2>3. QED
    BY <1>1, <2>1, <2>2 DEF Has
<1>3. ASSUME NEW i \in DOMAIN Tail(p), Tail(p)[i] = e PROVE Has(p, e)
  <2>1. i + 1 \in 1..Len(p) /\ p[i + 1] = e
    BY <1>1, <1>3
  <2>2. QED
    BY <1>1, <2>1 DEF Has
<1>4. QED
  BY <1>1, <1>2, <1>3 DEF Has

(* A frame that does not subscribe ch leaves its undoing in place, and one
   that unsubscribes it undoes all before. *)
LEMMA OutAfterAppend ==
  ASSUME NEW p \in Seq(Frame), NEW f \in Frame, NEW ch \in Channels, NEW subs,
         f # On("subscribe", ch)
  PROVE  /\ GoesOut(p, subs, ch) => GoesOut(Append(p, f), subs, ch)
         /\ f = On("unsubscribe", ch) => GoesOut(Append(p, f), subs, ch)
<1>1. /\ Append(p, f) \in Seq(Frame) /\ Len(p) \in Nat /\ DOMAIN p = 1..Len(p)
      /\ DOMAIN Append(p, f) = 1..(Len(p) + 1)
      /\ \A i \in 1..Len(p) : Append(p, f)[i] = p[i]
      /\ Append(p, f)[Len(p) + 1] = f
  BY AppendProperties, LenProperties
<1>2. ASSUME NEW i \in DOMAIN Append(p, f), Append(p, f)[i] = On("subscribe", ch)
      PROVE  i \in DOMAIN p /\ p[i] = On("subscribe", ch)
  BY <1>1, <1>2
<1>3. ASSUME Undone(p, ch) PROVE Undone(Append(p, f), ch)
  <2> SUFFICES ASSUME NEW i \in DOMAIN Append(p, f),
                      Append(p, f)[i] = On("subscribe", ch)
               PROVE  \E j \in DOMAIN Append(p, f) :
                        j > i /\ Append(p, f)[j] = On("unsubscribe", ch)
    BY DEF Undone
  <2>1. PICK j \in DOMAIN p : j > i /\ p[j] = On("unsubscribe", ch)
    BY <1>2, <1>3 DEF Undone
  <2>2. j \in DOMAIN Append(p, f) /\ Append(p, f)[j] = p[j]
    BY <1>1, <2>1
  <2>3. QED
    BY <2>1, <2>2
<1>4. ASSUME f = On("unsubscribe", ch) PROVE Undone(Append(p, f), ch)
  <2> SUFFICES ASSUME NEW i \in DOMAIN Append(p, f),
                      Append(p, f)[i] = On("subscribe", ch)
               PROVE  \E j \in DOMAIN Append(p, f) :
                        j > i /\ Append(p, f)[j] = On("unsubscribe", ch)
    BY DEF Undone
  <2>1. i \in 1..Len(p)
    BY <1>1, <1>2
  <2>2. Len(p) + 1 > i /\ Len(p) + 1 \in DOMAIN Append(p, f)
    BY <1>1, <2>1
  <2>3. QED
    BY <1>1, <1>4, <2>2
<1>5. Has(p, On("unsubscribe", ch)) \/ f = On("unsubscribe", ch)
        => Has(Append(p, f), On("unsubscribe", ch))
  BY Frames, HasInAppended
<1>6. QED
  BY <1>3, <1>4, <1>5 DEF GoesOut

(* So do frames that subscribe other channels. *)
LEMMA OutAfterJoin ==
  ASSUME NEW p \in Seq(Frame), NEW q \in Seq(Frame), NEW ch \in Channels, NEW subs,
         ~Has(q, On("subscribe", ch)), GoesOut(p, subs, ch)
  PROVE  GoesOut(p \o q, subs, ch)
<1>1. /\ p \o q \in Seq(Frame) /\ Len(p) \in Nat /\ Len(q) \in Nat
      /\ DOMAIN p = 1..Len(p) /\ DOMAIN q = 1..Len(q)
      /\ DOMAIN (p \o q) = 1..(Len(p) + Len(q))
      /\ \A i \in 1..(Len(p) + Len(q)) :
           (p \o q)[i] = IF i <= Len(p) THEN p[i] ELSE q[i - Len(p)]
  BY ConcatProperties, LenProperties
<1>2. Undone(p \o q, ch)
  <2> SUFFICES ASSUME NEW i \in DOMAIN (p \o q), (p \o q)[i] = On("subscribe", ch)
               PROVE  \E j \in DOMAIN (p \o q) :
                        j > i /\ (p \o q)[j] = On("unsubscribe", ch)
    BY DEF Undone
  <2>1. i \in DOMAIN p /\ p[i] = On("subscribe", ch)
    <3>1. CASE i <= Len(p)
      BY <1>1, <3>1
    <3>2. CASE ~(i <= Len(p))
      <4>1. i - Len(p) \in DOMAIN q /\ q[i - Len(p)] = On("subscribe", ch)
        BY <1>1, <3>2
      <4>2. QED
        BY <4>1 DEF Has
    <3>3. QED
      BY <3>1, <3>2
  <2>2. PICK j \in DOMAIN p : j > i /\ p[j] = On("unsubscribe", ch)
    BY <2>1 DEF GoesOut, Undone
  <2>3. j \in DOMAIN (p \o q) /\ (p \o q)[j] = p[j]
    BY <1>1, <2>2
  <2>4. QED
    BY <2>2, <2>3
<1>3. QED
  BY <1>2, HasInJoined DEF GoesOut

(* The venue takes the first frame of the pipe. *)
LEMMA OutAfterDelivery ==
  ASSUME NEW p \in Seq(Frame), p # <<>>, NEW ch \in Channels,
         NEW subs \in SUBSET Channels, GoesOut(p, subs, ch)
  PROVE  GoesOut(Tail(p), Deliver(Head(p), subs), ch)
<1>1. /\ Tail(p) \in Seq(Frame) /\ Len(p) \in Nat \ {0} /\ DOMAIN p = 1..Len(p)
      /\ DOMAIN Tail(p) = 1..(Len(p) - 1) /\ Head(p) = p[1]
      /\ \A i \in 1..(Len(p) - 1) : Tail(p)[i] = p[i + 1]
  BY HeadTailProperties, LenProperties, EmptySeq
<1>2. Undone(Tail(p), ch)
  <2> SUFFICES ASSUME NEW i \in DOMAIN Tail(p), Tail(p)[i] = On("subscribe", ch)
               PROVE  \E j \in DOMAIN Tail(p) :
                        j > i /\ Tail(p)[j] = On("unsubscribe", ch)
    BY DEF Undone
  <2>1. i + 1 \in DOMAIN p /\ p[i + 1] = On("subscribe", ch)
    BY <1>1
  <2>2. PICK j \in DOMAIN p : j > i + 1 /\ p[j] = On("unsubscribe", ch)
    BY <2>1 DEF GoesOut, Undone
  <2>3. j - 1 \in DOMAIN Tail(p) /\ j - 1 > i /\ j - 1 + 1 = j
    BY <1>1, <2>1, <2>2
  <2>4. Tail(p)[j - 1] = p[j]
    BY <1>1, <2>3
  <2>5. QED
    BY <2>2, <2>3, <2>4
<1>3. ASSUME ch \in Deliver(Head(p), subs)
      PROVE  Has(Tail(p), On("unsubscribe", ch))
  <2>1. CASE Head(p) = On("subscribe", ch)
    <3>1. 1 \in DOMAIN p /\ p[1] = On("subscribe", ch)
      BY <1>1, <2>1
    <3>2. PICK j \in DOMAIN p : j > 1 /\ p[j] = On("unsubscribe", ch)
      BY <3>1 DEF GoesOut, Undone
    <3>3. j - 1 \in DOMAIN Tail(p) /\ j - 1 + 1 = j
      BY <1>1, <3>2
    <3>4. Tail(p)[j - 1] = p[j]
      BY <1>1, <3>3
    <3>5. QED
      BY <3>2, <3>3, <3>4 DEF Has
  <2>2. CASE Head(p) # On("subscribe", ch)
    <3>1. Head(p) \in Frame
      BY <1>1
    <3>2. ch \in subs /\ Head(p) # On("unsubscribe", ch)
      BY <1>3, <2>2, <3>1, Frames DEF Deliver, Frame, On
    <3>3. Has(p, On("unsubscribe", ch))
      BY <3>2 DEF GoesOut
    <3>4. QED
      BY <3>2, <3>3, HasInTail
  <2>3. QED
    BY <2>1, <2>2
<1>4. QED
  BY <1>2, <1>3 DEF GoesOut

LEMMA InAfterDelivery ==
  ASSUME NEW p \in Seq(Frame), p # <<>>, NEW ch \in Channels,
         NEW subs \in SUBSET Channels, GoesIn(p, subs, ch),
         Head(p) # On("unsubscribe", ch)
  PROVE  GoesIn(Tail(p), Deliver(Head(p), subs), ch)
<1>1. Head(p) \in Frame
  BY HeadTailProperties
<1>2. CASE Head(p) = On("subscribe", ch)
  BY <1>2, Frames DEF Deliver, GoesIn
<1>3. CASE Head(p) # On("subscribe", ch)
  <2>1. CASE ch \in subs
    <3>1. ch \in Deliver(Head(p), subs)
      BY <1>1, <2>1 DEF Deliver, Frame, On
    <3>2. QED
      BY <3>1 DEF GoesIn
  <2>2. CASE Has(p, On("subscribe", ch))
    BY <1>3, <2>2, HasInTail DEF GoesIn
  <2>3. QED
    BY <2>1, <2>2 DEF GoesIn
<1>4. QED
  BY <1>2, <1>3

----------------------------------------------------------------------------
(* What the handlers do to the pipe.                                       *)

LEMMA PipeType ==
  ASSUME TypeOK
  PROVE  /\ Pipe \in Seq(Frame)
         /\ \A f \in BOOLEAN : Carried(f) \in Seq(Frame)
BY ConcatProperties DEF Pipe, Carried, TypeOK

(* pump() moves frames on, and leaves the pipe as it was. *)
LEMMA PumpPipe ==
  ASSUME TypeOK, NEW q \in Seq(Frame), NEW f \in BOOLEAN, NEW n, Pump(q, f, n)
  PROVE  Pipe' = Carried(f) \o q
<1>1. CASE MayWrite(f) /\ q # <<>>
  <2>1. /\ writeInFlight' = TRUE /\ writeBuffer' = Head(q) /\ outboundQueue' = Tail(q)
        /\ ~f
    BY <1>1 DEF Pump, MayWrite
  <2>2. Pipe' = <<Head(q)>> \o Tail(q)
    BY <2>1 DEF Pipe, Carried
  <2>3. q = <<Head(q)>> \o Tail(q)
    BY <1>1
  <2>4. Carried(f) \o q = q
    BY <2>1, ConcatEmptySeq DEF Carried
  <2>5. QED
    BY <2>2, <2>3, <2>4
<1>2. CASE ~(MayWrite(f) /\ q # <<>>)
  <2>1. writeInFlight' = f /\ outboundQueue' = q /\ writeBuffer' = writeBuffer
    BY <1>2 DEF Pump
  <2>2. QED
    BY <2>1 DEF Pipe, Carried
<1>3. QED
  BY <1>1, <1>2

LEMMA AppendPipe ==
  ASSUME TypeOK, NEW f \in Frame,
         Pump(Append(outboundQueue, f), writeInFlight, writes)
  PROVE  Pipe' = Append(Pipe, f)
<1>1. outboundQueue \in Seq(Frame) /\ writeInFlight \in BOOLEAN
  BY DEF TypeOK
<1>2. Append(outboundQueue, f) \in Seq(Frame)
  BY <1>1, AppendProperties
<1>3. Pipe' = Carried(writeInFlight) \o Append(outboundQueue, f)
  BY <1>1, <1>2, PumpPipe
<1>4. Carried(writeInFlight) \in Seq(Frame) /\ Pipe \in Seq(Frame) /\ <<f>> \in Seq(Frame)
  BY <1>1, PipeType
<1>5. Carried(writeInFlight) \o (outboundQueue \o <<f>>) = Pipe \o <<f>>
  BY <1>1, <1>4, ConcatAssociative DEF Pipe
<1>6. QED
  BY <1>1, <1>3, <1>4, <1>5, AppendIsConcat

(* Each pending channel has its frame. *)
LEMMA OrderCovers ==
  ASSUME NEW S \in SUBSET Channels, NEW order \in SetToSeqs(S)
  PROVE  /\ \A ch \in S : \E i \in DOMAIN order : order[i] = ch
         /\ \A i \in DOMAIN order : order[i] \in S
<1> DEFINE D == 1..Cardinality(S)
<1>1. IsFiniteSet(S) /\ Cardinality(S) \in Nat
  BY ChannelsAssumption, FS_Subset, FS_CardinalityType
<1>2. order \in [D -> S] /\ \A i, j \in D : i # j => order[i] # order[j]
  BY DEF SetToSeqs
<1>3. order \in Injection(D, S)
  BY <1>2 DEF Injection, IsInjective
<1>4. Cardinality(D) = Cardinality(S)
  <2>1. Cardinality(D) = IF 1 > Cardinality(S) THEN 0 ELSE Cardinality(S) - 1 + 1
    BY <1>1, FS_Interval
  <2>2. QED
    BY <1>1, <2>1
<1>5. order \in Surjection(D, S)
  <2> HIDE DEF D
  <2>1. QED
    BY <1>1, <1>3, <1>4, FS_Injection
<1>6. QED
  BY <1>2, <1>5 DEF Surjection

LEMMA FlushPipe ==
  ASSUME TypeOK, NEW r, FlushTopics(r), connected, r
  PROVE  /\ subscriptions' = subscriptions \cup pendingTopics
         /\ pendingTopics' = {}
         /\ \E q \in Seq(Frame) :
              /\ Pipe' = Pipe \o q
              /\ \A i \in DOMAIN q : q[i].op = "subscribe"
              /\ \A ch \in Channels : Has(q, On("subscribe", ch)) <=> ch \in pendingTopics
<1>1. PICK order \in SetToSeqs(pendingTopics) :
        /\ subscriptions' = subscriptions \cup pendingTopics
        /\ pendingTopics' = {}
        /\ Pump(outboundQueue \o [i \in DOMAIN order |-> On("subscribe", order[i])],
                writeInFlight, writes)
  BY DEF FlushTopics, MayFlush
<1> DEFINE q == [i \in DOMAIN order |-> On("subscribe", order[i])]
<1>2. q \in Seq(Frame)
  BY SubscribeFramesType DEF TypeOK
<1>3. outboundQueue \in Seq(Frame) /\ writeInFlight \in BOOLEAN
  BY DEF TypeOK
<1>4. Pipe' = Pipe \o q
  <2> HIDE DEF q
  <2>1. outboundQueue \o q \in Seq(Frame)
    BY <1>2, <1>3, ConcatProperties
  <2>2. Pump(outboundQueue \o q, writeInFlight, writes)
    BY <1>1 DEF q
  <2>3. Pipe' = Carried(writeInFlight) \o (outboundQueue \o q)
    BY <1>3, <2>1, <2>2, PumpPipe
  <2>4. Carried(writeInFlight) \in Seq(Frame)
    BY <1>3, PipeType
  <2>5. QED
    BY <1>2, <1>3, <2>3, <2>4, ConcatAssociative DEF Pipe
<1>5. \A i \in DOMAIN q : q[i].op = "subscribe" /\ q[i].ch = order[i]
  BY DEF On
<1>6. ASSUME NEW ch \in Channels
      PROVE  Has(q, On("subscribe", ch)) <=> ch \in pendingTopics
  <2>1. /\ \A c \in pendingTopics : \E i \in DOMAIN order : order[i] = c
        /\ \A i \in DOMAIN order : order[i] \in pendingTopics
    BY OrderCovers DEF TypeOK
  <2>2. DOMAIN q = DOMAIN order
    OBVIOUS
  <2>3. \A i \in DOMAIN q : q[i] = On("subscribe", ch) <=> order[i] = ch
    BY <1>5, Frames DEF On
  <2> HIDE DEF q
  <2>4. QED
    BY <2>1, <2>2, <2>3 DEF Has
<1>7. QED
  BY <1>1, <1>2, <1>4, <1>5, <1>6

----------------------------------------------------------------------------
(* The invariant.                                                          *)

Up == connected /\ ready

Live == Up /\ ~userClosed /\ sock = "open"

(* A task is on the strand, or a caller is about to post it. *)
Owed(task) == \/ \E i \in DOMAIN posted : posted[i] = task
              \/ \E t \in Callers : calling[t] = task

(* Without a connection there is no open socket, but for the connect chain. *)
SocketGone == ~userClosed /\ ~connected /\ chain = "idle" => sock # "open"

(* What is pending will be flushed. *)
FlushOwed == ~userClosed /\ Up /\ pendingTopics # {} => Owed(Do("flush"))

(* The venue of a connection not yet greeted has no subscription, and none
   is on its way. *)
SilentBeforeGreeting == ~userClosed /\ ~Up => venueSubs = {} /\ NoSubscribe(Pipe)

(* Only order books are unsubscribed. *)
OnlyBooksDropped ==
  ~userClosed => \A ch \in Channels :
    Owed(On("unsubscribe", ch)) \/ Has(Pipe, On("unsubscribe", ch)) => ch \in Books

(* A channel that was given up will be unsubscribed, or goes out. *)
DroppedGoOut ==
  Live => \A ch \in Channels \ subscriptions :
            Owed(On("unsubscribe", ch)) \/ GoesOut(Pipe, venueSubs, ch)

(* A channel that counts as sent, and is never given up, goes in. *)
SentGoIn ==
  Live => \A ch \in subscriptions \ Books : GoesIn(Pipe, venueSubs, ch)

VenueInv == /\ SocketGone /\ FlushOwed /\ SilentBeforeGreeting
            /\ OnlyBooksDropped /\ DroppedGoOut /\ SentGoIn

----------------------------------------------------------------------------
(* The kinds of steps, by what becomes of the pipe, of what the venue sends *)
(* and of what counts as sent.                                             *)

Lasts == (Up' <=> Up) /\ (Live' => Live)

Lost == /\ ~Up' /\ venueSubs' = {}
        /\ Pipe' = <<>> \/ (Pipe' = Pipe /\ ~Up)

Shaken == (Up' <=> Up) /\ ~Live' /\ Pipe' = Pipe /\ venueSubs' = {}

Same == Lasts /\ Pipe' = Pipe /\ venueSubs' = venueSubs /\ subscriptions' = subscriptions

Dropped(ch) == /\ Lasts /\ Pipe' = Pipe /\ venueSubs' = venueSubs
               /\ subscriptions' = subscriptions \ {ch}

Appended(f) == /\ Lasts /\ Pipe' = Append(Pipe, f)
               /\ venueSubs' = venueSubs /\ subscriptions' = subscriptions

Flushed == /\ Up' /\ sock' = sock /\ venueSubs' = venueSubs
           /\ subscriptions' = subscriptions \cup pendingTopics
           /\ \E q \in Seq(Frame) :
                /\ Pipe' = Pipe \o q
                /\ \A i \in DOMAIN q : q[i].op = "subscribe"
                /\ \A ch \in Channels : Has(q, On("subscribe", ch)) <=> ch \in pendingTopics

Written == /\ Lasts /\ subscriptions' = subscriptions
           /\ Pipe # <<>> /\ Pipe' = Tail(Pipe)
           /\ \/ venueSubs' = Deliver(Head(Pipe), venueSubs)
              \/ venueSubs' = venueSubs /\ ~Live'

LEMMA LastsIf ==
  ASSUME UNCHANGED <<connected, ready, userClosed, sock>>
  PROVE  Lasts
BY DEF Lasts, Up, Live

LEMMA PipeKept ==
  ASSUME UNCHANGED <<outboundQueue, writeInFlight, writeBuffer>>
  PROVE  Pipe' = Pipe
BY DEF Pipe, Carried

(* handleError() loses the connection, or had nothing to lose. *)
LEMMA HandleErrorKind ==
  ASSUME TypeOK, SessionInv, ~userClosed', NEW f \in BOOLEAN, NEW p, f => writeInFlight,
         HandleError(generation, f, p)
  PROVE  Lost \/ Same
<1>0. userClosed' = userClosed /\ writeBuffer' = writeBuffer
  BY DEF HandleError
<1>1. CASE reconnectScheduled
  <2>1. ~connected /\ ~writeInFlight /\ ~f
    BY <1>1 DEF SessionInv, DownWhileConnecting
  <2>2. writeInFlight \in BOOLEAN
    BY DEF TypeOK
  <2>3. UNCHANGED <<connected, ready, subscriptions, outboundQueue, sock, venueSubs>>
        /\ writeInFlight' = f
    BY <1>1 DEF HandleError, Ignored, topics
  <2>4. writeInFlight' = writeInFlight
    BY <2>1, <2>2, <2>3
  <2>5. QED
    BY <1>0, <2>3, <2>4, LastsIf, PipeKept DEF Same
<1>2. CASE ~reconnectScheduled
  <2>1. /\ connected' = FALSE /\ writeInFlight' = FALSE /\ outboundQueue' = <<>>
        /\ venueSubs' = {}
    BY <1>0, <1>2 DEF HandleError, Ignored, Current, CloseSocket
  <2>2. Pipe' = <<>>
    BY <2>1, ConcatEmptySeq, EmptySeq DEF Pipe, Carried
  <2>3. ~Up'
    BY <2>1 DEF Up
  <2>4. QED
    BY <2>1, <2>2, <2>3 DEF Lost
<1>3. QED
  BY <1>1, <1>2

(* startConnect() runs only when the connection is down. *)
LEMMA StartConnectKind ==
  ASSUME TypeOK, SessionInv, ~userClosed', StartConnect, ~connected
  PROVE  Lost
<1>1. userClosed' = userClosed
  BY DEF StartConnect
<1>2. /\ connected' = FALSE /\ writeInFlight' = FALSE /\ venueSubs' = {}
      /\ UNCHANGED <<outboundQueue, writeBuffer>>
  BY <1>1 DEF StartConnect, MayConnect
<1>3. writeInFlight = FALSE
  BY DEF SessionInv, DownWhileConnecting, TypeOK
<1>4. Pipe' = Pipe
  BY <1>2, <1>3, PipeKept
<1>5. ~Up /\ ~Up'
  BY <1>2 DEF Up
<1>6. QED
  BY <1>2, <1>4, <1>5 DEF Lost

(* flushTopics(), of a connection greeted before or just now. *)
LEMMA FlushKind ==
  ASSUME TypeOK, NEW r, FlushTopics(r), r => ready', r \/ UNCHANGED ready,
         UNCHANGED <<connected, userClosed, sock, venueSubs>>
  PROVE  Flushed \/ Same
<1>1. CASE connected /\ r
  BY <1>1, FlushPipe DEF Flushed, Up
<1>2. CASE ~(connected /\ r)
  <2>1. UNCHANGED <<subscriptions, outboundQueue, writeInFlight, writeBuffer>>
    BY <1>2 DEF FlushTopics, MayFlush, topics, pumpVars
  <2>2. CASE ~connected
    BY <2>1, <2>2, PipeKept DEF Same, Lasts, Up, Live
  <2>3. CASE UNCHANGED ready
    BY <2>1, <2>3, PipeKept, LastsIf DEF Same
  <2>4. QED
    BY <1>2, <2>2, <2>3
<1>3. QED
  BY <1>1, <1>2

(* A frame is put behind the others. *)
LEMMA AppendKind ==
  ASSUME TypeOK, NEW f \in Frame,
         Pump(Append(outboundQueue, f), writeInFlight, writes),
         UNCHANGED <<connected, ready, userClosed, sock, venueSubs, subscriptions>>
  PROVE  Appended(f)
BY AppendPipe, LastsIf DEF Appended

(* unsubscribe()'s task puts its frame behind the others, unless the
   connection is down. *)
LEMMA RunUnsubscribeKind ==
  ASSUME TypeOK, RunUnsubscribe
  PROVE  /\ posted # <<>> /\ Head(posted) \in Task /\ Head(posted).op = "unsubscribe"
         /\ posted' = Tail(posted) /\ calling' = calling
         /\ UNCHANGED <<pendingTopics, connected, ready, userClosed, sock, chain>>
         /\ \/ Appended(On("unsubscribe", Head(posted).ch))
            \/ ~Up' /\ Same
<1>1. /\ posted # <<>> /\ Head(posted).op = "unsubscribe" /\ posted' = Tail(posted)
      /\ UNCHANGED <<connected, ready, userClosed, sock, venueSubs, subscriptions,
                     pendingTopics, calling, chain>>
  BY DEF RunUnsubscribe, NextTask, link, topics, transport, venue
<1>2. Head(posted) \in Task
  BY <1>1, HeadTailProperties DEF TypeOK
<1>3. On("unsubscribe", Head(posted).ch) \in Frame
  BY <1>1, <1>2 DEF Task, Frame, On
<1>4. CASE connected
  <2>1. Pump(Append(outboundQueue, On("unsubscribe", Head(posted).ch)),
             writeInFlight, writes)
    BY <1>4 DEF RunUnsubscribe
  <2>2. QED
    BY <1>1, <1>2, <1>3, <2>1, AppendKind
<1>5. CASE ~connected
  <2>1. UNCHANGED <<outboundQueue, writeInFlight, writeBuffer>>
    BY <1>5 DEF RunUnsubscribe, pumpVars
  <2>2. Same
    BY <1>1, <2>1, PipeKept, LastsIf DEF Same
  <2>3. ~Up'
    BY <1>1, <1>5 DEF Up
  <2>4. QED
    BY <1>1, <1>2, <2>2, <2>3
<1>6. QED
  BY <1>4, <1>5

(* A write that succeeds hands the first frame of the pipe to the venue. *)
LEMMA WriteKind ==
  ASSUME TypeOK, SessionInv, SocketGone, ~userClosed, generation \in Gens,
         OnWriteOk(generation)
  PROVE  Written \/ Same
<1>1. /\ writes[generation] > 0
      /\ UNCHANGED <<connected, ready, userClosed, sock, subscriptions>>
      /\ venueSubs' = IF sock = "open" THEN Deliver(writeBuffer, venueSubs) ELSE venueSubs
      /\ Pump(outboundQueue, FALSE, WriteDone(generation))
  BY DEF OnWriteOk, Current, PumpNext, link, topics, transport
<1>2. outboundQueue \in Seq(Frame) /\ writeBuffer \in Frame
  BY DEF TypeOK
<1>3. Pipe' = outboundQueue
  <2>1. Pipe' = Carried(FALSE) \o outboundQueue
    BY <1>1, <1>2, PumpPipe
  <2>2. QED
    BY <1>2, <2>1, ConcatEmptySeq DEF Carried
<1>4. Lasts
  BY <1>1, LastsIf
<1>5. CASE connected
  <2>1. writeInFlight
    BY <1>1, <1>5 DEF SessionInv, OneWrite, TypeOK
  <2>2. Pipe = <<writeBuffer>> \o outboundQueue
    BY <2>1 DEF Pipe, Carried
  <2>3. Pipe # <<>> /\ Head(Pipe) = writeBuffer /\ Tail(Pipe) = outboundQueue
    BY <1>2, <2>2
  <2>4. venueSubs' = Deliver(Head(Pipe), venueSubs) \/ (venueSubs' = venueSubs /\ ~Live')
    <3>1. CASE sock = "open"
      BY <1>1, <2>3, <3>1
    <3>2. CASE sock # "open"
      BY <1>1, <3>2 DEF Live
    <3>3. QED
      BY <3>1, <3>2
  <2>5. QED
    BY <1>1, <1>3, <1>4, <2>3, <2>4 DEF Written
<1>6. CASE ~connected
  <2>1. chain = "idle"
    BY <1>1 DEF SessionInv, NothingAhead
  <2>2. venueSubs' = venueSubs
    BY <1>1, <1>6, <2>1 DEF SocketGone
  <2>3. ~writeInFlight
    BY <1>6 DEF SessionInv, DownWhileConnecting
  <2>4. Pipe' = Pipe
    BY <1>2, <1>3, <2>3, ConcatEmptySeq DEF Pipe, Carried
  <2>5. QED
    BY <1>1, <1>4, <2>2, <2>4 DEF Same
<1>7. QED
  BY <1>5, <1>6

(* Only close() touches userClosed, and it sets it. *)
LEMMA NeverReopened ==
  ASSUME Next, ~userClosed'
  PROVE  ~userClosed /\ ~RunClose
<1> USE DEF link, topics, pumpVars, transport, threads, venue
<1>1. ~RunClose
  BY DEF RunClose
<1>2. ASSUME CallerStep PROVE userClosed' = userClosed
  BY <1>2 DEF CallerStep, Subscribe, Unsubscribe, Close, Calls, Post
<1>3. ASSUME RunConnect \/ RunFlush \/ RunUnsubscribe \/ OnReconnectTimer
      PROVE  userClosed' = userClosed
  BY <1>3 DEF RunConnect, RunFlush, RunUnsubscribe, OnReconnectTimer, StartConnect
<1>4. ASSUME Connecting PROVE userClosed' = userClosed
  BY <1>4 DEF Connecting, OnResolve, OnConnect, OnSSLHandshake, ChainMoves, OnHandshake,
              ChainFails, HandleError
<1>5. ASSUME NEW g \in Gens, GenStep(g) PROVE userClosed' = userClosed
  BY <1>5 DEF GenStep, OnReadError, OnReadGarbage, OnReadMessage, OnWrite, OnWriteOk,
              OnWriteError, OnPingTimer, OnPingTimerSilent, OnPingTimerAlive,
              OnPingTimerVoid, HandleError
<1>6. ASSUME NetworkFails \/ CloseDone \/ Terminated PROVE userClosed' = userClosed
  BY <1>6 DEF NetworkFails, CloseDone, Terminated, vars
<1>7. QED
  BY <1>1, <1>2, <1>3, <1>4, <1>5, <1>6 DEF Next, RunTask

Kind == \/ Lost \/ Shaken \/ Same \/ Flushed \/ Written \/ Appended(KeepAlive)
        \/ \E t \in Callers, ch \in Channels : Unsubscribe(t, ch) /\ Dropped(ch)

LEMMA StepKinds ==
  ASSUME TypeOK, SessionInv, SocketGone, Next, ~userClosed', ~RunUnsubscribe
  PROVE  Kind
<1> USE DEF link, topics, pumpVars, transport, threads, venue
<1>0. ~userClosed /\ ~RunClose
  BY NeverReopened
<1>1. ASSUME UNCHANGED <<connected, ready, userClosed, sock, subscriptions, outboundQueue,
                         writeInFlight, writeBuffer, venueSubs>>
      PROVE  Kind
  BY <1>1, LastsIf, PipeKept DEF Same, Kind
<1>2. CASE CallerStep
  <2>1. ASSUME NEW t \in Callers, NEW ch \in Channels, Unsubscribe(t, ch)
        PROVE  Dropped(ch)
    BY <2>1, LastsIf, PipeKept DEF Unsubscribe, Calls, Dropped
  <2>2. ASSUME NEW t \in Callers, NEW ch \in Channels,
               Subscribe(t, ch) \/ Close(t) \/ Post(t)
        PROVE  Kind
    BY <1>1, <2>2 DEF Subscribe, Close, Calls, Post
  <2>3. ASSUME NEW t \in Callers, Close(t) \/ Post(t)
        PROVE  Kind
    BY <1>1, <2>3 DEF Close, Calls, Post
  <2>4. QED
    BY <1>2, <2>1, <2>2, <2>3 DEF CallerStep, Kind
<1>3. CASE RunConnect
  <2>1. ~connected
    BY <1>3, NoConnectLeft DEF RunConnect, SessionInv, ConnectsOnce, NextTask, TypeOK
  <2>2. QED
    BY <1>3, <2>1, StartConnectKind DEF RunConnect, Kind
<1>4. CASE OnReconnectTimer
  <2>1. ~connected
    BY <1>4 DEF OnReconnectTimer, SessionInv, NeverWedged, DownWhileConnecting
  <2>2. QED
    BY <1>4, <2>1, StartConnectKind DEF OnReconnectTimer, Kind
<1>5. CASE RunFlush
  <2>1. FlushTopics(ready) /\ UNCHANGED <<connected, ready, userClosed, sock, venueSubs>>
    BY <1>5 DEF RunFlush
  <2>2. QED
    BY <2>1, FlushKind DEF Kind
<1>6. CASE OnResolve \/ OnConnect \/ OnSSLHandshake \/ OnHandshake
  <2>1. chain # "idle"
    BY <1>6 DEF OnResolve, OnConnect, OnSSLHandshake, OnHandshake, ChainMoves
  <2>2. ~connected /\ ~ready
    BY <2>1 DEF SessionInv, DownWhileConnecting
  <2>3. /\ ready' = ready
        /\ UNCHANGED <<subscriptions, outboundQueue, writeInFlight, writeBuffer, venueSubs>>
    BY <1>6 DEF OnResolve, OnConnect, OnSSLHandshake, OnHandshake, ChainMoves
  <2>4. Lasts
    BY <2>2, <2>3 DEF Lasts, Up, Live
  <2>5. QED
    BY <2>3, <2>4, PipeKept DEF Same, Kind
<1>7. writeInFlight \in BOOLEAN
  BY DEF TypeOK
<1>8. CASE ChainFails
  BY <1>7, <1>8, HandleErrorKind DEF ChainFails, Kind
<1>9. ASSUME NEW g \in Gens, GenStep(g) PROVE Kind
  <2>1. CASE g # generation
    <3>1. UNCHANGED <<connected, ready, userClosed, sock, subscriptions, outboundQueue,
                      writeInFlight, writeBuffer>>
      BY <1>9, <2>1, OldGeneration
    <3>2. venueSubs' = venueSubs
      BY <1>9, <2>1
      DEF GenStep, OnReadError, OnReadGarbage, OnReadMessage, OnWrite, OnWriteOk,
          OnWriteError, OnPingTimer, OnPingTimerSilent, OnPingTimerAlive,
          OnPingTimerVoid, Ticks, Current
    <3>3. QED
      BY <1>1, <3>1, <3>2
  <2>2. CASE g = generation /\ (OnReadError(g) \/ OnReadGarbage(g))
    <3>1. HandleError(generation, writeInFlight, ping)
      BY <2>2 DEF OnReadError, OnReadGarbage, Current
    <3>2. QED
      BY <1>7, <3>1, HandleErrorKind DEF Kind
  <2>3. CASE g = generation /\ OnPingTimerSilent(g)
    <3>1. HandleError(generation, writeInFlight, [ping EXCEPT ![g] = "none"])
      BY <2>3 DEF OnPingTimerSilent
    <3>2. QED
      BY <1>7, <3>1, HandleErrorKind DEF Kind
  <2>4. CASE g = generation /\ OnWriteError(g)
    <3>1. HandleError(generation, FALSE, ping)
      BY <2>4 DEF OnWriteError
    <3>2. QED
      BY <3>1, HandleErrorKind DEF Kind
  <2>5. CASE g = generation /\ OnWriteOk(g)
    BY <1>0, <2>5, WriteKind DEF Kind
  <2>6. KeepAlive \in Frame
    BY DEF KeepAlive, Do, Frame
  <2>7. ASSUME NEW m \in Messages, OnReadMessage(g, m) PROVE Kind
    <3>1. UNCHANGED <<connected, userClosed, sock, venueSubs>>
      BY <2>7 DEF OnReadMessage
    <3>2. \/ ready' = TRUE /\ FlushTopics(TRUE)
          \/ /\ Pump(Append(outboundQueue, KeepAlive), writeInFlight, writes)
             /\ UNCHANGED <<ready, subscriptions>>
          \/ UNCHANGED <<ready, subscriptions, outboundQueue, writeInFlight, writeBuffer>>
      BY <2>7 DEF OnReadMessage, Dispatch, Messages
    <3>3. CASE ready' = TRUE /\ FlushTopics(TRUE)
      BY <3>1, <3>3, FlushKind DEF Kind
    <3>4. CASE /\ Pump(Append(outboundQueue, KeepAlive), writeInFlight, writes)
               /\ UNCHANGED <<ready, subscriptions>>
      BY <2>6, <3>1, <3>4, AppendKind DEF Kind
    <3>5. QED
      BY <1>1, <3>1, <3>2, <3>3, <3>4
  <2>8. CASE OnPingTimerVoid(g)
    BY <1>1, <2>8 DEF OnPingTimerVoid
  <2>9. CASE OnPingTimerAlive(g)
    <3>1. /\ UNCHANGED <<connected, ready, userClosed, sock, venueSubs, subscriptions>>
          /\ \/ Pump(Append(outboundQueue, KeepAlive), writeInFlight, writes)
             \/ UNCHANGED <<outboundQueue, writeInFlight, writeBuffer>>
      BY <2>9 DEF OnPingTimerAlive
    <3>2. QED
      BY <1>1, <2>6, <3>1, AppendKind DEF Kind
  <2>10. QED
    BY <1>9, <2>1, <2>2, <2>3, <2>4, <2>5, <2>7, <2>8, <2>9
    DEF GenStep, OnWrite, OnPingTimer
<1>10. CASE NetworkFails \/ CloseDone
  <2>1. /\ UNCHANGED <<connected, ready, outboundQueue, writeInFlight, writeBuffer>>
        /\ venueSubs' = {} /\ sock' # "open"
    BY <1>10 DEF NetworkFails, CloseDone
  <2>2. QED
    BY <2>1, PipeKept DEF Shaken, Kind, Up, Live
<1>11. CASE Terminated
  BY <1>0, <1>11 DEF Terminated
<1>12. QED
  BY <1>0, <1>2, <1>3, <1>4, <1>5, <1>6, <1>8, <1>9, <1>10, <1>11
  DEF Next, RunTask, Connecting

----------------------------------------------------------------------------
(* Tasks stay owed until they run.                                         *)

Asks(t, task) == /\ calling[t] = NoTask
                 /\ calling' = [calling EXCEPT ![t] = task]
                 /\ posted' = posted

LEMMA TasksStep ==
  ASSUME Next
  PROVE  \/ UNCHANGED <<posted, calling>>
         \/ \E t \in Callers : Asks(t, Do("flush")) \/ Asks(t, Do("close"))
         \/ \E t \in Callers, ch \in Channels :
              Asks(t, UnsubscribeTask(ch)) /\ Unsubscribe(t, ch)
         \/ \E t \in Callers : Post(t)
         \/ RunTask /\ posted # <<>> /\ posted' = Tail(posted) /\ calling' = calling
<1> USE DEF threads
<1>1. ASSUME NEW t \in Callers, NEW ch \in Channels, Subscribe(t, ch)
      PROVE  Asks(t, Do("flush"))
  BY <1>1 DEF Subscribe, Calls, MayCall, Asks
<1>2. ASSUME NEW t \in Callers, NEW ch \in Channels, Unsubscribe(t, ch)
      PROVE  Asks(t, UnsubscribeTask(ch))
  BY <1>2 DEF Unsubscribe, Calls, MayCall, Asks
<1>3. ASSUME NEW t \in Callers, Close(t)
      PROVE  Asks(t, Do("close"))
  BY <1>3 DEF Close, Calls, MayCall, Asks
<1>4. CASE RunTask
  BY <1>4 DEF RunTask, RunConnect, RunFlush, RunUnsubscribe, RunClose, NextTask, StartConnect
<1>5. CASE Connecting
  BY <1>5 DEF Connecting, OnResolve, OnConnect, OnSSLHandshake, ChainMoves, OnHandshake,
              ChainFails, HandleError
<1>6. ASSUME NEW g \in Gens, GenStep(g) PROVE UNCHANGED <<posted, calling>>
  BY <1>6 DEF GenStep, OnReadError, OnReadGarbage, OnReadMessage, OnWrite, OnWriteOk,
              OnWriteError, OnPingTimer, OnPingTimerSilent, OnPingTimerAlive,
              OnPingTimerVoid, HandleError
<1>7. CASE OnReconnectTimer \/ NetworkFails \/ CloseDone \/ Terminated
  BY <1>7 DEF OnReconnectTimer, StartConnect, NetworkFails, CloseDone, Terminated, vars
<1>8. CASE CallerStep
  BY <1>1, <1>2, <1>3, <1>8 DEF CallerStep
<1>9. QED
  BY <1>4, <1>5, <1>6, <1>7, <1>8 DEF Next

LEMMA PostTask ==
  ASSUME TypeOK, NEW t \in Callers, Post(t)
  PROVE  /\ posted' \in Seq(Task) /\ Len(posted') = Len(posted) + 1 /\ Len(posted) \in Nat
         /\ \A i \in 1..Len(posted) : posted'[i] = posted[i]
         /\ posted'[Len(posted) + 1] = calling[t]
         /\ DOMAIN posted = 1..Len(posted) /\ DOMAIN posted' = 1..(Len(posted) + 1)
         /\ calling'[t] = NoTask /\ \A u \in Callers \ {t} : calling'[u] = calling[u]
<1>1. posted' = Append(posted, calling[t]) /\ calling' = [calling EXCEPT ![t] = NoTask]
  BY DEF Post
<1>2. posted \in Seq(Task) /\ calling \in [Callers -> Task]
  BY DEF TypeOK
<1>3. /\ posted' \in Seq(Task) /\ Len(posted') = Len(posted) + 1
      /\ \A i \in 1..Len(posted) : posted'[i] = posted[i]
      /\ posted'[Len(posted) + 1] = calling[t]
  BY <1>1, <1>2, AppendProperties
<1>4. /\ Len(posted) \in Nat
      /\ DOMAIN posted = 1..Len(posted) /\ DOMAIN posted' = 1..(Len(posted) + 1)
  BY <1>2, <1>3, LenProperties
<1>5. calling'[t] = NoTask /\ \A u \in Callers \ {t} : calling'[u] = calling[u]
  BY <1>1, <1>2
<1>6. QED
  BY <1>3, <1>4, <1>5

LEMMA OwedKept ==
  ASSUME TypeOK, Next, NEW task, task # NoTask, Owed(task)
  PROVE  \/ Owed(task)'
         \/ RunTask /\ posted # <<>> /\ Head(posted) = task
<1> SUFFICES ASSUME ~(RunTask /\ posted # <<>> /\ Head(posted) = task)
             PROVE  \/ \E i \in DOMAIN posted' : posted'[i] = task
                    \/ \E t \in Callers : calling'[t] = task
  BY DEF Owed
<1>0. posted \in Seq(Task) /\ calling \in [Callers -> Task]
  BY DEF TypeOK
<1>1. CASE UNCHANGED <<posted, calling>>
  BY <1>1 DEF Owed
<1>2. ASSUME NEW t \in Callers, NEW new, Asks(t, new)
      PROVE  \/ \E i \in DOMAIN posted' : posted'[i] = task
             \/ \E u \in Callers : calling'[u] = task
  <2>1. \A u \in Callers : calling[u] # NoTask => calling'[u] = calling[u]
    BY <1>0, <1>2 DEF Asks
  <2>2. posted' = posted
    BY <1>2 DEF Asks
  <2>3. QED
    BY <2>1, <2>2 DEF Owed
<1>3. ASSUME NEW t \in Callers, Post(t)
      PROVE  \/ \E i \in DOMAIN posted' : posted'[i] = task
             \/ \E u \in Callers : calling'[u] = task
  <2>1. ASSUME NEW i \in DOMAIN posted, posted[i] = task
        PROVE  i \in DOMAIN posted' /\ posted'[i] = task
    BY <1>3, <2>1, PostTask
  <2>2. CASE calling[t] = task
    <3>1. Len(posted) + 1 \in DOMAIN posted' /\ posted'[Len(posted) + 1] = task
      BY <1>3, <2>2, PostTask
    <3>2. QED
      BY <3>1
  <2>3. ASSUME NEW u \in Callers \ {t}, calling[u] = task
        PROVE  calling'[u] = task
    BY <1>3, <2>3, PostTask
  <2>4. QED
    BY <2>1, <2>2, <2>3 DEF Owed
<1>4. CASE RunTask /\ posted # <<>> /\ posted' = Tail(posted) /\ calling' = calling
  <2>1. /\ Len(posted) \in Nat /\ DOMAIN posted = 1..Len(posted) /\ Head(posted) = posted[1]
        /\ DOMAIN posted' = 1..(Len(posted) - 1)
        /\ \A i \in 1..(Len(posted) - 1) : posted'[i] = posted[i + 1]
    BY <1>0, <1>4, HeadTailProperties, LenProperties
  <2>2. ASSUME NEW i \in DOMAIN posted, posted[i] = task
        PROVE  i - 1 \in DOMAIN posted' /\ posted'[i - 1] = task
    <3>1. i # 1
      BY <1>4, <2>1, <2>2
    <3>2. i - 1 \in 1..(Len(posted) - 1) /\ i - 1 + 1 = i
      BY <2>1, <2>2, <3>1
    <3>3. QED
      BY <2>1, <2>2, <3>2
  <2>3. QED
    BY <1>4, <2>2 DEF Owed
<1>5. QED
  BY <1>1, <1>2, <1>3, <1>4, TasksStep

(* Nothing but unsubscribe() asks for a channel to be unsubscribed. *)
LEMMA OwedNew ==
  ASSUME TypeOK, Next, NEW ch \in Channels, Owed(On("unsubscribe", ch))'
  PROVE  Owed(On("unsubscribe", ch)) \/ ch \in Books
<1> DEFINE task == On("unsubscribe", ch)
<1>0. /\ posted \in Seq(Task) /\ calling \in [Callers -> Task]
      /\ task.op = "unsubscribe" /\ task.ch = ch /\ NoTask.op = "none"
  BY DEF TypeOK, On, NoTask, Do
<1>1. (\E i \in DOMAIN posted' : posted'[i] = task) \/ (\E t \in Callers : calling'[t] = task)
  BY DEF Owed
<1>2. CASE UNCHANGED <<posted, calling>>
  BY <1>1, <1>2 DEF Owed
<1>3. ASSUME NEW t \in Callers, NEW new, Asks(t, new),
             new = task => Owed(task) \/ ch \in Books
      PROVE  Owed(task) \/ ch \in Books
  <2>1. \A u \in Callers : calling'[u] = calling[u] \/ calling'[u] = new
    BY <1>0, <1>3 DEF Asks
  <2>2. posted' = posted
    BY <1>3 DEF Asks
  <2> HIDE DEF task
  <2>3. QED
    BY <1>1, <1>3, <2>1, <2>2 DEF Owed
<1>4. ASSUME NEW t \in Callers, Post(t)
      PROVE  Owed(task)
  <2>1. ASSUME NEW i \in DOMAIN posted', posted'[i] = task
        PROVE  Owed(task)
    <3>1. CASE i \in 1..Len(posted)
      BY <1>4, <2>1, <3>1, PostTask DEF Owed
    <3>2. CASE i = Len(posted) + 1
      BY <1>4, <2>1, <3>2, PostTask DEF Owed
    <3>3. i \in 1..Len(posted) \/ i = Len(posted) + 1
      BY <1>4, PostTask
    <3>4. QED
      BY <3>1, <3>2, <3>3
  <2>2. ASSUME NEW u \in Callers, calling'[u] = task
        PROVE  calling[u] = task
    BY <1>0, <1>4, <2>2, PostTask
  <2>3. QED
    BY <1>1, <2>1, <2>2 DEF Owed
<1>5. CASE RunTask /\ posted # <<>> /\ posted' = Tail(posted) /\ calling' = calling
  <2>1. /\ Len(posted) \in Nat /\ DOMAIN posted = 1..Len(posted)
        /\ DOMAIN posted' = 1..(Len(posted) - 1)
        /\ \A i \in 1..(Len(posted) - 1) : posted'[i] = posted[i + 1]
    BY <1>0, <1>5, HeadTailProperties, LenProperties
  <2>2. ASSUME NEW i \in DOMAIN posted', posted'[i] = task
        PROVE  i + 1 \in DOMAIN posted /\ posted[i + 1] = task
    BY <2>1, <2>2
  <2>3. QED
    BY <1>1, <1>5, <2>2 DEF Owed
<1>6. ASSUME NEW t \in Callers, NEW c \in Channels, Asks(t, UnsubscribeTask(c)),
             Unsubscribe(t, c)
      PROVE  Owed(task) \/ ch \in Books
  <2>1. c \in Books
    BY <1>6 DEF Unsubscribe
  <2>2. UnsubscribeTask(c) = task => c = ch
    BY <1>0 DEF UnsubscribeTask, On
  <2>3. QED
    BY <1>3, <1>6, <2>1, <2>2
<1>7. ASSUME NEW t \in Callers, Asks(t, Do("flush")) \/ Asks(t, Do("close"))
      PROVE  Owed(task) \/ ch \in Books
  <2>1. Do("flush") # task /\ Do("close") # task
    BY <1>0 DEF Do
  <2>2. QED
    BY <1>3, <1>7, <2>1
<1>8. QED
  BY <1>2, <1>4, <1>5, <1>6, <1>7, TasksStep

----------------------------------------------------------------------------
(* Each part of the invariant, over a step.                                *)

LEMMA DeliverType ==
  ASSUME NEW f \in Frame, NEW subs \in SUBSET Channels
  PROVE  /\ Deliver(f, subs) \in SUBSET Channels
         /\ f.op # "subscribe" => Deliver(f, subs) \subseteq subs
BY DEF Deliver, Frame

LEMMA SilentStep ==
  ASSUME TypeOK, SessionInv, VenueInv, Next
  PROVE  SilentBeforeGreeting'
<1> SUFFICES ASSUME ~userClosed', ~Up'
             PROVE  venueSubs' = {} /\ NoSubscribe(Pipe')
  BY DEF SilentBeforeGreeting, NoSubscribe
<1>1. ~userClosed /\ SocketGone
  BY NeverReopened DEF VenueInv
<1>2. ~Up => venueSubs = {} /\ NoSubscribe(Pipe)
  BY <1>1 DEF VenueInv, SilentBeforeGreeting
<1>3. Pipe \in Seq(Frame)
  BY PipeType
<1>4. NoSubscribe(<<>>)
  BY DEF NoSubscribe
<1>5. CASE Lost
  BY <1>2, <1>4, <1>5 DEF Lost
<1>6. CASE Shaken \/ Same \/ \E ch : Dropped(ch)
  BY <1>2, <1>6 DEF Shaken, Same, Dropped, Lasts
<1>7. ASSUME NEW f \in Frame, f.op # "subscribe", Appended(f)
      PROVE  venueSubs' = {} /\ NoSubscribe(Pipe')
  BY <1>2, <1>3, <1>7, AppendKeepsNoSubscribe DEF Appended, Lasts
<1>8. CASE Written
  <2>1. ~Up /\ Pipe # <<>> /\ Pipe' = Tail(Pipe)
    BY <1>8 DEF Written, Lasts
  <2>2. /\ Head(Pipe) \in Frame /\ Head(Pipe) = Pipe[1] /\ Len(Pipe) \in Nat \ {0}
        /\ DOMAIN Pipe = 1..Len(Pipe)
        /\ Tail(Pipe) \in Seq(Frame)
        /\ DOMAIN Tail(Pipe) = 1..(Len(Pipe) - 1)
        /\ \A i \in 1..(Len(Pipe) - 1) : Tail(Pipe)[i] = Pipe[i + 1]
    BY <1>3, <2>1, HeadTailProperties, LenProperties, EmptySeq
  <2>3. Head(Pipe).op # "subscribe"
    BY <1>2, <2>1, <2>2 DEF NoSubscribe
  <2>4. venueSubs' = {}
    BY <1>2, <1>8, <2>1, <2>2, <2>3, DeliverType DEF Written
  <2>5. \A i \in 1..(Len(Pipe) - 1) : i + 1 \in 1..Len(Pipe)
    BY <2>2
  <2>6. NoSubscribe(Pipe')
    BY <1>2, <2>1, <2>2, <2>5 DEF NoSubscribe
  <2>7. QED
    BY <2>4, <2>6
<1>9. KeepAlive \in Frame /\ KeepAlive.op # "subscribe"
  BY DEF KeepAlive, Do, Frame
<1>10. CASE RunUnsubscribe
  <2>1. On("unsubscribe", Head(posted).ch) \in Frame
        /\ On("unsubscribe", Head(posted).ch).op # "subscribe"
    BY <1>10, RunUnsubscribeKind DEF Task, Frame, On
  <2>2. QED
    BY <1>6, <1>7, <1>10, <2>1, RunUnsubscribeKind
<1>11. CASE ~RunUnsubscribe
  <2>1. Kind
    BY <1>1, <1>11, StepKinds
  <2>2. ~Flushed
    BY DEF Flushed
  <2>3. QED
    BY <1>5, <1>6, <1>7, <1>8, <1>9, <2>1, <2>2 DEF Kind
<1>12. QED
  BY <1>10, <1>11

LEMMA HandleErrorSock ==
  ASSUME NEW f, NEW p, HandleError(generation, f, p), ~userClosed
  PROVE  \/ sock' # "open" /\ connected' = FALSE
         \/ reconnectScheduled
            /\ UNCHANGED <<connected, ready, sock, subscriptions, pendingTopics>>
BY DEF HandleError, Ignored, Current, CloseSocket, topics

LEMMA SocketGoneStep ==
  ASSUME TypeOK, SessionInv, SocketGone, Next
  PROVE  SocketGone'
<1> SUFFICES ASSUME ~userClosed', ~connected', chain' = "idle"
             PROVE  sock' # "open"
  BY DEF SocketGone
<1> USE DEF link, topics, pumpVars, transport, threads, venue
<1>0. ~userClosed /\ ~RunClose
  BY NeverReopened
<1>1. ASSUME UNCHANGED <<connected, chain, sock>> PROVE sock' # "open"
  BY <1>0, <1>1 DEF SocketGone
<1>2. CASE CallerStep
  BY <1>1, <1>2 DEF CallerStep, Subscribe, Unsubscribe, Close, Calls, Post
<1>3. CASE RunConnect \/ OnReconnectTimer
  BY <1>0, <1>3 DEF RunConnect, OnReconnectTimer, StartConnect, MayConnect
<1>4. CASE RunFlush \/ RunUnsubscribe
  BY <1>1, <1>4 DEF RunFlush, RunUnsubscribe
<1>5. CASE OnResolve \/ OnConnect \/ OnSSLHandshake
  BY <1>5 DEF OnResolve, OnConnect, OnSSLHandshake, ChainMoves
<1>6. CASE OnHandshake
  BY <1>0, <1>6 DEF OnHandshake
<1>7. CASE ChainFails
  <2>1. ~reconnectScheduled
    BY <1>7 DEF ChainFails, SessionInv, DownWhileConnecting
  <2>2. QED
    BY <1>0, <1>7, <2>1, HandleErrorSock DEF ChainFails
<1>8. ASSUME NEW g \in Gens, GenStep(g) PROVE sock' # "open"
  <2>1. CASE g # generation
    BY <1>1, <1>8, <2>1, OldGeneration
  <2>2. ASSUME NEW f, NEW p, HandleError(generation, f, p), UNCHANGED chain
        PROVE  sock' # "open"
    BY <1>0, <1>1, <2>2, HandleErrorSock
  <2>3. CASE g = generation /\ (OnReadError(g) \/ OnReadGarbage(g))
    BY <2>2, <2>3 DEF OnReadError, OnReadGarbage, Current
  <2>4. CASE g = generation /\ (OnPingTimerSilent(g) \/ OnWriteError(g))
    <3>1. /\ UNCHANGED chain
          /\ \/ HandleError(generation, writeInFlight, [ping EXCEPT ![g] = "none"])
             \/ HandleError(generation, FALSE, ping)
      BY <2>4 DEF OnPingTimerSilent, OnWriteError
    <3>2. QED
      BY <2>2, <3>1
  <2>5. CASE OnWriteOk(g) \/ OnPingTimerVoid(g) \/ OnPingTimerAlive(g)
    BY <1>1, <2>5 DEF OnWriteOk, OnPingTimerVoid, OnPingTimerAlive
  <2>6. ASSUME NEW m \in Messages, OnReadMessage(g, m) PROVE sock' # "open"
    BY <1>1, <2>6 DEF OnReadMessage
  <2>7. QED
    BY <1>8, <2>1, <2>3, <2>4, <2>5, <2>6 DEF GenStep, OnWrite, OnPingTimer
<1>9. CASE NetworkFails \/ CloseDone
  BY <1>9 DEF NetworkFails, CloseDone
<1>10. CASE Terminated
  BY <1>0, <1>10 DEF Terminated
<1>11. QED
  BY <1>0, <1>2, <1>3, <1>4, <1>5, <1>6, <1>7, <1>8, <1>9, <1>10
  DEF Next, RunTask, Connecting

(* What is pending was pending before, is flushed by this step, or is new and
   will be by the caller's task. *)
LEMMA PendingStep ==
  ASSUME TypeOK, SessionInv, Next, ~userClosed', Up'
  PROVE  \/ pendingTopics' = {}
         \/ Up /\ pendingTopics' \subseteq pendingTopics /\ ~RunFlush
         \/ \E t \in Callers : Asks(t, Do("flush"))
<1> USE DEF link, topics, pumpVars, transport, threads, venue
<1>0. ~userClosed /\ ~RunClose /\ connected' /\ ready'
  BY NeverReopened DEF Up
<1> DEFINE Goal == \/ pendingTopics' = {}
                   \/ Up /\ pendingTopics' \subseteq pendingTopics /\ ~RunFlush
                   \/ \E t \in Callers : Asks(t, Do("flush"))
<1> SUFFICES Goal
  OBVIOUS
<1>1. ASSUME UNCHANGED <<connected, ready>>, pendingTopics' \subseteq pendingTopics,
             ~RunFlush
      PROVE  Goal
  BY <1>0, <1>1 DEF Up
<1>f. ASSUME RunFlush PROVE pendingTopics' = {}
  <2>1. FlushTopics(ready) /\ UNCHANGED <<connected, ready>>
    BY <1>f DEF RunFlush
  <2>2. connected /\ ready
    BY <1>0, <2>1
  <2>3. QED
    BY <2>1, <2>2, FlushPipe
<1> HIDE DEF Goal
<1>f1. CASE RunFlush
  BY <1>f, <1>f1 DEF Goal
<1>nf. CASE ~RunFlush
  <2>2. CASE CallerStep
    <3>1. ASSUME NEW t \in Callers, NEW ch \in Channels, Subscribe(t, ch)
          PROVE  Asks(t, Do("flush"))
      BY <3>1 DEF Subscribe, Calls, MayCall, Asks
    <3>2. ASSUME NEW t \in Callers, NEW ch \in Channels,
                 Unsubscribe(t, ch)
          PROVE  Goal
      BY <1>1, <1>nf, <3>2 DEF Unsubscribe, Calls
    <3>3. ASSUME NEW t \in Callers, Close(t) \/ Post(t)
          PROVE  Goal
      BY <1>1, <1>nf, <3>3 DEF Close, Calls, Post
    <3>4. QED
      BY <2>2, <3>1, <3>2, <3>3 DEF CallerStep, Goal
  <2>3. CASE RunConnect \/ OnReconnectTimer
    BY <1>0, <2>3 DEF RunConnect, OnReconnectTimer, StartConnect, MayConnect
  <2>4. CASE RunUnsubscribe
    BY <1>1, <1>nf, <2>4 DEF RunUnsubscribe
  <2>5. CASE OnResolve \/ OnConnect \/ OnSSLHandshake \/ OnHandshake
    <3>1. ~ready /\ ready' = ready
      BY <2>5
      DEF OnResolve, OnConnect, OnSSLHandshake, OnHandshake, ChainMoves, SessionInv,
          DownWhileConnecting
    <3>2. QED
      BY <1>0, <3>1
  <2>6. ASSUME NEW f, NEW p, HandleError(generation, f, p)
        PROVE  Goal
    BY <1>0, <1>1, <1>nf, <2>6, HandleErrorSock
  <2>7. CASE ChainFails
    BY <2>6, <2>7 DEF ChainFails
  <2>8. ASSUME NEW g \in Gens, GenStep(g) PROVE Goal
    <3>1. CASE g # generation
      BY <1>1, <1>nf, <2>8, <3>1, OldGeneration
    <3>3. CASE g = generation /\ (OnReadError(g) \/ OnReadGarbage(g))
      BY <2>6, <3>3 DEF OnReadError, OnReadGarbage, Current
    <3>4. CASE g = generation /\ (OnPingTimerSilent(g) \/ OnWriteError(g))
      <4>1. \/ HandleError(generation, writeInFlight, [ping EXCEPT ![g] = "none"])
            \/ HandleError(generation, FALSE, ping)
        BY <3>4 DEF OnPingTimerSilent, OnWriteError
      <4>2. QED
        BY <2>6, <4>1
    <3>5. CASE OnWriteOk(g) \/ OnPingTimerVoid(g) \/ OnPingTimerAlive(g)
      BY <1>1, <1>nf, <3>5 DEF OnWriteOk, OnPingTimerVoid, OnPingTimerAlive
    <3>6. ASSUME NEW m \in Messages, OnReadMessage(g, m) PROVE Goal
      <4>1. connected' = connected
        BY <3>6 DEF OnReadMessage
      <4>2. \/ ready' = TRUE /\ FlushTopics(TRUE)
            \/ UNCHANGED <<ready, pendingTopics>>
        BY <3>6 DEF OnReadMessage, Dispatch, Messages
      <4>3. CASE FlushTopics(TRUE)
        BY <1>0, <4>1, <4>3, FlushPipe DEF Goal
      <4>4. QED
        BY <1>1, <1>nf, <4>1, <4>2, <4>3
    <3>7. QED
      BY <2>8, <3>1, <3>3, <3>4, <3>5, <3>6 DEF GenStep, OnWrite, OnPingTimer
  <2>9. CASE NetworkFails \/ CloseDone
    BY <1>1, <1>nf, <2>9 DEF NetworkFails, CloseDone
  <2>10. CASE Terminated
    BY <1>0, <2>10 DEF Terminated
  <2>11. QED
    BY <1>0, <1>nf, <2>2, <2>3, <2>4, <2>5, <2>7, <2>8, <2>9, <2>10
    DEF Next, RunTask, Connecting
<1>q. QED
  BY <1>f1, <1>nf

LEMMA RunsItsTask ==
  ASSUME RunTask
  PROVE  /\ Head(posted).op = "flush" => RunFlush
         /\ Head(posted).op = "unsubscribe" => RunUnsubscribe
BY DEF RunTask, RunConnect, RunFlush, RunUnsubscribe, RunClose, NextTask

LEMMA FlushOwedStep ==
  ASSUME TypeOK, SessionInv, FlushOwed, Next
  PROVE  FlushOwed'
<1> SUFFICES ASSUME ~userClosed', Up', pendingTopics' # {}
             PROVE  \/ \E i \in DOMAIN posted' : posted'[i] = Do("flush")
                    \/ \E t \in Callers : calling'[t] = Do("flush")
  BY DEF FlushOwed, Owed
<1>1. ASSUME NEW t \in Callers, Asks(t, Do("flush"))
      PROVE  calling'[t] = Do("flush")
  BY <1>1 DEF Asks, TypeOK
<1>2. CASE Up /\ pendingTopics' \subseteq pendingTopics /\ ~RunFlush
  <2>1. ~userClosed /\ pendingTopics # {}
    BY <1>2, NeverReopened
  <2>2. Owed(Do("flush"))
    BY <1>2, <2>1 DEF FlushOwed
  <2>3. Do("flush") # NoTask /\ Do("flush").op = "flush"
    BY DEF Do, NoTask
  <2>4. ~(RunTask /\ posted # <<>> /\ Head(posted) = Do("flush"))
    BY <1>2, <2>3, RunsItsTask
  <2>5. Owed(Do("flush"))'
    BY <2>2, <2>3, <2>4, OwedKept
  <2>6. QED
    BY <2>5 DEF Owed
<1>3. QED
  BY <1>1, <1>2, PendingStep

(* A task of unsubscribe() that stays owed, or runs. *)
LEMMA DropOwed ==
  ASSUME TypeOK, Next, NEW ch \in Channels, Owed(On("unsubscribe", ch))
  PROVE  \/ Owed(On("unsubscribe", ch))'
         \/ RunUnsubscribe /\ Head(posted).ch = ch
<1>1. /\ On("unsubscribe", ch) # NoTask /\ On("unsubscribe", ch).op = "unsubscribe"
      /\ On("unsubscribe", ch).ch = ch
  BY DEF On, NoTask, Do
<1>2. QED
  BY <1>1, OwedKept, RunsItsTask

LEMMA OnlyBooksStep ==
  ASSUME TypeOK, SessionInv, VenueInv, Next
  PROVE  OnlyBooksDropped'
<1> SUFFICES ASSUME ~userClosed', NEW ch \in Channels,
                    Owed(On("unsubscribe", ch))' \/ Has(Pipe', On("unsubscribe", ch))
             PROVE  ch \in Books
  BY DEF OnlyBooksDropped, Has
<1> DEFINE f == On("unsubscribe", ch)
<1>0. ~userClosed /\ SocketGone
  BY NeverReopened DEF VenueInv
<1>1. Owed(f) \/ Has(Pipe, f) => ch \in Books
  BY <1>0 DEF VenueInv, OnlyBooksDropped
<1>2. /\ f \in Frame /\ f.op = "unsubscribe" /\ f.ch = ch
      /\ KeepAlive \in Frame /\ KeepAlive # f
      /\ Pipe \in Seq(Frame)
  BY Frames, PipeType
<1>3. CASE Owed(On("unsubscribe", ch))'
  BY <1>1, <1>3, OwedNew
<1> HIDE DEF f
<1>4. CASE Has(Pipe', f)
  <2>1. CASE Pipe' = <<>>
    BY <1>4, <2>1 DEF Has
  <2>2. CASE Pipe' = Pipe
    BY <1>1, <1>4, <2>2
  <2>3. CASE Appended(KeepAlive)
    BY <1>1, <1>2, <1>4, <2>3, HasInAppended DEF Appended
  <2>4. CASE Written
    BY <1>1, <1>2, <1>4, <2>4, HasInTail DEF Written
  <2>5. CASE Flushed
    <3>1. PICK q \in Seq(Frame) : /\ Pipe' = Pipe \o q
                                  /\ \A i \in DOMAIN q : q[i].op = "subscribe"
      BY <2>5 DEF Flushed
    <3>2. ~Has(q, f)
      BY <1>2, <3>1 DEF Has
    <3>3. Has(Pipe, f)
      BY <1>2, <1>4, <3>1, <3>2, HasInJoined
    <3>4. QED
      BY <1>1, <3>3
  <2>6. CASE RunUnsubscribe /\ Appended(On("unsubscribe", Head(posted).ch))
    <3>1. /\ posted # <<>> /\ Head(posted) \in Task
          /\ Head(posted).op = "unsubscribe"
      BY <2>6, RunUnsubscribeKind
    <3>2. Head(posted).ch \in Channels
      BY <3>1 DEF Task
    <3>3. On("unsubscribe", Head(posted).ch) \in Frame
      BY <3>2, Frames
    <3>4. Has(Pipe, f) \/ f = On("unsubscribe", Head(posted).ch)
      BY <1>2, <1>4, <2>6, <3>3, HasInAppended DEF Appended
    <3>5. CASE f = On("unsubscribe", Head(posted).ch)
      <4>1. f = Head(posted)
        BY <3>1, <3>5 DEF Task, On
      <4>2. 1 \in DOMAIN posted /\ Head(posted) = posted[1]
        <5>1. posted \in Seq(Task)
          BY DEF TypeOK
        <5>2. Len(posted) \in Nat \ {0} /\ DOMAIN posted = 1..Len(posted)
          BY <3>1, <5>1, LenProperties, EmptySeq
        <5>3. QED
          BY <3>1, <5>1, <5>2, HeadTailProperties
      <4>3. QED
        BY <1>1, <4>1, <4>2 DEF Owed
    <3>6. QED
      BY <1>1, <3>4, <3>5
  <2>7. CASE RunUnsubscribe
    BY <2>2, <2>6, <2>7, RunUnsubscribeKind DEF Same
  <2>8. CASE ~RunUnsubscribe
    <3>1. Kind
      BY <1>0, <2>8, StepKinds
    <3>2. CASE Lost \/ Shaken \/ Same \/ \E c : Dropped(c)
      BY <2>1, <2>2, <3>2 DEF Lost, Shaken, Same, Dropped
    <3>3. QED
      BY <2>3, <2>4, <2>5, <3>1, <3>2 DEF Kind
  <2>9. QED
    BY <2>7, <2>8
<1>5. QED
  BY <1>3, <1>4 DEF f

LEMMA FlushedPipe ==
  ASSUME TypeOK, SessionInv, SilentBeforeGreeting, Flushed, Live', ~userClosed
  PROVE  /\ Live \/ (venueSubs = {} /\ NoSubscribe(Pipe) /\ subscriptions = {})
         /\ venueSubs' = venueSubs
         /\ subscriptions' = subscriptions \cup pendingTopics
         /\ \E q \in Seq(Frame) :
              /\ Pipe' = Pipe \o q
              /\ \A ch \in Channels : Has(q, On("subscribe", ch)) <=> ch \in pendingTopics
<1>1. /\ sock' = sock /\ venueSubs' = venueSubs
      /\ subscriptions' = subscriptions \cup pendingTopics
      /\ \E q \in Seq(Frame) :
           /\ Pipe' = Pipe \o q
           /\ \A ch \in Channels : Has(q, On("subscribe", ch)) <=> ch \in pendingTopics
  BY DEF Flushed
<1>2. CASE Up
  <2>1. Live
    BY <1>1, <1>2 DEF Live
  <2>2. QED
    BY <1>1, <2>1
<1>3. CASE ~Up
  <2>1. venueSubs = {} /\ NoSubscribe(Pipe)
    BY <1>3 DEF SilentBeforeGreeting
  <2>2. subscriptions = {}
    BY <1>3 DEF Up, SessionInv, SubscribesAfterGreeting
  <2>3. QED
    BY <1>1, <2>1, <2>2
<1>4. QED
  BY <1>2, <1>3

LEMMA DroppedStep ==
  ASSUME TypeOK, SessionInv, VenueInv, Next
  PROVE  DroppedGoOut'
<1> SUFFICES ASSUME Live', NEW ch \in Channels, ch \notin subscriptions'
             PROVE  Owed(On("unsubscribe", ch))' \/ GoesOut(Pipe', venueSubs', ch)
  BY DEF DroppedGoOut, GoesOut, Has, Undone
<1> DEFINE f == On("unsubscribe", ch)
<1>0. /\ ~userClosed /\ ~userClosed' /\ Up' /\ SocketGone /\ SilentBeforeGreeting
      /\ Pipe \in Seq(Frame)
  BY NeverReopened, PipeType DEF VenueInv, Live
<1>1. ASSUME Live, ch \notin subscriptions
      PROVE  Owed(f) \/ GoesOut(Pipe, venueSubs, ch)
  BY <1>1 DEF VenueInv, DroppedGoOut
<1>2. /\ f \in Frame /\ KeepAlive \in Frame /\ f.op = "unsubscribe" /\ f.ch = ch
      /\ KeepAlive # On("subscribe", ch) /\ f # On("subscribe", ch)
  BY Frames
<1>3. CASE ~RunUnsubscribe
  <2>1. Owed(f) => Owed(On("unsubscribe", ch))'
    BY <1>3, DropOwed
  <2>2. Kind
    BY <1>0, <1>3, StepKinds
  <2> HIDE DEF f
  <2>3. CASE Same
    BY <1>1, <2>1, <2>3 DEF Same, Lasts
  <2>4. CASE Appended(KeepAlive)
    <3>1. GoesOut(Pipe, venueSubs, ch) => GoesOut(Append(Pipe, KeepAlive), venueSubs, ch)
      BY <1>0, <1>2, OutAfterAppend
    <3>2. QED
      BY <1>1, <2>1, <2>4, <3>1 DEF Appended, Lasts
  <2>5. CASE Written
    <3>1. /\ Live /\ ch \notin subscriptions /\ Pipe # <<>> /\ Pipe' = Tail(Pipe)
          /\ venueSubs' = Deliver(Head(Pipe), venueSubs)
      BY <2>5 DEF Written, Lasts
    <3>2. venueSubs \in SUBSET Channels
      BY DEF TypeOK
    <3>3. GoesOut(Pipe, venueSubs, ch) => GoesOut(Pipe', venueSubs', ch)
      BY <1>0, <3>1, <3>2, OutAfterDelivery
    <3>4. QED
      BY <1>1, <2>1, <3>1, <3>3
  <2>6. CASE Flushed
    <3>1. /\ Live \/ (venueSubs = {} /\ NoSubscribe(Pipe))
          /\ venueSubs' = venueSubs /\ ch \notin subscriptions /\ ch \notin pendingTopics
      BY <1>0, <2>6, FlushedPipe
    <3>2. PICK q \in Seq(Frame) : Pipe' = Pipe \o q /\ ~Has(q, On("subscribe", ch))
      BY <1>0, <2>6, <3>1, FlushedPipe
    <3>3. ASSUME venueSubs = {}, NoSubscribe(Pipe) PROVE GoesOut(Pipe, venueSubs, ch)
      BY <3>3, Frames DEF GoesOut, Undone, NoSubscribe
    <3>4. GoesOut(Pipe, venueSubs, ch) => GoesOut(Pipe', venueSubs', ch)
      BY <1>0, <3>1, <3>2, OutAfterJoin
    <3>5. QED
      BY <1>1, <2>1, <3>1, <3>3, <3>4
  <2>7. ASSUME NEW t \in Callers, NEW c \in Channels, Unsubscribe(t, c), Dropped(c)
        PROVE  Owed(On("unsubscribe", ch))' \/ GoesOut(Pipe', venueSubs', ch)
    <3>1. Live /\ Pipe' = Pipe /\ venueSubs' = venueSubs
          /\ subscriptions' = subscriptions \ {c}
      BY <2>7 DEF Dropped, Lasts
    <3>2. CASE ch \in subscriptions
      <4>1. c = ch
        BY <3>1, <3>2
      <4>2. calling' = [calling EXCEPT ![t] = On("unsubscribe", ch)]
        BY <2>7, <3>2, <4>1 DEF Unsubscribe, Calls, UnsubscribeTask
      <4>3. calling'[t] = On("unsubscribe", ch)
        BY <4>2 DEF TypeOK
      <4>4. QED
        BY <4>3 DEF Owed
    <3>3. CASE ch \notin subscriptions
      BY <1>1, <2>1, <3>1, <3>3
    <3>4. QED
      BY <3>2, <3>3
  <2>8. ~Lost /\ ~Shaken
    BY <1>0 DEF Lost, Shaken
  <2>9. QED
    BY <2>2, <2>3, <2>4, <2>5, <2>6, <2>7, <2>8 DEF Kind
<1>4. CASE RunUnsubscribe
  <2> DEFINE g == On("unsubscribe", Head(posted).ch)
  <2>1. /\ Head(posted) \in Task /\ Head(posted).op = "unsubscribe"
        /\ Appended(g)
    BY <1>0, <1>4, RunUnsubscribeKind
  <2>2. Head(posted).ch \in Channels
    BY <2>1 DEF Task
  <2>3. g \in Frame /\ g # On("subscribe", ch) /\ (g = f <=> Head(posted).ch = ch)
    BY <2>2, Frames DEF On
  <2> HIDE DEF f, g
  <2>4. /\ Live /\ ch \notin subscriptions /\ Pipe' = Append(Pipe, g)
        /\ venueSubs' = venueSubs
    BY <2>1 DEF Appended, Lasts
  <2>5. /\ GoesOut(Pipe, venueSubs, ch) => GoesOut(Pipe', venueSubs', ch)
        /\ g = f => GoesOut(Pipe', venueSubs', ch)
    BY <1>0, <2>3, <2>4, OutAfterAppend DEF f
  <2>6. Owed(f) /\ Head(posted).ch # ch => Owed(On("unsubscribe", ch))'
    BY DropOwed DEF f
  <2>7. QED
    BY <1>1, <2>3, <2>4, <2>5, <2>6
<1>5. QED
  BY <1>3, <1>4

LEMMA SentStep ==
  ASSUME TypeOK, SessionInv, VenueInv, Next
  PROVE  SentGoIn'
<1> SUFFICES ASSUME Live', NEW ch \in Channels \ Books, ch \in subscriptions'
             PROVE  GoesIn(Pipe', venueSubs', ch)
  <2>1. subscriptions' \subseteq Channels
    BY TypeStep DEF TypeOK
  <2>2. QED
    BY <2>1 DEF SentGoIn, GoesIn, Has
<1> DEFINE f == On("subscribe", ch)
<1>0. /\ ~userClosed /\ ~userClosed' /\ Up' /\ SocketGone /\ SilentBeforeGreeting
      /\ Pipe \in Seq(Frame)
  BY NeverReopened, PipeType DEF VenueInv, Live
<1>1. ASSUME Live, ch \in subscriptions
      PROVE  GoesIn(Pipe, venueSubs, ch)
  BY <1>1 DEF VenueInv, SentGoIn
<1>2. f \in Frame /\ KeepAlive \in Frame /\ On("unsubscribe", ch) \in Frame
  BY Frames
<1>3. ~Has(Pipe, On("unsubscribe", ch))
  BY <1>0 DEF VenueInv, OnlyBooksDropped
<1>4. ASSUME NEW g \in Frame, Appended(g)
      PROVE  GoesIn(Pipe', venueSubs', ch)
  <2>1. /\ Live /\ ch \in subscriptions /\ Pipe' = Append(Pipe, g)
        /\ venueSubs' = venueSubs
    BY <1>4 DEF Appended, Lasts
  <2>2. Has(Pipe, f) => Has(Append(Pipe, g), f)
    BY <1>0, <1>2, HasInAppended
  <2>3. QED
    BY <1>1, <2>1, <2>2 DEF GoesIn
<1>5. CASE Same \/ \E c : Dropped(c)
  <2>1. Live /\ ch \in subscriptions /\ Pipe' = Pipe /\ venueSubs' = venueSubs
    BY <1>5 DEF Same, Dropped, Lasts
  <2>2. QED
    BY <1>1, <2>1
<1>6. CASE Written
  <2>1. /\ Live /\ ch \in subscriptions /\ Pipe # <<>> /\ Pipe' = Tail(Pipe)
        /\ venueSubs' = Deliver(Head(Pipe), venueSubs)
    BY <1>6 DEF Written, Lasts
  <2>2. venueSubs \in SUBSET Channels
    BY DEF TypeOK
  <2>3. Head(Pipe) # On("unsubscribe", ch)
    <3>1. Len(Pipe) \in Nat \ {0} /\ DOMAIN Pipe = 1..Len(Pipe) /\ Head(Pipe) = Pipe[1]
      BY <1>0, <2>1, HeadTailProperties, LenProperties, EmptySeq
    <3>2. QED
      BY <1>3, <3>1 DEF Has
  <2>4. GoesIn(Tail(Pipe), Deliver(Head(Pipe), venueSubs), ch)
    BY <1>0, <1>1, <2>1, <2>2, <2>3, InAfterDelivery
  <2>5. QED
    BY <2>1, <2>4
<1>7. CASE Flushed
  <2>1. /\ Live \/ subscriptions = {}
        /\ venueSubs' = venueSubs
        /\ subscriptions' = subscriptions \cup pendingTopics
    BY <1>0, <1>7, FlushedPipe
  <2>2. PICK q \in Seq(Frame) : Pipe' = Pipe \o q /\ (Has(q, f) <=> ch \in pendingTopics)
    BY <1>0, <1>7, FlushedPipe
  <2> HIDE DEF f
  <2>3. Has(Pipe', f) <=> Has(Pipe, f) \/ Has(q, f)
    BY <1>0, <2>2, HasInJoined
  <2>4. CASE ch \in pendingTopics
    BY <2>2, <2>3, <2>4 DEF GoesIn, f
  <2>5. CASE ch \in subscriptions
    <3>1. GoesIn(Pipe, venueSubs, ch)
      BY <1>1, <2>1, <2>5
    <3>2. QED
      BY <2>1, <2>3, <3>1 DEF GoesIn, f
  <2>6. QED
    BY <2>1, <2>4, <2>5
<1>8. CASE RunUnsubscribe
  <2>1. /\ Head(posted) \in Task /\ Head(posted).op = "unsubscribe"
        /\ Appended(On("unsubscribe", Head(posted).ch))
    BY <1>0, <1>8, RunUnsubscribeKind
  <2>2. On("unsubscribe", Head(posted).ch) \in Frame
    BY <2>1, Frames DEF Task
  <2>3. QED
    BY <1>4, <2>1, <2>2
<1>9. CASE ~RunUnsubscribe
  <2>1. Kind /\ ~Lost /\ ~Shaken
    BY <1>0, <1>9, StepKinds DEF Lost, Shaken
  <2>2. QED
    BY <1>2, <1>4, <1>5, <1>6, <1>7, <2>1 DEF Kind
<1>10. QED
  BY <1>8, <1>9

----------------------------------------------------------------------------
(* The theorems.                                                           *)

LEMMA VenueInvInit == Init => VenueInv
<1> SUFFICES ASSUME Init PROVE VenueInv
  OBVIOUS
<1>1. /\ sock = "none" /\ pendingTopics = {} /\ venueSubs = {} /\ subscriptions = {}
      /\ posted = <<Do("connect")>> /\ calling = [t \in Callers |-> NoTask]
      /\ ~connected /\ ~writeInFlight /\ outboundQueue = <<>>
  BY DEF Init
<1>2. Pipe = <<>>
  BY <1>1, ConcatEmptySeq, EmptySeq DEF Pipe, Carried
<1>3. \A ch \in Channels : ~Has(Pipe, On("unsubscribe", ch)) /\ NoSubscribe(Pipe)
  BY <1>2 DEF Has, NoSubscribe
<1>4. \A ch \in Channels : ~Owed(On("unsubscribe", ch))
  BY <1>1 DEF Owed, On, NoTask, Do
<1>5. ~Up /\ ~Live
  BY <1>1 DEF Up, Live
<1>6. NoSubscribe(Pipe)
  BY <1>2 DEF NoSubscribe
<1>7. QED
  BY <1>1, <1>3, <1>4, <1>5, <1>6
  DEF VenueInv, SocketGone, FlushOwed, SilentBeforeGreeting, OnlyBooksDropped,
      DroppedGoOut, SentGoIn

LEMMA VenueInvStep ==
  TypeOK /\ SessionInv /\ VenueInv /\ [Next]_vars => VenueInv'
<1> SUFFICES ASSUME TypeOK, SessionInv, VenueInv, [Next]_vars
             PROVE  VenueInv'
  OBVIOUS
<1>1. CASE Next
  BY <1>1, SocketGoneStep, FlushOwedStep, SilentStep, OnlyBooksStep, DroppedStep, SentStep
  DEF VenueInv
<1>2. CASE UNCHANGED vars
  <2>1. UNCHANGED <<link, userClosed, topics, pumpVars, transport, threads, venue>>
    BY <1>2 DEF vars
  <2>2. UNCHANGED <<connected, ready, userClosed, subscriptions, pendingTopics,
                    outboundQueue, writeInFlight, writeBuffer, sock, chain, posted,
                    calling, venueSubs>>
    BY <2>1 DEF link, topics, pumpVars, transport, threads, venue
  <2>3. QED
    BY <2>2
    DEF VenueInv, SocketGone, FlushOwed, SilentBeforeGreeting, OnlyBooksDropped,
        DroppedGoOut, SentGoIn, Live, Up, Owed, Pipe, Carried, Has, GoesOut, GoesIn,
        Undone, NoSubscribe
<1>3. QED
  BY <1>1, <1>2

(* However reconnects, failures, the pump and the callers interleave, what the
   venue sends and what the pipe holds come to the ledger: a dropped channel is
   owed its unsubscribe frame or has it last in the pipe, and a private feed
   that counts as sent is sent or in the pipe (flushTopics, unsubscribe,
   handleError and pump). *)
THEOREM VenueInvariant == Spec => []VenueInv
<1>1. Init => VenueInv
  BY VenueInvInit
<1>2. TypeOK /\ SessionInv /\ VenueInv /\ [Next]_vars => VenueInv'
  BY VenueInvStep
<1>3. QED
  BY <1>1, <1>2, TypeCorrect, SessionInvariant, PTL DEF Spec

LEMMA SettledAgrees == TypeOK /\ VenueInv => VenueAgrees
<1> SUFFICES ASSUME TypeOK, VenueInv, Settled
             PROVE  /\ pendingTopics = {}
                    /\ venueSubs \subseteq subscriptions
                    /\ subscriptions \ Books \subseteq venueSubs
  BY DEF VenueAgrees
<1>1. Up /\ Live /\ ~userClosed
  BY DEF Settled, Up, Live
<1>2. Pipe = <<>>
  BY ConcatEmptySeq, EmptySeq DEF Settled, Pipe, Carried
<1>3. \A f : ~Has(Pipe, f)
  BY <1>2 DEF Has
<1>4. \A task : task # NoTask => ~Owed(task)
  BY DEF Settled, Owed
<1>5. Do("flush") # NoTask /\ \A ch : On("unsubscribe", ch) # NoTask
  BY DEF Do, On, NoTask
<1>6. pendingTopics = {}
  BY <1>1, <1>4, <1>5 DEF VenueInv, FlushOwed
<1>7. venueSubs \subseteq subscriptions
  <2> SUFFICES ASSUME NEW ch \in venueSubs, ch \notin subscriptions PROVE FALSE
    OBVIOUS
  <2>1. ch \in Channels
    BY DEF TypeOK
  <2>2. GoesOut(Pipe, venueSubs, ch)
    BY <1>1, <1>4, <1>5, <2>1 DEF VenueInv, DroppedGoOut
  <2>3. QED
    BY <1>3, <2>2 DEF GoesOut
<1>8. subscriptions \ Books \subseteq venueSubs
  <2> SUFFICES ASSUME NEW ch \in subscriptions \ Books PROVE ch \in venueSubs
    OBVIOUS
  <2>1. GoesIn(Pipe, venueSubs, ch)
    BY <1>1 DEF VenueInv, SentGoIn
  <2>2. QED
    BY <1>3, <2>1 DEF GoesIn
<1>9. QED
  BY <1>6, <1>7, <1>8

(* Once the session is settled nothing is pending, the venue sends no channel
   the session has dropped, and it sends every channel that is never
   unsubscribed: the private order feed survives any number of reconnects
   (flushTopics, handleError, unsubscribe and their races). *)
THEOREM VenueAgreesAlways == Spec => []VenueAgrees
<1>1. TypeOK /\ VenueInv => VenueAgrees
  BY SettledAgrees
<1>2. QED
  BY <1>1, TypeCorrect, VenueInvariant, PTL
==============================================================================
