----------------------- MODULE ExecutionGatewayProofs -----------------------
(***************************************************************************)
(* Theorems about ExecutionGateway, for every value of its constants.      *)
(***************************************************************************)
EXTENDS ExecutionGateway, FiniteSetTheorems, TLAPS

----------------------------------------------------------------------------
(* The inductive invariant, part by part.                                  *)

(* Whoever awaits an answer, or resyncs after one, holds txM. *)
Holds == \A t \in Threads : at[t] \in {"sent", "failed"} => txM = t

(* A thread has a call exactly while it is busy, and an answer only once it
   has sent. *)
Busy ==
  \A t \in Threads :
    /\ at[t] = "idle" <=> call[t] = Idle
    /\ reply[t] # "none" => at[t] \in {"sent", "failed"}
    /\ reply[t] = "ok" => at[t] = "sent"

(* An awaited transaction is the one its thread sent, and not yet answered. *)
Awaited ==
  \A tx \in wire : tx.by # NoThread =>
    /\ at[tx.by] = "sent" /\ reply[tx.by] = "none"
    /\ call[tx.by] = [op |-> tx.op, order |-> tx.order]
    /\ tx.nonce = nextNonce

(* What the core never submitted is nowhere. *)
Untouched ==
  \A o \in Orders : outcome[o] = "new" =>
    /\ o \notin tracked /\ o \notin gone /\ status[o] = "absent"
    /\ \A tx \in wire : tx.order # o
    /\ \A t \in Threads : call[t].order # o

TrackedIsOpen == \A o \in tracked : outcome[o] = "open"

(* An order is submitted by one call, in one transaction, and the venue does
   not know it before that has arrived. *)
SubmittedOnce ==
  /\ \A t, u \in Threads :
       call[t].op = "submit" /\ call[u].op = "submit"
         /\ call[t].order = call[u].order => t = u
  /\ \A tx, ux \in wire :
       tx.op = "submit" /\ ux.op = "submit" /\ tx.order = ux.order => tx = ux
  /\ \A tx \in wire : tx.op = "submit" => status[tx.order] = "absent"

(* A submission that waits for txM has its record, and has gone nowhere. *)
NotYetSent ==
  \A t \in Threads : at[t] = "lock" /\ call[t].op = "submit" =>
    /\ call[t].order \in tracked /\ call[t].order \notin gone
    /\ status[call[t].order] = "absent"
    /\ \A tx \in wire : ~(tx.op = "submit" /\ tx.order = call[t].order)

(* A verdict that a thread has got is what the venue holds. *)
Verdicts ==
  \A t \in Threads :
    /\ reply[t] = "reject" /\ call[t].op = "submit"
         => status[call[t].order] = "refused"
    /\ reply[t] = "gone"
         => call[t].op = "cancel" /\ status[call[t].order] = "over"

(* What the feed says of an order was true of it, and an end is for good. *)
True(e) ==
  e.order \in Orders =>
    /\ status[e.order] \in {"working", "over"}
    /\ e.filled <= filled[e.order]
    /\ e.over => status[e.order] = "over" /\ e.filled = filled[e.order]

TrueFeed == True(handling) /\ \A i \in 1..Len(feed) : True(feed[i])

(* The core has been credited with what the records have counted, and with the
   fills of the event whose state is still to be told. *)
Credits ==
  /\ \A o \in Orders : credited[o] = cumFilledBase[o]
  /\ handling # Ack => handling.filled <= credited[handling.order]

OverIsOver == \A o \in Orders : outcome[o] = "over" => status[o] = "over"

(* An accepted transaction has used up the nonce that its thread still has. *)
UsedUp == \A t \in Threads : reply[t] = "ok" => nextNonce < venueNonce

(* Without transport failures the two nonces differ by an answer at most. *)
InStep ==
  faults = 0 =>
    /\ \A tx \in wire : tx.by # NoThread
    /\ (\A t \in Threads : reply[t] # "ok") => nextNonce = venueNonce
    /\ (\E t \in Threads : reply[t] = "ok") => venueNonce = nextNonce + 1

CallInv  == Holds /\ Busy /\ Awaited
OrderInv == /\ Untouched /\ TrackedIsOpen /\ SubmittedOnce /\ NotYetSent
            /\ Verdicts /\ Attributed /\ GoneIsGone
FeedInv  == TrueFeed /\ Credits /\ OverIsOver /\ FillsBeforeOver
NonceInv == UsedUp /\ InStep /\ NonceInStep /\ NonceNeverAhead

GatewayInv == CallInv /\ OrderInv /\ FeedInv /\ NonceInv

----------------------------------------------------------------------------
(* Types.                                                                  *)

LEMMA EventOfType ==
  ASSUME TypeOK, NEW o \in Orders
  PROVE  EventOf(o) \in Event
BY DEF TypeOK, EventOf, Event

(* The acknowledgement and the orders that come with it are a message feed. *)
LEMMA SnapshotType ==
  ASSUME TypeOK, NEW S \in SUBSET Orders, NEW order \in SetToSeqs(S)
  PROVE  /\ <<Ack>> \o [i \in DOMAIN order |-> EventOf(order[i])]
              \in Seq(Event \cup {Ack})
         /\ \A i \in 1..Len(<<Ack>> \o [j \in DOMAIN order |-> EventOf(order[j])]) :
              LET e == (<<Ack>> \o [j \in DOMAIN order |-> EventOf(order[j])])[i]
              IN  e = Ack \/ \E o \in S : e = EventOf(o)
<1>1. Cardinality(S) \in Nat
  BY LimitsAssumption, FS_Subset, FS_CardinalityType
<1>2. order \in [1..Cardinality(S) -> S]
  BY DEF SetToSeqs
<1> DEFINE tail == [i \in DOMAIN order |-> EventOf(order[i])]
<1>3. \A i \in 1..Cardinality(S) : EventOf(order[i]) \in Event \cup {Ack}
  BY <1>2, EventOfType
<1>4. /\ tail \in [1..Cardinality(S) -> Event \cup {Ack}]
      /\ tail \in Seq(Event \cup {Ack}) /\ Len(tail) = Cardinality(S)
  BY <1>1, <1>2, <1>3
<1>5. /\ <<Ack>> \in Seq(Event \cup {Ack}) /\ Len(<<Ack>>) = 1
      /\ <<Ack>>[1] = Ack
  OBVIOUS
<1>6. \A i \in 1..Len(tail) : \E o \in S : tail[i] = EventOf(o)
  BY <1>2, <1>4
<1> HIDE DEF tail
<1>7. <<Ack>> \o tail \in Seq(Event \cup {Ack})
  BY <1>4, <1>5
<1>8. ASSUME NEW i \in 1..Len(<<Ack>> \o tail)
      PROVE  LET e == (<<Ack>> \o tail)[i]
             IN  e = Ack \/ \E o \in S : e = EventOf(o)
  <2>1. CASE i = 1
    BY <1>4, <1>5, <2>1
  <2>2. CASE i # 1
    <3>1. i - 1 \in 1..Len(tail) /\ (<<Ack>> \o tail)[i] = tail[i - 1]
      BY <1>4, <1>5, <2>2
    <3>2. QED
      BY <1>6, <3>1
  <2>3. QED
    BY <2>1, <2>2
<1>9. QED
  BY <1>7, <1>8 DEF tail

LEMMA EmptyFeed == <<>> \in Seq(Event \cup {Ack})
OBVIOUS

(* A transaction whose fate stays unknown is under way unawaited. *)
LEMMA UnknownEffect ==
  ASSUME TypeOK, NEW t \in Threads, TxUnknown(t)
  PROVE  /\ wire' \subseteq Tx
         /\ \A ux \in wire' : \E tx \in wire :
              ux = IF tx.by = t
                   THEN [op |-> tx.op, order |-> tx.order, nonce |-> tx.nonce,
                         by |-> NoThread]
                   ELSE tx
<1>1. ASSUME NEW tx \in wire
      PROVE  [tx EXCEPT !.by = NoThread]
               = [op |-> tx.op, order |-> tx.order, nonce |-> tx.nonce,
                  by |-> NoThread]
  <2>1. tx \in Tx
    BY DEF TypeOK
  <2>2. QED
    BY <2>1 DEF Tx
<1>2. wire' = {IF tx.by = t THEN [tx EXCEPT !.by = NoThread] ELSE tx : tx \in wire}
  BY DEF TxUnknown
<1>3. \A ux \in wire' : \E tx \in wire :
        ux = IF tx.by = t
             THEN [op |-> tx.op, order |-> tx.order, nonce |-> tx.nonce,
                   by |-> NoThread]
             ELSE tx
  BY <1>1, <1>2
<1>4. \A tx \in wire :
        tx \in Tx /\ [op |-> tx.op, order |-> tx.order, nonce |-> tx.nonce,
                      by |-> NoThread] \in Tx
  BY DEF TypeOK, Tx
<1>5. QED
  BY <1>3, <1>4

(* What arrives at the venue changes its own state, the feed, and the reply of
   a thread that still waits. *)
LEMMA ArriveType ==
  ASSUME TypeOK, NEW tx \in wire, Arrive(tx)
  PROVE  TypeOK'
<1> DEFINE e == EventOf(tx.order)'
<1>1. /\ tx \in Tx /\ tx.order \in Orders /\ tx.by \in Threads \cup {NoThread}
      /\ tx.nonce \in Nat
  BY DEF TypeOK, Tx
<1>2. UNCHANGED <<records, accountFeedLive, nextNonce, start, call, at, txM,
                  cancels, faults, handling, told, filled, feedUp, drops>>
  BY DEF Arrive, VenueStep, Accept, Refuse, Announce, stream
<1>3. wire' \subseteq Tx /\ reply' \in [Threads -> {"none", "ok", "reject", "gone"}]
  BY <1>1 DEF Arrive, Accept, Refuse, Answer, TypeOK
<1>4. /\ status' \in [Orders -> {"absent", "working", "over", "refused"}]
      /\ venueNonce' \in Nat
  <2>1. CASE Accept(tx)
    <3>1. status \in [Orders -> {"absent", "working", "over", "refused"}]
          /\ venueNonce \in Nat
      BY DEF TypeOK
    <3>2. QED
      BY <1>1, <2>1, <3>1 DEF Accept
  <2>2. CASE Refuse(tx)
    BY <1>1, <2>2 DEF Refuse, TypeOK
  <2>3. QED
    BY <2>1, <2>2 DEF Arrive
<1>5. e \in Event
  BY <1>1, <1>2, <1>4 DEF EventOf, Event, TypeOK
<1>6. feed' \in Seq(Event \cup {Ack})
  <2>1. feed' = feed \/ feed' = Append(feed, e)
    BY DEF Arrive, Accept, Refuse, Announce, stream
  <2>2. feed \in Seq(Event \cup {Ack})
    BY DEF TypeOK
  <2> HIDE DEF e
  <2>3. QED
    BY <1>5, <2>1, <2>2
<1>7. QED
  BY <1>2, <1>3, <1>4, <1>6 DEF TypeOK, records, told

LEMMA TypeStep == TypeOK /\ Busy /\ [Next]_vars => TypeOK'
<1> SUFFICES ASSUME TypeOK, Busy, [Next]_vars
             PROVE  TypeOK'
  OBVIOUS
<1> USE NamesAssumption, LimitsAssumption
<1>1. CASE UNCHANGED vars
  BY <1>1 DEF TypeOK, vars, records, calls, venue, stream, told
<1>2. CASE Start
  BY <1>2 DEF Start, TypeOK, records, calls, venue, stream, told
<1>3. ASSUME NEW t \in Threads, ThreadStep(t)
      PROVE  TypeOK'
  <2>1. ASSUME NEW o \in Orders, Submit(t, o)
        PROVE  TypeOK'
    <3>1. [op |-> "submit", order |-> o] \in Call
      BY DEF Call
    <3>2. QED
      BY <2>1, <3>1 DEF Submit, TypeOK, venue, stream
  <2>2. ASSUME NEW o \in Orders, CancelGone(t, o)
        PROVE  TypeOK'
    BY <2>2 DEF CancelGone, TypeOK, records, calls, venue, stream
  <2>3. ASSUME NEW o \in Orders, Cancel(t, o)
        PROVE  TypeOK'
    <3>1. [op |-> "cancel", order |-> o] \in Call
      BY DEF Call
    <3>2. QED
      BY <2>3, <3>1 DEF Cancel, TypeOK, records, venue, stream, told
  <2>4. CASE SignFails(t)
    BY <2>4 DEF SignFails, Return, EraseOrderRec, TypeOK, records, venue, stream
  <2>5. CASE Send(t)
    <3>1. call[t] \in Call
      BY <2>5 DEF Send, Busy, TypeOK
    <3>2. [op |-> call[t].op, order |-> call[t].order, nonce |-> nextNonce,
           by |-> t] \in Tx
      BY <3>1 DEF Call, Tx, TypeOK
    <3>3. wire' \subseteq Tx
      BY <2>5, <3>2 DEF Send, TypeOK
    <3>4. QED
      BY <2>5, <3>3 DEF Send, TypeOK, records, venue, stream, told
  <2>6. CASE TxOk(t)
    BY <2>6 DEF TxOk, Return, Unlock, TypeOK, records, venue, stream, told
  <2>7. CASE TxRejected(t)
    BY <2>7 DEF TxRejected, TypeOK, records, venue, stream, told
  <2>8. CASE TxUnknown(t)
    <3>1. wire' \subseteq Tx
      BY <2>8, UnknownEffect
    <3>2. faults' \in 0..MaxFaults
      BY <2>8 DEF TxUnknown, TypeOK
    <3>3. /\ at' \in [Threads -> {"idle", "lock", "sent", "failed"}]
          /\ reply' \in [Threads -> {"none", "ok", "reject", "gone"}]
      BY <2>8 DEF TxUnknown, TypeOK
    <3>4. UNCHANGED <<records, accountFeedLive, nextNonce, start, call, txM,
                      cancels, handling, venue, stream, told>>
      BY <2>8 DEF TxUnknown
    <3>5. QED
      BY <3>1, <3>2, <3>3, <3>4 DEF TypeOK, records, venue, stream, told
  <2>9. CASE Resync(t)
    <3>1. nextNonce' \in Nat /\ faults' \in 0..MaxFaults
      BY <2>9 DEF Resync, Resynced, TypeOK
    <3>2. call[t] \in Call
      BY <2>9 DEF Resync, Busy, TypeOK
    <3>3. /\ outcome' \in [Orders -> {"new", "open", "over", "refused"}]
          /\ gone' \subseteq Orders
          /\ tracked' \subseteq Orders /\ known' \subseteq tracked'
          /\ cumFilledBase' = cumFilledBase
      BY <2>9, <3>2 DEF Resync, EraseOrderRec, Call, TypeOK, records
    <3>4. /\ call' \in [Threads -> Call \cup {Idle}]
          /\ at' \in [Threads -> {"idle", "lock", "sent", "failed"}]
          /\ reply' \in [Threads -> {"none", "ok", "reject", "gone"}]
          /\ txM' \in Threads \cup {NoThread}
      BY <2>9 DEF Resync, Return, Unlock, TypeOK
    <3>5. QED
      BY <2>9, <3>1, <3>3, <3>4 DEF Resync, TypeOK, venue, stream
  <2>10. QED
    BY <1>3, <2>1, <2>2, <2>3, <2>4, <2>5, <2>6, <2>7, <2>8, <2>9 DEF ThreadStep
<1>4. CASE OnOrderEvent
  <2> DEFINE e == Head(feed)
  <2>1. e \in Event \cup {Ack} /\ feed' \in Seq(Event \cup {Ack})
    BY <1>4 DEF OnOrderEvent, TypeOK
  <2>2. CASE Tracks(e)
    <3>1. e.order \in Orders /\ e.filled \in 0..Qty /\ e.order \in tracked
      BY <2>1, <2>2 DEF Tracks, TypeOK, Event, Ack
    <3> HIDE DEF e
    <3>2. known' = known \cup {e.order} /\ handling' = e
      BY <1>4, <2>2 DEF OnOrderEvent, e
    <3>3. cumFilledBase' \in [Orders -> 0..Qty]
      <4>1. Remember(e.order, e.filled)
        BY <1>4, <2>2 DEF OnOrderEvent, e
      <4>2. cumFilledBase \in [Orders -> 0..Qty]
        BY DEF TypeOK
      <4>3. QED
        BY <3>1, <4>1, <4>2 DEF Remember
    <3>4. NewFill(e) \in Nat
      BY <3>1 DEF NewFill, TypeOK
    <3>5. credited' = [credited EXCEPT ![e.order] = @ + NewFill(e)]
      BY <1>4, <2>2 DEF OnOrderEvent, e
    <3>6. credited' \in [Orders -> Nat]
      BY <3>1, <3>4, <3>5 DEF TypeOK
    <3>7. QED
      BY <1>4, <2>1, <3>1, <3>2, <3>3, <3>6
         DEF OnOrderEvent, TypeOK, calls, venue, e
  <2>3. CASE ~Tracks(e)
    BY <1>4, <2>1, <2>3 DEF OnOrderEvent, TypeOK, calls, venue
  <2>4. QED
    BY <2>2, <2>3
<1>5. CASE OnOrderUpdate
  BY <1>5 DEF OnOrderUpdate, EraseOrderRec, TypeOK, records, calls, venue, stream
<1>6. ASSUME NEW tx \in wire, Arrive(tx)
      PROVE  TypeOK'
  BY <1>6, ArriveType
<1>7. ASSUME NEW o \in Orders, Fill(o) \/ Expire(o)
      PROVE  TypeOK'
  <2>1. /\ filled' \in [Orders -> 0..Qty]
        /\ status' \in [Orders -> {"absent", "working", "over", "refused"}]
    <3>1. /\ filled \in [Orders -> 0..Qty]
          /\ status \in [Orders -> {"absent", "working", "over", "refused"}]
      BY DEF TypeOK
    <3>2. CASE Fill(o)
      <4>1. filled[o] + 1 \in 0..Qty
        BY <3>1, <3>2 DEF Fill
      <4>2. filled' = [filled EXCEPT ![o] = filled[o] + 1]
        BY <3>2 DEF Fill
      <4>3. \E x \in {status[o], "over"} : status' = [status EXCEPT ![o] = x]
        BY <3>2 DEF Fill
      <4>4. QED
        BY <3>1, <4>1, <4>2, <4>3
    <3>3. CASE Expire(o)
      BY <3>1, <3>3 DEF Expire
    <3>4. QED
      BY <1>7, <3>2, <3>3
  <2> DEFINE e == EventOf(o)'
  <2>2. e \in Event
    BY <2>1 DEF EventOf, Event
  <2>3. feed' = feed \/ feed' = Append(feed, e)
    BY <1>7 DEF Fill, Expire, Announce
  <2> HIDE DEF e
  <2>4. feed' \in Seq(Event \cup {Ack})
    <3>1. feed \in Seq(Event \cup {Ack})
      BY DEF TypeOK
    <3>2. QED
      BY <2>2, <2>3, <3>1
  <2>5. UNCHANGED <<records, accountFeedLive, nextNonce, start, calls, cancels,
                    faults, handling, wire, venueNonce, feedUp, drops, told>>
    BY <1>7 DEF Fill, Expire, Announce, VenueStep, calls
  <2>6. QED
    BY <2>1, <2>4, <2>5 DEF TypeOK, records, calls, told
<1>8. CASE FeedDrops
  <2>1. feed' \in Seq(Event \cup {Ack}) /\ feedUp' \in BOOLEAN
    BY <1>8, EmptyFeed DEF FeedDrops
  <2>2. drops' \in 0..MaxDrops
    BY <1>8 DEF FeedDrops, TypeOK
  <2>3. QED
    BY <1>8, <2>1, <2>2 DEF FeedDrops, VenueStep, TypeOK, records, venue, told
<1>9. CASE FeedSubscribed
  <2>1. PICK S \in SUBSET {o \in Orders : status[o] = "over"} :
          \E order \in SetToSeqs(S \cup {o \in Orders : status[o] = "working"}) :
            feed' = <<Ack>> \o [i \in DOMAIN order |-> EventOf(order[i])]
    BY <1>9 DEF FeedSubscribed
  <2>2. S \cup {o \in Orders : status[o] = "working"} \subseteq Orders
    OBVIOUS
  <2>3. feed' \in Seq(Event \cup {Ack})
    BY <2>1, <2>2, SnapshotType
  <2>4. QED
    BY <1>9, <2>3 DEF FeedSubscribed, VenueStep, TypeOK, records, venue, told
<1>10. QED
  BY <1>1, <1>2, <1>3, <1>4, <1>5, <1>6, <1>7, <1>8, <1>9
     DEF Next, IoStep, VenueNext


----------------------------------------------------------------------------
(* Who waits for what.                                                     *)

(* Whatever the venue makes of a transaction, it takes it off the wire and
   answers a thread that waits for it. *)
LEMMA ArriveEffect ==
  ASSUME TypeOK, NEW tx \in wire, Arrive(tx)
  PROVE  /\ tx \in Tx /\ wire' = wire \ {tx}
         /\ UNCHANGED <<tracked, known, cumFilledBase, nextNonce, call, at, txM,
                        faults, handling, outcome, credited, gone, filled>>
         /\ \E a \in {"ok", "reject", "gone"} :
              /\ reply' = IF tx.by = NoThread THEN reply
                          ELSE [reply EXCEPT ![tx.by] = a]
              /\ a = "ok" => Accept(tx)
              /\ a = "reject" => Refuse(tx)
              /\ a = "gone" => /\ Refuse(tx)
                               /\ tx.op = "cancel" /\ status[tx.order] = "over"
<1>1. tx \in Tx
  BY DEF TypeOK
<1>2. UNCHANGED <<tracked, known, cumFilledBase, nextNonce, call, at, txM,
                  faults, handling, outcome, credited, gone>>
  BY DEF Arrive, VenueStep, records, told
<1>3. CASE Accept(tx)
  BY <1>1, <1>2, <1>3 DEF Accept, Answer
<1>4. CASE Refuse(tx)
  BY <1>1, <1>2, <1>4 DEF Refuse, Answer
<1>5. QED
  BY <1>3, <1>4 DEF Arrive

(* Only one transaction is awaited at a time: that of the holder of txM. *)
LEMMA OneAwaited ==
  ASSUME TypeOK, CallInv, NEW tx \in wire, tx.by # NoThread
  PROVE  /\ tx.by \in Threads /\ txM = tx.by
         /\ \A ux \in wire : ux.by # NoThread => ux = tx
         /\ \A t \in Threads : at[t] \in {"sent", "failed"} => t = tx.by
         /\ \A t \in Threads : reply[t] = "none"
<1>1. \A ux \in wire : ux \in Tx
  BY DEF TypeOK
<1>2. /\ tx.by \in Threads /\ at[tx.by] = "sent" /\ txM = tx.by
      /\ reply[tx.by] = "none"
  BY <1>1 DEF CallInv, Awaited, Holds, Tx
<1>3. \A t \in Threads : at[t] \in {"sent", "failed"} => t = tx.by
  BY <1>2 DEF CallInv, Holds
<1>4. \A t \in Threads : reply[t] = "none"
  BY <1>2, <1>3 DEF CallInv, Busy
<1>5. ASSUME NEW ux \in wire, ux.by # NoThread
      PROVE  ux = tx
  <2>1. ux.by = tx.by
    BY <1>1, <1>3, <1>5 DEF CallInv, Awaited, Tx
  <2>2. /\ [op |-> ux.op, order |-> ux.order] = [op |-> tx.op, order |-> tx.order]
        /\ ux.nonce = tx.nonce
    BY <1>2, <1>5, <2>1 DEF CallInv, Awaited
  <2>3. ux.op = tx.op /\ ux.order = tx.order
    BY <2>2
  <2>4. QED
    BY <1>1, <2>1, <2>2, <2>3 DEF Tx
<1>6. QED
  BY <1>2, <1>3, <1>4, <1>5

LEMMA CallStep == TypeOK /\ CallInv /\ [Next]_vars => CallInv'
<1> SUFFICES ASSUME TypeOK, CallInv, [Next]_vars
             PROVE  CallInv'
  OBVIOUS
<1> USE NamesAssumption
<1>0. Holds /\ Busy /\ Awaited
  BY DEF CallInv
<1>1. ASSUME UNCHANGED <<call, at, reply, txM, wire, nextNonce>>
      PROVE  CallInv'
  BY <1>0, <1>1 DEF CallInv, Holds, Busy, Awaited
<1>2. ASSUME NEW t \in Threads, ThreadStep(t)
      PROVE  CallInv'
  <2>0. /\ at \in [Threads -> {"idle", "lock", "sent", "failed"}]
        /\ reply \in [Threads -> {"none", "ok", "reject", "gone"}]
        /\ call \in [Threads -> Call \cup {Idle}]
        /\ \A tx \in wire : tx.by \in Threads \cup {NoThread}
    BY DEF TypeOK, Tx
  <2>1. ASSUME NEW o \in Orders, Submit(t, o) \/ Cancel(t, o)
        PROVE  CallInv'
    <3>1. /\ at[t] = "idle" /\ at' = [at EXCEPT ![t] = "lock"]
          /\ UNCHANGED <<reply, txM, wire, nextNonce>>
      BY <2>1 DEF Submit, Cancel
    <3>2. \E c \in Call : call' = [call EXCEPT ![t] = c]
      BY <2>1 DEF Submit, Cancel, Call
    <3>3. \A c \in Call : c # Idle
      BY DEF Call, Idle
    <3>4. Holds' /\ Awaited'
      BY <1>0, <2>0, <3>1, <3>2 DEF Holds, Awaited
    <3>5. Busy'
      BY <1>0, <2>0, <3>1, <3>2, <3>3 DEF Busy
    <3>6. QED
      BY <3>4, <3>5 DEF CallInv
  <2>2. ASSUME NEW o \in Orders, CancelGone(t, o)
        PROVE  CallInv'
    BY <1>1, <2>2 DEF CancelGone, calls
  <2>3. CASE SignFails(t)
    <3>1. /\ at[t] = "lock" /\ Return(t) /\ txM = NoThread
          /\ UNCHANGED <<txM, wire, nextNonce>>
      BY <2>3 DEF SignFails, TxFree
    <3>2. QED
      BY <1>0, <2>0, <3>1 DEF Return, CallInv, Holds, Busy, Awaited
  <2>4. CASE Send(t)
    <3>1. /\ at[t] = "lock" /\ txM = NoThread /\ txM' = t
          /\ at' = [at EXCEPT ![t] = "sent"]
          /\ UNCHANGED <<call, reply, nextNonce>>
      BY <2>4 DEF Send, TxFree
    <3>2. \A u \in Threads : at[u] \in {"idle", "lock"} /\ reply[u] = "none"
      BY <1>0, <2>0, <3>1 DEF Holds, Busy
    <3>3. \A tx \in wire : tx.by = NoThread
      BY <1>0, <2>0, <3>2 DEF Awaited
    <3>4. Holds' /\ Busy'
      BY <1>0, <2>0, <3>1, <3>2 DEF Holds, Busy
    <3>5. call[t] = [op |-> call[t].op, order |-> call[t].order]
      BY <2>0 DEF Call, Idle
    <3>6. Awaited'
      BY <2>0, <2>4, <3>1, <3>2, <3>3, <3>5 DEF Send, Awaited
    <3>7. QED
      BY <3>4, <3>6 DEF CallInv
  <2>5. CASE TxOk(t) \/ Resync(t)
    <3>1. /\ at[t] \in {"sent", "failed"} /\ Return(t) /\ Unlock(t) /\ wire' = wire
          /\ at[t] = "sent" => reply[t] = "ok"
      BY <2>5 DEF TxOk, Resync
    <3>2. \A u \in Threads : u # t => at[u] \in {"idle", "lock"} /\ reply[u] = "none"
      BY <1>0, <2>0, <3>1 DEF Holds, Busy
    <3>3. \A tx \in wire : tx.by = NoThread
      BY <1>0, <2>0, <3>1, <3>2 DEF Awaited
    <3>4. QED
      BY <1>0, <2>0, <3>1, <3>2, <3>3
         DEF Return, Unlock, CallInv, Holds, Busy, Awaited
  <2>6. CASE TxRejected(t)
    BY <1>0, <2>0, <2>6 DEF TxRejected, CallInv, Holds, Busy, Awaited
  <2>7. CASE TxUnknown(t)
    <3>1. /\ at[t] = "sent" /\ at' = [at EXCEPT ![t] = "failed"]
          /\ reply' = [reply EXCEPT ![t] = "none"]
          /\ UNCHANGED <<call, txM, nextNonce>>
      BY <2>7 DEF TxUnknown
    <3>2. Holds' /\ Busy'
      BY <1>0, <2>0, <3>1 DEF Holds, Busy
    <3>3. \A ux \in wire' : ux.by # NoThread => ux \in wire /\ ux.by # t
      BY <2>7, UnknownEffect
    <3>4. Awaited'
      BY <1>0, <2>0, <3>1, <3>3 DEF Awaited
    <3>5. QED
      BY <3>2, <3>4 DEF CallInv
  <2>8. QED
    BY <1>2, <2>1, <2>2, <2>3, <2>4, <2>5, <2>6, <2>7 DEF ThreadStep
<1>3. ASSUME NEW tx \in wire, Arrive(tx)
      PROVE  CallInv'
  <2>1. UNCHANGED <<call, at, txM, nextNonce>> /\ wire' = wire \ {tx}
    BY <1>3, ArriveEffect
  <2>2. CASE tx.by = NoThread
    <3>1. reply' = reply
      BY <1>3, <2>2, ArriveEffect
    <3>2. QED
      BY <1>0, <2>1, <3>1 DEF CallInv, Holds, Busy, Awaited
  <2>3. CASE tx.by # NoThread
    <3>1. /\ \A ux \in wire' : ux.by = NoThread
          /\ tx.by \in Threads /\ at[tx.by] = "sent"
      BY <1>0, <2>1, <2>3, OneAwaited DEF Awaited
    <3>2. \A u \in Threads : u # tx.by => reply'[u] = reply[u]
      <4>1. reply \in [Threads -> {"none", "ok", "reject", "gone"}]
        BY DEF TypeOK
      <4>2. PICK a : reply' = [reply EXCEPT ![tx.by] = a]
        BY <1>3, <2>3, ArriveEffect
      <4>3. QED
        BY <4>1, <4>2
    <3>3. QED
      BY <1>0, <2>1, <3>1, <3>2 DEF CallInv, Holds, Busy, Awaited
  <2>4. QED
    BY <2>2, <2>3
<1>4. CASE Start \/ IoStep \/ FeedDrops \/ FeedSubscribed \/ UNCHANGED vars
  BY <1>1, <1>4 DEF Start, IoStep, OnOrderEvent, OnOrderUpdate, FeedDrops,
                    FeedSubscribed, VenueStep, calls, vars
<1>5. ASSUME NEW o \in Orders, Fill(o) \/ Expire(o)
      PROVE  CallInv'
  BY <1>1, <1>5 DEF Fill, Expire, VenueStep
<1>6. QED
  BY <1>2, <1>3, <1>4, <1>5 DEF Next, VenueNext

(* Every variable keeps its type, whatever the numbers of orders, threads,
   cancels, faults and losses: nonces are naturals, and no record counts more
   than its order's quantity. *)
THEOREM TypeCorrect == Spec => []TypeOK
<1>1. Init => TypeOK /\ CallInv
  <2> SUFFICES ASSUME Init PROVE TypeOK /\ CallInv
    OBVIOUS
  <2>1. TypeOK
    <3>1. /\ known \subseteq tracked /\ tracked \subseteq Orders
          /\ accountFeedLive \in BOOLEAN
          /\ nextNonce \in Nat /\ venueNonce \in Nat
          /\ start \in {"waiting", "ready", "failed"}
          /\ txM \in Threads \cup {NoThread}
      BY DEF Init
    <3>2. /\ call \in [Threads -> Call \cup {Idle}]
          /\ at \in [Threads -> {"idle", "lock", "sent", "failed"}]
          /\ reply \in [Threads -> {"none", "ok", "reject", "gone"}]
          /\ cancels \in 0..MaxCancels /\ faults \in 0..MaxFaults
          /\ drops \in 0..MaxDrops
      BY LimitsAssumption DEF Init
    <3>3. /\ handling \in Event \cup {Ack} /\ wire \subseteq Tx
          /\ feedUp \in BOOLEAN /\ feed \in Seq(Event \cup {Ack})
          /\ gone \subseteq Orders
      BY EmptyFeed DEF Init
    <3>4. /\ status \in [Orders -> {"absent", "working", "over", "refused"}]
          /\ filled \in [Orders -> 0..Qty]
          /\ cumFilledBase \in [Orders -> 0..Qty]
          /\ outcome \in [Orders -> {"new", "open", "over", "refused"}]
          /\ credited \in [Orders -> Nat]
      BY LimitsAssumption DEF Init
    <3>5. QED
      BY <3>1, <3>2, <3>3, <3>4 DEF TypeOK
  <2>2. CallInv
    BY DEF Init, CallInv, Holds, Busy, Awaited
  <2>3. QED
    BY <2>1, <2>2
<1>2. TypeOK /\ CallInv /\ [Next]_vars => TypeOK' /\ CallInv'
  BY TypeStep, CallStep DEF CallInv
<1>3. QED
  BY <1>1, <1>2, PTL DEF Spec

----------------------------------------------------------------------------
(* The records of the orders.                                              *)

LEMMA OrderStep ==
  TypeOK /\ CallInv /\ OrderInv /\ TrueFeed /\ [Next]_vars => OrderInv'
<1> SUFFICES ASSUME TypeOK, CallInv, OrderInv, TrueFeed, [Next]_vars
             PROVE  OrderInv'
  OBVIOUS
<1> USE NamesAssumption
<1>0. /\ Untouched /\ TrackedIsOpen /\ SubmittedOnce /\ NotYetSent /\ Verdicts
      /\ Attributed /\ GoneIsGone /\ Busy /\ Awaited
  BY DEF OrderInv, CallInv
<1>t. /\ tracked \subseteq Orders /\ gone \subseteq Orders
      /\ at \in [Threads -> {"idle", "lock", "sent", "failed"}]
      /\ reply \in [Threads -> {"none", "ok", "reject", "gone"}]
      /\ call \in [Threads -> Call \cup {Idle}]
      /\ outcome \in [Orders -> {"new", "open", "over", "refused"}]
      /\ status \in [Orders -> {"absent", "working", "over", "refused"}]
      /\ \A tx \in wire : tx \in Tx /\ tx.order \in Orders
                          /\ tx.by \in Threads \cup {NoThread}
  BY DEF TypeOK, Tx
<1>b. \A t \in Threads : at[t] # "idle" =>
        call[t].op \in {"submit", "cancel"} /\ call[t].order \in Orders
  BY <1>0, <1>t DEF Busy, Call
<1>1. ASSUME UNCHANGED <<tracked, outcome, gone, status, wire, call, at, reply>>
      PROVE  OrderInv'
  BY <1>0, <1>1 DEF OrderInv, Untouched, TrackedIsOpen, SubmittedOnce,
     NotYetSent, Verdicts, Attributed, GoneIsGone
<1>2. ASSUME NEW t \in Threads, NEW o \in Orders, Submit(t, o)
      PROVE  OrderInv'
  <2>1. /\ at[t] = "idle" /\ outcome[o] = "new" /\ tracked' = tracked \cup {o}
        /\ outcome' = [outcome EXCEPT ![o] = "open"]
        /\ call' = [call EXCEPT ![t] = [op |-> "submit", order |-> o]]
        /\ at' = [at EXCEPT ![t] = "lock"]
        /\ UNCHANGED <<gone, status, wire, reply>>
    BY <1>2 DEF Submit, venue
  <2>2. /\ o \notin gone /\ status[o] = "absent" /\ reply[t] = "none"
        /\ \A tx \in wire : tx.order # o
        /\ \A u \in Threads : call[u].order # o
    BY <1>0, <1>t, <2>1 DEF Untouched, Busy
  <2>3. Untouched' /\ TrackedIsOpen'
    BY <1>0, <1>t, <2>1, <2>2 DEF Untouched, TrackedIsOpen
  <2>4. SubmittedOnce'
    BY <1>0, <1>t, <2>1, <2>2 DEF SubmittedOnce
  <2>5. NotYetSent' /\ Verdicts'
    BY <1>0, <1>t, <2>1, <2>2 DEF NotYetSent, Verdicts
  <2>6. Attributed' /\ GoneIsGone'
    BY <1>0, <1>t, <2>1, <2>2 DEF Attributed, GoneIsGone
  <2>7. QED
    BY <2>3, <2>4, <2>5, <2>6 DEF OrderInv
<1>3. ASSUME NEW t \in Threads, NEW o \in Orders, CancelGone(t, o)
      PROVE  OrderInv'
  <2>1. /\ o \notin tracked /\ outcome[o] # "new" /\ gone' = gone \cup {o}
        /\ UNCHANGED <<tracked, outcome, status, wire, call, at, reply>>
    BY <1>3 DEF CancelGone, NoRecord, records, calls, venue
  <2>2. Untouched' /\ TrackedIsOpen' /\ SubmittedOnce' /\ NotYetSent' /\ Verdicts'
    BY <1>0, <1>t, <2>1
       DEF Untouched, TrackedIsOpen, SubmittedOnce, NotYetSent, Verdicts
  <2>3. Attributed' /\ GoneIsGone'
    BY <1>0, <1>t, <2>1 DEF Attributed, GoneIsGone
  <2>4. QED
    BY <2>2, <2>3 DEF OrderInv
<1>4. ASSUME NEW t \in Threads, NEW o \in Orders, Cancel(t, o)
      PROVE  OrderInv'
  <2>1. /\ at[t] = "idle" /\ o \in tracked
        /\ call' = [call EXCEPT ![t] = [op |-> "cancel", order |-> o]]
        /\ at' = [at EXCEPT ![t] = "lock"]
        /\ UNCHANGED <<tracked, outcome, gone, status, wire, reply>>
    BY <1>4 DEF Cancel, NoRecord, records, venue, told
  <2>2. reply[t] = "none" /\ outcome[o] = "open"
    BY <1>0, <1>t, <2>1 DEF Busy, TrackedIsOpen
  <2>3. Untouched' /\ TrackedIsOpen' /\ SubmittedOnce' /\ NotYetSent' /\ Verdicts'
    BY <1>0, <1>t, <2>1, <2>2
       DEF Untouched, TrackedIsOpen, SubmittedOnce, NotYetSent, Verdicts
  <2>4. Attributed' /\ GoneIsGone'
    BY <1>0, <1>t, <2>1 DEF Attributed, GoneIsGone
  <2>5. QED
    BY <2>3, <2>4 DEF OrderInv
(* A call that ends, with or without the record of its order. *)
<1>5. ASSUME NEW t \in Threads, at[t] # "idle", Return(t),
             \/ gone' = gone
             \/ /\ status[call[t].order] = "over"
                /\ gone' = gone \cup {call[t].order},
             UNCHANGED <<tracked, outcome, status, wire>>
      PROVE  OrderInv'
  <2>1. Untouched' /\ TrackedIsOpen' /\ SubmittedOnce' /\ NotYetSent' /\ Verdicts'
    <3>1. Idle.op = "none" /\ Idle.order \notin Orders
      BY DEF Idle
    <3>2. QED
      BY <1>0, <1>t, <1>5, <3>1
         DEF Return, Untouched, TrackedIsOpen, SubmittedOnce, NotYetSent, Verdicts
  <2>2. Attributed' /\ GoneIsGone'
    BY <1>0, <1>t, <1>5, <1>b DEF SubmittedOnce, Attributed, GoneIsGone
  <2>3. QED
    BY <2>1, <2>2 DEF OrderInv
<1>6. ASSUME NEW t \in Threads, at[t] # "idle", Return(t),
             call[t].op = "submit",
             status[call[t].order] \in {"absent", "refused"},
             \A tx \in wire : ~(tx.op = "submit" /\ tx.order = call[t].order),
             tracked' = tracked \ {call[t].order},
             outcome' = [outcome EXCEPT ![call[t].order] = "refused"],
             UNCHANGED <<gone, status, wire>>
      PROVE  OrderInv'
  <2>1. Idle.op = "none" /\ Idle.order \notin Orders /\ call[t].order \in Orders
    BY <1>b, <1>6 DEF Idle
  <2>2. \A u \in Threads : u # t /\ call[u].op = "submit"
          => call[u].order # call[t].order
    BY <1>0, <1>6 DEF SubmittedOnce
  <2>3. Untouched' /\ TrackedIsOpen' /\ SubmittedOnce' /\ Verdicts'
    BY <1>0, <1>t, <1>6, <2>1
       DEF Return, Untouched, TrackedIsOpen, SubmittedOnce, Verdicts
  <2>4. NotYetSent'
    BY <1>0, <1>t, <1>6, <2>1, <2>2 DEF Return, NotYetSent
  <2>5. Attributed' /\ GoneIsGone'
    BY <1>0, <1>t, <1>6, <2>1 DEF Attributed, GoneIsGone
  <2>6. QED
    BY <2>3, <2>4, <2>5 DEF OrderInv
<1>7. ASSUME NEW t \in Threads, SignFails(t)
      PROVE  OrderInv'
  <2>1. /\ at[t] = "lock" /\ Return(t) /\ UNCHANGED <<gone, status, wire>>
    BY <1>7 DEF SignFails, venue
  <2>2. CASE call[t].op = "submit"
    BY <1>0, <1>6, <1>7, <2>1, <2>2 DEF SignFails, EraseOrderRec, NotYetSent
  <2>3. CASE call[t].op # "submit"
    BY <1>5, <1>7, <2>1, <2>3 DEF SignFails, records
  <2>4. QED
    BY <2>2, <2>3
<1>8. ASSUME NEW t \in Threads, Send(t)
      PROVE  OrderInv'
  <2> DEFINE tx == [op |-> call[t].op, order |-> call[t].order,
                    nonce |-> nextNonce, by |-> t]
  <2>1. /\ at[t] = "lock" /\ at' = [at EXCEPT ![t] = "sent"]
        /\ wire' = wire \cup {tx}
        /\ UNCHANGED <<tracked, outcome, gone, status, call, reply>>
    BY <1>8 DEF Send, records, told, venue
  <2>2. /\ tx.op = call[t].op /\ tx.order = call[t].order /\ tx.order \in Orders
    BY <1>b, <2>1
  <2>3. tx.op = "submit" =>
          /\ tx.order \in tracked /\ tx.order \notin gone
          /\ status[tx.order] = "absent"
          /\ \A ux \in wire : ~(ux.op = "submit" /\ ux.order = tx.order)
    BY <1>0, <2>1, <2>2 DEF NotYetSent
  <2>4. outcome[tx.order] # "new"
    BY <1>0, <2>2 DEF Untouched
  <2> HIDE DEF tx
  <2>5. Untouched' /\ TrackedIsOpen' /\ Verdicts'
    BY <1>0, <1>t, <2>1, <2>4 DEF Untouched, TrackedIsOpen, Verdicts
  <2>6. SubmittedOnce'
    BY <1>0, <1>t, <2>1, <2>3 DEF SubmittedOnce
  <2>7. NotYetSent'
    <3>1. SUFFICES ASSUME NEW u \in Threads, at'[u] = "lock", call[u].op = "submit"
                   PROVE  /\ call[u].order \in tracked /\ call[u].order \notin gone
                          /\ status[call[u].order] = "absent"
                          /\ \A ux \in wire' :
                               ~(ux.op = "submit" /\ ux.order = call[u].order)
      BY <2>1 DEF NotYetSent
    <3>2. u # t /\ at[u] = "lock"
      BY <1>t, <2>1, <3>1
    <3>3. ~(tx.op = "submit" /\ tx.order = call[u].order)
      BY <1>0, <2>2, <3>1, <3>2 DEF SubmittedOnce
    <3>4. QED
      BY <1>0, <2>1, <3>1, <3>2, <3>3 DEF NotYetSent
  <2>8. Attributed' /\ GoneIsGone'
    <3>1. tx.op = "submit" => outcome[tx.order] = "open"
      BY <1>0, <2>3 DEF TrackedIsOpen
    <3>2. QED
      BY <1>0, <1>t, <2>1, <2>3, <3>1 DEF Attributed, GoneIsGone
  <2>9. QED
    BY <2>5, <2>6, <2>7, <2>8 DEF OrderInv
<1>9. ASSUME NEW t \in Threads, TxOk(t)
      PROVE  OrderInv'
  BY <1>5, <1>9 DEF TxOk, records, venue, told
<1>10. ASSUME NEW t \in Threads, TxRejected(t)
       PROVE  OrderInv'
  <2>1. /\ at[t] = "sent" /\ at' = [at EXCEPT ![t] = "failed"]
        /\ UNCHANGED <<tracked, outcome, gone, status, wire, call, reply>>
    BY <1>10 DEF TxRejected, records, venue, told
  <2>2. Untouched' /\ TrackedIsOpen' /\ SubmittedOnce' /\ NotYetSent' /\ Verdicts'
    BY <1>0, <1>t, <2>1
       DEF Untouched, TrackedIsOpen, SubmittedOnce, NotYetSent, Verdicts
  <2>3. Attributed' /\ GoneIsGone'
    BY <1>0, <2>1 DEF Attributed, GoneIsGone
  <2>4. QED
    BY <2>2, <2>3 DEF OrderInv
<1>11. ASSUME NEW t \in Threads, TxUnknown(t)
       PROVE  OrderInv'
  <2>1. /\ at[t] = "sent" /\ at' = [at EXCEPT ![t] = "failed"]
        /\ reply' = [reply EXCEPT ![t] = "none"]
        /\ UNCHANGED <<tracked, outcome, gone, status, call>>
    BY <1>11 DEF TxUnknown, records, venue, told
  <2>2. \A ux \in wire' : \E tx \in wire :
          /\ ux.op = tx.op /\ ux.order = tx.order
          /\ ux = IF tx.by = t
                  THEN [op |-> tx.op, order |-> tx.order, nonce |-> tx.nonce,
                        by |-> NoThread]
                  ELSE tx
    BY <1>11, UnknownEffect
  <2>3. SubmittedOnce'
    <3>1. ASSUME NEW ux \in wire', NEW vx \in wire',
                 ux.op = "submit", vx.op = "submit", ux.order = vx.order
          PROVE  ux = vx
      BY <1>0, <2>2, <3>1 DEF SubmittedOnce
    <3>2. \A ux \in wire' : ux.op = "submit" => status[ux.order] = "absent"
      BY <1>0, <2>2 DEF SubmittedOnce
    <3>3. QED
      BY <1>0, <2>1, <3>1, <3>2 DEF SubmittedOnce
  <2>4. Untouched' /\ TrackedIsOpen' /\ NotYetSent' /\ Verdicts'
    BY <1>0, <1>t, <2>1, <2>2 DEF Untouched, TrackedIsOpen, NotYetSent, Verdicts
  <2>5. Attributed' /\ GoneIsGone'
    BY <1>0, <2>1, <2>2 DEF Attributed, GoneIsGone
  <2>6. QED
    BY <2>3, <2>4, <2>5 DEF OrderInv
<1>12. ASSUME NEW t \in Threads, Resync(t)
       PROVE  OrderInv'
  <2>1. /\ at[t] = "failed" /\ Return(t) /\ UNCHANGED <<status, wire>>
    BY <1>12 DEF Resync, venue
  <2>2. CASE call[t].op = "submit" /\ Definitive(reply[t])
    <3>1. reply[t] = "reject"
      BY <1>0, <1>t, <2>1, <2>2 DEF Definitive, Verdicts, Busy
    <3>2. /\ status[call[t].order] = "refused"
          /\ \A tx \in wire : ~(tx.op = "submit" /\ tx.order = call[t].order)
      BY <1>0, <2>2, <3>1 DEF Verdicts, SubmittedOnce
    <3>3. /\ tracked' = tracked \ {call[t].order} /\ gone' = gone
          /\ outcome' = [outcome EXCEPT ![call[t].order] = "refused"]
      BY <1>12, <2>2 DEF Resync, EraseOrderRec, ConfirmedGone
    <3>4. QED
      BY <1>6, <2>1, <2>2, <3>2, <3>3
  <2>3. CASE ~(call[t].op = "submit" /\ Definitive(reply[t]))
    <3>1. UNCHANGED <<tracked, outcome>>
      BY <1>12, <2>3 DEF Resync, records
    <3>2. \/ gone' = gone
          \/ /\ status[call[t].order] = "over"
             /\ gone' = gone \cup {call[t].order}
      BY <1>0, <1>12 DEF Resync, ConfirmedGone, Verdicts
    <3>3. QED
      BY <1>5, <2>1, <3>1, <3>2
  <2>4. QED
    BY <2>2, <2>3
<1>13. CASE OnOrderUpdate
  <2>1. UNCHANGED <<gone, status, wire, call, at, reply>>
    BY <1>13 DEF OnOrderUpdate, calls, venue
  <2>2. CASE Terminal(handling)
    <3> DEFINE o == handling.order
    <3>1. o \in Orders /\ status[o] = "over"
      BY <1>13, <2>2
         DEF OnOrderUpdate, Terminal, TrueFeed, True, TypeOK, Event
    <3>2. /\ tracked' = tracked \ {o}
          /\ outcome' = [outcome EXCEPT ![o] = "over"]
      BY <1>13, <2>2 DEF OnOrderUpdate, EraseOrderRec
    <3> HIDE DEF o
    <3>3. Untouched' /\ TrackedIsOpen' /\ SubmittedOnce' /\ Verdicts'
      BY <1>0, <1>t, <2>1, <3>1, <3>2
         DEF Untouched, TrackedIsOpen, SubmittedOnce, Verdicts
    <3>4. NotYetSent' /\ Attributed' /\ GoneIsGone'
      BY <1>0, <1>t, <2>1, <3>1, <3>2
         DEF NotYetSent, Attributed, GoneIsGone, SubmittedOnce
    <3>5. QED
      BY <3>3, <3>4 DEF OrderInv
  <2>3. CASE ~Terminal(handling)
    BY <1>1, <1>13, <2>1, <2>3 DEF OnOrderUpdate, records
  <2>4. QED
    BY <2>2, <2>3
<1>14. ASSUME NEW tx \in wire, Accept(tx), Arrive(tx)
       PROVE  OrderInv'
  <2>1. /\ wire' = wire \ {tx}
        /\ UNCHANGED <<tracked, call, at, outcome, gone>>
    BY <1>14, ArriveEffect
  <2>2. \/ reply' = reply
        \/ tx.by \in Threads /\ reply' = [reply EXCEPT ![tx.by] = "ok"]
    BY <1>14, <1>t DEF Accept, Answer
  <2>3. \/ /\ tx.op = "submit" /\ status[tx.order] = "absent"
           /\ status' = [status EXCEPT ![tx.order] = "working"]
        \/ /\ tx.op # "submit" /\ status[tx.order] = "working"
           /\ status' = [status EXCEPT ![tx.order] = "over"]
    BY <1>0, <1>14 DEF Accept, SubmittedOnce
  <2>4. outcome[tx.order] # "new"
    BY <1>0, <1>t DEF Untouched
  <2>5. tx.op = "submit" =>
          /\ tx.order \in tracked /\ tx.order \notin gone
          /\ outcome[tx.order] = "open"
          /\ \A ux \in wire' : ~(ux.op = "submit" /\ ux.order = tx.order)
    BY <1>0, <1>t, <2>1 DEF Attributed, GoneIsGone, TrackedIsOpen, SubmittedOnce
  <2>6. Untouched' /\ TrackedIsOpen' /\ SubmittedOnce'
    BY <1>0, <1>t, <2>1, <2>3, <2>4, <2>5
       DEF Untouched, TrackedIsOpen, SubmittedOnce
  <2>7. NotYetSent'
    BY <1>0, <1>t, <1>b, <2>1, <2>3 DEF NotYetSent
  <2>8. Verdicts'
    <3>1. \A t \in Threads : reply'[t] # "ok" => reply'[t] = reply[t]
      BY <1>t, <2>2
    <3>2. QED
      BY <1>0, <1>t, <1>b, <2>1, <2>3, <3>1 DEF Verdicts, Busy
  <2>9. Attributed' /\ GoneIsGone'
    BY <1>0, <1>t, <2>1, <2>3, <2>5 DEF Attributed, GoneIsGone
  <2>10. QED
    BY <2>6, <2>7, <2>8, <2>9 DEF OrderInv
<1>15. ASSUME NEW tx \in wire, Refuse(tx), Arrive(tx)
       PROVE  OrderInv'
  <2>1. /\ wire' = wire \ {tx}
        /\ UNCHANGED <<tracked, call, at, outcome, gone>>
    BY <1>15, ArriveEffect
  <2>2. \/ reply' = reply
        \/ tx.by \in Threads /\ reply' = [reply EXCEPT ![tx.by] = "reject"]
        \/ /\ tx.by \in Threads /\ reply' = [reply EXCEPT ![tx.by] = "gone"]
           /\ tx.op = "cancel" /\ status[tx.order] = "over"
    BY <1>15, <1>t DEF Refuse, Answer
  <2>3. \/ /\ tx.op = "submit" /\ status[tx.order] = "absent"
           /\ status' = [status EXCEPT ![tx.order] = "refused"]
        \/ tx.op # "submit" /\ status' = status
    BY <1>0, <1>15 DEF Refuse, SubmittedOnce
  <2>4. outcome[tx.order] # "new"
    BY <1>0, <1>t DEF Untouched
  <2>5. tx.op = "submit" =>
          \A ux \in wire' : ~(ux.op = "submit" /\ ux.order = tx.order)
    BY <1>0, <2>1 DEF SubmittedOnce
  <2>6. Untouched' /\ TrackedIsOpen' /\ SubmittedOnce'
    BY <1>0, <1>t, <2>1, <2>3, <2>4, <2>5
       DEF Untouched, TrackedIsOpen, SubmittedOnce
  <2>7. NotYetSent'
    BY <1>0, <1>t, <1>b, <2>1, <2>3 DEF NotYetSent
  <2>8. Verdicts'
    <3>1. tx.by \in Threads =>
            call[tx.by].op = tx.op /\ call[tx.by].order = tx.order
      <4>1. tx.by \in Threads =>
              call[tx.by] = [op |-> tx.op, order |-> tx.order]
        BY <1>0, <1>15 DEF Awaited
      <4>2. QED
        BY <4>1
    <3>2. QED
      BY <1>0, <1>t, <1>b, <2>1, <2>2, <2>3, <3>1 DEF Verdicts, Busy
  <2>9. Attributed' /\ GoneIsGone'
    BY <1>0, <1>t, <2>1, <2>3, <2>5 DEF Attributed, GoneIsGone
  <2>10. QED
    BY <2>6, <2>7, <2>8, <2>9 DEF OrderInv
<1>16. ASSUME NEW o \in Orders, Fill(o) \/ Expire(o)
       PROVE  OrderInv'
  <2>1. /\ status[o] = "working"
        /\ UNCHANGED <<tracked, outcome, gone, wire, call, at, reply>>
    BY <1>16 DEF Fill, Expire, VenueStep, records, told
  <2>2. PICK x \in {"working", "over"} : status' = [status EXCEPT ![o] = x]
    BY <1>16, <2>1 DEF Fill, Expire
  <2>3. Untouched' /\ TrackedIsOpen' /\ SubmittedOnce' /\ NotYetSent'
    BY <1>0, <1>t, <1>b, <2>1, <2>2
       DEF Untouched, TrackedIsOpen, SubmittedOnce, NotYetSent
  <2>4. Verdicts'
    BY <1>0, <1>t, <1>b, <2>1, <2>2 DEF Verdicts, Busy
  <2>5. Attributed' /\ GoneIsGone'
    BY <1>0, <1>t, <2>1, <2>2 DEF Attributed, GoneIsGone
  <2>6. QED
    BY <2>3, <2>4, <2>5 DEF OrderInv
<1>17. CASE Start \/ OnOrderEvent \/ FeedDrops \/ FeedSubscribed \/ UNCHANGED vars
  BY <1>1, <1>17 DEF Start, OnOrderEvent, FeedDrops, FeedSubscribed, VenueStep,
                     records, calls, venue, told, vars
<1>18. QED
  BY <1>2, <1>3, <1>4, <1>7, <1>8, <1>9, <1>10, <1>11, <1>12, <1>13, <1>14,
     <1>15, <1>16, <1>17
     DEF Next, ThreadStep, IoStep, VenueNext, Arrive

----------------------------------------------------------------------------
(* The feed, and what the core is told of it.                              *)

(* Of an order that the venue works or has ended, an event says what is so. *)
LEMMA EventIsTrue ==
  ASSUME TypeOK, NEW o \in Orders, status[o] \in {"working", "over"}
  PROVE  True(EventOf(o))
<1>1. /\ EventOf(o).order = o /\ EventOf(o).filled = filled[o]
      /\ EventOf(o).over = (status[o] = "over")
  BY DEF EventOf
<1>2. filled[o] \in Nat
  BY LimitsAssumption DEF TypeOK
<1> DEFINE e == EventOf(o)
<1>3. e.over => status[o] = "over"
  BY <1>1
<1>4. e.order = o /\ e.filled = filled[o]
  BY <1>1
<1> HIDE DEF e
<1>5. True(e)
  BY <1>2, <1>3, <1>4 DEF True
<1>6. QED
  BY <1>5 DEF e

LEMMA AckIsTrue == True(Ack)
BY NamesAssumption DEF True, Ack

(* A feed that the venue lengthens by a true event is true. *)
LEMMA AnnounceIsTrue ==
  ASSUME TypeOK, TypeOK', TrueFeed, NEW o \in Orders, Announce(o),
         handling' = handling, status'[o] \in {"working", "over"},
         \A p \in Orders : status[p] \in {"working", "over"} =>
           /\ status'[p] \in {"working", "over"} /\ filled[p] <= filled'[p]
           /\ status[p] = "over" => status'[p] = "over" /\ filled'[p] = filled[p]
  PROVE  TrueFeed'
<1>1. \A p \in Orders : filled[p] \in Nat /\ filled'[p] \in Nat
  BY LimitsAssumption DEF TypeOK
<1>2. feed \in Seq(Event \cup {Ack}) /\ feed' \in Seq(Event \cup {Ack})
  BY DEF TypeOK
<1>3. \A e \in Event \cup {Ack} : e.order \in Orders => e.filled \in Nat
  BY NamesAssumption, LimitsAssumption DEF Event, Ack
<1>4. True(handling)'
  <2>1. True(handling) /\ (handling.order \in Orders => handling.filled \in Nat)
    BY <1>3 DEF TrueFeed, TypeOK
  <2>2. QED
    BY <1>1, <2>1 DEF True
<1>5. True(EventOf(o))'
  <2>1. (TypeOK /\ status[o] \in {"working", "over"} => True(EventOf(o)))'
    BY EventIsTrue, PTL
  <2>2. QED
    BY <2>1
<1> DEFINE e == EventOf(o)'
<1>6. feed' = feed \/ feed' = Append(feed, e)
  BY DEF Announce
<1> HIDE DEF e
<1>7. ASSUME NEW i \in 1..Len(feed'), i \in 1..Len(feed)
      PROVE  feed'[i] = feed[i]
  BY <1>2, <1>6, <1>7
<1>8. ASSUME NEW i \in 1..Len(feed'), i \notin 1..Len(feed)
      PROVE  feed'[i] = e
  BY <1>2, <1>6, <1>8
<1>9. ASSUME NEW i \in 1..Len(feed')
      PROVE  True(feed[i])'
  <2>1. CASE i \in 1..Len(feed)
    <3>1. /\ True(feed[i]) /\ feed'[i] = feed[i]
          /\ feed[i].order \in Orders => feed[i].filled \in Nat
      BY <1>2, <1>3, <1>7, <2>1 DEF TrueFeed
    <3>2. QED
      BY <1>1, <3>1 DEF True
  <2>2. CASE i \notin 1..Len(feed)
    <3>1. feed'[i] = EventOf(o)'
      BY <1>8, <2>2 DEF e
    <3>2. QED
      BY <1>5, <3>1 DEF True
  <2>3. QED
    BY <2>1, <2>2
<1>10. QED
  BY <1>4, <1>9 DEF TrueFeed

(* What the io thread credits for one event: the part that the record has not
   counted, so that the two still agree and cover the event. *)
LEMMA OrderEventCredits ==
  ASSUME TypeOK, FeedInv, OnOrderEvent
  PROVE  TrueFeed' /\ Credits' /\ FillsBeforeOver'
<1>1. /\ feed \in Seq(Event \cup {Ack}) /\ feed # <<>> /\ feed' = Tail(feed)
      /\ handling = Ack /\ UNCHANGED <<status, filled, outcome>>
  BY DEF OnOrderEvent, TypeOK, venue
<1> DEFINE e == Head(feed)
<1>2. True(e) /\ e \in Event \cup {Ack} /\ e = feed[1] /\ Len(feed) # 0
  BY <1>1 DEF FeedInv, TrueFeed
<1>3. \A i \in 1..Len(feed') : feed'[i] = feed[i + 1] /\ i + 1 \in 1..Len(feed)
  BY <1>1
<1>4. handling' \in {Ack, e}
  BY <1>1 DEF OnOrderEvent
<1>5. True(Ack)'
  BY NamesAssumption DEF True, Ack
<1>6. TrueFeed'
  <2>1. True(handling)'
    BY <1>1, <1>2, <1>4, <1>5 DEF True
  <2>2. ASSUME NEW i \in 1..Len(feed')
        PROVE  True(feed[i])'
    <3>1. True(feed[i + 1]) /\ feed'[i] = feed[i + 1]
      BY <1>3 DEF FeedInv, TrueFeed
    <3>2. QED
      BY <1>1, <3>1 DEF True
  <2>3. QED
    BY <2>1, <2>2 DEF TrueFeed
<1>7. CASE ~Tracks(e)
  BY <1>1, <1>6, <1>7 DEF OnOrderEvent, FeedInv, Credits, FillsBeforeOver
<1>8. CASE Tracks(e)
  <2>1. e.order \in Orders /\ e \in Event /\ e.filled \in 0..Qty
    BY <1>2, <1>8, NamesAssumption DEF Tracks, TypeOK, Event, Ack
  <2>2. /\ credited \in [Orders -> Nat] /\ cumFilledBase \in [Orders -> 0..Qty]
        /\ filled \in [Orders -> 0..Qty] /\ Qty \in Nat
    BY LimitsAssumption DEF TypeOK
  <2>3. /\ handling' = e /\ Remember(e.order, e.filled)
        /\ credited' = [credited EXCEPT ![e.order] = @ + NewFill(e)]
    BY <1>8 DEF OnOrderEvent
  <2>4. /\ e.filled <= filled[e.order]
        /\ credited[e.order] = cumFilledBase[e.order]
        /\ credited[e.order] <= filled[e.order]
    BY <1>2, <2>1 DEF True, FeedInv, Credits, FillsBeforeOver
  <2> HIDE DEF e
  <2>5. /\ cumFilledBase'[e.order] = credited'[e.order]
        /\ e.filled <= credited'[e.order]
        /\ credited[e.order] <= credited'[e.order]
        /\ credited'[e.order] <= filled[e.order]
    BY <2>1, <2>2, <2>3, <2>4 DEF Remember, NewFill
  <2>6. \A o \in Orders : o # e.order =>
          cumFilledBase'[o] = cumFilledBase[o] /\ credited'[o] = credited[o]
    BY <2>1, <2>2, <2>3 DEF Remember
  <2>7. Credits'
    BY <2>3, <2>5, <2>6 DEF FeedInv, Credits
  <2>8. FillsBeforeOver'
    <3>1. \A o \in Orders : credited'[o] \in Nat
      BY <2>1, <2>2, <2>3 DEF NewFill
    <3>2. QED
      BY <1>1, <2>2, <2>5, <2>6, <3>1 DEF FeedInv, FillsBeforeOver
  <2>9. QED
    BY <1>6, <2>7, <2>8
<1>9. QED
  BY <1>7, <1>8

LEMMA FeedStep ==
  /\ TypeOK /\ TypeOK' /\ CallInv /\ OrderInv /\ FeedInv /\ [Next]_vars
  => FeedInv'
<1> SUFFICES ASSUME TypeOK, TypeOK', CallInv, OrderInv, FeedInv, [Next]_vars
             PROVE  FeedInv'
  OBVIOUS
<1> USE NamesAssumption
<1>0. TrueFeed /\ Credits /\ OverIsOver /\ FillsBeforeOver
  BY DEF FeedInv
<1>t. /\ outcome \in [Orders -> {"new", "open", "over", "refused"}]
      /\ status \in [Orders -> {"absent", "working", "over", "refused"}]
      /\ filled \in [Orders -> 0..Qty] /\ Qty \in Nat
      /\ feed \in Seq(Event \cup {Ack})
      /\ \A tx \in wire : tx.order \in Orders
      /\ \A t \in Threads : at[t] # "idle" => call[t].order \in Orders
  BY LimitsAssumption DEF TypeOK, Tx, CallInv, Busy, Call
<1>1. ASSUME UNCHANGED <<handling, feed, status, filled, credited, cumFilledBase>>,
             \A o \in Orders : outcome'[o] = "over" => outcome[o] = "over"
      PROVE  FeedInv'
  <2>1. TrueFeed'
    BY <1>0, <1>1 DEF TrueFeed, True
  <2>2. Credits' /\ OverIsOver' /\ FillsBeforeOver'
    BY <1>0, <1>1 DEF Credits, OverIsOver, FillsBeforeOver
  <2>3. QED
    BY <2>1, <2>2 DEF FeedInv
<1>2. ASSUME NEW t \in Threads, ThreadStep(t)
      PROVE  FeedInv'
  <2>1. UNCHANGED <<handling, feed, status, filled, credited, cumFilledBase>>
    BY <1>2 DEF ThreadStep, Submit, CancelGone, Cancel, SignFails, Send, TxOk,
       TxRejected, TxUnknown, Resync, EraseOrderRec, records, venue, stream, told
  <2>2. \/ outcome' = outcome
        \/ \E o \in Orders, x \in {"open", "refused"} :
             outcome' = [outcome EXCEPT ![o] = x]
    BY <1>2, <1>t DEF ThreadStep, Submit, CancelGone, Cancel, SignFails, Send,
       TxOk, TxRejected, TxUnknown, Resync, told
  <2>3. QED
    BY <1>1, <1>t, <2>1, <2>2
<1>3. CASE OnOrderEvent
  <2>1. UNCHANGED <<outcome, status>>
    BY <1>3 DEF OnOrderEvent, venue
  <2>2. OverIsOver'
    BY <1>0, <2>1 DEF OverIsOver
  <2>3. QED
    BY <1>3, <2>2, OrderEventCredits DEF FeedInv
<1>4. CASE OnOrderUpdate
  <2>1. /\ handling # Ack /\ handling' = Ack /\ feed' = feed
        /\ UNCHANGED <<status, filled, credited, cumFilledBase>>
    BY <1>4 DEF OnOrderUpdate, EraseOrderRec, records, venue, stream
  <2>2. TrueFeed'
    <3>1. True(Ack)'
      BY DEF True, Ack
    <3>2. QED
      BY <1>0, <2>1, <3>1 DEF TrueFeed, True
  <2>3. Credits'
    BY <1>0, <2>1 DEF Credits
  <2>4. OverIsOver' /\ FillsBeforeOver'
    <3>1. CASE ~Terminal(handling)
      BY <1>0, <1>4, <2>1, <3>1
         DEF OnOrderUpdate, records, OverIsOver, FillsBeforeOver
    <3>2. CASE Terminal(handling)
      <4> DEFINE o == handling.order
      <4>1. o \in Orders /\ handling.filled \in 0..Qty
        BY <2>1 DEF TypeOK, Event
      <4>2. /\ status[o] = "over" /\ handling.filled = filled[o]
            /\ handling.filled <= credited[o]
        BY <1>0, <2>1, <3>2, <4>1 DEF Terminal, TrueFeed, True, Credits
      <4>3. outcome' = [outcome EXCEPT ![o] = "over"]
        BY <1>4, <3>2 DEF OnOrderUpdate
      <4>4. credited[o] = filled[o]
        <5>1. credited[o] <= filled[o] /\ credited[o] \in Nat
          BY <1>0, <4>1 DEF FillsBeforeOver, TypeOK
        <5>2. QED
          BY <1>t, <4>1, <4>2, <5>1
      <4> HIDE DEF o
      <4>5. QED
        BY <1>0, <1>t, <2>1, <4>1, <4>2, <4>3, <4>4
           DEF OverIsOver, FillsBeforeOver
    <3>3. QED
      BY <3>1, <3>2
  <2>5. QED
    BY <2>2, <2>3, <2>4 DEF FeedInv
(* A step of the venue or the network: what the core is told stays. *)
<1>5. ASSUME UNCHANGED <<handling, credited, cumFilledBase, outcome>>, TrueFeed',
             \A o \in Orders : outcome[o] = "over" =>
               status'[o] = "over" /\ filled'[o] = filled[o],
             \A o \in Orders : filled[o] <= filled'[o]
      PROVE  FeedInv'
  <2>1. Credits' /\ OverIsOver'
    BY <1>0, <1>5 DEF Credits, OverIsOver
  <2>2. FillsBeforeOver'
    <3>1. \A o \in Orders : credited[o] \in Nat /\ filled[o] \in Nat /\ filled'[o] \in Nat
      BY <1>t DEF TypeOK
    <3>2. QED
      BY <1>0, <1>5, <3>1 DEF FillsBeforeOver
  <2>3. QED
    BY <1>5, <2>1, <2>2 DEF FeedInv
<1>6. ASSUME NEW tx \in wire, Arrive(tx)
      PROVE  FeedInv'
  <2>1. UNCHANGED <<handling, credited, cumFilledBase, outcome, filled>>
    BY <1>6, ArriveEffect
  <2>2. \A o \in Orders : filled[o] <= filled'[o]
    BY <1>t, <2>1
  <2>3. tx.op = "submit" => status[tx.order] = "absent"
    BY DEF OrderInv, SubmittedOnce
  <2>4. \A o \in Orders : outcome[o] = "over" => status[o] = "over"
    BY <1>0 DEF OverIsOver
  <2>5. CASE Accept(tx)
    <3>1. /\ Announce(tx.order) /\ status'[tx.order] \in {"working", "over"}
          /\ \A o \in Orders : status[o] \in {"working", "over"} =>
               /\ status'[o] \in {"working", "over"}
               /\ status[o] = "over" => status'[o] = "over"
      BY <1>t, <2>3, <2>5 DEF Accept
    <3>2. TrueFeed'
      BY <1>0, <1>t, <2>1, <2>2, <3>1, AnnounceIsTrue
    <3>3. QED
      BY <1>5, <2>1, <2>2, <2>4, <3>1, <3>2
  <2>6. CASE Refuse(tx)
    <3>1. /\ UNCHANGED <<feed, handling>>
          /\ \A o \in Orders : status[o] \in {"working", "over"} =>
               status'[o] = status[o]
      BY <1>t, <2>1, <2>3, <2>6 DEF Refuse, stream
    <3>2. TrueFeed'
      BY <1>0, <2>1, <3>1 DEF TrueFeed, True
    <3>3. QED
      BY <1>5, <2>1, <2>2, <2>4, <3>1, <3>2
  <2>7. QED
    BY <1>6, <2>5, <2>6 DEF Arrive
<1>7. ASSUME NEW o \in Orders, Fill(o) \/ Expire(o)
      PROVE  FeedInv'
  <2>1. /\ UNCHANGED <<handling, credited, cumFilledBase, outcome>>
        /\ Announce(o) /\ status[o] = "working"
    BY <1>7 DEF Fill, Expire, VenueStep, records, told
  <2>2. PICK x \in {"working", "over"} : status' = [status EXCEPT ![o] = x]
    BY <1>7, <2>1 DEF Fill, Expire
  <2>3. PICK n \in {filled[o], filled[o] + 1} : filled' = [filled EXCEPT ![o] = n]
    BY <1>7, <1>t DEF Fill, Expire
  <2>4. \A p \in Orders : /\ filled[p] <= filled'[p]
                          /\ status[p] = "over" => filled'[p] = filled[p]
    BY <1>t, <2>1, <2>3
  <2>5. /\ status'[o] \in {"working", "over"}
        /\ \A p \in Orders : status[p] \in {"working", "over"} =>
             /\ status'[p] \in {"working", "over"}
             /\ status[p] = "over" => status'[p] = "over"
    BY <1>t, <2>1, <2>2
  <2>6. TrueFeed'
    BY <1>0, <2>1, <2>4, <2>5, AnnounceIsTrue
  <2>7. QED
    BY <1>0, <1>5, <2>1, <2>4, <2>5, <2>6 DEF OverIsOver
<1>8. CASE FeedDrops
  <2>1. /\ UNCHANGED <<handling, credited, cumFilledBase, outcome, status, filled>>
        /\ feed' = <<>>
    BY <1>8 DEF FeedDrops, VenueStep, records, told, venue
  <2>2. TrueFeed'
    BY <1>0, <2>1 DEF TrueFeed, True
  <2>3. \A o \in Orders : filled[o] <= filled'[o]
    BY <1>t, <2>1
  <2>4. QED
    BY <1>0, <1>5, <2>1, <2>2, <2>3 DEF OverIsOver
<1>9. CASE FeedSubscribed
  <2>1. UNCHANGED <<handling, credited, cumFilledBase, outcome, status, filled>>
    BY <1>9 DEF FeedSubscribed, VenueStep, records, told, venue
  <2>2. TrueFeed'
    <3>1. PICK S \in SUBSET {o \in Orders : status[o] = "over"} :
            \E order \in SetToSeqs(S \cup {o \in Orders : status[o] = "working"}) :
              feed' = <<Ack>> \o [i \in DOMAIN order |-> EventOf(order[i])]
      BY <1>9 DEF FeedSubscribed
    <3> DEFINE T == S \cup {o \in Orders : status[o] = "working"}
    <3>2. T \in SUBSET Orders
      OBVIOUS
    <3>3. \A o \in T : status[o] \in {"working", "over"}
      OBVIOUS
    <3>4. \A i \in 1..Len(feed') : feed'[i] = Ack \/ \E o \in T : feed'[i] = EventOf(o)
      <4>1. PICK order \in SetToSeqs(T) :
              feed' = <<Ack>> \o [i \in DOMAIN order |-> EventOf(order[i])]
        BY <3>1
      <4> DEFINE f == <<Ack>> \o [i \in DOMAIN order |-> EventOf(order[i])]
      <4> HIDE DEF T
      <4>2. \A i \in 1..Len(f) : f[i] = Ack \/ \E o \in T : f[i] = EventOf(o)
        BY <3>2, <4>1, SnapshotType
      <4>3. feed' = f
        BY <4>1
      <4> HIDE DEF f
      <4>4. QED
        BY <4>2, <4>3
    <3> HIDE DEF T
    <3>5. ASSUME NEW i \in 1..Len(feed')
          PROVE  True(feed'[i])
      BY <3>2, <3>3, <3>4, EventIsTrue, AckIsTrue
    <3>6. QED
      BY <1>0, <2>1, <3>5 DEF TrueFeed, True
  <2>3. \A o \in Orders : filled[o] <= filled'[o]
    BY <1>t, <2>1
  <2>4. QED
    BY <1>0, <1>5, <2>1, <2>2, <2>3 DEF OverIsOver
<1>10. CASE Start \/ UNCHANGED vars
  BY <1>1, <1>10 DEF Start, vars, records, venue, stream, told
<1>11. QED
  BY <1>2, <1>3, <1>4, <1>6, <1>7, <1>8, <1>9, <1>10 DEF Next, IoStep, VenueNext

----------------------------------------------------------------------------
(* The nonce.                                                              *)

LEMMA NonceStep ==
  TypeOK /\ CallInv /\ NonceInv /\ [Next]_vars => NonceInv'
<1> SUFFICES ASSUME TypeOK, CallInv, NonceInv, [Next]_vars
             PROVE  NonceInv'
  OBVIOUS
<1> USE NamesAssumption
<1>0. UsedUp /\ InStep /\ NonceInStep /\ NonceNeverAhead /\ Busy /\ Awaited
  BY DEF NonceInv, CallInv
<1>t. /\ nextNonce \in Nat /\ venueNonce \in Nat /\ faults \in Nat
      /\ reply \in [Threads -> {"none", "ok", "reject", "gone"}]
      /\ \A tx \in wire : /\ tx.nonce \in Nat /\ tx \in Tx
                          /\ tx.by \in Threads \cup {NoThread}
  BY DEF TypeOK, Tx
<1>1. ASSUME UNCHANGED <<nextNonce, venueNonce, faults, reply, wire>>
      PROVE  NonceInv'
  BY <1>0, <1>1 DEF NonceInv, UsedUp, InStep, NonceInStep, NonceNeverAhead
<1>2. ASSUME NEW t \in Threads, at[t] \in {"sent", "failed"}
      PROVE  /\ \A u \in Threads : u # t => reply[u] = "none"
             /\ \A tx \in wire : tx.by \in {t, NoThread}
  <2>1. \A u \in Threads : u # t => at[u] \notin {"sent", "failed"}
    BY <1>2 DEF CallInv, Holds
  <2>2. \A u \in Threads : u # t => reply[u] = "none"
    BY <1>0, <2>1 DEF Busy
  <2>3. \A tx \in wire : tx.by # NoThread => tx.by \in Threads /\ tx.by = t
    BY <1>0, <1>t, <2>1 DEF Awaited
  <2>4. QED
    BY <2>2, <2>3
<1>3. ASSUME NEW t \in Threads, SignFails(t)
      PROVE  NonceInv'
  <2>1. reply' = reply
    BY <1>0, <1>3, <1>t DEF SignFails, Return, Busy
  <2>2. QED
    BY <1>1, <1>3, <2>1 DEF SignFails, venue
<1>4. ASSUME NEW t \in Threads, Send(t)
      PROVE  NonceInv'
  <2>1. /\ wire' = wire \cup {[op |-> call[t].op, order |-> call[t].order,
                               nonce |-> nextNonce, by |-> t]}
        /\ UNCHANGED <<nextNonce, venueNonce, faults, reply>>
    BY <1>4 DEF Send, venue
  <2>2. \A u \in Threads : reply[u] # "ok"
    BY <1>4 DEF Send, TxFree, CallInv, Holds, Busy
  <2>3. faults = 0 => nextNonce = venueNonce
    BY <1>0, <2>2 DEF InStep
  <2>4. \A tx \in wire' : tx \in wire \/ (tx.by = t /\ tx.nonce = nextNonce)
    BY <2>1
  <2>5. QED
    BY <1>0, <2>1, <2>2, <2>3, <2>4
       DEF NonceInv, UsedUp, InStep, NonceInStep, NonceNeverAhead
<1>5. ASSUME NEW t \in Threads, TxOk(t)
      PROVE  NonceInv'
  <2>1. /\ at[t] = "sent" /\ reply[t] = "ok" /\ nextNonce' = nextNonce + 1
        /\ reply' = [reply EXCEPT ![t] = "none"]
        /\ UNCHANGED <<venueNonce, faults, wire>>
    BY <1>5 DEF TxOk, Return, venue
  <2>2. \A u \in Threads : reply'[u] = "none"
    BY <1>2, <1>t, <2>1
  <2>3. nextNonce < venueNonce /\ (faults = 0 => venueNonce = nextNonce + 1)
    BY <1>0, <2>1 DEF UsedUp, InStep
  <2>4. QED
    BY <1>0, <1>t, <2>1, <2>2, <2>3
       DEF NonceInv, UsedUp, InStep, NonceInStep, NonceNeverAhead
<1>6. ASSUME NEW t \in Threads, TxUnknown(t)
      PROVE  NonceInv'
  <2>1. /\ faults' = faults + 1 /\ reply' = [reply EXCEPT ![t] = "none"]
        /\ UNCHANGED <<nextNonce, venueNonce>>
    BY <1>6 DEF TxUnknown, venue
  <2>2. faults' # 0
    BY <1>t, <2>1
  <2>3. \A u \in Threads : reply'[u] = "ok" => reply[u] = "ok"
    BY <1>t, <2>1
  <2>4. QED
    BY <1>0, <2>1, <2>2, <2>3
       DEF NonceInv, UsedUp, InStep, NonceInStep, NonceNeverAhead
<1>7. ASSUME NEW t \in Threads, Resync(t)
      PROVE  NonceInv'
  <2>1. /\ at[t] = "failed" /\ reply' = [reply EXCEPT ![t] = "none"]
        /\ UNCHANGED <<venueNonce, wire>>
    BY <1>7 DEF Resync, Return, venue
  <2>2. \A u \in Threads : reply'[u] = "none"
    BY <1>2, <1>t, <2>1
  <2>3. /\ nextNonce' \in {venueNonce, nextNonce}
        /\ faults' = IF nextNonce' = venueNonce THEN faults ELSE faults + 1
    BY <1>7 DEF Resync, Resynced
  <2>4. faults' = 0 => faults = 0 /\ nextNonce' = venueNonce
    BY <1>t, <2>3
  <2>5. QED
    BY <1>0, <1>t, <2>1, <2>2, <2>3, <2>4
       DEF NonceInv, UsedUp, InStep, NonceInStep, NonceNeverAhead
<1>8. ASSUME NEW tx \in wire, Arrive(tx)
      PROVE  NonceInv'
  <2>1. wire' = wire \ {tx} /\ UNCHANGED <<nextNonce, faults>>
    BY <1>8, ArriveEffect
  <2>2. CASE tx.by = NoThread
    <3>1. reply' = reply /\ faults # 0
      BY <1>0, <1>8, <2>2, ArriveEffect DEF InStep
    <3>2. venueNonce' \in {venueNonce, venueNonce + 1}
      BY <1>8 DEF Arrive, Accept, Refuse
    <3>3. QED
      BY <1>0, <1>t, <2>1, <3>1, <3>2
         DEF NonceInv, UsedUp, InStep, NonceInStep, NonceNeverAhead
  <2>3. CASE tx.by # NoThread
    <3>1. /\ tx.by \in Threads /\ \A t \in Threads : reply[t] = "none"
          /\ \A ux \in wire' : ux.by = NoThread
          /\ tx.nonce = nextNonce
      BY <1>0, <2>1, <2>3, OneAwaited DEF Awaited
    <3>2. faults = 0 => wire' = {} /\ nextNonce = venueNonce
      BY <1>0, <2>1, <3>1 DEF InStep
    <3>3. CASE Accept(tx)
      <4>1. /\ venueNonce' = venueNonce + 1 /\ venueNonce = nextNonce
            /\ reply' = [reply EXCEPT ![tx.by] = "ok"]
        BY <2>3, <3>1, <3>3 DEF Accept, Answer
      <4>2. reply'[tx.by] = "ok"
        BY <1>t, <3>1, <4>1
      <4>3. QED
        BY <1>0, <1>t, <2>1, <3>1, <3>2, <4>1, <4>2
           DEF NonceInv, UsedUp, InStep, NonceInStep, NonceNeverAhead
    <3>4. CASE Refuse(tx)
      <4>1. /\ venueNonce' = venueNonce
            /\ \E a \in {"reject", "gone"} : reply' = [reply EXCEPT ![tx.by] = a]
        BY <2>3, <3>4 DEF Refuse, Answer
      <4>2. \A t \in Threads : reply'[t] # "ok"
        BY <1>t, <3>1, <4>1
      <4>3. QED
        BY <1>0, <1>t, <2>1, <3>1, <3>2, <4>1, <4>2
           DEF NonceInv, UsedUp, InStep, NonceInStep, NonceNeverAhead
    <3>5. QED
      BY <1>8, <3>3, <3>4 DEF Arrive
  <2>4. QED
    BY <2>2, <2>3
<1>9. ASSUME NEW t \in Threads, NEW o \in Orders,
             Submit(t, o) \/ CancelGone(t, o) \/ Cancel(t, o)
      PROVE  NonceInv'
  BY <1>1, <1>9 DEF Submit, CancelGone, Cancel, calls, venue
<1>10. ASSUME NEW t \in Threads, TxRejected(t)
       PROVE  NonceInv'
  BY <1>1, <1>10 DEF TxRejected, venue
<1>11. ASSUME NEW o \in Orders, Fill(o) \/ Expire(o)
       PROVE  NonceInv'
  BY <1>1, <1>11 DEF Fill, Expire, VenueStep
<1>12. CASE Start \/ IoStep \/ FeedDrops \/ FeedSubscribed \/ UNCHANGED vars
  BY <1>1, <1>12 DEF Start, IoStep, OnOrderEvent, OnOrderUpdate, FeedDrops,
     FeedSubscribed, VenueStep, calls, venue, vars
<1>13. QED
  BY <1>3, <1>4, <1>5, <1>6, <1>7, <1>8, <1>9, <1>10, <1>11, <1>12
     DEF Next, ThreadStep, VenueNext

----------------------------------------------------------------------------
(* The theorems.                                                           *)

LEMMA GatewayInvInit == Init => GatewayInv
<1> SUFFICES ASSUME Init PROVE GatewayInv
  OBVIOUS
<1> USE NamesAssumption
<1>1. CallInv
  BY DEF Init, CallInv, Holds, Busy, Awaited
<1>2. OrderInv
  BY DEF Init, OrderInv, Untouched, TrackedIsOpen, SubmittedOnce, NotYetSent,
     Verdicts, Attributed, GoneIsGone, Idle
<1>3. FeedInv
  BY AckIsTrue
     DEF Init, FeedInv, TrueFeed, Credits, OverIsOver, FillsBeforeOver
<1>4. NonceInv
  BY DEF Init, NonceInv, UsedUp, InStep, NonceInStep, NonceNeverAhead
<1>5. QED
  BY <1>1, <1>2, <1>3, <1>4 DEF GatewayInv

LEMMA GatewayInvariant == Spec => []GatewayInv
<1>1. TypeOK /\ TypeOK' /\ GatewayInv /\ [Next]_vars => GatewayInv'
  BY CallStep, OrderStep, FeedStep, NonceStep DEF GatewayInv, FeedInv
<1>2. QED
  BY <1>1, GatewayInvInit, TypeCorrect, PTL DEF Spec

(* No order that the venue works, or that may still reach it, is without the
   record by which its events are recognised (eraseOrderRec, the unknown
   outcome of sendSigned, lines 705-730). *)
THEOREM NoOrderIsLost == Spec => []Attributed
<1>1. GatewayInv => Attributed
  BY DEF GatewayInv, OrderInv
<1>2. QED
  BY <1>1, GatewayInvariant, PTL

(* What the core was told has ended never trades again (cancel's false, the
   terminal state, the definitive reject). *)
THEOREM EndsAreFinal == Spec => []GoneIsGone
<1>1. GatewayInv => GoneIsGone
  BY DEF GatewayInv, OrderInv
<1>2. QED
  BY <1>1, GatewayInvariant, PTL

(* The core has all the fills of an order, once, when it learns its end
   (onAccountMessage, lines 476-508). *)
THEOREM FillsComeFirst == Spec => []FillsBeforeOver
<1>1. GatewayInv => FillsBeforeOver
  BY DEF GatewayInv, FeedInv
<1>2. QED
  BY <1>1, GatewayInvariant, PTL

(* sendSigned() never signs with a nonce from the venue's future. *)
THEOREM NonceNeverRunsAhead == Spec => []NonceNeverAhead
<1>1. GatewayInv => NonceNeverAhead
  BY DEF GatewayInv, NonceInv
<1>2. QED
  BY <1>1, GatewayInvariant, PTL

(* As long as the transport works, no transaction is signed with a stale
   nonce, however many threads send and whatever the venue refuses. *)
THEOREM NonceKeepsStep == Spec => []NonceInStep
<1>1. GatewayInv => NonceInStep
  BY DEF GatewayInv, NonceInv
<1>2. QED
  BY <1>1, GatewayInvariant, PTL

LEMMA ViewStep ==
  /\ TypeOK /\ TypeOK' /\ GatewayInv /\ GatewayInv' /\ [Next]_vars
  => [View!ViewNext]_(View!view)
<1> SUFFICES ASSUME TypeOK, TypeOK', GatewayInv, GatewayInv', [Next]_vars
             PROVE  [View!ViewNext]_(View!view)
  OBVIOUS
<1> USE NamesAssumption
<1> DEFINE phase == [o \in Orders |-> IF outcome[o] = "refused" THEN "over"
                                      ELSE outcome[o]]
<1>t. /\ outcome \in [Orders -> {"new", "open", "over", "refused"}]
      /\ credited \in [Orders -> Nat] /\ credited' \in [Orders -> Nat]
      /\ \A t \in Threads : at[t] # "idle" => call[t].order \in Orders
  BY DEF TypeOK, GatewayInv, CallInv, Busy, Call
<1>1. ASSUME UNCHANGED <<outcome, credited>>
      PROVE  [View!ViewNext]_(View!view)
  BY <1>1 DEF View!view
<1>2. ASSUME NEW o \in Orders, outcome[o] = "open", credited' = credited,
             NEW x \in {"over", "refused"},
             outcome' = [outcome EXCEPT ![o] = x]
      PROVE  [View!ViewNext]_(View!view)
  <2>1. phase[o] = "open" /\ phase' = [phase EXCEPT ![o] = "over"]
    BY <1>t, <1>2
  <2>2. View!End(o)
    BY <1>2, <2>1 DEF View!End
  <2>3. QED
    BY <2>2 DEF View!ViewNext
<1>3. ASSUME NEW t \in Threads, NEW o \in Orders, Submit(t, o)
      PROVE  [View!ViewNext]_(View!view)
  <2>1. /\ outcome[o] = "new" /\ credited' = credited
        /\ outcome' = [outcome EXCEPT ![o] = "open"]
    BY <1>3 DEF Submit
  <2>2. phase[o] = "new" /\ phase' = [phase EXCEPT ![o] = "open"]
    BY <1>t, <2>1
  <2>3. View!Open(o)
    BY <2>1, <2>2 DEF View!Open
  <2>4. QED
    BY <2>3 DEF View!ViewNext
<1>4. ASSUME NEW t \in Threads, SignFails(t) \/ Resync(t)
      PROVE  [View!ViewNext]_(View!view)
  <2> DEFINE o == call[t].order
  <2>1. credited' = credited /\ at[t] # "idle" /\ o \in Orders
    BY <1>4, <1>t DEF SignFails, Resync
  <2>2. CASE outcome' = outcome
    BY <1>1, <2>1, <2>2
  <2>3. CASE outcome' # outcome
    <3>1. /\ call[t].op = "submit"
          /\ outcome' = [outcome EXCEPT ![o] = "refused"]
          /\ at[t] = "lock" \/ (at[t] = "failed" /\ Definitive(reply[t]))
      BY <1>4, <2>3 DEF SignFails, Resync
    <3>2. status[o] \in {"absent", "refused"} /\ outcome[o] # "new"
      <4>1. CASE at[t] = "lock"
        BY <2>1, <3>1, <4>1 DEF GatewayInv, OrderInv, NotYetSent, Untouched
      <4>2. CASE at[t] = "failed" /\ Definitive(reply[t])
        <5>1. reply[t] = "reject"
          BY <3>1, <4>2
             DEF Definitive, GatewayInv, OrderInv, CallInv, Verdicts, Busy, TypeOK
        <5>2. QED
          BY <2>1, <3>1, <5>1 DEF GatewayInv, OrderInv, Verdicts, Untouched
      <4>3. QED
        BY <3>1, <4>1, <4>2
    <3>3. outcome[o] \in {"open", "refused"}
      BY <1>t, <2>1, <3>2 DEF GatewayInv, FeedInv, OverIsOver
    <3>4. outcome[o] = "open"
      BY <1>t, <2>1, <2>3, <3>1, <3>3
    <3> HIDE DEF o
    <3>5. QED
      BY <1>2, <2>1, <3>1, <3>4
  <2>4. QED
    BY <2>2, <2>3
<1>5. ASSUME NEW t \in Threads, ThreadStep(t),
             ~(\E o \in Orders : Submit(t, o)), ~SignFails(t), ~Resync(t)
      PROVE  [View!ViewNext]_(View!view)
  BY <1>1, <1>5 DEF ThreadStep, CancelGone, Cancel, Send, TxOk, TxRejected,
                    TxUnknown, told
<1>6. CASE OnOrderEvent
  <2> DEFINE e == Head(feed)
  <2>1. outcome' = outcome
    BY <1>6 DEF OnOrderEvent
  <2>2. CASE ~Tracks(e) \/ NewFill(e) = 0
    <3>1. \/ credited' = credited
          \/ /\ e.order \in Orders
             /\ credited' = [credited EXCEPT ![e.order] = @ + 0]
      BY <1>6, <2>2 DEF OnOrderEvent, Tracks, TypeOK
    <3>2. credited' = credited
      BY <1>t, <3>1
    <3>3. QED
      BY <1>1, <2>1, <3>2
  <2>3. CASE Tracks(e) /\ NewFill(e) # 0
    <3> DEFINE o == e.order
    <3>1. /\ o \in tracked /\ o \in Orders
          /\ credited' = [credited EXCEPT ![o] = @ + NewFill(e)]
      BY <1>6, <2>3 DEF OnOrderEvent, Tracks, TypeOK
    <3>2. outcome[o] = "open"
      BY <3>1 DEF GatewayInv, OrderInv, TrackedIsOpen
    <3>3. e \in Event
      <4>1. e \in Event \cup {Ack}
        BY <1>6 DEF OnOrderEvent, TypeOK
      <4>2. QED
        BY <3>1, <4>1 DEF Ack
    <3>4. NewFill(e) \in Nat \ {0}
      <4>1. e.filled \in Nat /\ cumFilledBase[e.order] \in Nat
        BY <3>1, <3>3, LimitsAssumption DEF TypeOK, Event
      <4> HIDE DEF e
      <4>2. NewFill(e) \in Nat
        BY <4>1 DEF NewFill
      <4>3. QED
        BY <2>3, <4>2
    <3> HIDE DEF e
    <3> HIDE DEF o
    <3>5. credited'[o] > credited[o]
      BY <1>t, <3>1, <3>4
    <3>6. credited'[o] <= Qty
      <4>1. credited'[o] <= filled'[o]
        BY <3>1 DEF GatewayInv, FeedInv, FillsBeforeOver
      <4>2. filled'[o] \in 0..Qty /\ Qty \in Nat
        BY <3>1, LimitsAssumption DEF TypeOK
      <4>3. QED
        BY <1>t, <3>1, <4>1, <4>2
    <3>7. /\ phase[o] = "open" /\ phase' = phase
          /\ credited' = [credited EXCEPT ![o] = credited'[o]]
          /\ credited'[o] \in (credited[o] + 1)..Qty
      BY <1>t, <2>1, <3>1, <3>2, <3>5, <3>6, LimitsAssumption
    <3>8. View!Credit(o)
      BY <3>7 DEF View!Credit
    <3>9. QED
      BY <3>1, <3>8 DEF View!ViewNext
  <2>4. QED
    BY <2>2, <2>3
<1>7. CASE OnOrderUpdate
  <2>1. credited' = credited
    BY <1>7 DEF OnOrderUpdate
  <2>2. CASE ~Terminal(handling)
    BY <1>1, <1>7, <2>1, <2>2 DEF OnOrderUpdate
  <2>3. CASE Terminal(handling)
    <3> DEFINE o == handling.order
    <3>1. o \in Orders /\ outcome' = [outcome EXCEPT ![o] = "over"]
      BY <1>7, <2>3 DEF OnOrderUpdate, TypeOK, Event
    <3>2. status[o] = "over"
      BY <2>3, <3>1 DEF Terminal, GatewayInv, FeedInv, TrueFeed, True
    <3>3. outcome[o] # "new"
      BY <3>1, <3>2 DEF GatewayInv, OrderInv, Untouched
    <3> HIDE DEF o
    <3>4. CASE outcome[o] = "open"
      BY <1>2, <2>1, <3>1, <3>4
    <3>5. CASE outcome[o] # "open"
      <4>1. phase[o] = "over" /\ phase' = phase
        BY <1>t, <3>1, <3>3, <3>5
      <4>2. QED
        BY <2>1, <4>1 DEF View!view
    <3>6. QED
      BY <3>4, <3>5
  <2>4. QED
    BY <2>2, <2>3
<1>8. CASE Start \/ VenueNext \/ UNCHANGED vars
  BY <1>1, <1>8 DEF Start, VenueNext, Arrive, Fill, Expire, FeedDrops,
                    FeedSubscribed, VenueStep, told, vars
<1>9. QED
  BY <1>3, <1>4, <1>5, <1>6, <1>7, <1>8 DEF Next, IoStep

(* Replayed, late and lost messages and failed requests never make an order,
   as the core sees it, open twice, fill beyond its quantity or change after
   its end: every step of the gateway is one of the abstract view, or none. *)
THEOREM ViewImplemented == Spec => ImplementsView
<1>1. Init => View!ViewInit
  BY DEF Init, View!ViewInit
<1>2. /\ TypeOK /\ TypeOK' /\ GatewayInv /\ GatewayInv' /\ [Next]_vars
      => [View!ViewNext]_(View!view)
  BY ViewStep
<1>3. QED
  BY <1>1, <1>2, TypeCorrect, GatewayInvariant, PTL
     DEF Spec, ImplementsView, View!ViewSpec
=============================================================================
