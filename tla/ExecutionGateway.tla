-------------------------- MODULE ExecutionGateway --------------------------
(***************************************************************************)
(* The order path of src/src/lighter_execution_gateway.cpp: the records of *)
(* the orders, the nonce and the lock under which transactions are sent,   *)
(* and the private order feed that drives fills and terminal states.       *)
(*                                                                         *)
(* The core's threads call submit and cancel; the io thread runs           *)
(* onAccountMessage.  A step ends where the code releases a mutex or waits *)
(* for the network.  Client order ids are never used twice, so a record is *)
(* named by its order.                                                     *)
(***************************************************************************)
EXTENDS Naturals, FiniteSets, SequencesExt

CONSTANTS
  Orders,      \* client order ids
  NoOrder,     \* the order of a feed message without orders
  Threads,     \* the core's threads
  NoThread,    \* nobody
  Qty,         \* the quantity of each order, in base units
  MaxCancels,  \* bound: cancels that send a transaction
  MaxFaults,   \* bound: requests that fail in transport
  MaxDrops     \* bound: losses of the feed's connection

ASSUME NamesAssumption == NoOrder \notin Orders /\ NoThread \notin Threads
ASSUME LimitsAssumption == /\ IsFiniteSet(Orders)
                           /\ Qty \in Nat \ {0}
                           /\ MaxCancels \in Nat
                           /\ MaxFaults \in Nat
                           /\ MaxDrops \in Nat

VARIABLES
  (* struct P *)
  tracked,          \* ordersByIndex and clientIdToIndex
  known,            \* the records whose orderIndex is learned
  cumFilledBase,
  accountFeedLive,
  nextNonce,
  txM,              \* who holds txM
  (* the calls of the core's threads *)
  start,            \* start() waits, has returned, or has thrown
  call,             \* what each thread is doing
  at,               \* where: waiting for txM, for a reply, or resyncing
  reply,            \* the answer to its transaction
  cancels, faults,  \* the bounds' counters
  (* the io thread *)
  handling,         \* the event being handled
  (* the network and the venue *)
  wire,             \* transactions under way, awaited or not
  venueNonce, status, filled,
  feedUp, feed, drops,
  (* what the core has been told *)
  outcome, credited, gone

records == <<tracked, known, cumFilledBase>>
calls   == <<call, at, reply, txM>>
venue   == <<venueNonce, status, filled>>
stream  == <<feedUp, feed, drops>>
told    == <<outcome, credited, gone>>
vars == <<records, accountFeedLive, nextNonce, start, calls, cancels, faults,
          handling, wire, venue, stream, told>>

Idle  == [op |-> "none", order |-> NoOrder]
Call  == [op : {"submit", "cancel"}, order : Orders]
Tx    == [op : {"submit", "cancel"}, order : Orders, nonce : Nat,
          by : Threads \cup {NoThread}]
Event == [order : Orders, filled : 0..Qty, over : BOOLEAN]
Ack   == [order |-> NoOrder, filled |-> 0, over |-> FALSE]

TypeOK ==
  /\ known \subseteq tracked /\ tracked \subseteq Orders
  /\ cumFilledBase \in [Orders -> 0..Qty]
  /\ accountFeedLive \in BOOLEAN
  /\ nextNonce \in Nat /\ venueNonce \in Nat
  /\ start \in {"waiting", "ready", "failed"}
  /\ txM \in Threads \cup {NoThread}
  /\ call \in [Threads -> Call \cup {Idle}]
  /\ at \in [Threads -> {"idle", "lock", "sent", "failed"}]
  /\ reply \in [Threads -> {"none", "ok", "reject", "gone"}]
  /\ cancels \in 0..MaxCancels /\ faults \in 0..MaxFaults
  /\ drops \in 0..MaxDrops
  /\ handling \in Event \cup {Ack}
  /\ wire \subseteq Tx
  /\ status \in [Orders -> {"absent", "working", "over", "refused"}]
  /\ filled \in [Orders -> 0..Qty]
  /\ feedUp \in BOOLEAN
  /\ feed \in Seq(Event \cup {Ack})
  /\ outcome \in [Orders -> {"new", "open", "over", "refused"}]
  /\ credited \in [Orders -> Nat]
  /\ gone \subseteq Orders

(* start() has loaded the instruments, seeded the nonce and subscribed. *)
Init ==
  /\ tracked = {} /\ known = {}
  /\ cumFilledBase = [o \in Orders |-> 0]
  /\ accountFeedLive = FALSE
  /\ nextNonce = 0 /\ venueNonce = 0
  /\ start = "waiting"
  /\ txM = NoThread
  /\ call = [t \in Threads |-> Idle]
  /\ at = [t \in Threads |-> "idle"]
  /\ reply = [t \in Threads |-> "none"]
  /\ cancels = 0 /\ faults = 0 /\ drops = 0
  /\ handling = Ack
  /\ wire = {}
  /\ status = [o \in Orders |-> "absent"]
  /\ filled = [o \in Orders |-> 0]
  /\ feedUp = FALSE /\ feed = <<>>
  /\ outcome = [o \in Orders |-> "new"]
  /\ credited = [o \in Orders |-> 0]
  /\ gone = {}

----------------------------------------------------------------------------
(* Faulty variants of the definitions below, each a slip the code could    *)
(* have: no behaviour of the specification uses them.                      *)

FaultyNoLock(t) == TRUE
FaultyEraseAlways(verdict) == TRUE
FaultyCountFailed(verdict) == {nextNonce + 1}
FaultyCancelUnknown(o) == o \notin known
FaultyCreditAll(e) == e.filled
FaultyForgetFill(o, n) == cumFilledBase' = cumFilledBase
FaultySkipUnknown(e) == e.order \in known
FaultyKeepLock(t) == UNCHANGED txM
FaultyEraseOne(o) == /\ tracked' = tracked \ {o}
                     /\ UNCHANGED <<known, cumFilledBase>>

----------------------------------------------------------------------------
(* Helpers.                                                                *)

EraseOrderRec(o) == /\ tracked' = tracked \ {o}
                    /\ known' = known \ {o}
                    /\ UNCHANGED cumFilledBase

(* std::lock_guard tx(txM) *)
TxFree(t) == txM = NoThread

Unlock(t) == txM' = NoThread

Return(t) == /\ call' = [call EXCEPT ![t] = Idle]
             /\ at' = [at EXCEPT ![t] = "idle"]
             /\ reply' = [reply EXCEPT ![t] = "none"]

----------------------------------------------------------------------------
(* start(): polls the flag for ten seconds.                                *)

Start ==
  /\ start = "waiting"
  /\ start' = IF accountFeedLive THEN "ready" ELSE "failed"
  /\ UNCHANGED <<records, accountFeedLive, nextNonce, calls, cancels, faults,
                 handling, wire, venue, stream, told>>

----------------------------------------------------------------------------
(* The calls of the core.                                                  *)

(* submitPostOnlyLimit() and submitReduceOnlyMarket(): past their early
   refusals, the record is made before the lock is asked for. *)
Submit(t, o) ==
  /\ start = "ready"
  /\ at[t] = "idle" /\ outcome[o] = "new"
  /\ tracked' = tracked \cup {o}
  /\ outcome' = [outcome EXCEPT ![o] = "open"]
  /\ call' = [call EXCEPT ![t] = [op |-> "submit", order |-> o]]
  /\ at' = [at EXCEPT ![t] = "lock"]
  /\ UNCHANGED <<known, cumFilledBase, accountFeedLive, nextNonce, start, reply,
                 txM, cancels, faults, handling, wire, venue, stream, credited,
                 gone>>

(* cancel() returns false: no record. *)
NoRecord(o) == o \notin tracked

CancelGone(t, o) ==
  /\ at[t] = "idle" /\ outcome[o] # "new"
  /\ NoRecord(o)
  /\ gone' = gone \cup {o}
  /\ UNCHANGED <<records, accountFeedLive, nextNonce, start, calls, cancels,
                 faults, handling, wire, venue, stream, outcome, credited>>

(* cancel() of a known order; for an unknown one it throws and changes
   nothing. *)
Cancel(t, o) ==
  /\ at[t] = "idle" /\ cancels < MaxCancels
  /\ ~NoRecord(o) /\ o \in known
  /\ cancels' = cancels + 1
  /\ call' = [call EXCEPT ![t] = [op |-> "cancel", order |-> o]]
  /\ at' = [at EXCEPT ![t] = "lock"]
  /\ UNCHANGED <<records, accountFeedLive, nextNonce, start, reply, txM, faults,
                 handling, wire, venue, stream, told>>

(* The signer throws: nothing was sent. *)
SignFails(t) ==
  /\ at[t] = "lock" /\ TxFree(t)
  /\ Return(t)
  /\ IF call[t].op = "submit"
     THEN /\ EraseOrderRec(call[t].order)
          /\ outcome' = [outcome EXCEPT ![call[t].order] = "refused"]
     ELSE UNCHANGED <<records, outcome>>
  /\ UNCHANGED <<accountFeedLive, nextNonce, start, txM, cancels, faults,
                 handling, wire, venue, stream, credited, gone>>

(* Signed with nextNonce, and sendTx() is under way. *)
Send(t) ==
  /\ at[t] = "lock" /\ TxFree(t)
  /\ txM' = t
  /\ at' = [at EXCEPT ![t] = "sent"]
  /\ wire' = wire \cup {[op |-> call[t].op, order |-> call[t].order,
                         nonce |-> nextNonce, by |-> t]}
  /\ UNCHANGED <<records, accountFeedLive, nextNonce, start, call, reply,
                 cancels, faults, handling, venue, stream, told>>

(* sendSigned() returns. *)
TxOk(t) ==
  /\ at[t] = "sent" /\ reply[t] = "ok"
  /\ nextNonce' = nextNonce + 1
  /\ Return(t) /\ Unlock(t)
  /\ UNCHANGED <<records, accountFeedLive, start, cancels, faults, handling,
                 wire, venue, stream, told>>

(* A verdict of the venue, whatever the HTTP status that brought it. *)
TxRejected(t) ==
  /\ at[t] = "sent" /\ reply[t] \in {"reject", "gone"}
  /\ at' = [at EXCEPT ![t] = "failed"]
  /\ UNCHANGED <<records, accountFeedLive, nextNonce, start, call, reply, txM,
                 cancels, faults, handling, wire, venue, stream, told>>

(* No verdict: the request or its answer is lost, or is only late. *)
TxUnknown(t) ==
  /\ at[t] = "sent" /\ faults < MaxFaults
  /\ faults' = faults + 1
  /\ at' = [at EXCEPT ![t] = "failed"]
  /\ reply' = [reply EXCEPT ![t] = "none"]
  /\ wire' = {IF tx.by = t THEN [tx EXCEPT !.by = NoThread] ELSE tx : tx \in wire}
  /\ UNCHANGED <<records, accountFeedLive, nextNonce, start, call, txM, cancels,
                 handling, venue, stream, told>>

(* resyncNonce(): the venue's nonce, or the old one when that fails too. *)
Resynced(verdict) == {venueNonce} \cup (IF faults < MaxFaults THEN {nextNonce}
                                        ELSE {})

(* Only a definitive reject drops the record of a submitted order. *)
Definitive(verdict) == verdict # "none"

(* cancel() returns false: the venue says that the order has ended. *)
ConfirmedGone(t) == call[t].op = "cancel" /\ reply[t] = "gone"

(* sendSigned()'s failure path and what the caller makes of what it throws. *)
Resync(t) ==
  /\ at[t] = "failed"
  /\ \E n \in Resynced(reply[t]) :
       /\ nextNonce' = n
       /\ faults' = IF n = venueNonce THEN faults ELSE faults + 1
  /\ IF call[t].op = "submit" /\ Definitive(reply[t])
     THEN /\ EraseOrderRec(call[t].order)
          /\ outcome' = [outcome EXCEPT ![call[t].order] = "refused"]
     ELSE UNCHANGED <<records, outcome>>
  /\ gone' = IF ConfirmedGone(t) THEN gone \cup {call[t].order} ELSE gone
  /\ Return(t) /\ Unlock(t)
  /\ UNCHANGED <<accountFeedLive, start, cancels, handling, wire, venue, stream,
                 credited>>

----------------------------------------------------------------------------
(* The io thread: onAccountMessage(), order by order.                      *)

(* The index of an order is learned and its fills are counted by the first
   message that names it; orders without a record are passed over. *)
Tracks(e) == e.order \in tracked

(* cumFilled - rec.cumFilledBase, if positive *)
NewFill(e) == IF e.filled > cumFilledBase[e.order]
              THEN e.filled - cumFilledBase[e.order] ELSE 0

Remember(o, n) ==
  cumFilledBase' = [cumFilledBase EXCEPT ![o] = IF n > @ THEN n ELSE @]

(* Under orderM, and then the fill callback. *)
OnOrderEvent ==
  /\ handling = Ack /\ feed # <<>>
  /\ accountFeedLive' = TRUE
  /\ feed' = Tail(feed)
  /\ LET e == Head(feed) IN
       IF Tracks(e)
       THEN /\ known' = known \cup {e.order}
            /\ Remember(e.order, e.filled)
            /\ credited' = [credited EXCEPT ![e.order] = @ + NewFill(e)]
            /\ handling' = e
       ELSE UNCHANGED <<known, cumFilledBase, credited, handling>>
  /\ UNCHANGED <<tracked, nextNonce, start, calls, cancels, faults, wire, venue,
                 feedUp, drops, outcome, gone>>

Terminal(e) == e.over

(* The state callback, and the record of a finished order is erased. *)
OnOrderUpdate ==
  /\ handling # Ack
  /\ handling' = Ack
  /\ IF Terminal(handling)
     THEN /\ EraseOrderRec(handling.order)
          /\ outcome' = [outcome EXCEPT ![handling.order] = "over"]
     ELSE UNCHANGED <<records, outcome>>
  /\ UNCHANGED <<accountFeedLive, nextNonce, start, calls, cancels, faults, wire,
                 venue, stream, credited, gone>>

----------------------------------------------------------------------------
(* The venue and the connection of the feed.                               *)

EventOf(o) == [order |-> o, filled |-> filled[o], over |-> status[o] = "over"]

(* What the venue says of an order once it has changed. *)
Announce(o) ==
  /\ feed' = IF feedUp THEN Append(feed, EventOf(o)') ELSE feed
  /\ UNCHANGED <<feedUp, drops>>

Answer(tx, a) ==
  /\ wire' = wire \ {tx}
  /\ reply' = IF tx.by = NoThread THEN reply ELSE [reply EXCEPT ![tx.by] = a]

VenueStep == UNCHANGED <<records, accountFeedLive, nextNonce, start, call, at, txM,
                         cancels, faults, handling, told>>

(* Accepted: the nonce is the next one, and is used up. *)
Accept(tx) ==
  /\ tx.nonce = venueNonce
  /\ venueNonce' = venueNonce + 1
  /\ UNCHANGED filled
  /\ IF tx.op = "submit"
     THEN status' = [status EXCEPT ![tx.order] = "working"]
     ELSE /\ status[tx.order] = "working"
          /\ status' = [status EXCEPT ![tx.order] = "over"]
  /\ Announce(tx.order)
  /\ Answer(tx, "ok")

(* Refused, for its nonce or for any other reason. *)
Refuse(tx) ==
  /\ status' = IF tx.op = "submit" THEN [status EXCEPT ![tx.order] = "refused"]
               ELSE status
  /\ \/ Answer(tx, "reject")
     \/ /\ tx.op = "cancel" /\ status[tx.order] = "over"
        /\ Answer(tx, "gone")
  /\ UNCHANGED <<venueNonce, filled, stream>>

Arrive(tx) == (Accept(tx) \/ Refuse(tx)) /\ VenueStep

(* A working order is filled further, to the end or not. *)
Fill(o) ==
  /\ status[o] = "working" /\ filled[o] < Qty
  /\ filled' = [filled EXCEPT ![o] = @ + 1]
  /\ status' = [status EXCEPT ![o] = IF filled'[o] = Qty THEN "over" ELSE @]
  /\ Announce(o)
  /\ UNCHANGED <<venueNonce, wire, reply>> /\ VenueStep

(* The venue ends an order: a crossing post-only, an IOC's rest. *)
Expire(o) ==
  /\ status[o] = "working"
  /\ status' = [status EXCEPT ![o] = "over"]
  /\ UNCHANGED <<venueNonce, filled, wire, reply>> /\ VenueStep
  /\ Announce(o)

(* What is under way on the connection is lost with it. *)
FeedDrops ==
  /\ feedUp /\ drops < MaxDrops
  /\ feedUp' = FALSE /\ feed' = <<>>
  /\ drops' = drops + 1
  /\ UNCHANGED <<venue, wire, reply>> /\ VenueStep

(* The subscription is acknowledged with the working orders, and with any of
   the finished ones. *)
FeedSubscribed ==
  /\ ~feedUp
  /\ feedUp' = TRUE
  /\ \E S \in SUBSET {o \in Orders : status[o] = "over"} :
       \E order \in SetToSeqs(S \cup {o \in Orders : status[o] = "working"}) :
         feed' = <<Ack>> \o [i \in DOMAIN order |-> EventOf(order[i])]
  /\ UNCHANGED <<drops, venue, wire, reply>> /\ VenueStep

----------------------------------------------------------------------------

(* Nothing is under way: a rest, which the venue or the core may end. *)
Rests == /\ \A t \in Threads : at[t] = "idle"
         /\ start # "waiting" /\ feed = <<>> /\ handling = Ack /\ feedUp

ThreadStep(t) == \/ \E o \in Orders : \/ Submit(t, o) \/ CancelGone(t, o)
                                      \/ Cancel(t, o)
                 \/ SignFails(t) \/ Send(t)
                 \/ TxOk(t) \/ TxRejected(t) \/ TxUnknown(t) \/ Resync(t)

IoStep == OnOrderEvent \/ OnOrderUpdate

VenueNext == \/ \E tx \in wire : Arrive(tx)
             \/ \E o \in Orders : Fill(o) \/ Expire(o)
             \/ FeedDrops \/ FeedSubscribed

Next == \/ Start
        \/ \E t \in Threads : ThreadStep(t)
        \/ IoStep
        \/ VenueNext
        \/ Rests /\ UNCHANGED vars

Spec == Init /\ [][Next]_vars

(* A blocking request ends, a thread that waits for a free lock gets it, the
   io thread handles what it has, and the session replays the subscription
   (EveryFeedGoesLive of WsSession). *)
Fairness ==
  /\ WF_vars(Start) /\ WF_vars(IoStep) /\ WF_vars(FeedSubscribed)
  /\ \A t \in Threads :
       /\ WF_vars(Send(t) \/ SignFails(t))
       /\ WF_vars(TxOk(t) \/ TxRejected(t) \/ TxUnknown(t))
       /\ WF_vars(Resync(t))
       /\ WF_vars(\E tx \in wire : tx.by = t /\ Arrive(tx))

FairSpec == Spec /\ Fairness
----------------------------------------------------------------------------
(* Properties.                                                             *)

(* An order that the venue has, or may still get, has a record: its events
   will be attributed to it. Neither an unknown outcome, nor an event that
   overtakes the reply, nor a late transaction loses it (the record is made
   before sending and erased on a definitive reject only, lines 705-730). *)
Attributed ==
  \A o \in Orders :
    status[o] = "working" \/ (\E tx \in wire : tx.op = "submit" /\ tx.order = o)
      => o \in tracked

(* An order the core was told to stop waiting for is not at the venue, and no
   transaction under way will put it there (cancel's return of false and the
   classified exceptions of submit, lines 724-730 and 741-787). *)
GoneIsGone ==
  \A o \in Orders :
    o \in gone \/ outcome[o] \in {"refused", "over"} =>
      /\ status[o] # "working"
      /\ \A tx \in wire : ~(tx.op = "submit" /\ tx.order = o)

(* While no request has failed in transport, every transaction carries the
   nonce the venue expects, whatever was rejected and whichever threads
   compete (txM, the increment and the resync of sendSigned). *)
NonceInStep ==
  faults = 0 => \A tx \in wire : tx.nonce = venueNonce

(* The gateway never runs ahead of the venue: a nonce from the future would
   have every transaction rejected. It may fall behind, and a reject brings it
   back (lines 339, 350, 354). *)
NonceNeverAhead == nextNonce <= venueNonce

(* When the core is told that an order is over, it has been credited with all
   that was filled, once: the fill comes before the state (lines 476-508). *)
FillsBeforeOver ==
  \A o \in Orders :
    /\ credited[o] <= filled[o]
    /\ outcome[o] = "over" => credited[o] = filled[o]

View == INSTANCE OrderView
          WITH phase <- [o \in Orders |-> IF outcome[o] = "refused" THEN "over"
                                          ELSE outcome[o]]

(* Seen from the core, an order opens once, its fills grow up to its quantity
   while it is open, and nothing is said of it after it is over or its
   submission was refused: not by replayed messages, not by late ones. *)
ImplementsView == View!ViewSpec

(* Every call of the core returns: no path keeps txM. *)
CallsReturn == \A t \in Threads : at[t] # "idle" ~> at[t] = "idle"

(* What is filled of a working order gets to the core, through losses of the
   feed, unless the order ends first. *)
FillsReachCore ==
  \A o \in Orders : \A n \in 1..Qty :
    status[o] = "working" /\ filled[o] >= n
      ~> credited[o] >= n \/ status[o] = "over"

(* The comment at lines 503-505: finished orders are pruned so that the maps
   cannot grow. *)
RecordsEnd ==
  \A o \in Orders : o \in tracked ~> o \notin tracked \/ status[o] = "working"

(* The comment at lines 194-195: no trading without the private order feed. *)
TradesOnFeed ==
  [][\A tx \in wire' \ wire :
       tx.op = "submit" /\ tx.by # NoThread => feedUp]_vars
=============================================================================
