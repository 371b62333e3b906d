-------------------------- MODULE WsSessionProofs --------------------------
(***************************************************************************)
(* Theorems about WsSession, for every value of its constants.             *)
(***************************************************************************)
EXTENDS WsSession, SequenceTheorems, FiniteSetTheorems, TLAPS

(* What pump() leaves of its own state has the types it had. *)
LEMMA PumpType ==
  ASSUME TypeOK,
         NEW q \in Seq(Frame), NEW f \in BOOLEAN, NEW n \in [Gens -> Nat],
         Pump(q, f, n)
  PROVE  /\ outboundQueue' \in Seq(Frame)
         /\ writeInFlight' \in BOOLEAN
         /\ writeBuffer' \in Frame
         /\ writes' \in [Gens -> Nat]
<1>1. CASE MayWrite(f) /\ q # <<>>
  <2>1. Head(q) \in Frame /\ Tail(q) \in Seq(Frame)
    BY <1>1, HeadTailProperties
  <2>2. [n EXCEPT ![generation] = @ + 1] \in [Gens -> Nat]
    <3>1. CASE generation \in Gens
      BY <3>1
    <3>2. CASE generation \notin Gens
      BY <3>2
    <3>3. QED
      BY <3>1, <3>2
  <2>3. QED
    BY <1>1, <2>1, <2>2 DEF Pump
<1>2. CASE ~(MayWrite(f) /\ q # <<>>)
  BY <1>2 DEF Pump, TypeOK
<1>3. QED
  BY <1>1, <1>2

(* Any order of the pending channels gives a sequence of subscribe frames. *)
LEMMA SubscribeFramesType ==
  ASSUME NEW S \in SUBSET Channels, NEW order \in SetToSeqs(S)
  PROVE  /\ [i \in DOMAIN order |-> On("subscribe", order[i])] \in Seq(Frame)
         /\ Len([i \in DOMAIN order |-> On("subscribe", order[i])])
              = Cardinality(S)
<1>1. Cardinality(S) \in Nat
  BY ChannelsAssumption, FS_Subset, FS_CardinalityType
<1>2. order \in [1..Cardinality(S) -> S]
  BY DEF SetToSeqs
<1> DEFINE frames == [i \in DOMAIN order |-> On("subscribe", order[i])]
<1>3. \A i \in 1..Cardinality(S) : On("subscribe", order[i]) \in Frame
  BY <1>2 DEF On, Frame
<1>4. frames \in [1..Cardinality(S) -> Frame]
  BY <1>2, <1>3
<1>5. QED
  BY <1>1, <1>4

(* flushTopics() keeps the ledger and the pump's state typed. *)
LEMMA FlushType ==
  ASSUME TypeOK, NEW r \in BOOLEAN, FlushTopics(r)
  PROVE  /\ subscriptions' \subseteq Channels
         /\ pendingTopics' \subseteq Channels
         /\ outboundQueue' \in Seq(Frame)
         /\ writeInFlight' \in BOOLEAN
         /\ writeBuffer' \in Frame
         /\ writes' \in [Gens -> Nat]
<1>1. CASE MayFlush(r)
  <2>1. PICK order \in SetToSeqs(pendingTopics) :
          /\ subscriptions' = subscriptions \cup pendingTopics
          /\ pendingTopics' = {}
          /\ Pump(outboundQueue \o
                    [i \in DOMAIN order |-> On("subscribe", order[i])],
                  writeInFlight, writes)
    BY <1>1 DEF FlushTopics
  <2>2. [i \in DOMAIN order |-> On("subscribe", order[i])] \in Seq(Frame)
    BY SubscribeFramesType DEF TypeOK
  <2>3. outboundQueue \o [i \in DOMAIN order |-> On("subscribe", order[i])]
          \in Seq(Frame)
    BY <2>2, ConcatProperties DEF TypeOK
  <2>4. /\ outboundQueue' \in Seq(Frame)
        /\ writeInFlight' \in BOOLEAN
        /\ writeBuffer' \in Frame
        /\ writes' \in [Gens -> Nat]
    BY <2>1, <2>3, PumpType DEF TypeOK
  <2>5. QED
    BY <2>1, <2>4 DEF TypeOK
<1>2. CASE ~MayFlush(r)
  BY <1>2 DEF FlushTopics, TypeOK, topics, pumpVars
<1>3. QED
  BY <1>1, <1>2

(* handleError() keeps everything it may touch typed. *)
LEMMA HandleErrorType ==
  ASSUME TypeOK, NEW g, NEW f \in BOOLEAN,
         NEW p \in [Gens -> {"none", "armed", "cancelled"}],
         HandleError(g, f, p)
  PROVE  /\ generation' \in 0..MaxGen
         /\ connected' \in BOOLEAN /\ ready' \in BOOLEAN
         /\ reconnectScheduled' \in BOOLEAN /\ reconnectWait' \in BOOLEAN
         /\ reconnectDelayS' \in 1..MaxDelay
         /\ userClosed' \in BOOLEAN
         /\ subscriptions' \subseteq Channels /\ pendingTopics' \subseteq Channels
         /\ outboundQueue' \in Seq(Frame)
         /\ writeInFlight' \in BOOLEAN /\ writeBuffer' \in Frame
         /\ sock' \in {"none", "open", "lost", "closing", "closed"}
         /\ ping' \in [Gens -> {"none", "armed", "cancelled"}]
         /\ posted' \in Seq(Task) /\ calling' \in [Callers -> Task]
         /\ calls' \in 0..MaxCalls
         /\ greeted' \in BOOLEAN /\ venueSubs' \subseteq Channels
<1>1. CASE Ignored(g) \/ userClosed
  <2>1. /\ UNCHANGED <<generation, userClosed, writeBuffer, posted, calling,
                       calls, greeted>>
        /\ writeInFlight' = f
        /\ ping' = p
        /\ UNCHANGED <<connected, ready, reconnectScheduled, reconnectDelayS,
                       reconnectWait, subscriptions, pendingTopics,
                       outboundQueue, sock, venueSubs>>
    BY <1>1 DEF HandleError, threads, topics
  <2>2. QED
    BY <2>1 DEF TypeOK
<1>2. CASE ~(Ignored(g) \/ userClosed)
  <2>1. CancelPing(p) \in [Gens -> {"none", "armed", "cancelled"}]
    BY DEF CancelPing
  <2>2. NextDelay \in 1..MaxDelay
    BY BoundsAssumption DEF NextDelay, TypeOK
  <2>3. /\ UNCHANGED <<generation, userClosed, writeBuffer, posted, calling,
                       calls, greeted>>
        /\ reconnectScheduled' = TRUE /\ reconnectWait' = TRUE
        /\ connected' = FALSE /\ ready' = FALSE
        /\ writeInFlight' = FALSE
        /\ ping' = CancelPing(p)
        /\ outboundQueue' = <<>>
        /\ pendingTopics' = subscriptions \cup pendingTopics
        /\ subscriptions' = {}
        /\ sock' \in {"none", "closed"}
        /\ venueSubs' = {}
        /\ reconnectDelayS' = NextDelay
    BY <1>2 DEF HandleError, threads, RequeueTopics, CloseSocket
  <2>4. outboundQueue' \in Seq(Frame)
    BY <2>3, EmptySeq
  <2>5. QED
    BY <2>1, <2>2, <2>3, <2>4 DEF TypeOK
<1>3. QED
  BY <1>1, <1>2

LEMMA ArmPingType ==
  ASSUME NEW p \in [Gens -> {"none", "armed", "cancelled"}], NEW g
  PROVE  ArmPing(p, g) \in [Gens -> {"none", "armed", "cancelled"}]
BY DEF ArmPing, CancelPing

(* startConnect() keeps everything it may touch typed. *)
LEMMA StartConnectType ==
  ASSUME TypeOK, StartConnect,
         posted' \in Seq(Task),
         reconnectScheduled' \in BOOLEAN, reconnectWait' \in BOOLEAN
  PROVE  TypeOK'
<1>1. CASE MayConnect
  <2>1. generation' \in 0..MaxGen
    BY <1>1, BoundsAssumption DEF StartConnect, TypeOK
  <2>2. QED
    BY <1>1, <2>1 DEF TypeOK, StartConnect, topics
<1>2. CASE ~MayConnect
  BY <1>2 DEF TypeOK, StartConnect, topics, transport, venue
<1>3. QED
  BY <1>1, <1>2

THEOREM TypeInit == Init => TypeOK
<1> SUFFICES ASSUME Init PROVE TypeOK
  OBVIOUS
<1>1. <<Do("connect")>> \in Seq(Task)
  BY DEF Do, Task
<1>2. KeepAlive \in Frame /\ NoTask \in Task
  BY DEF KeepAlive, NoTask, Do, Frame, Task
<1>3. outboundQueue \in Seq(Frame) /\ posted \in Seq(Task)
  BY <1>1, EmptySeq DEF Init
<1>4. /\ reads \in [Gens -> BOOLEAN]
      /\ writes \in [Gens -> Nat]
      /\ ping \in [Gens -> {"none", "armed", "cancelled"}]
      /\ calling \in [Callers -> Task]
  BY <1>2 DEF Init
<1>5. /\ generation \in 0..MaxGen /\ calls \in 0..MaxCalls
      /\ reconnectDelayS \in 1..MaxDelay /\ quiet \in 0..(SilentTicks + 1)
  BY BoundsAssumption DEF Init
<1>6. QED
  BY <1>2, <1>3, <1>4, <1>5 DEF Init, TypeOK

(* Every step keeps the types, one step of the proof per action. *)
THEOREM TypeStep == TypeOK /\ [Next]_vars => TypeOK'
<1> SUFFICES ASSUME TypeOK, [Next]_vars PROVE TypeOK'
  OBVIOUS
<1> USE DEF link, topics, pumpVars, transport, threads, venue
<1>1. ASSUME NEW t \in Callers, NEW ch \in Channels, Subscribe(t, ch)
      PROVE  TypeOK'
  <2>1. Do("flush") \in Task
    BY DEF Do, Task
  <2>2. calls' \in 0..MaxCalls
    BY <1>1, BoundsAssumption DEF Subscribe, MayCall, Calls, TypeOK
  <2>3. QED
    BY <1>1, <2>1, <2>2 DEF Subscribe, Calls, TypeOK
<1>2. ASSUME NEW t \in Callers, NEW ch \in Channels, Unsubscribe(t, ch)
      PROVE  TypeOK'
  <2>1. UnsubscribeTask(ch) \in Task
    BY DEF UnsubscribeTask, NoTask, Do, On, Task
  <2>2. calls' \in 0..MaxCalls
    BY <1>2, BoundsAssumption DEF Unsubscribe, MayCall, Calls, TypeOK
  <2>3. QED
    BY <1>2, <2>1, <2>2 DEF Unsubscribe, Calls, TypeOK
<1>3. ASSUME NEW t \in Callers, Close(t) PROVE TypeOK'
  <2>1. Do("close") \in Task
    BY DEF Do, Task
  <2>2. calls' \in 0..MaxCalls
    BY <1>3, BoundsAssumption DEF Close, MayCall, Calls, TypeOK
  <2>3. QED
    BY <1>3, <2>1, <2>2 DEF Close, Calls, TypeOK
<1>4. ASSUME NEW t \in Callers, Post(t) PROVE TypeOK'
  <2>1. NoTask \in Task /\ calling[t] \in Task
    BY DEF NoTask, Do, Task, TypeOK
  <2>2. posted' \in Seq(Task)
    BY <1>4, <2>1, AppendProperties DEF Post, TypeOK
  <2>3. QED
    BY <1>4, <2>1, <2>2 DEF Post, TypeOK
<1>5. ASSUME NEW op, NextTask(op)
      PROVE  Head(posted) \in Task /\ posted' \in Seq(Task)
  BY <1>5, HeadTailProperties DEF NextTask, TypeOK
<1>6. CASE RunConnect
  BY <1>5, <1>6, StartConnectType DEF RunConnect, TypeOK
<1>7. CASE RunFlush
  <2>1. FlushTopics(ready) /\ ready \in BOOLEAN
    BY <1>7 DEF RunFlush, TypeOK
  <2>2. QED
    BY <1>5, <1>7, <2>1, FlushType DEF RunFlush, TypeOK
<1>8. CASE RunUnsubscribe
  <2>1. CASE connected
    <3>1. Head(posted).ch \in Channels
      BY <1>5, <1>8 DEF RunUnsubscribe, NextTask, Task
    <3>2. Append(outboundQueue, On("unsubscribe", Head(posted).ch))
            \in Seq(Frame)
      BY <3>1, AppendProperties DEF On, Frame, TypeOK
    <3>3. Pump(Append(outboundQueue, On("unsubscribe", Head(posted).ch)),
               writeInFlight, writes)
      BY <1>8, <2>1 DEF RunUnsubscribe
    <3>4. /\ outboundQueue' \in Seq(Frame)
          /\ writeInFlight' \in BOOLEAN
          /\ writeBuffer' \in Frame
          /\ writes' \in [Gens -> Nat]
      BY <3>2, <3>3, PumpType DEF TypeOK
    <3>5. QED
      BY <1>5, <1>8, <3>4 DEF RunUnsubscribe, TypeOK
  <2>2. CASE ~connected
    BY <1>5, <1>8, <2>2 DEF RunUnsubscribe, TypeOK
  <2>3. QED
    BY <2>1, <2>2
<1>9. CASE RunClose
  <2>1. /\ userClosed' = TRUE
        /\ ping' \in [Gens -> {"none", "armed", "cancelled"}]
        /\ wsOpen' \in BOOLEAN
        /\ sock' \in {"none", "open", "lost", "closing", "closed"}
        /\ venueSubs' \subseteq Channels
    BY <1>9 DEF RunClose, CancelPing, CloseSocket, TypeOK
  <2>2. QED
    BY <1>5, <1>9, <2>1 DEF RunClose, TypeOK
<1>10. CASE OnResolve \/ OnConnect \/ OnSSLHandshake
  BY <1>10 DEF OnResolve, OnConnect, OnSSLHandshake, ChainMoves, TypeOK
<1>11. CASE OnHandshake
  <2>1. ArmPing(ping, generation) \in [Gens -> {"none", "armed", "cancelled"}]
    BY ArmPingType DEF TypeOK
  <2>2. 0 \in 0..(SilentTicks + 1)
    BY BoundsAssumption
  <2>3. QED
    BY <1>11, <2>1, <2>2 DEF OnHandshake, TypeOK
<1>12. CASE ChainFails
  <2>1. HandleError(generation, writeInFlight, ping)
    BY <1>12 DEF ChainFails
  <2>2. QED
    BY <1>12, <2>1, HandleErrorType DEF ChainFails, TypeOK
<1>13. ASSUME NEW g \in Gens, OnReadError(g) PROVE TypeOK'
  <2>1. CASE Current(g)
    <3>1. HandleError(g, writeInFlight, ping)
      BY <1>13, <2>1 DEF OnReadError
    <3>2. QED
      BY <1>13, <2>1, <3>1, HandleErrorType DEF OnReadError, TypeOK
  <2>2. CASE ~Current(g)
    BY <1>13, <2>2 DEF OnReadError, TypeOK
  <2>3. QED
    BY <2>1, <2>2
<1>14. ASSUME NEW f \in Frame
       PROVE  Append(outboundQueue, f) \in Seq(Frame)
  BY <1>14, AppendProperties DEF TypeOK
<1>15. KeepAlive \in Frame
  BY DEF KeepAlive, Do, Frame
<1>16. ASSUME NEW g \in Gens, NEW m \in Messages, OnReadMessage(g, m)
       PROVE  TypeOK'
  <2>1. /\ ready' \in BOOLEAN /\ greeted' \in BOOLEAN
        /\ subscriptions' \subseteq Channels /\ pendingTopics' \subseteq Channels
        /\ outboundQueue' \in Seq(Frame)
        /\ writeInFlight' \in BOOLEAN
        /\ writeBuffer' \in Frame
        /\ writes' \in [Gens -> Nat]
    <3>1. CASE m = "connected"
      <4>1. ready' = TRUE /\ greeted' = TRUE /\ FlushTopics(TRUE)
        BY <1>16, <3>1 DEF OnReadMessage, Dispatch
      <4>2. QED
        BY <4>1, FlushType
    <3>2. CASE m = "ping"
      <4>1. /\ Pump(Append(outboundQueue, KeepAlive), writeInFlight, writes)
            /\ UNCHANGED <<ready, greeted, subscriptions, pendingTopics>>
        BY <1>16, <3>2 DEF OnReadMessage, Dispatch
      <4>2. QED
        BY <4>1, <1>14, <1>15, PumpType DEF TypeOK
    <3>3. CASE m \notin {"connected", "ping"}
      <4>1. UNCHANGED <<ready, greeted, topics, pumpVars>>
        BY <1>16, <3>3 DEF OnReadMessage, Dispatch
      <4>2. QED
        BY <4>1 DEF TypeOK
    <3>4. QED
      BY <3>1, <3>2, <3>3
  <2>2. /\ reconnectDelayS' \in 1..MaxDelay
        /\ quiet' \in 0..(SilentTicks + 1)
    BY <1>16, BoundsAssumption DEF OnReadMessage, TypeOK
  <2>3. ReadsOn \in BOOLEAN
    BY DEF ReadsOn, TypeOK
  <2>4. reads' \in [Gens -> BOOLEAN]
    BY <1>16, <2>3 DEF OnReadMessage, TypeOK
  <2>5. QED
    BY <1>16, <2>1, <2>2, <2>4 DEF OnReadMessage, TypeOK
<1>17. ASSUME NEW g \in Gens, OnReadGarbage(g) PROVE TypeOK'
  <2>1. HandleError(g, writeInFlight, ping)
    BY <1>17 DEF OnReadGarbage
  <2>2. quiet' \in 0..(SilentTicks + 1)
    BY <1>17, BoundsAssumption DEF OnReadGarbage
  <2>3. QED
    BY <1>17, <2>1, <2>2, HandleErrorType DEF OnReadGarbage, TypeOK
<1>18. ASSUME NEW g \in Gens, writes[g] > 0
       PROVE  WriteDone(g) \in [Gens -> Nat]
  <2>1. writes[g] - 1 \in Nat
    BY <1>18 DEF TypeOK
  <2>2. QED
    BY <2>1 DEF WriteDone, TypeOK
<1>19. ASSUME NEW g \in Gens, OnWriteOk(g) PROVE TypeOK'
  <2>1. WriteDone(g) \in [Gens -> Nat]
    BY <1>18, <1>19 DEF OnWriteOk
  <2>2. CASE Current(g)
    <3>1. venueSubs' \subseteq Channels
      BY <1>19, <2>2 DEF OnWriteOk, Deliver, Frame, TypeOK
    <3>2. Pump(outboundQueue, FALSE, WriteDone(g))
      BY <1>19, <2>2 DEF OnWriteOk, PumpNext
    <3>3. /\ outboundQueue' \in Seq(Frame)
          /\ writeInFlight' \in BOOLEAN
          /\ writeBuffer' \in Frame
          /\ writes' \in [Gens -> Nat]
      BY <2>1, <3>2, PumpType DEF TypeOK
    <3>4. QED
      BY <1>19, <3>1, <3>3 DEF OnWriteOk, TypeOK
  <2>3. CASE ~Current(g)
    BY <1>19, <2>1, <2>3 DEF OnWriteOk, TypeOK
  <2>4. QED
    BY <2>2, <2>3
<1>20. ASSUME NEW g \in Gens, OnWriteError(g) PROVE TypeOK'
  <2>1. HandleError(g, FALSE, ping)
    BY <1>20 DEF OnWriteError
  <2>2. WriteDone(g) \in [Gens -> Nat]
    BY <1>18, <1>20 DEF OnWriteError
  <2>3. QED
    BY <1>20, <2>1, <2>2, HandleErrorType DEF OnWriteError, TypeOK
<1>21. ASSUME NEW g \in Gens, OnPingTimerVoid(g) PROVE TypeOK'
  BY <1>21 DEF OnPingTimerVoid, TypeOK
<1>22. ASSUME NEW g \in Gens, OnPingTimerSilent(g) PROVE TypeOK'
  <2>1. HandleError(g, writeInFlight, [ping EXCEPT ![g] = "none"])
    BY <1>22 DEF OnPingTimerSilent
  <2>2. [ping EXCEPT ![g] = "none"] \in [Gens -> {"none", "armed", "cancelled"}]
    BY DEF TypeOK
  <2>3. QED
    BY <1>22, <2>1, <2>2, HandleErrorType DEF OnPingTimerSilent, TypeOK
<1>23. ASSUME NEW g \in Gens, OnPingTimerAlive(g) PROVE TypeOK'
  <2>1. ping' \in [Gens -> {"none", "armed", "cancelled"}]
    BY <1>23, ArmPingType DEF OnPingTimerAlive, TypeOK
  <2>2. quiet' \in 0..(SilentTicks + 1)
    BY <1>23, BoundsAssumption DEF OnPingTimerAlive, MustBeSilent, TypeOK
  <2>3. /\ outboundQueue' \in Seq(Frame)
        /\ writeInFlight' \in BOOLEAN
        /\ writeBuffer' \in Frame
        /\ writes' \in [Gens -> Nat]
    <3>1. CASE connected /\ ready
      <4>1. Pump(Append(outboundQueue, KeepAlive), writeInFlight, writes)
        BY <1>23, <3>1 DEF OnPingTimerAlive
      <4>2. QED
        BY <4>1, <1>14, <1>15, PumpType DEF TypeOK
    <3>2. CASE ~(connected /\ ready)
      BY <1>23, <3>2 DEF OnPingTimerAlive, TypeOK
    <3>3. QED
      BY <3>1, <3>2
  <2>4. QED
    BY <1>23, <2>1, <2>2, <2>3 DEF OnPingTimerAlive, TypeOK
<1>24. CASE OnReconnectTimer
  BY <1>24, StartConnectType DEF OnReconnectTimer, ReconnectDone, TypeOK
<1>25. CASE NetworkFails \/ CloseDone
  BY <1>25 DEF NetworkFails, CloseDone, TypeOK
<1>26. CASE UNCHANGED vars
  BY <1>26 DEF vars, TypeOK
<1>27. QED
  BY <1>1, <1>2, <1>3, <1>4, <1>6, <1>7, <1>8, <1>9, <1>10, <1>11, <1>12,
     <1>13, <1>16, <1>17, <1>19, <1>20, <1>21, <1>22, <1>23, <1>24, <1>25,
     <1>26
     DEF Next, CallerStep, RunTask, Connecting, GenStep, OnWrite, OnPingTimer,
         Terminated

(* The variables hold what the declarations of struct P say. *)
THEOREM TypeCorrect == Spec => []TypeOK
<1>1. QED
  BY TypeInit, TypeStep, PTL DEF Spec

----------------------------------------------------------------------------
(* The inductive invariant, part by part. Each lemma takes all the parts   *)
(* before a step and gives one after it.                                   *)

(* What handleError() does to the state the invariant is about: either it
   changes nothing but the flag and the timer its caller had changed, or it
   takes the connection down and schedules a reconnect. *)
LEMMA HandleErrorEffect ==
  ASSUME NEW g, NEW f, NEW p, HandleError(g, f, p)
  PROVE  /\ UNCHANGED <<generation, userClosed, posted, calling>>
         /\ \/ /\ g # generation \/ reconnectScheduled \/ userClosed
               /\ writeInFlight' = f /\ ping' = p
               /\ UNCHANGED <<connected, ready, reconnectScheduled,
                              reconnectWait, subscriptions, pendingTopics,
                              outboundQueue>>
            \/ /\ ~userClosed
               /\ connected' = FALSE /\ ready' = FALSE
               /\ writeInFlight' = FALSE
               /\ reconnectScheduled' = TRUE /\ reconnectWait' = TRUE
               /\ outboundQueue' = <<>>
               /\ subscriptions' = {}
               /\ pendingTopics' = subscriptions \cup pendingTopics
BY DEF HandleError, Ignored, Current, RequeueTopics, threads, topics

(* A task that has been taken from the strand's queue leaves no connect. *)
LEMMA NoConnectLeft ==
  ASSUME TypeOK, ConnectsOnce, NEW op, NextTask(op)
  PROVE  /\ posted # <<>> /\ Head(posted) = posted[1]
         /\ Head(posted).op = op
         /\ \A i \in DOMAIN posted' : posted'[i].op # "connect"
<1>1. posted # <<>> /\ posted' = Tail(posted) /\ Head(posted).op = op
  BY DEF NextTask
<1>2. posted \in Seq(Task) /\ Head(posted) = posted[1]
  BY <1>1 DEF TypeOK
<1>3. /\ Len(posted') = Len(posted) - 1
      /\ \A i \in 1..Len(posted') : posted'[i] = posted[i + 1]
  BY <1>1, <1>2, HeadTailProperties
<1>4. posted' \in Seq(Task)
  BY <1>1, <1>2, HeadTailProperties
<1>5. ASSUME NEW i \in DOMAIN posted' PROVE posted'[i].op # "connect"
  <2>1. i \in 1..Len(posted') /\ i + 1 \in DOMAIN posted /\ i + 1 # 1
    BY <1>2, <1>3, <1>4, LenProperties
  <2>2. QED
    BY <1>3, <2>1 DEF ConnectsOnce
<1>6. QED
  BY <1>1, <1>2, <1>5

LEMMA ConnectsOnceStep ==
  ASSUME TypeOK, SessionInv, Next
  PROVE  ConnectsOnce'
<1> USE DEF link, topics, pumpVars, transport, threads, venue
<1>0. ConnectsOnce /\ DownWhileConnecting /\ NothingAhead
  BY DEF SessionInv
<1>1. ASSUME NEW t \in Callers, NEW task, task.op # "connect", Calls(t, task)
      PROVE  ConnectsOnce'
  <2>1. \A u \in Callers : calling'[u] = calling[u] \/ calling'[u] = task
    BY <1>1 DEF Calls, TypeOK
  <2>2. QED
    BY <1>0, <1>1, <2>1 DEF Calls, ConnectsOnce
<1>8. ASSUME NEW t \in Callers, NEW ch \in Channels,
             Subscribe(t, ch) \/ Unsubscribe(t, ch)
      PROVE  ConnectsOnce'
  BY <1>1, <1>8 DEF Subscribe, Unsubscribe, Do, On, NoTask, UnsubscribeTask
<1>9. ASSUME NEW t \in Callers, Close(t) PROVE ConnectsOnce'
  BY <1>1, <1>9 DEF Close, Do
<1>2. ASSUME NEW t \in Callers, Post(t) PROVE ConnectsOnce'
  <2>1. /\ posted' = Append(posted, calling[t]) /\ posted \in Seq(Task)
        /\ calling[t] \in Task /\ calling[t].op # "connect"
    BY <1>0, <1>2 DEF Post, ConnectsOnce, TypeOK
  <2>2. ASSUME NEW i \in DOMAIN posted', posted'[i].op = "connect"
        PROVE  i \in DOMAIN posted /\ posted[i].op = "connect"
    BY <2>1, <2>2, AppendProperties, LenProperties
  <2>3. QED
    BY <1>0, <1>2, <2>2 DEF Post, NoTask, Do, ConnectsOnce, TypeOK
<1>3. CASE RunTask
  <2>1. /\ \A i \in DOMAIN posted' : posted'[i].op # "connect"
        /\ calling' = calling
    BY <1>0, <1>3, NoConnectLeft
       DEF RunTask, RunConnect, RunFlush, RunUnsubscribe, RunClose, StartConnect
  <2>2. generation' = 0 => chain' = "idle" /\ ~connected' /\ ~reconnectScheduled'
    BY <1>0, <1>3 DEF RunTask, RunConnect, RunFlush, RunUnsubscribe, RunClose,
                      StartConnect, ConnectsOnce, TypeOK
  <2>3. QED
    BY <1>0, <2>1, <2>2 DEF ConnectsOnce
<1>4. CASE Connecting
  <2>1. generation # 0 /\ UNCHANGED <<generation, posted, calling>>
    BY <1>0, <1>4, HandleErrorEffect
       DEF Connecting, OnResolve, OnConnect, OnSSLHandshake, ChainMoves,
           OnHandshake, ChainFails, ConnectsOnce
  <2>2. QED
    BY <1>0, <2>1 DEF ConnectsOnce
<1>5. ASSUME NEW g \in Gens, GenStep(g) PROVE ConnectsOnce'
  <2>1. UNCHANGED <<generation, posted, calling, chain>>
    BY <1>5, HandleErrorEffect
       DEF GenStep, OnReadError, OnReadGarbage, OnReadMessage, OnWrite,
           OnWriteOk, OnWriteError, OnPingTimer, OnPingTimerSilent,
           OnPingTimerAlive, OnPingTimerVoid
  <2>2. ASSUME generation = 0
        PROVE  UNCHANGED <<connected, reconnectScheduled>>
    <3>1. g # generation
      BY <2>2, BoundsAssumption DEF Gens
    <3>2. (OnReadError(g) /\ ~Current(g)) \/ OnWriteOk(g) \/ OnPingTimerVoid(g)
      BY <1>5, <3>1
         DEF GenStep, OnReadError, OnReadGarbage, OnReadMessage, OnWrite,
             OnWriteError, OnPingTimer, OnPingTimerSilent, OnPingTimerAlive,
             Ticks, Current
    <3>3. QED
      BY <3>2 DEF OnReadError, OnWriteOk, OnPingTimerVoid
  <2>3. QED
    BY <1>0, <2>1, <2>2 DEF ConnectsOnce
<1>6. CASE OnReconnectTimer
  <2>1. generation # 0
    BY <1>0, <1>6 DEF OnReconnectTimer, SessionInv, NeverWedged, ConnectsOnce
  <2>2. generation' # 0 /\ UNCHANGED <<posted, calling>>
    BY <1>6, <2>1 DEF OnReconnectTimer, StartConnect, TypeOK
  <2>3. \A i \in DOMAIN posted' : posted'[i].op # "connect"
    BY <1>0, <2>1, <2>2 DEF ConnectsOnce
  <2>4. QED
    BY <1>0, <2>2, <2>3 DEF ConnectsOnce
<1>7. CASE NetworkFails \/ CloseDone \/ Terminated
  BY <1>0, <1>7 DEF NetworkFails, CloseDone, Terminated, vars, ConnectsOnce
<1>10. QED
  BY <1>2, <1>3, <1>4, <1>5, <1>6, <1>7, <1>8, <1>9 DEF Next, CallerStep

(* A handler of an old generation only ends its own operation. *)
LEMMA OldGeneration ==
  ASSUME TypeOK, NEW g \in Gens, GenStep(g), g # generation
  PROVE  /\ UNCHANGED <<link, userClosed, topics, outboundQueue, writeInFlight,
                        writeBuffer, transport, reconnectWait, threads>>
         /\ \A h \in Gens \ {g} : /\ reads'[h] = reads[h]
                                  /\ writes'[h] = writes[h]
                                  /\ ping'[h] = ping[h]
         /\ reads'[g] => reads[g]
         /\ writes'[g] <= writes[g]
<1>1. (OnReadError(g) /\ ~Current(g)) \/ (OnWriteOk(g) /\ ~Current(g))
        \/ OnPingTimerVoid(g)
  BY DEF GenStep, OnReadError, OnReadGarbage, OnReadMessage, OnWrite, OnWriteOk,
         OnWriteError, OnPingTimer, OnPingTimerSilent, OnPingTimerAlive, Ticks,
         Current
<1>2. CASE OnReadError(g) /\ ~Current(g)
  BY <1>2 DEF OnReadError, pumpVars, TypeOK
<1>3. CASE OnWriteOk(g) /\ ~Current(g)
  <2>1. writes' = [writes EXCEPT ![g] = @ - 1]
    BY <1>3 DEF OnWriteOk, WriteDone
  <2>2. writes[g] \in Nat /\ writes'[g] = writes[g] - 1
    BY <2>1 DEF TypeOK
  <2>3. \A h \in Gens \ {g} : writes'[h] = writes[h]
    BY <2>1 DEF TypeOK
  <2>4. QED
    BY <1>3, <2>2, <2>3 DEF OnWriteOk
<1>4. CASE OnPingTimerVoid(g)
  BY <1>4 DEF OnPingTimerVoid, pumpVars, TypeOK
<1>5. QED
  BY <1>1, <1>2, <1>3, <1>4

(* flushTopics() either does nothing, or sends everything and pumps. *)
LEMMA FlushEffect ==
  ASSUME TypeOK, NEW r, FlushTopics(r)
  PROVE  \/ /\ connected /\ r
            /\ subscriptions' = subscriptions \cup pendingTopics
            /\ pendingTopics' = {}
            /\ \E q \in Seq(Frame) : Pump(q, writeInFlight, writes)
         \/ /\ ~(connected /\ r)
            /\ UNCHANGED <<subscriptions, pendingTopics, outboundQueue,
                           writeInFlight, writeBuffer, writes>>
<1>1. CASE connected /\ r
  <2>1. PICK order \in SetToSeqs(pendingTopics) :
          /\ subscriptions' = subscriptions \cup pendingTopics
          /\ pendingTopics' = {}
          /\ Pump(outboundQueue \o
                    [i \in DOMAIN order |-> On("subscribe", order[i])],
                  writeInFlight, writes)
    BY <1>1 DEF FlushTopics, MayFlush
  <2>2. [i \in DOMAIN order |-> On("subscribe", order[i])] \in Seq(Frame)
    BY SubscribeFramesType DEF TypeOK
  <2>3. outboundQueue \o [i \in DOMAIN order |-> On("subscribe", order[i])]
          \in Seq(Frame)
    BY <2>2, ConcatProperties DEF TypeOK
  <2>4. QED
    BY <1>1, <2>1, <2>3
<1>2. CASE ~(connected /\ r)
  BY <1>2 DEF FlushTopics, MayFlush, topics, pumpVars
<1>3. QED
  BY <1>1, <1>2

LEMMA DownWhileConnectingStep ==
  ASSUME TypeOK, SessionInv, Next
  PROVE  DownWhileConnecting'
<1> USE DEF link, topics, pumpVars, transport, threads, venue
<1>0. ConnectsOnce /\ DownWhileConnecting /\ NothingAhead
  BY DEF SessionInv
<1>1. ASSUME UNCHANGED <<connected, ready, reconnectScheduled, chain>>,
             writeInFlight' => writeInFlight \/ connected
      PROVE  DownWhileConnecting'
  BY <1>0, <1>1 DEF DownWhileConnecting
<1>2. ASSUME NEW q, NEW f, NEW n, Pump(q, f, n)
      PROVE  writeInFlight' => f \/ connected
  BY <1>2 DEF Pump, MayWrite
<1>3. CASE CallerStep
  BY <1>1, <1>3 DEF CallerStep, Subscribe, Unsubscribe, Close, Calls, Post
<1>4. CASE RunConnect
  <2>1. generation = 0
    BY <1>0, <1>4, NoConnectLeft DEF RunConnect, ConnectsOnce, NextTask, TypeOK
  <2>2. QED
    BY <1>0, <1>4, <2>1
       DEF RunConnect, StartConnect, ConnectsOnce, DownWhileConnecting
<1>5. CASE RunFlush
  <2>1. FlushTopics(ready)
    BY <1>5 DEF RunFlush
  <2>2. writeInFlight' => writeInFlight \/ connected
    BY <1>2, <2>1, FlushEffect
  <2>3. QED
    BY <1>1, <1>5, <2>2 DEF RunFlush
<1>6. CASE RunUnsubscribe
  BY <1>1, <1>2, <1>6 DEF RunUnsubscribe
<1>7. CASE RunClose
  BY <1>1, <1>7 DEF RunClose
<1>8. CASE OnResolve \/ OnConnect \/ OnSSLHandshake
  BY <1>0, <1>8 DEF OnResolve, OnConnect, OnSSLHandshake, ChainMoves,
                    DownWhileConnecting
<1>9. CASE OnHandshake
  BY <1>0, <1>9 DEF OnHandshake, DownWhileConnecting
<1>10. ASSUME NEW g, NEW f, NEW p, HandleError(g, f, p),
              chain' = "idle", f => writeInFlight
       PROVE  DownWhileConnecting'
  <2>1. \/ /\ writeInFlight' = f
           /\ UNCHANGED <<connected, ready, reconnectScheduled>>
        \/ /\ connected' = FALSE /\ ready' = FALSE
           /\ writeInFlight' = FALSE
    BY <1>10, HandleErrorEffect
  <2>2. QED
    BY <1>0, <1>10, <2>1 DEF DownWhileConnecting
<1>11. CASE ChainFails
  BY <1>10, <1>11 DEF ChainFails
<1>12. ASSUME NEW g \in Gens, GenStep(g) PROVE DownWhileConnecting'
  <2>1. CASE g # generation
    BY <1>1, <1>12, <2>1, OldGeneration
  <2>2. CASE g = generation /\ OnReadError(g)
    BY <1>0, <1>10, <2>2 DEF OnReadError, Current, NothingAhead
  <2>3. CASE g = generation /\ OnReadGarbage(g)
    BY <1>0, <1>10, <2>3 DEF OnReadGarbage, NothingAhead
  <2>4. CASE g = generation /\ OnWriteError(g)
    <3>1. writes[g] # 0 /\ chain' = chain
      BY <2>4 DEF OnWriteError
    <3>2. HandleError(g, FALSE, ping)
      BY <2>4 DEF OnWriteError
    <3>3. chain = "idle"
      BY <1>0, <2>4, <3>1 DEF NothingAhead
    <3>4. QED
      BY <1>10, <3>1, <3>2, <3>3
  <2>5. CASE g = generation /\ OnPingTimerSilent(g)
    BY <1>0, <1>10, <2>5 DEF OnPingTimerSilent, DownWhileConnecting
  <2>6. ASSUME g = generation, NEW m \in Messages, OnReadMessage(g, m)
        PROVE  DownWhileConnecting'
    <3>1. chain = "idle" /\ UNCHANGED <<connected, reconnectScheduled, chain>>
      BY <1>0, <2>6 DEF OnReadMessage, NothingAhead
    <3>2. \/ FlushTopics(TRUE)
          \/ Pump(Append(outboundQueue, KeepAlive), writeInFlight, writes)
          \/ UNCHANGED pumpVars
      BY <2>6 DEF OnReadMessage, Dispatch, Messages
    <3>3. writeInFlight' => writeInFlight \/ connected
      <4>1. CASE FlushTopics(TRUE)
        BY <1>2, <4>1, FlushEffect
      <4>2. CASE Pump(Append(outboundQueue, KeepAlive), writeInFlight, writes)
        BY <1>2, <4>2
      <4>3. QED
        BY <3>2, <4>1, <4>2
    <3>4. QED
      BY <1>0, <3>1, <3>3 DEF DownWhileConnecting
  <2>7. CASE g = generation /\ OnWriteOk(g)
    <3>1. writeInFlight' => connected
      BY <1>2, <2>7 DEF OnWriteOk, PumpNext, Current
    <3>2. QED
      BY <1>1, <2>7, <3>1 DEF OnWriteOk
  <2>8. CASE g = generation /\ (OnPingTimerVoid(g) \/ OnPingTimerAlive(g))
    BY <1>1, <1>2, <2>8 DEF OnPingTimerVoid, OnPingTimerAlive
  <2>9. QED
    BY <1>12, <2>1, <2>2, <2>3, <2>4, <2>5, <2>6, <2>7, <2>8 DEF GenStep, OnWrite, OnPingTimer
<1>13. CASE OnReconnectTimer
  <2>1. reconnectScheduled
    BY <1>13 DEF OnReconnectTimer, SessionInv, NeverWedged
  <2>2. QED
    BY <1>0, <1>13, <2>1 DEF OnReconnectTimer, ReconnectDone, StartConnect,
                             DownWhileConnecting
<1>14. CASE NetworkFails \/ CloseDone \/ Terminated
  BY <1>1, <1>14 DEF NetworkFails, CloseDone, Terminated, vars
<1>15. QED
  BY <1>3, <1>4, <1>5, <1>6, <1>7, <1>8, <1>9, <1>11, <1>12, <1>13, <1>14
     DEF Next, RunTask, Connecting

(* pump() starts a write of the current generation, if any, and keeps the
   count of the outstanding ones equal to what the flag says. *)
LEMMA PumpWrites ==
  ASSUME NEW q, NEW f \in BOOLEAN, NEW n \in [Gens -> Nat], Pump(q, f, n)
  PROVE  /\ \A h \in Gens : h # generation => writes'[h] = n[h]
         /\ ~connected => writes' = n /\ writeInFlight' = f
         /\ generation \in Gens /\ n[generation] = (IF f THEN 1 ELSE 0)
              => writes'[generation] = (IF writeInFlight' THEN 1 ELSE 0)
<1>1. CASE MayWrite(f) /\ q # <<>>
  <2>1. /\ writeInFlight' = TRUE /\ ~f /\ connected
        /\ writes' = [n EXCEPT ![generation] = @ + 1]
    BY <1>1 DEF Pump, MayWrite
  <2>2. QED
    BY <2>1
<1>2. CASE ~(MayWrite(f) /\ q # <<>>)
  BY <1>2 DEF Pump
<1>3. QED
  BY <1>1, <1>2

LEMMA NothingAheadStep ==
  ASSUME TypeOK, TypeOK', SessionInv, Next
  PROVE  NothingAhead'
<1> USE DEF link, topics, pumpVars, transport, threads, venue
<1>0. ConnectsOnce /\ DownWhileConnecting /\ NothingAhead
  BY DEF SessionInv
<1>1. ASSUME UNCHANGED <<generation, chain>>,
             \A h \in Gens : h # generation =>
                               reads'[h] = reads[h] /\ writes'[h] = writes[h],
             chain # "idle" => UNCHANGED <<reads, writes>>
      PROVE  NothingAhead'
  <2>1. generation \in Nat /\ \A h \in Gens : h \in Nat
    BY BoundsAssumption DEF Gens, TypeOK
  <2>2. QED
    BY <1>0, <1>1, <2>1 DEF NothingAhead
<1>2. ASSUME NEW q, NEW f \in BOOLEAN, Pump(q, f, writes)
      PROVE  /\ \A h \in Gens : h # generation => writes'[h] = writes[h]
             /\ chain # "idle" => writes' = writes
  <2>1. writes \in [Gens -> Nat]
    BY DEF TypeOK
  <2>2. QED
    BY <1>0, <1>2, <2>1, PumpWrites DEF DownWhileConnecting
<1>3. CASE CallerStep
  BY <1>1, <1>3 DEF CallerStep, Subscribe, Unsubscribe, Close, Calls, Post
<1>4. CASE StartConnect
  <2>1. CASE MayConnect
    <3>1. generation' = generation + 1 /\ UNCHANGED <<reads, writes>>
      BY <1>4, <2>1 DEF StartConnect
    <3>2. generation \in Nat /\ \A h \in Gens : h \in Nat
      BY BoundsAssumption DEF Gens, TypeOK
    <3>3. QED
      BY <1>0, <3>1, <3>2 DEF NothingAhead
  <2>2. CASE ~MayConnect
    BY <1>1, <1>4, <2>2 DEF StartConnect
  <2>3. QED
    BY <2>1, <2>2
<1>5. CASE RunFlush
  <2>1. FlushTopics(ready) /\ UNCHANGED <<generation, chain, reads>>
    BY <1>5 DEF RunFlush
  <2>2. /\ \A h \in Gens : h # generation => writes'[h] = writes[h]
        /\ chain # "idle" => writes' = writes
    BY <1>2, <2>1, FlushEffect DEF TypeOK
  <2>3. QED
    BY <1>1, <2>1, <2>2
<1>6. CASE RunUnsubscribe
  BY <1>1, <1>2, <1>6 DEF RunUnsubscribe, TypeOK
<1>7. CASE RunClose
  BY <1>1, <1>7 DEF RunClose
<1>8. CASE OnResolve \/ OnConnect \/ OnSSLHandshake
  BY <1>0, <1>8 DEF OnResolve, OnConnect, OnSSLHandshake, ChainMoves,
                    NothingAhead
<1>9. CASE OnHandshake
  <2>1. /\ UNCHANGED <<generation, writes>> /\ chain' = "idle"
        /\ \A h \in Gens : h # generation => reads'[h] = reads[h]
    BY <1>9 DEF OnHandshake, TypeOK
  <2>2. generation \in Nat /\ \A h \in Gens : h \in Nat
    BY BoundsAssumption DEF Gens, TypeOK
  <2>3. QED
    BY <1>0, <2>1, <2>2 DEF NothingAhead
<1>10. CASE ChainFails
  BY <1>0, <1>10, HandleErrorEffect DEF ChainFails, NothingAhead
<1>11. ASSUME NEW g \in Gens, GenStep(g) PROVE NothingAhead'
  <2>1. CASE g # generation
    <3>1. UNCHANGED <<generation, chain>>
      BY <1>11, <2>1, OldGeneration
    <3>2. ASSUME NEW h \in Gens, ~reads[h] PROVE ~reads'[h]
      BY <1>11, <2>1, <3>2, OldGeneration
    <3>3. ASSUME NEW h \in Gens, writes[h] = 0 PROVE writes'[h] = 0
      <4>1. CASE h = g
        <5>1. writes'[g] <= writes[g] /\ writes[g] = 0
          BY <1>11, <2>1, <3>3, <4>1, OldGeneration
        <5>2. writes'[g] \in Nat
          BY DEF TypeOK
        <5>3. QED
          BY <4>1, <5>1, <5>2
      <4>2. CASE h # g
        BY <1>11, <2>1, <3>3, <4>2, OldGeneration
      <4>3. QED
        BY <4>1, <4>2
    <3>4. QED
      BY <1>0, <3>1, <3>2, <3>3 DEF NothingAhead
  <2>2. CASE g = generation /\ chain = "idle"
    <3>1. UNCHANGED <<generation, chain>>
      BY <1>11, HandleErrorEffect
         DEF GenStep, OnReadError, OnReadGarbage, OnReadMessage, OnWrite,
             OnWriteOk, OnWriteError, OnPingTimer, OnPingTimerSilent,
             OnPingTimerAlive, OnPingTimerVoid
    <3>2. \A h \in Gens : h # generation => reads'[h] = reads[h]
      BY <1>11, <2>2
         DEF GenStep, OnReadError, OnReadGarbage, OnReadMessage, OnWrite,
             OnWriteOk, OnWriteError, OnPingTimer, OnPingTimerSilent,
             OnPingTimerAlive, OnPingTimerVoid, TypeOK
    <3>3. \A h \in Gens : h # generation => writes'[h] = writes[h]
      <4>1. CASE OnReadError(g) \/ OnReadGarbage(g) \/ OnPingTimerVoid(g)
                   \/ OnPingTimerSilent(g) \/ OnWriteError(g)
        BY <2>2, <4>1 DEF OnReadError, OnReadGarbage, OnPingTimerVoid, WriteDone,
                          OnPingTimerSilent, OnWriteError, TypeOK
      <4>2. ASSUME NEW m \in Messages, OnReadMessage(g, m)
            PROVE  \A h \in Gens : h # generation => writes'[h] = writes[h]
        <5>1. CASE FlushTopics(TRUE)
          BY <1>2, <5>1, FlushEffect DEF TypeOK
        <5>2. CASE Pump(Append(outboundQueue, KeepAlive), writeInFlight, writes)
          BY <1>2, <5>2 DEF TypeOK
        <5>3. QED
          BY <4>2, <5>1, <5>2 DEF OnReadMessage, Dispatch, Messages
      <4>3. CASE OnWriteOk(g)
        <5>1. WriteDone(g) \in [Gens -> Nat]
          <6>1. writes[g] - 1 \in Nat
            BY <4>3 DEF OnWriteOk, TypeOK
          <6>2. QED
            BY <6>1 DEF WriteDone, TypeOK
        <5>2. Pump(outboundQueue, FALSE, WriteDone(g))
          BY <2>2, <4>3 DEF OnWriteOk, PumpNext, Current
        <5>3. \A h \in Gens : h # generation => writes'[h] = WriteDone(g)[h]
          BY <5>1, <5>2, PumpWrites
        <5>4. QED
          BY <2>2, <5>3 DEF WriteDone, TypeOK
      <4>4. CASE OnPingTimerAlive(g)
        BY <1>2, <4>4 DEF OnPingTimerAlive, TypeOK
      <4>5. QED
        BY <1>11, <4>1, <4>2, <4>3, <4>4 DEF GenStep, OnWrite, OnPingTimer
    <3>4. QED
      BY <1>1, <2>2, <3>1, <3>2, <3>3
  <2>3. CASE g = generation /\ chain # "idle"
    <3>1. ~reads[g] /\ writes[g] = 0 /\ ~connected
      BY <1>0, <2>3 DEF NothingAhead, DownWhileConnecting
    <3>2. ~(writes[g] > 0)
      BY <3>1
    <3>3. OnPingTimerVoid(g) \/ OnPingTimerAlive(g)
      BY <1>11, <3>1, <3>2
         DEF GenStep, OnReadError, OnReadGarbage, OnReadMessage, OnWrite,
             OnWriteOk, OnWriteError, OnPingTimer, OnPingTimerSilent
    <3>4. QED
      BY <1>1, <3>1, <3>3 DEF OnPingTimerVoid, OnPingTimerAlive
  <2>4. QED
    BY <2>1, <2>2, <2>3
<1>12. CASE NetworkFails \/ CloseDone \/ Terminated
  BY <1>1, <1>12 DEF NetworkFails, CloseDone, Terminated, vars
<1>13. QED
  BY <1>3, <1>4, <1>5, <1>6, <1>7, <1>8, <1>9, <1>10, <1>11, <1>12
     DEF Next, RunTask, RunConnect, OnReconnectTimer, Connecting

LEMMA OneWriteStep ==
  ASSUME TypeOK, SessionInv, Next
  PROVE  OneWrite'
<1> USE DEF link, topics, pumpVars, transport, threads, venue
<1>0. /\ ConnectsOnce /\ DownWhileConnecting /\ NothingAhead /\ OneWrite
      /\ writes \in [Gens -> Nat] /\ writeInFlight \in BOOLEAN
  BY DEF SessionInv, TypeOK
<1>1. connected \/ chain # "idle" => generation \in Gens
  <2>1. connected \/ chain # "idle" => generation # 0
    BY <1>0 DEF ConnectsOnce
  <2>2. QED
    BY <2>1, BoundsAssumption DEF Gens, TypeOK
<1>2. ASSUME UNCHANGED <<generation, connected, writeInFlight, writes>>
      PROVE  OneWrite'
  BY <1>0, <1>2 DEF OneWrite
<1>3. ASSUME NEW q, Pump(q, writeInFlight, writes),
             UNCHANGED <<generation, connected>>
      PROVE  OneWrite'
  <2>1. generation \in Gens /\ writes[generation] = (IF writeInFlight THEN 1 ELSE 0)
          => writes'[generation] = (IF writeInFlight' THEN 1 ELSE 0)
    BY <1>0, <1>3, PumpWrites
  <2>2. QED
    BY <1>0, <1>1, <1>3, <2>1 DEF OneWrite
<1>4. ASSUME FlushTopics(ready) \/ FlushTopics(TRUE),
             UNCHANGED <<generation, connected>>
      PROVE  OneWrite'
  BY <1>2, <1>3, <1>4, FlushEffect
<1>5. ASSUME NEW g, NEW p, HandleError(g, writeInFlight, p), writes' = writes
      PROVE  OneWrite'
  <2>1. \/ UNCHANGED <<generation, connected, writeInFlight>>
        \/ connected' = FALSE
    BY <1>5, HandleErrorEffect
  <2>2. QED
    BY <1>2, <1>5, <2>1 DEF OneWrite
<1>6. CASE CallerStep
  BY <1>2, <1>6 DEF CallerStep, Subscribe, Unsubscribe, Close, Calls, Post
<1>7. CASE StartConnect
  BY <1>2, <1>7 DEF StartConnect, OneWrite
<1>8. CASE RunFlush
  BY <1>4, <1>8 DEF RunFlush
<1>9. CASE RunUnsubscribe
  BY <1>2, <1>3, <1>9 DEF RunUnsubscribe
<1>10. CASE RunClose
  BY <1>2, <1>10 DEF RunClose
<1>11. CASE OnResolve \/ OnConnect \/ OnSSLHandshake
  BY <1>2, <1>11 DEF OnResolve, OnConnect, OnSSLHandshake, ChainMoves
<1>12. CASE OnHandshake
  <2>1. /\ UNCHANGED <<generation, writes, writeInFlight>>
        /\ chain # "idle"
    BY <1>12 DEF OnHandshake
  <2>2. generation \in Gens /\ writes[generation] = 0 /\ ~writeInFlight
    BY <1>0, <1>1, <2>1 DEF NothingAhead, DownWhileConnecting
  <2>3. QED
    BY <2>1, <2>2 DEF OneWrite
<1>13. CASE ChainFails
  BY <1>5, <1>13 DEF ChainFails
<1>14. ASSUME NEW g \in Gens, GenStep(g) PROVE OneWrite'
  <2>1. CASE g # generation
    <3>1. UNCHANGED <<generation, connected, writeInFlight>>
      BY <1>14, <2>1, OldGeneration
    <3>2. generation \in Gens => writes'[generation] = writes[generation]
      BY <1>14, <2>1, OldGeneration
    <3>3. QED
      BY <1>0, <1>1, <3>1, <3>2 DEF OneWrite
  <2>2. CASE g = generation /\ OnReadError(g)
    BY <1>5, <2>2 DEF OnReadError, Current
  <2>3. CASE g = generation /\ OnReadGarbage(g)
    BY <1>5, <2>3 DEF OnReadGarbage
  <2>4. CASE g = generation /\ OnPingTimerSilent(g)
    BY <1>5, <2>4 DEF OnPingTimerSilent
  <2>5. ASSUME g = generation, writes[g] > 0, connected
        PROVE  WriteDone(g)[g] = 0 /\ WriteDone(g) \in [Gens -> Nat]
    <3>1. writes[g] = 1
      BY <1>0, <2>5 DEF OneWrite
    <3>2. QED
      BY <1>0, <3>1 DEF WriteDone
  <2>6. CASE g = generation /\ OnWriteError(g)
    <3>1. writes[g] > 0 /\ writes' = WriteDone(g)
      BY <2>6 DEF OnWriteError
    <3>2. HandleError(g, FALSE, ping)
      BY <2>6 DEF OnWriteError
    <3>3. \/ generation' = generation /\ connected' = connected
             /\ writeInFlight' = FALSE
          \/ connected' = FALSE
      BY <3>2, HandleErrorEffect
    <3>4. QED
      BY <2>5, <2>6, <3>1, <3>3 DEF OneWrite
  <2>7. CASE g = generation /\ OnWriteOk(g)
    <3>1. writes[g] > 0 /\ UNCHANGED <<generation, connected>>
      BY <2>7 DEF OnWriteOk
    <3>2. Pump(outboundQueue, FALSE, WriteDone(g))
      BY <2>7 DEF OnWriteOk, PumpNext, Current
    <3>3. CASE connected
      <4>1. writes'[generation] = (IF writeInFlight' THEN 1 ELSE 0)
        BY <1>1, <2>5, <2>7, <3>1, <3>2, <3>3, PumpWrites
      <4>2. QED
        BY <3>1, <4>1 DEF OneWrite
    <3>4. QED
      BY <3>1, <3>3 DEF OneWrite
  <2>8. ASSUME g = generation, NEW m \in Messages, OnReadMessage(g, m)
        PROVE  OneWrite'
    <3>1. UNCHANGED <<generation, connected>>
      BY <2>8 DEF OnReadMessage
    <3>2. \/ FlushTopics(TRUE)
          \/ Pump(Append(outboundQueue, KeepAlive), writeInFlight, writes)
          \/ UNCHANGED <<writeInFlight, writes>>
      BY <2>8 DEF OnReadMessage, Dispatch, Messages
    <3>3. QED
      BY <1>2, <1>3, <1>4, <3>1, <3>2
  <2>9. CASE g = generation /\ (OnPingTimerVoid(g) \/ OnPingTimerAlive(g))
    BY <1>2, <1>3, <2>9 DEF OnPingTimerVoid, OnPingTimerAlive
  <2>10. QED
    BY <1>14, <2>1, <2>2, <2>3, <2>4, <2>6, <2>7, <2>8, <2>9
       DEF GenStep, OnWrite, OnPingTimer
<1>15. CASE NetworkFails \/ CloseDone \/ Terminated
  BY <1>2, <1>15 DEF NetworkFails, CloseDone, Terminated, vars
<1>16. QED
  BY <1>6, <1>7, <1>8, <1>9, <1>10, <1>11, <1>12, <1>13, <1>14, <1>15
     DEF Next, RunTask, RunConnect, OnReconnectTimer, Connecting

LEMMA ListensWhileConnectedStep ==
  ASSUME TypeOK, SessionInv, Next
  PROVE  ListensWhileConnected'
<1> USE DEF link, topics, pumpVars, transport, threads, venue
<1>0. /\ ConnectsOnce /\ DownWhileConnecting /\ ListensWhileConnected
      /\ reads \in [Gens -> BOOLEAN]
      /\ ping \in [Gens -> {"none", "armed", "cancelled"}]
  BY DEF SessionInv, TypeOK
<1>1. connected \/ chain # "idle" => generation \in Gens
  <2>1. connected \/ chain # "idle" => generation # 0
    BY <1>0 DEF ConnectsOnce
  <2>2. QED
    BY <2>1, BoundsAssumption DEF Gens, TypeOK
<1>2. ASSUME UNCHANGED <<generation, connected>>, userClosed => userClosed',
             generation \in Gens => /\ reads'[generation] = reads[generation]
                                    /\ ping'[generation] = ping[generation]
      PROVE  ListensWhileConnected'
  BY <1>0, <1>1, <1>2 DEF ListensWhileConnected
<1>3. ASSUME NEW f, NEW p, HandleError(generation, f, p)
      PROVE  ListensWhileConnected'
  <2>1. \/ reconnectScheduled /\ connected' = connected
        \/ userClosed /\ userClosed' = userClosed
        \/ connected' = FALSE
    BY <1>3, HandleErrorEffect
  <2>2. CASE reconnectScheduled /\ connected' = connected
    BY <1>0, <2>2 DEF DownWhileConnecting, ListensWhileConnected
  <2>3. CASE userClosed /\ userClosed' = userClosed
    BY <2>3 DEF ListensWhileConnected
  <2>4. QED
    BY <2>1, <2>2, <2>3 DEF ListensWhileConnected
<1>4. CASE CallerStep
  BY <1>2, <1>4 DEF CallerStep, Subscribe, Unsubscribe, Close, Calls, Post
<1>5. CASE StartConnect
  BY <1>2, <1>5 DEF StartConnect, ListensWhileConnected
<1>6. CASE RunFlush \/ RunUnsubscribe
  BY <1>2, <1>6 DEF RunFlush, RunUnsubscribe
<1>7. CASE RunClose
  BY <1>7 DEF RunClose, ListensWhileConnected
<1>8. CASE OnResolve \/ OnConnect \/ OnSSLHandshake
  BY <1>2, <1>8 DEF OnResolve, OnConnect, OnSSLHandshake, ChainMoves
<1>9. CASE OnHandshake
  <2>1. CASE userClosed
    BY <1>9, <2>1 DEF OnHandshake, ListensWhileConnected
  <2>2. CASE ~userClosed
    <3>1. generation \in Gens
      BY <1>1, <1>9 DEF OnHandshake
    <3>2. /\ generation' = generation
          /\ reads' = [reads EXCEPT ![generation] = TRUE]
          /\ ping' = ArmPing(ping, generation)
      BY <1>9, <2>2 DEF OnHandshake
    <3>3. reads'[generation] /\ ping'[generation] = "armed"
      BY <1>0, <3>1, <3>2 DEF ArmPing, CancelPing
    <3>4. QED
      BY <3>2, <3>3 DEF ListensWhileConnected
  <2>3. QED
    BY <2>1, <2>2
<1>10. CASE ChainFails
  BY <1>3, <1>10 DEF ChainFails
<1>11. ASSUME NEW g \in Gens, GenStep(g) PROVE ListensWhileConnected'
  <2>1. CASE g # generation
    <3>1. UNCHANGED <<generation, connected, userClosed>>
      BY <1>11, <2>1, OldGeneration
    <3>2. generation \in Gens => /\ reads'[generation] = reads[generation]
                                 /\ ping'[generation] = ping[generation]
      BY <1>11, <2>1, OldGeneration
    <3>3. QED
      BY <1>2, <3>1, <3>2
  <2>2. CASE g = generation /\ (OnReadError(g) \/ OnReadGarbage(g))
    BY <1>3, <2>2 DEF OnReadError, OnReadGarbage, Current
  <2>3. CASE g = generation /\ OnWriteError(g)
    <3>1. HandleError(generation, FALSE, ping)
      BY <2>3 DEF OnWriteError
    <3>2. QED
      BY <1>3, <3>1
  <2>4. CASE g = generation /\ OnPingTimerSilent(g)
    BY <1>3, <2>4 DEF OnPingTimerSilent
  <2>5. CASE g = generation /\ OnWriteOk(g)
    BY <1>2, <2>5 DEF OnWriteOk
  <2>6. ASSUME g = generation, NEW m \in Messages, OnReadMessage(g, m)
        PROVE  ListensWhileConnected'
    <3>1. /\ UNCHANGED <<generation, connected, userClosed, ping>>
          /\ reads' = [reads EXCEPT ![g] = ReadsOn]
      BY <2>6 DEF OnReadMessage
    <3>2. connected => reads'[g]
      BY <1>0, <3>1 DEF ReadsOn, DownWhileConnecting
    <3>3. QED
      BY <1>0, <2>6, <3>1, <3>2 DEF ListensWhileConnected
  <2>7. CASE g = generation /\ OnPingTimerVoid(g)
    <3>1. connected /\ ~userClosed => Ticks(g) /\ ping[g] = "armed"
      BY <1>0, <2>7 DEF ListensWhileConnected, Ticks, Current
    <3>2. UNCHANGED <<connected, userClosed>> /\ (ping[g] = "armed" => ~Ticks(g))
      BY <2>7 DEF OnPingTimerVoid
    <3>3. QED
      BY <3>1, <3>2 DEF ListensWhileConnected
  <2>8. CASE g = generation /\ OnPingTimerAlive(g)
    <3>1. /\ UNCHANGED <<generation, connected, userClosed, reads>>
          /\ ping' = ArmPing(ping, g)
      BY <2>8 DEF OnPingTimerAlive
    <3>2. ping'[g] = "armed"
      BY <1>0, <3>1 DEF ArmPing, CancelPing
    <3>3. QED
      BY <1>0, <2>8, <3>1, <3>2 DEF ListensWhileConnected
  <2>9. QED
    BY <1>11, <2>1, <2>2, <2>3, <2>4, <2>5, <2>6, <2>7, <2>8
       DEF GenStep, OnWrite, OnPingTimer
<1>12. CASE NetworkFails \/ CloseDone \/ Terminated
  BY <1>2, <1>12 DEF NetworkFails, CloseDone, Terminated, vars
<1>13. QED
  BY <1>4, <1>5, <1>6, <1>7, <1>8, <1>9, <1>10, <1>11, <1>12
     DEF Next, RunTask, RunConnect, OnReconnectTimer, Connecting

LEMMA NeverWedgedStep ==
  ASSUME TypeOK, SessionInv, Next
  PROVE  NeverWedged'
<1> USE DEF link, topics, pumpVars, transport, threads, venue
<1>0. ConnectsOnce /\ DownWhileConnecting /\ NothingAhead /\ NeverWedged
  BY DEF SessionInv
<1>1. ASSUME UNCHANGED <<connected, reconnectScheduled, reconnectWait, chain,
                         posted, userClosed>>
      PROVE  NeverWedged'
  BY <1>0, <1>1 DEF NeverWedged
<1>2. ASSUME NEW f, NEW p, HandleError(generation, f, p)
      PROVE  NeverWedged'
  <2>1. \/ /\ reconnectScheduled \/ userClosed
           /\ UNCHANGED <<reconnectScheduled, reconnectWait, userClosed>>
        \/ reconnectScheduled' = TRUE /\ reconnectWait' = TRUE
    BY <1>2, HandleErrorEffect
  <2>2. QED
    BY <1>0, <2>1 DEF NeverWedged
<1>3. ASSUME NEW t \in Callers, NEW task, Calls(t, task) PROVE NeverWedged'
  BY <1>1, <1>3 DEF Calls
<1>4. ASSUME NEW t \in Callers, Post(t) PROVE NeverWedged'
  <2>1. /\ posted' = Append(posted, calling[t])
        /\ posted \in Seq(Task) /\ calling[t] \in Task
        /\ UNCHANGED <<connected, reconnectScheduled, reconnectWait, chain,
                       userClosed>>
    BY <1>4 DEF Post, TypeOK
  <2>2. ASSUME NEW i \in DOMAIN posted
        PROVE  i \in DOMAIN posted' /\ posted'[i] = posted[i]
    BY <2>1, AppendProperties, LenProperties
  <2>3. QED
    BY <1>0, <2>1, <2>2 DEF NeverWedged
<1>5. CASE RunConnect
  BY <1>0, <1>5 DEF RunConnect, StartConnect, MayConnect, NeverWedged
<1>6. CASE RunFlush \/ RunUnsubscribe \/ RunClose
  <2>1. \A i \in DOMAIN posted : posted[i].op # "connect"
    <3>1. posted # <<>> /\ Head(posted) = posted[1]
      BY <1>0, <1>6, NoConnectLeft DEF RunFlush, RunUnsubscribe, RunClose
    <3>2. posted[1].op # "connect"
      BY <1>6, <3>1 DEF RunFlush, RunUnsubscribe, RunClose, NextTask
    <3>3. QED
      BY <1>0, <3>2 DEF ConnectsOnce
  <2>2. /\ UNCHANGED <<connected, reconnectScheduled, reconnectWait, chain>>
        /\ userClosed => userClosed'
    BY <1>6 DEF RunFlush, RunUnsubscribe, RunClose
  <2>3. QED
    BY <1>0, <2>1, <2>2 DEF NeverWedged
<1>7. CASE OnResolve \/ OnConnect \/ OnSSLHandshake
  BY <1>0, <1>7 DEF OnResolve, OnConnect, OnSSLHandshake, ChainMoves, NeverWedged
<1>8. CASE OnHandshake
  BY <1>0, <1>8 DEF OnHandshake, NeverWedged
<1>9. CASE ChainFails
  BY <1>2, <1>9 DEF ChainFails
<1>10. ASSUME NEW g \in Gens, GenStep(g) PROVE NeverWedged'
  <2>1. CASE g # generation
    BY <1>1, <1>10, <2>1, OldGeneration
  <2>2. CASE g = generation /\ (OnReadError(g) \/ OnReadGarbage(g))
    BY <1>2, <2>2 DEF OnReadError, OnReadGarbage, Current
  <2>3. CASE g = generation /\ OnWriteError(g)
    <3>1. HandleError(generation, FALSE, ping)
      BY <2>3 DEF OnWriteError
    <3>2. QED
      BY <1>2, <3>1
  <2>4. CASE g = generation /\ OnPingTimerSilent(g)
    BY <1>2, <2>4 DEF OnPingTimerSilent
  <2>5. ASSUME \/ OnWriteOk(g) \/ OnPingTimerVoid(g) \/ OnPingTimerAlive(g)
               \/ \E m \in Messages : OnReadMessage(g, m)
        PROVE  NeverWedged'
    BY <1>1, <2>5 DEF OnWriteOk, OnPingTimerVoid, OnPingTimerAlive, OnReadMessage
  <2>6. QED
    BY <1>10, <2>1, <2>2, <2>3, <2>4, <2>5 DEF GenStep, OnWrite, OnPingTimer
<1>11. CASE OnReconnectTimer
  BY <1>0, <1>11 DEF OnReconnectTimer, ReconnectDone, StartConnect, MayConnect,
                     NeverWedged
<1>12. CASE NetworkFails \/ CloseDone \/ Terminated
  BY <1>1, <1>12 DEF NetworkFails, CloseDone, Terminated, vars
<1>13. QED
  BY <1>3, <1>4, <1>5, <1>6, <1>7, <1>8, <1>9, <1>10, <1>11, <1>12
     DEF Next, CallerStep, Subscribe, Unsubscribe, Close, RunTask, Connecting

LEMMA PumpNeverStallsStep ==
  ASSUME TypeOK, SessionInv, Next
  PROVE  PumpNeverStalls'
<1> USE DEF link, topics, pumpVars, transport, threads, venue
<1>0. DownWhileConnecting /\ PumpNeverStalls /\ writeInFlight \in BOOLEAN
  BY DEF SessionInv, TypeOK
<1>1. ASSUME UNCHANGED <<connected, ready, outboundQueue, writeInFlight>>,
             wsOpen' => wsOpen
      PROVE  PumpNeverStalls'
  BY <1>0, <1>1 DEF PumpNeverStalls
<1>2. ASSUME NEW q, NEW f, NEW n, Pump(q, f, n), UNCHANGED <<connected, wsOpen>>
      PROVE  PumpNeverStalls'
  BY <1>2 DEF Pump, MayWrite, PumpNeverStalls
<1>3. ASSUME NEW g, NEW p, HandleError(g, writeInFlight, p), wsOpen' => wsOpen
      PROVE  PumpNeverStalls'
  <2>1. \/ UNCHANGED <<connected, ready, outboundQueue, writeInFlight>>
        \/ connected' = FALSE
    BY <1>3, HandleErrorEffect
  <2>2. QED
    BY <1>1, <1>3, <2>1 DEF PumpNeverStalls
<1>4. ASSUME NEW r, FlushTopics(r), UNCHANGED <<connected, wsOpen>>,
             ready' => r
      PROVE  PumpNeverStalls'
  <2>1. \/ \E q \in Seq(Frame) : Pump(q, writeInFlight, writes)
        \/ ~(connected /\ r)
    BY <1>4, FlushEffect
  <2>2. QED
    BY <1>2, <1>4, <2>1 DEF PumpNeverStalls
<1>5. CASE CallerStep
  BY <1>1, <1>5 DEF CallerStep, Subscribe, Unsubscribe, Close, Calls, Post
<1>6. CASE StartConnect
  BY <1>1, <1>6 DEF StartConnect, PumpNeverStalls
<1>7. CASE RunFlush
  BY <1>4, <1>7 DEF RunFlush
<1>8. CASE RunUnsubscribe
  BY <1>1, <1>2, <1>8 DEF RunUnsubscribe
<1>9. CASE RunClose
  <2>1. UNCHANGED <<connected, ready, outboundQueue, writeInFlight>>
    BY <1>9 DEF RunClose
  <2>2. wsOpen' => wsOpen
    BY <1>9 DEF RunClose
  <2>3. QED
    BY <1>1, <2>1, <2>2
<1>10. CASE OnResolve \/ OnConnect \/ OnSSLHandshake
  BY <1>1, <1>10 DEF OnResolve, OnConnect, OnSSLHandshake, ChainMoves
<1>11. CASE OnHandshake
  BY <1>0, <1>11 DEF OnHandshake, DownWhileConnecting, PumpNeverStalls
<1>12. CASE ChainFails
  BY <1>3, <1>12 DEF ChainFails
<1>13. ASSUME NEW g \in Gens, GenStep(g) PROVE PumpNeverStalls'
  <2>1. CASE g # generation
    BY <1>1, <1>13, <2>1, OldGeneration
  <2>2. CASE g = generation /\ (OnReadError(g) \/ OnWriteError(g))
    <3>1. wsOpen' = FALSE
      BY <2>2 DEF OnReadError, OnWriteError, Current
    <3>2. QED
      BY <3>1 DEF PumpNeverStalls
  <2>3. CASE OnReadGarbage(g) \/ OnPingTimerSilent(g)
    BY <1>3, <2>3 DEF OnReadGarbage, OnPingTimerSilent
  <2>4. CASE g = generation /\ OnWriteOk(g)
    BY <1>2, <2>4 DEF OnWriteOk, PumpNext, Current
  <2>5. ASSUME NEW m \in Messages, OnReadMessage(g, m)
        PROVE  PumpNeverStalls'
    <3>1. UNCHANGED <<connected, wsOpen>>
      BY <2>5 DEF OnReadMessage
    <3>2. \/ FlushTopics(TRUE)
          \/ Pump(Append(outboundQueue, KeepAlive), writeInFlight, writes)
          \/ UNCHANGED <<ready, outboundQueue, writeInFlight>>
      BY <2>5 DEF OnReadMessage, Dispatch, Messages
    <3>3. QED
      BY <1>1, <1>2, <1>4, <3>1, <3>2
  <2>6. CASE OnPingTimerVoid(g) \/ OnPingTimerAlive(g)
    BY <1>1, <1>2, <2>6 DEF OnPingTimerVoid, OnPingTimerAlive
  <2>7. QED
    BY <1>13, <2>1, <2>2, <2>3, <2>4, <2>5, <2>6 DEF GenStep, OnWrite, OnPingTimer
<1>14. CASE NetworkFails \/ CloseDone \/ Terminated
  BY <1>1, <1>14 DEF NetworkFails, CloseDone, Terminated, vars
<1>15. QED
  BY <1>5, <1>6, <1>7, <1>8, <1>9, <1>10, <1>11, <1>12, <1>13, <1>14
     DEF Next, RunTask, RunConnect, OnReconnectTimer, Connecting

(* A sequence of frames with no subscribe frame among them. *)
NoSubscribe(q) == \A i \in DOMAIN q : q[i].op # "subscribe"

(* pump() brings no subscribe frame into the queue. *)
LEMMA PumpKeepsNoSubscribe ==
  ASSUME NEW q \in Seq(Frame), NEW f, NEW n, Pump(q, f, n), NoSubscribe(q)
  PROVE  NoSubscribe(outboundQueue')
<1>1. CASE outboundQueue' = Tail(q) /\ q # <<>>
  <2>1. /\ Tail(q) \in Seq(Frame) /\ Len(Tail(q)) = Len(q) - 1
        /\ \A i \in 1..Len(Tail(q)) : Tail(q)[i] = q[i + 1]
    BY <1>1, HeadTailProperties
  <2>2. ASSUME NEW i \in DOMAIN Tail(q) PROVE Tail(q)[i].op # "subscribe"
    <3>1. i \in 1..Len(Tail(q)) /\ i + 1 \in DOMAIN q
      BY <2>1, LenProperties
    <3>2. QED
      BY <2>1, <3>1 DEF NoSubscribe
  <2>3. QED
    BY <1>1, <2>2 DEF NoSubscribe
<1>2. CASE outboundQueue' = q
  BY <1>2
<1>3. QED
  BY <1>1, <1>2 DEF Pump

LEMMA AppendKeepsNoSubscribe ==
  ASSUME NEW q \in Seq(Frame), NEW f \in Frame, NoSubscribe(q),
         f.op # "subscribe"
  PROVE  Append(q, f) \in Seq(Frame) /\ NoSubscribe(Append(q, f))
BY AppendProperties, LenProperties DEF NoSubscribe

LEMMA SubscribesAfterGreetingStep ==
  ASSUME TypeOK, SessionInv, Next
  PROVE  SubscribesAfterGreeting'
<1> USE DEF link, topics, pumpVars, transport, threads, venue
<1>0. /\ ConnectsOnce /\ DownWhileConnecting /\ NeverWedged
      /\ outboundQueue \in Seq(Frame)
      /\ ~(connected /\ ready) => NoSubscribe(outboundQueue) /\ subscriptions = {}
  BY DEF SessionInv, TypeOK, SubscribesAfterGreeting, NoSubscribe
<1>1. ASSUME ~(connected' /\ ready') => /\ NoSubscribe(outboundQueue')
                                        /\ subscriptions' = {}
      PROVE  SubscribesAfterGreeting'
  BY <1>1 DEF SubscribesAfterGreeting, NoSubscribe
<1>2. ASSUME ~(connected' /\ ready') => ~(connected /\ ready),
             UNCHANGED <<outboundQueue, subscriptions>>
      PROVE  SubscribesAfterGreeting'
  BY <1>0, <1>1, <1>2
<1>3. ASSUME NEW q \in Seq(Frame), NEW f, NEW n, Pump(q, f, n),
             UNCHANGED <<connected, ready, subscriptions>>,
             NoSubscribe(outboundQueue) => NoSubscribe(q)
      PROVE  SubscribesAfterGreeting'
  BY <1>0, <1>1, <1>3, PumpKeepsNoSubscribe
<1>4. ASSUME NEW g, NEW f, NEW p, HandleError(g, f, p)
      PROVE  SubscribesAfterGreeting'
  <2>1. \/ UNCHANGED <<connected, ready, outboundQueue, subscriptions>>
        \/ outboundQueue' = <<>> /\ subscriptions' = {}
    BY <1>4, HandleErrorEffect
  <2>2. NoSubscribe(<<>>)
    BY DEF NoSubscribe
  <2>3. QED
    BY <1>1, <1>2, <2>1, <2>2
<1>5. ASSUME NEW r, FlushTopics(r), UNCHANGED connected,
             r => ready', ready => ready'
      PROVE  SubscribesAfterGreeting'
  <2>1. \/ connected /\ r
        \/ ~(connected /\ r) /\ UNCHANGED <<outboundQueue, subscriptions>>
    BY <1>5, FlushEffect
  <2>2. QED
    BY <1>1, <1>2, <1>5, <2>1
<1>6. ASSUME NEW f \in Frame, f.op # "subscribe",
             Pump(Append(outboundQueue, f), writeInFlight, writes),
             UNCHANGED <<connected, ready, subscriptions>>
      PROVE  SubscribesAfterGreeting'
  BY <1>0, <1>3, <1>6, AppendKeepsNoSubscribe, AppendProperties
<1>7. CASE CallerStep
  <2>1. /\ UNCHANGED <<connected, ready, outboundQueue>>
        /\ subscriptions' \subseteq subscriptions
    BY <1>7 DEF CallerStep, Subscribe, Unsubscribe, Close, Calls, Post
  <2>2. QED
    BY <1>0, <1>1, <2>1
<1>8. ASSUME StartConnect, ~connected PROVE SubscribesAfterGreeting'
  BY <1>2, <1>8 DEF StartConnect
<1>9. CASE RunConnect
  <2>1. ~connected
    BY <1>0, <1>9, NoConnectLeft DEF RunConnect, ConnectsOnce, NextTask, TypeOK
  <2>2. QED
    BY <1>8, <1>9, <2>1 DEF RunConnect
<1>10. CASE RunFlush
  BY <1>5, <1>10 DEF RunFlush
<1>11. CASE RunUnsubscribe
  <2>1. UNCHANGED <<connected, ready, subscriptions>>
    BY <1>11 DEF RunUnsubscribe
  <2>2. CASE connected
    <3>1. posted # <<>> /\ Head(posted).op = "unsubscribe"
      BY <1>11 DEF RunUnsubscribe, NextTask
    <3>2. Head(posted) \in Task
      BY <3>1, HeadTailProperties DEF TypeOK
    <3>3. On("unsubscribe", Head(posted).ch) \in Frame
      BY <3>1, <3>2 DEF Task, Frame, On
    <3>4. On("unsubscribe", Head(posted).ch).op # "subscribe"
      BY DEF On
    <3>5. Pump(Append(outboundQueue, On("unsubscribe", Head(posted).ch)),
               writeInFlight, writes)
      BY <1>11, <2>2 DEF RunUnsubscribe
    <3>6. QED
      BY <1>6, <2>1, <3>3, <3>4, <3>5
  <2>3. CASE ~connected
    BY <1>2, <1>11, <2>3 DEF RunUnsubscribe
  <2>4. QED
    BY <2>2, <2>3
<1>12. CASE RunClose
  BY <1>2, <1>12 DEF RunClose
<1>13. CASE OnResolve \/ OnConnect \/ OnSSLHandshake
  BY <1>2, <1>13 DEF OnResolve, OnConnect, OnSSLHandshake, ChainMoves
<1>14. CASE OnHandshake
  BY <1>0, <1>2, <1>14 DEF OnHandshake, DownWhileConnecting
<1>15. CASE ChainFails
  BY <1>4, <1>15 DEF ChainFails
<1>16. ASSUME NEW g \in Gens, GenStep(g) PROVE SubscribesAfterGreeting'
  <2>1. CASE g # generation
    BY <1>2, <1>16, <2>1, OldGeneration
  <2>2. CASE g = generation /\ OnReadError(g)
    BY <1>4, <2>2 DEF OnReadError, Current
  <2>3. CASE OnReadGarbage(g) \/ OnPingTimerSilent(g)
    BY <1>4, <2>3 DEF OnReadGarbage, OnPingTimerSilent
  <2>4. CASE OnWriteError(g)
    <3>1. HandleError(g, FALSE, ping)
      BY <2>4 DEF OnWriteError
    <3>2. QED
      BY <1>4, <3>1
  <2>5. CASE g = generation /\ OnWriteOk(g)
    <3>1. Pump(outboundQueue, FALSE, WriteDone(g))
      BY <2>5 DEF OnWriteOk, PumpNext, Current
    <3>2. UNCHANGED <<connected, ready, subscriptions>>
      BY <2>5 DEF OnWriteOk
    <3>3. QED
      BY <1>0, <1>3, <3>1, <3>2
  <2>6. KeepAlive \in Frame /\ KeepAlive.op # "subscribe"
    BY DEF KeepAlive, Do, Frame
  <2>7. ASSUME NEW m \in Messages, OnReadMessage(g, m)
        PROVE  SubscribesAfterGreeting'
    <3>1. connected' = connected
      BY <2>7 DEF OnReadMessage
    <3>2. \/ ready' = TRUE /\ FlushTopics(TRUE)
          \/ /\ Pump(Append(outboundQueue, KeepAlive), writeInFlight, writes)
             /\ UNCHANGED <<ready, subscriptions>>
          \/ UNCHANGED <<ready, outboundQueue, subscriptions>>
      BY <2>7 DEF OnReadMessage, Dispatch, Messages
    <3>3. QED
      BY <1>2, <1>5, <1>6, <2>6, <3>1, <3>2
  <2>8. CASE OnPingTimerVoid(g)
    BY <1>2, <2>8 DEF OnPingTimerVoid
  <2>9. CASE OnPingTimerAlive(g)
    <3>1. /\ UNCHANGED <<connected, ready, subscriptions>>
          /\ \/ Pump(Append(outboundQueue, KeepAlive), writeInFlight, writes)
             \/ UNCHANGED outboundQueue
      BY <2>9 DEF OnPingTimerAlive
    <3>2. QED
      BY <1>2, <1>6, <2>6, <3>1
  <2>10. QED
    BY <1>16, <2>1, <2>2, <2>3, <2>4, <2>5, <2>7, <2>8, <2>9
       DEF GenStep, OnWrite, OnPingTimer
<1>17. CASE OnReconnectTimer
  <2>1. ~connected
    BY <1>0, <1>17 DEF OnReconnectTimer, NeverWedged, DownWhileConnecting
  <2>2. QED
    BY <1>8, <1>17, <2>1 DEF OnReconnectTimer
<1>18. CASE NetworkFails \/ CloseDone \/ Terminated
  BY <1>2, <1>18 DEF NetworkFails, CloseDone, Terminated, vars
<1>19. QED
  BY <1>7, <1>9, <1>10, <1>11, <1>12, <1>13, <1>14, <1>15, <1>16, <1>17, <1>18
     DEF Next, RunTask, Connecting

----------------------------------------------------------------------------
(* The invariants.                                                         *)

LEMMA SessionInvInit == Init => SessionInv
<1> SUFFICES ASSUME Init PROVE SessionInv
  OBVIOUS
<1>1. /\ posted = <<Do("connect")>> /\ DOMAIN posted = {1}
      /\ posted[1].op = "connect"
  BY DEF Init, Do
<1>2. ConnectsOnce
  BY <1>1 DEF Init, ConnectsOnce, NoTask, Do
<1>3. NothingAhead
  BY DEF Init, NothingAhead
<1>4. NeverWedged
  BY <1>1 DEF Init, NeverWedged
<1>5. /\ DownWhileConnecting /\ OneWrite /\ ListensWhileConnected
      /\ PumpNeverStalls
  BY DEF Init, DownWhileConnecting, OneWrite, ListensWhileConnected,
         PumpNeverStalls
<1>6. SubscribesAfterGreeting
  BY DEF Init, SubscribesAfterGreeting
<1>7. QED
  BY <1>2, <1>3, <1>4, <1>5, <1>6 DEF SessionInv

LEMMA SessionInvStep ==
  ASSUME TypeOK, TypeOK', SessionInv, [Next]_vars
  PROVE  SessionInv'
<1>1. CASE Next
  BY <1>1, ConnectsOnceStep, DownWhileConnectingStep, NothingAheadStep,
     OneWriteStep, ListensWhileConnectedStep, NeverWedgedStep,
     PumpNeverStallsStep, SubscribesAfterGreetingStep DEF SessionInv
<1>2. CASE UNCHANGED vars
  <2>1. ConnectsOnce' /\ DownWhileConnecting' /\ NothingAhead'
    BY <1>2 DEF vars, link, topics, pumpVars, transport, threads, SessionInv,
                ConnectsOnce, DownWhileConnecting, NothingAhead
  <2>2. OneWrite' /\ ListensWhileConnected' /\ NeverWedged'
    BY <1>2 DEF vars, link, topics, pumpVars, transport, threads, SessionInv,
                OneWrite, ListensWhileConnected, NeverWedged
  <2>3. PumpNeverStalls' /\ SubscribesAfterGreeting'
    BY <1>2 DEF vars, link, topics, pumpVars, transport, threads, SessionInv,
                PumpNeverStalls, SubscribesAfterGreeting
  <2>4. QED
    BY <2>1, <2>2, <2>3 DEF SessionInv
<1>3. QED
  BY <1>1, <1>2

(* The conjunction is inductive: no interleaving of handlers, tasks, callers
   and failures, for any number of connections, channels and callers, leads
   out of it. *)
THEOREM SessionInvariant == Spec => []SessionInv
<1>1. Init => SessionInv
  BY SessionInvInit
<1>2. TypeOK /\ TypeOK' /\ SessionInv /\ [Next]_vars => SessionInv'
  BY SessionInvStep
<1>3. QED
  BY <1>1, <1>2, TypeCorrect, PTL DEF Spec

(* At most one async_write is outstanding on a connection, and writeInFlight
   tells whether there is one (pump). *)
THEOREM OneWriteAlways == Spec => []OneWrite
BY SessionInvariant, PTL DEF SessionInv

(* A connected session always has its read and its watchdog outstanding
   (onRead and onPingTimer arm themselves again). *)
THEOREM ListensAlways == Spec => []ListensWhileConnected
BY SessionInvariant, PTL DEF SessionInv

(* A session that is down is always on its way up (handleError,
   startConnect). *)
THEOREM NeverWedgedAlways == Spec => []NeverWedged
BY SessionInvariant, PTL DEF SessionInv

(* No frame waits without a write that will send it (pump). *)
THEOREM PumpNeverStallsAlways == Spec => []PumpNeverStalls
BY SessionInvariant, PTL DEF SessionInv

(* No subscribe frame waits before the greeting, and none outlives its
   connection (flushTopics, handleError). *)
THEOREM SubscribesAfterGreetingAlways == Spec => []SubscribesAfterGreeting
BY SessionInvariant, PTL DEF SessionInv

----------------------------------------------------------------------------
(* What a step may never do.                                               *)

(* What a closed session leaves outstanding after a step. *)
WindsDown == /\ userClosed' /\ generation' = generation
             /\ chain = "idle" => chain' = "idle"
             /\ reconnectWait' => reconnectWait
             /\ \A g \in Gens : OnlyEnds(g)

LEMMA ClosedStep ==
  ASSUME TypeOK, [Next]_vars, userClosed
  PROVE  WindsDown
<1> USE DEF link, topics, pumpVars, transport, threads, venue
<1> DEFINE Rest == UNCHANGED <<userClosed, generation, reconnectWait>>
<1>1. ASSUME Rest, UNCHANGED <<reads, ping>>, chain = "idle" => chain' = "idle"
      PROVE  WindsDown
  BY <1>1 DEF WindsDown, OnlyEnds
<1>2. ASSUME NEW g, NEW f, NEW p, HandleError(g, f, p)
      PROVE  Rest /\ ping' = p
  BY <1>2 DEF HandleError
<1>3. ping \in [Gens -> {"none", "armed", "cancelled"}] /\ reads \in [Gens -> BOOLEAN]
  BY DEF TypeOK
<1> HIDE DEF Rest
<1>4. CASE CallerStep
  BY <1>1, <1>4 DEF CallerStep, Subscribe, Unsubscribe, Close, Calls, Post, Rest
<1>5. CASE StartConnect /\ (reconnectWait' => reconnectWait)
  <2>1. UNCHANGED <<userClosed, generation, reads, ping, chain>>
    BY <1>5 DEF StartConnect, MayConnect
  <2>2. QED
    BY <1>5, <2>1 DEF WindsDown, OnlyEnds
<1>6. CASE RunFlush \/ RunUnsubscribe \/ RunClose
  <2>1. CASE RunFlush \/ RunUnsubscribe
    BY <1>1, <2>1 DEF RunFlush, RunUnsubscribe, Rest
  <2>2. CASE RunClose
    <3>1. userClosed' /\ UNCHANGED <<generation, reconnectWait, reads, ping, chain>>
      BY <2>2 DEF RunClose
    <3>2. QED
      BY <3>1 DEF WindsDown, OnlyEnds
  <2>3. QED
    BY <1>6, <2>1, <2>2
<1>7. CASE Connecting
  <2>1. CASE ChainFails
    BY <1>1, <1>2, <2>1 DEF ChainFails
  <2>2. CASE OnResolve \/ OnConnect \/ OnSSLHandshake \/ OnHandshake
    BY <1>1, <2>2
       DEF OnResolve, OnConnect, OnSSLHandshake, ChainMoves, OnHandshake, Rest
  <2>3. QED
    BY <1>7, <2>1, <2>2 DEF Connecting
<1>8. ASSUME NEW g \in Gens, GenStep(g) PROVE WindsDown
  <2>1. CASE OnReadError(g) \/ OnReadGarbage(g)
    <3>1. reads' = [reads EXCEPT ![g] = FALSE] /\ ping' = ping /\ Rest /\ chain' = chain
      BY <1>2, <2>1 DEF OnReadError, OnReadGarbage, Rest
    <3>2. QED
      BY <1>3, <3>1 DEF WindsDown, OnlyEnds, Rest
  <2>2. ASSUME NEW m \in Messages, OnReadMessage(g, m) PROVE WindsDown
    <3>1. reads[g] /\ reads' = [reads EXCEPT ![g] = ReadsOn] /\ ping' = ping
          /\ Rest /\ chain' = chain
      BY <2>2 DEF OnReadMessage, Rest
    <3>2. QED
      BY <1>3, <3>1 DEF WindsDown, OnlyEnds, Rest
  <2>3. CASE OnWriteOk(g)
    BY <1>1, <2>3 DEF OnWriteOk, Rest
  <2>4. CASE OnWriteError(g)
    BY <1>1, <1>2, <2>4 DEF OnWriteError
  <2>5. CASE OnPingTimer(g)
    BY <2>5 DEF OnPingTimer, OnPingTimerSilent, OnPingTimerAlive, Ticks
  <2>6. CASE OnPingTimerVoid(g)
    <3>1. ping' = [ping EXCEPT ![g] = "none"] /\ Rest /\ UNCHANGED <<reads, chain>>
      BY <2>6 DEF OnPingTimerVoid, Rest
    <3>2. QED
      BY <1>3, <3>1 DEF WindsDown, OnlyEnds, Rest
  <2>7. QED
    BY <1>8, <2>1, <2>2, <2>3, <2>4, <2>5, <2>6 DEF GenStep, OnWrite
<1>9. CASE NetworkFails \/ CloseDone \/ Terminated \/ UNCHANGED vars
  BY <1>1, <1>9 DEF NetworkFails, CloseDone, Terminated, vars, Rest
<1>10. QED
  BY <1>4, <1>5, <1>6, <1>7, <1>8, <1>9 DEF Next, RunTask, RunConnect, OnReconnectTimer

(* Once close() has run nothing of the session begins, and what is outstanding
   only ends (startConnect, handleError, onHandshake, the timers): the half of
   CloseQuiesces that needs no fairness. *)
THEOREM ClosedForGood == Spec => ClosedStaysClosed
<1>1. TypeOK /\ [Next]_vars => [userClosed => WindsDown]_vars
  BY ClosedStep
<1>2. QED
  BY <1>1, TypeCorrect, PTL DEF Spec, ClosedStaysClosed, WindsDown

----------------------------------------------------------------------------
(* The session implements the ledger of subscriptions.                     *)

LEMMA LedgerInitially == Init => Ledger!LedgerInit
BY DEF Init, Ledger!LedgerInit

LEMMA LedgerStep ==
  ASSUME TypeOK, SessionInv, [Next]_vars
  PROVE  [Ledger!LedgerNext]_(Ledger!ledger)
<1> USE DEF link, topics, pumpVars, transport, threads, venue
<1> DEFINE wanted == subscriptions \cup pendingTopics
           up     == connected /\ ready
<1>0. /\ ConnectsOnce /\ DownWhileConnecting /\ NeverWedged
      /\ ~up => subscriptions = {}
      /\ connected \in BOOLEAN /\ ready \in BOOLEAN
  BY DEF SessionInv, TypeOK, SubscribesAfterGreeting
<1>1. ASSUME UNCHANGED <<subscriptions, pendingTopics>>, up' <=> up
      PROVE  UNCHANGED Ledger!ledger
  BY <1>1 DEF Ledger!ledger
<1>2. ASSUME NEW g, NEW f, NEW p, HandleError(g, f, p)
      PROVE  [Ledger!LedgerNext]_(Ledger!ledger)
  <2>1. \/ UNCHANGED <<subscriptions, pendingTopics, connected, ready>>
        \/ connected' = FALSE /\ subscriptions' = {} /\ pendingTopics' = wanted
    BY <1>2, HandleErrorEffect
  <2>2. CASE UNCHANGED <<subscriptions, pendingTopics, connected, ready>>
    BY <1>1, <2>2
  <2>3. CASE /\ connected' = FALSE /\ subscriptions' = {}
             /\ pendingTopics' = wanted
    <3>1. wanted' = wanted /\ ~up'
      BY <2>3
    <3>2. CASE up
      BY <2>3, <3>1, <3>2 DEF Ledger!Down, Ledger!LedgerNext
    <3>3. CASE ~up
      BY <1>0, <2>3, <3>1, <3>3 DEF Ledger!ledger
    <3>4. QED
      BY <3>2, <3>3
  <2>4. QED
    BY <2>1, <2>2, <2>3
<1>3. ASSUME NEW r \in BOOLEAN, FlushTopics(r), connected' = connected,
             ready' <=> r \/ ready, ready => r
      PROVE  [Ledger!LedgerNext]_(Ledger!ledger)
  <2>1. CASE /\ connected /\ r
             /\ subscriptions' = wanted /\ pendingTopics' = {}
    <3>1. wanted' = wanted /\ subscriptions' = wanted /\ up'
      BY <1>3, <2>1
    <3>2. CASE up
      BY <3>1, <3>2 DEF Ledger!Send, Ledger!LedgerNext
    <3>3. CASE ~up
      BY <3>1, <3>3 DEF Ledger!Up, Ledger!LedgerNext
    <3>4. QED
      BY <3>2, <3>3
  <2>2. CASE ~(connected /\ r) /\ UNCHANGED <<subscriptions, pendingTopics>>
    BY <1>1, <1>3, <2>2
  <2>3. QED
    BY <1>3, <2>1, <2>2, FlushEffect
<1>4. ASSUME StartConnect, ~connected
      PROVE  UNCHANGED Ledger!ledger
  BY <1>1, <1>4 DEF StartConnect
<1>5. ASSUME NEW t \in Callers, NEW ch \in Channels, Subscribe(t, ch)
      PROVE  Ledger!LedgerNext
  <2>1. wanted' = wanted \cup {ch} /\ subscriptions' = subscriptions
    BY <1>5 DEF Subscribe, isSubscribed
  <2>2. UNCHANGED <<connected, ready>>
    BY <1>5 DEF Subscribe, Calls
  <2>3. Ledger!Want(ch)
    BY <2>1, <2>2 DEF Ledger!Want
  <2>4. QED
    BY <2>3 DEF Ledger!LedgerNext
<1>6. ASSUME NEW t \in Callers, NEW ch \in Channels, Unsubscribe(t, ch)
      PROVE  Ledger!LedgerNext
  <2>1. /\ wanted' = wanted \ {ch} /\ subscriptions' = subscriptions \ {ch}
        /\ ch \in Books
    BY <1>6 DEF Unsubscribe
  <2>2. UNCHANGED <<connected, ready>>
    BY <1>6 DEF Unsubscribe, Calls
  <2>3. Ledger!Unwant(ch)
    BY <2>1, <2>2 DEF Ledger!Unwant
  <2>4. QED
    BY <2>1, <2>3 DEF Ledger!LedgerNext
<1>7. ASSUME NEW t \in Callers, Close(t) \/ Post(t)
      PROVE  UNCHANGED Ledger!ledger
  BY <1>1, <1>7 DEF Close, Calls, Post
<1>8. CASE RunConnect
  <2>1. ~connected
    BY <1>0, <1>8, NoConnectLeft DEF RunConnect, ConnectsOnce, NextTask, TypeOK
  <2>2. QED
    BY <1>4, <1>8, <2>1 DEF RunConnect
<1>9. CASE RunFlush
  BY <1>0, <1>3, <1>9 DEF RunFlush
<1>10. CASE RunUnsubscribe \/ RunClose
  BY <1>1, <1>10 DEF RunUnsubscribe, RunClose
<1>11. CASE OnResolve \/ OnConnect \/ OnSSLHandshake
  BY <1>1, <1>11 DEF OnResolve, OnConnect, OnSSLHandshake, ChainMoves
<1>12. CASE OnHandshake
  BY <1>0, <1>1, <1>12 DEF OnHandshake, DownWhileConnecting
<1>13. CASE ChainFails
  BY <1>2, <1>13 DEF ChainFails
<1>14. ASSUME NEW g \in Gens, GenStep(g)
       PROVE  [Ledger!LedgerNext]_(Ledger!ledger)
  <2>1. CASE g # generation
    BY <1>1, <1>14, <2>1, OldGeneration
  <2>2. CASE g = generation /\ OnReadError(g)
    BY <1>2, <2>2 DEF OnReadError, Current
  <2>3. CASE OnReadGarbage(g) \/ OnPingTimerSilent(g)
    BY <1>2, <2>3 DEF OnReadGarbage, OnPingTimerSilent
  <2>4. CASE OnWriteError(g)
    <3>1. HandleError(g, FALSE, ping)
      BY <2>4 DEF OnWriteError
    <3>2. QED
      BY <1>2, <3>1
  <2>5. CASE OnWriteOk(g) \/ OnPingTimerVoid(g) \/ OnPingTimerAlive(g)
    BY <1>1, <2>5 DEF OnWriteOk, OnPingTimerVoid, OnPingTimerAlive
  <2>6. ASSUME NEW m \in Messages, OnReadMessage(g, m)
        PROVE  [Ledger!LedgerNext]_(Ledger!ledger)
    <3>1. connected' = connected
      BY <2>6 DEF OnReadMessage
    <3>2. \/ ready' = TRUE /\ FlushTopics(TRUE)
          \/ UNCHANGED <<ready, subscriptions, pendingTopics>>
      BY <2>6 DEF OnReadMessage, Dispatch, Messages
    <3>3. QED
      BY <1>1, <1>3, <3>1, <3>2
  <2>7. QED
    BY <1>14, <2>1, <2>2, <2>3, <2>4, <2>5, <2>6
       DEF GenStep, OnWrite, OnPingTimer
<1>15. CASE OnReconnectTimer
  <2>1. ~connected
    BY <1>0, <1>15 DEF OnReconnectTimer, NeverWedged, DownWhileConnecting
  <2>2. QED
    BY <1>4, <1>15, <2>1 DEF OnReconnectTimer
<1>16. CASE NetworkFails \/ CloseDone \/ Terminated \/ UNCHANGED vars
  BY <1>1, <1>16 DEF NetworkFails, CloseDone, Terminated, vars
<1>17. QED
  BY <1>5, <1>6, <1>7, <1>8, <1>9, <1>10, <1>11, <1>12, <1>13, <1>14, <1>15,
     <1>16 DEF Next, CallerStep, RunTask, Connecting

(* No reconnect, failure or flush loses a wish, revives a dropped channel, or
   counts a channel as sent while the connection is down: every step is a
   step of the ledger or leaves it unchanged (addTopic, removeTopic,
   flushTopics, handleError). *)
THEOREM LedgerImplemented == Spec => ImplementsLedger
<1>1. Init => Ledger!LedgerInit
  BY LedgerInitially
<1>2. TypeOK /\ SessionInv /\ [Next]_vars => [Ledger!LedgerNext]_(Ledger!ledger)
  BY LedgerStep
<1>3. QED
  BY <1>1, <1>2, TypeCorrect, SessionInvariant, PTL
     DEF Spec, ImplementsLedger, Ledger!LedgerSpec
=============================================================================
