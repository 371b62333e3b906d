----------------------------- MODULE WsSession -----------------------------
(***************************************************************************)
(* The WebSocket session of src/src/lighter_ws_session.cpp: one TLS        *)
(* WebSocket to the venue, kept up across failures, with a write pump and  *)
(* a ledger of subscriptions replayed after each reconnect.                *)
(*                                                                         *)
(* Every completion handler and every posted task runs on one strand, so a *)
(* handler is one action.  The threads that call subscribe() and           *)
(* unsubscribe() are not on the strand: they change the ledger under       *)
(* `locker' in one step and post the task that acts on it in another.      *)
(* Posted tasks run in the order they were posted; completions of          *)
(* different operations come in any order.                                 *)
(***************************************************************************)
EXTENDS Naturals, FiniteSets, SequencesExt

CONSTANTS
  Channels,     \* what can be subscribed to
  Books,        \* the channels ever unsubscribed: order books, never accounts
  NoChannel,    \* the channel field of tasks and frames that carry none
  Callers,      \* the threads that use the session
  MaxDelay,     \* RECONNECT_DELAY_MAX_IN_S
  SilentTicks,  \* ACTIVITY_TIMEOUT_IN_S / PING_INTERVAL_IN_S
  MaxGen,       \* bound: connection attempts; the last one meets no failure
  MaxCalls,     \* bound: calls made by the callers, all together
  MaxOutbound   \* bound: queue length at which keep-alives wait

ASSUME ChannelsAssumption == /\ IsFiniteSet(Channels)
                             /\ Books \subseteq Channels
                             /\ NoChannel \notin Channels
ASSUME BoundsAssumption == /\ MaxDelay \in Nat \ {0}
                           /\ SilentTicks \in Nat \ {0}
                           /\ MaxGen \in Nat \ {0}
                           /\ MaxCalls \in Nat
                           /\ MaxOutbound \in Nat \ {0}

VARIABLES
  (* struct P *)
  generation, connected, ready, reconnectScheduled, reconnectDelayS,
  userClosed,
  subscriptions, pendingTopics,
  outboundQueue, writeInFlight, writeBuffer,
  (* the stream and the operations outstanding on it, by generation *)
  wsOpen,         \* ws->is_open()
  sock,           \* its TCP socket
  chain,          \* the operation of the connect chain under way
  reads, writes,  \* async_read outstanding; number of async_write outstanding
  ping,           \* wait on pingTimer
  reconnectWait,  \* wait on reconnectTimer outstanding
  quiet,          \* timer ticks since lastActivity
  (* the strand's queue and the callers *)
  posted, calling, calls,
  (* the venue's end of the current connection *)
  greeted, venueSubs

link      == <<generation, connected, ready, reconnectScheduled>>
topics    == <<subscriptions, pendingTopics>>
pumpVars  == <<outboundQueue, writeInFlight, writeBuffer, writes>>
transport == <<wsOpen, sock, chain>>
threads   == <<posted, calling, calls>>
venue     == <<greeted, venueSubs>>
vars == <<link, reconnectDelayS, userClosed, topics, pumpVars, transport,
          reads, ping, reconnectWait, quiet, threads, venue>>

Gens  == 1..MaxGen
Frame == [op : {"subscribe", "unsubscribe"}, ch : Channels]
           \cup [op : {"keepalive"}, ch : {NoChannel}]
Task  == [op : {"connect", "flush", "close", "none"}, ch : {NoChannel}]
           \cup [op : {"unsubscribe"}, ch : Channels]

Do(op)        == [op |-> op, ch |-> NoChannel]
On(op, ch)    == [op |-> op, ch |-> ch]
NoTask        == Do("none")
KeepAlive     == Do("keepalive")

TypeOK ==
  /\ generation \in 0..MaxGen
  /\ connected \in BOOLEAN /\ ready \in BOOLEAN
  /\ reconnectScheduled \in BOOLEAN
  /\ reconnectDelayS \in 1..MaxDelay
  /\ userClosed \in BOOLEAN
  /\ subscriptions \subseteq Channels /\ pendingTopics \subseteq Channels
  /\ outboundQueue \in Seq(Frame)
  /\ writeInFlight \in BOOLEAN
  /\ writeBuffer \in Frame
  /\ wsOpen \in BOOLEAN
  /\ sock \in {"none", "open", "lost", "closing", "closed"}
  /\ chain \in {"idle", "resolve", "connect", "tls", "handshake"}
  /\ reads \in [Gens -> BOOLEAN]
  /\ writes \in [Gens -> Nat]
  /\ ping \in [Gens -> {"none", "armed", "cancelled"}]
  /\ reconnectWait \in BOOLEAN
  /\ quiet \in 0..(SilentTicks + 1)
  /\ posted \in Seq(Task)
  /\ calling \in [Callers -> Task]
  /\ calls \in 0..MaxCalls
  /\ greeted \in BOOLEAN
  /\ venueSubs \subseteq Channels

(* The session right after run(): its startConnect is posted. *)
Init ==
  /\ generation = 0 /\ connected = FALSE /\ ready = FALSE
  /\ reconnectScheduled = FALSE /\ reconnectDelayS = 1
  /\ userClosed = FALSE
  /\ subscriptions = {} /\ pendingTopics = {}
  /\ outboundQueue = <<>> /\ writeInFlight = FALSE /\ writeBuffer = KeepAlive
  /\ wsOpen = FALSE /\ sock = "none" /\ chain = "idle"
  /\ reads = [g \in Gens |-> FALSE]
  /\ writes = [g \in Gens |-> 0]
  /\ ping = [g \in Gens |-> "none"]
  /\ reconnectWait = FALSE
  /\ quiet = 0
  /\ posted = <<Do("connect")>>
  /\ calling = [t \in Callers |-> NoTask]
  /\ calls = 0
  /\ greeted = FALSE /\ venueSubs = {}

----------------------------------------------------------------------------
(* Faulty variants of the definitions below, each a slip the code could    *)
(* have: no behaviour of the specification uses them.                      *)

FaultyAnyGeneration(g)  == TRUE
FaultyFlushUngreeted(isReady) == connected
FaultyFlushTooEarly(isReady)  == connected /\ ready
FaultyNoReplay == UNCHANGED topics
FaultyForgetTopics == pendingTopics' = pendingTopics /\ subscriptions' = {}
FaultyUncappedDelay == reconnectDelayS * 2
FaultyConnectAnyway == TRUE
FaultyReadsOnceGreeted == ~reconnectScheduled /\ connected /\ ready
FaultyWriteOnce(g) == /\ writeInFlight' = FALSE
                      /\ writes' = [writes EXCEPT ![g] = @ - 1]
                      /\ UNCHANGED <<outboundQueue, writeBuffer>>
FaultyTicksClosed(g) == ping[g] # "none" /\ g = generation
FaultyWatchOnceGreeted == ready /\ quiet + 1 > SilentTicks
FaultyStaysScheduled == UNCHANGED reconnectScheduled

----------------------------------------------------------------------------
(* Helpers of the handlers.                                                *)

(* if (gen != generation) return; *)
Current(g) == g = generation

(* A failure may still happen: on the last attempt the network works. *)
MayFail == generation < MaxGen \/ userClosed

CancelPing(p) == [g \in Gens |-> IF p[g] = "armed" THEN "cancelled" ELSE p[g]]
ArmPing(p, g) == [CancelPing(p) EXCEPT ![g] = "armed"]

(* socket().close(): nothing to close before async_connect has opened it. *)
CloseSocket ==
  /\ sock' = IF sock = "none" THEN "none" ELSE "closed"
  /\ venueSubs' = {}

MayWrite(inFlight) == ~inFlight /\ connected /\ wsOpen

(* pump(), with q queued, inFlight the flag, and n the writes outstanding. *)
Pump(q, inFlight, n) ==
  IF MayWrite(inFlight) /\ q # <<>>
  THEN /\ writeInFlight' = TRUE
       /\ writeBuffer' = Head(q)
       /\ outboundQueue' = Tail(q)
       /\ writes' = [n EXCEPT ![generation] = @ + 1]
  ELSE /\ writeInFlight' = inFlight
       /\ outboundQueue' = q
       /\ writes' = n
       /\ UNCHANGED writeBuffer

MayFlush(isReady) == connected /\ isReady

(* flushTopics(): everything pending counts as subscribed once it is queued;
   the order in which channels were added is abstracted to any order. *)
FlushTopics(isReady) ==
  IF MayFlush(isReady)
  THEN \E order \in SetToSeqs(pendingTopics) :
         /\ subscriptions' = subscriptions \cup pendingTopics
         /\ pendingTopics' = {}
         /\ Pump(outboundQueue \o
                   [i \in DOMAIN order |-> On("subscribe", order[i])],
                 writeInFlight, writes)
  ELSE UNCHANGED <<topics, pumpVars>>

(* Every subscription goes back to pending, to be replayed. *)
RequeueTopics ==
  /\ pendingTopics' = subscriptions \cup pendingTopics
  /\ subscriptions' = {}

(* Exponential backoff. *)
NextDelay == IF reconnectDelayS * 2 < MaxDelay THEN reconnectDelayS * 2
             ELSE MaxDelay

Ignored(g) == ~Current(g) \/ reconnectScheduled

(* handleError(), with inFlight and p what the caller left of writeInFlight
   and of the waits on pingTimer. *)
HandleError(g, inFlight, p) ==
  /\ UNCHANGED <<generation, userClosed, writeBuffer, threads, greeted>>
  /\ IF Ignored(g) \/ userClosed
     THEN /\ writeInFlight' = inFlight
          /\ ping' = p
          /\ UNCHANGED <<connected, ready, reconnectScheduled, reconnectDelayS,
                         reconnectWait, topics, outboundQueue, sock, venueSubs>>
     ELSE /\ reconnectScheduled' = TRUE
          /\ connected' = FALSE
          /\ ready' = FALSE
          /\ writeInFlight' = FALSE
          /\ ping' = CancelPing(p)
          /\ outboundQueue' = <<>>
          /\ RequeueTopics
          /\ CloseSocket
          /\ reconnectWait' = TRUE
          /\ reconnectDelayS' = NextDelay

MayConnect == ~userClosed

(* startConnect(): a new stream replaces the old one. *)
StartConnect ==
  /\ UNCHANGED <<reconnectDelayS, userClosed, topics, outboundQueue,
                 writeBuffer, writes, reads, ping, quiet, calling, calls>>
  /\ IF ~MayConnect
     THEN UNCHANGED <<generation, connected, ready, writeInFlight, transport,
                      venue>>
     ELSE /\ generation < MaxGen
          /\ generation' = generation + 1
          /\ connected' = FALSE
          /\ ready' = FALSE
          /\ writeInFlight' = FALSE
          /\ wsOpen' = FALSE
          /\ sock' = "none"
          /\ chain' = "resolve"
          /\ greeted' = FALSE
          /\ venueSubs' = {}

----------------------------------------------------------------------------
(* The callers: any thread, at any time.                                   *)

isSubscribed(ch) == ch \in subscriptions \cup pendingTopics

(* isConnected(): connectedFlag is always written together with ready. *)
isConnected == ready

MayCall(t) == calling[t] = NoTask /\ calls < MaxCalls

Calls(t, task) ==
  /\ calls' = calls + 1
  /\ calling' = [calling EXCEPT ![t] = task]
  /\ UNCHANGED <<link, reconnectDelayS, userClosed, pumpVars, transport, reads,
                 ping, reconnectWait, quiet, posted, venue>>

(* subscribe(): addTopic now, the flush is posted later. *)
Subscribe(t, ch) ==
  /\ MayCall(t)
  /\ pendingTopics' = IF isSubscribed(ch) THEN pendingTopics
                      ELSE pendingTopics \cup {ch}
  /\ UNCHANGED subscriptions
  /\ Calls(t, Do("flush"))

(* The task unsubscribe() posts: none for a channel not yet sent. *)
UnsubscribeTask(ch) == IF ch \in subscriptions THEN On("unsubscribe", ch)
                       ELSE NoTask

(* unsubscribe(): removeTopic now, the frame is posted later. *)
Unsubscribe(t, ch) ==
  /\ MayCall(t)
  /\ ch \in Books
  /\ pendingTopics' = pendingTopics \ {ch}
  /\ subscriptions' = subscriptions \ {ch}
  /\ Calls(t, UnsubscribeTask(ch))

(* close() only posts. *)
Close(t) ==
  /\ MayCall(t)
  /\ UNCHANGED topics
  /\ Calls(t, Do("close"))

Post(t) ==
  /\ calling[t] # NoTask
  /\ posted' = Append(posted, calling[t])
  /\ calling' = [calling EXCEPT ![t] = NoTask]
  /\ UNCHANGED <<link, reconnectDelayS, userClosed, topics, pumpVars, transport,
                 reads, ping, reconnectWait, quiet, calls, venue>>

----------------------------------------------------------------------------
(* The tasks of the strand.                                                *)

NextTask(op) == /\ posted # <<>>
                /\ Head(posted).op = op
                /\ posted' = Tail(posted)

RunConnect == /\ NextTask("connect")
              /\ StartConnect
              /\ UNCHANGED <<reconnectScheduled, reconnectWait>>

RunFlush ==
  /\ NextTask("flush")
  /\ FlushTopics(ready)
  /\ UNCHANGED <<link, reconnectDelayS, userClosed, transport, reads, ping,
                 reconnectWait, quiet, calling, calls, venue>>

(* unsubscribe()'s task: no greeting is asked for, only the transport. *)
RunUnsubscribe ==
  /\ NextTask("unsubscribe")
  /\ IF connected
     THEN Pump(Append(outboundQueue, On("unsubscribe", Head(posted).ch)),
               writeInFlight, writes)
     ELSE UNCHANGED pumpVars
  /\ UNCHANGED <<link, reconnectDelayS, userClosed, topics, transport, reads,
                 ping, reconnectWait, quiet, calling, calls, venue>>

(* closeByUser(): a graceful close only on an open, idle stream. Cancelling
   the resolver and the reconnect timer changes nothing here: what they
   report is decided when they report. *)
RunClose ==
  /\ NextTask("close")
  /\ userClosed' = TRUE
  /\ IF userClosed
     THEN UNCHANGED <<ping, wsOpen, sock, venueSubs>>
     ELSE /\ ping' = CancelPing(ping)
          /\ IF wsOpen /\ ~writeInFlight
             THEN /\ wsOpen' = FALSE
                  /\ sock' = IF sock = "closed" THEN sock ELSE "closing"
                  /\ UNCHANGED venueSubs
             ELSE CloseSocket /\ UNCHANGED wsOpen
  /\ UNCHANGED <<link, reconnectDelayS, topics, pumpVars, chain, reads,
                 reconnectWait, quiet, calling, calls, greeted>>

RunTask == RunConnect \/ RunFlush \/ RunUnsubscribe \/ RunClose

----------------------------------------------------------------------------
(* The connect chain. One is under way at a time, for the current          *)
(* generation: only startConnect begins one.                               *)

ChainMoves(from, to) ==
  /\ chain = from
  /\ chain' = to
  /\ UNCHANGED <<link, reconnectDelayS, userClosed, topics, pumpVars, wsOpen,
                 reads, ping, reconnectWait, quiet, threads, venue>>

(* onResolve(): async_connect opens the socket, even one closed meanwhile. *)
OnResolve == ChainMoves("resolve", "connect") /\ sock' = "open"

OnConnect == ChainMoves("connect", "tls") /\ UNCHANGED sock

OnSSLHandshake == ChainMoves("tls", "handshake") /\ UNCHANGED sock

(* onHandshake(): the transport is up; arm the watchdog, start to read. *)
OnHandshake ==
  /\ chain = "handshake"
  /\ chain' = "idle"
  /\ wsOpen' = TRUE
  /\ IF userClosed
     THEN UNCHANGED <<connected, ping, reads, quiet>>
     ELSE /\ connected' = TRUE
          /\ ping' = ArmPing(ping, generation)
          /\ reads' = [reads EXCEPT ![generation] = TRUE]
          /\ quiet' = 0
  /\ UNCHANGED <<generation, ready, reconnectScheduled, reconnectDelayS,
                 userClosed, topics, pumpVars, sock, reconnectWait, threads,
                 venue>>

(* The error branch of the four handlers. *)
ChainFails ==
  /\ chain # "idle" /\ MayFail
  /\ chain' = "idle"
  /\ HandleError(generation, writeInFlight, ping)
  /\ UNCHANGED <<wsOpen, writes, reads, quiet>>

----------------------------------------------------------------------------
(* Inbound.                                                                *)

Broken == sock \in {"lost", "closing", "closed"}

(* onRead() with an error. *)
OnReadError(g) ==
  /\ reads[g]
  /\ g = generation => Broken
  /\ reads' = [reads EXCEPT ![g] = FALSE]
  /\ IF Current(g)
     THEN /\ wsOpen' = FALSE
          /\ HandleError(g, writeInFlight, ping)
          /\ UNCHANGED <<writes, chain, quiet>>
     ELSE UNCHANGED <<link, reconnectDelayS, userClosed, topics, pumpVars,
                      transport, ping, reconnectWait, quiet, threads, venue>>

(* The venue speaks: a greeting once per connection, then anything. *)
Messages == {"connected", "ping", "data", "garbage"}
MaySpeak(m) == /\ sock # "lost"
               /\ m = "connected" => ~greeted
               /\ m = "ping" => Len(outboundQueue) < MaxOutbound
               /\ m = "garbage" => MayFail

(* dispatch(). Data goes to the consumer; the consumer's own calls of
   subscribe() and unsubscribe() are steps of a caller. *)
Dispatch(m) ==
  CASE m = "connected" -> /\ ready' = TRUE
                          /\ greeted' = TRUE
                          /\ FlushTopics(TRUE)
    [] m = "ping"      -> /\ Pump(Append(outboundQueue, KeepAlive),
                                  writeInFlight, writes)
                          /\ UNCHANGED <<ready, greeted, topics>>
    [] OTHER           -> UNCHANGED <<ready, greeted, topics, pumpVars>>

ReadsOn == ~reconnectScheduled /\ connected

(* onRead() of a message whose parse succeeded: dispatch, then read on. *)
OnReadMessage(g, m) ==
  /\ reads[g] /\ g = generation /\ m # "garbage" /\ MaySpeak(m)
  /\ quiet' = 0
  /\ Dispatch(m)
  /\ reads' = [reads EXCEPT ![g] = ReadsOn]
  /\ reconnectDelayS' = IF m = "connected" \/ (ReadsOn /\ ready) THEN 1
                        ELSE reconnectDelayS
  /\ UNCHANGED <<generation, connected, reconnectScheduled, userClosed,
                 transport, ping, reconnectWait, threads, venueSubs>>

(* onRead() of a message that does not parse. *)
OnReadGarbage(g) ==
  /\ reads[g] /\ g = generation /\ MaySpeak("garbage")
  /\ quiet' = 0
  /\ reads' = [reads EXCEPT ![g] = FALSE]
  /\ HandleError(g, writeInFlight, ping)
  /\ UNCHANGED <<wsOpen, chain, writes>>

----------------------------------------------------------------------------
(* The completion of async_write.                                          *)

Deliver(f, subs) == CASE f.op = "subscribe"   -> subs \cup {f.ch}
                      [] f.op = "unsubscribe" -> subs \ {f.ch}
                      [] OTHER                -> subs

WriteDone(g) == [writes EXCEPT ![g] = @ - 1]

(* The completion handler's own pump(). *)
PumpNext(g) == Pump(outboundQueue, FALSE, WriteDone(g))

OnWriteOk(g) ==
  /\ writes[g] > 0
  /\ IF Current(g)
     THEN /\ venueSubs' = IF sock = "open" THEN Deliver(writeBuffer, venueSubs)
                          ELSE venueSubs
          /\ PumpNext(g)
     ELSE /\ writes' = WriteDone(g)
          /\ UNCHANGED <<outboundQueue, writeInFlight, writeBuffer, venueSubs>>
  /\ UNCHANGED <<link, reconnectDelayS, userClosed, topics, transport, reads,
                 ping, reconnectWait, quiet, threads, greeted>>

OnWriteError(g) ==
  /\ writes[g] > 0 /\ g = generation /\ Broken
  /\ writes' = WriteDone(g)
  /\ wsOpen' = FALSE
  /\ HandleError(g, FALSE, ping)
  /\ UNCHANGED <<chain, reads, quiet>>

OnWrite(g) == OnWriteOk(g) \/ OnWriteError(g)

----------------------------------------------------------------------------
(* The timers.                                                             *)

(* A tick is live even when it was cancelled after it had expired. *)
Ticks(g) == ping[g] # "none" /\ Current(g) /\ ~userClosed

(* onPingTimer() with an error, or for an old generation, or once closed. *)
OnPingTimerVoid(g) ==
  /\ ping[g] # "none"
  /\ ping[g] = "armed" => ~Ticks(g)
  /\ ping' = [ping EXCEPT ![g] = "none"]
  /\ UNCHANGED <<link, reconnectDelayS, userClosed, topics, pumpVars, transport,
                 reads, reconnectWait, quiet, threads, venue>>

(* Silent for more than ACTIVITY_TIMEOUT_IN_S at this tick, for certain
   (must) or depending on when in a tick the last message came (may). *)
MayBeSilent  == quiet + 1 > SilentTicks
MustBeSilent == quiet + 1 > SilentTicks + 1

OnPingTimerSilent(g) ==
  /\ Ticks(g) /\ connected /\ MayBeSilent
  /\ sock = "open" => MayFail
  /\ HandleError(g, writeInFlight, [ping EXCEPT ![g] = "none"])
  /\ UNCHANGED <<wsOpen, chain, writes, reads, quiet>>

OnPingTimerAlive(g) ==
  /\ Ticks(g)
  /\ connected => ~MustBeSilent
  /\ ping' = ArmPing(ping, g)
  /\ quiet' = IF connected THEN quiet + 1 ELSE quiet
  /\ IF connected /\ ready
     THEN /\ Len(outboundQueue) < MaxOutbound
          /\ Pump(Append(outboundQueue, KeepAlive), writeInFlight, writes)
     ELSE UNCHANGED pumpVars
  /\ UNCHANGED <<link, reconnectDelayS, userClosed, topics, transport, reads,
                 reconnectWait, threads, venue>>

OnPingTimer(g) == OnPingTimerSilent(g) \/ OnPingTimerAlive(g)

ReconnectDone == reconnectScheduled' = FALSE

OnReconnectTimer ==
  /\ reconnectWait
  /\ reconnectWait' = FALSE
  /\ ReconnectDone
  /\ StartConnect
  /\ UNCHANGED posted

----------------------------------------------------------------------------
(* The network and the venue.                                              *)

(* The connection is gone; the session learns of it from an operation that
   fails or, when nothing is reported, from the silence. *)
NetworkFails ==
  /\ sock = "open" /\ generation < MaxGen
  /\ sock' = "lost"
  /\ venueSubs' = {}
  /\ UNCHANGED <<link, reconnectDelayS, userClosed, topics, pumpVars, wsOpen,
                 chain, reads, ping, reconnectWait, quiet, threads, greeted>>

(* The closing handshake of async_close ends, answered or timed out. *)
CloseDone ==
  /\ sock = "closing"
  /\ sock' = "closed"
  /\ venueSubs' = {}
  /\ UNCHANGED <<link, reconnectDelayS, userClosed, topics, pumpVars, wsOpen,
                 chain, reads, ping, reconnectWait, quiet, threads, greeted>>

----------------------------------------------------------------------------

(* No handler of the session is outstanding, so nothing keeps it alive. *)
Quiesced ==
  /\ posted = <<>> /\ \A t \in Callers : calling[t] = NoTask
  /\ chain = "idle" /\ ~reconnectWait /\ sock # "closing"
  /\ \A g \in Gens : ~reads[g] /\ writes[g] = 0 /\ ping[g] = "none"

(* A closed session that is never used again rests. *)
Terminated == userClosed /\ Quiesced /\ UNCHANGED vars

CallerStep == \E t \in Callers :
                \/ \E ch \in Channels : Subscribe(t, ch) \/ Unsubscribe(t, ch)
                \/ Close(t)
                \/ Post(t)

Connecting == OnResolve \/ OnConnect \/ OnSSLHandshake \/ OnHandshake
                \/ ChainFails

GenStep(g) == \/ OnReadError(g) \/ OnReadGarbage(g)
              \/ \E m \in Messages : OnReadMessage(g, m)
              \/ OnWrite(g)
              \/ OnPingTimer(g) \/ OnPingTimerVoid(g)

Next == \/ CallerStep
        \/ RunTask
        \/ Connecting
        \/ \E g \in Gens : GenStep(g)
        \/ OnReconnectTimer
        \/ NetworkFails
        \/ CloseDone
        \/ Terminated

Spec == Init /\ [][Next]_vars

(* The io thread runs the strand and every operation ends: resolve, connect
   and the handshakes have time limits, timers expire, an operation on a
   closed socket is aborted, a write is taken by the kernel or fails. A read
   on a connection lost in silence need not end: that is the watchdog's case.
   The venue greets every connection. *)
Fairness ==
  /\ WF_vars(RunTask)
  /\ WF_vars(Connecting)
  /\ WF_vars(OnReconnectTimer)
  /\ WF_vars(CloseDone)
  /\ \A t \in Callers : WF_vars(Post(t))
  /\ \A g \in Gens : /\ WF_vars(OnReadError(g) /\ sock # "lost")
                     /\ WF_vars(OnReadMessage(g, "connected"))
                     /\ WF_vars(OnWrite(g))
                     /\ WF_vars(OnPingTimer(g))
                     /\ WF_vars(OnPingTimerVoid(g))

FairSpec == Spec /\ Fairness
----------------------------------------------------------------------------
(* Properties.                                                             *)

(* One async_write at a time, and the flag says whether there is one: while
   connected, writeInFlight holds exactly when one write of this generation
   is outstanding. Two would interleave on the stream and share writeBuffer;
   a flag left set would stop the pump (pump, lines 100-132). *)
OneWrite ==
  connected => writes[generation] = IF writeInFlight THEN 1 ELSE 0

(* A session that believes it is connected can learn otherwise: a read and
   the watchdog of this generation are outstanding, so neither a closed nor a
   silent connection goes unnoticed (onRead's re-arm, onPingTimer's re-arm,
   and the timer shared with earlier generations). *)
ListensWhileConnected ==
  connected /\ ~userClosed => reads[generation] /\ ping[generation] = "armed"

(* A session that is down is on its way up: a connect is posted, a chain
   operation is outstanding, or the reconnect timer runs with its flag set
   (handleError's early return on reconnectScheduled, lines 440 and 450). *)
NeverWedged ==
  /\ reconnectScheduled = reconnectWait
  /\ ~connected /\ ~userClosed =>
       \/ \E i \in DOMAIN posted : posted[i].op = "connect"
       \/ chain # "idle"
       \/ reconnectWait

(* Frames wait in the queue only for a write under way, once greeted: every
   enqueueOp is followed by a pump, every write by the next (lines 95-131). *)
PumpNeverStalls ==
  connected /\ ready /\ wsOpen /\ outboundQueue # <<>> => writeInFlight

(* No subscribe frame waits to be written before the greeting of the current
   connection, nothing counts as sent before it, and neither outlives its
   connection (header lines 36 and 41-42). *)
SubscribesAfterGreeting ==
  ~(connected /\ ready) =>
    /\ \A i \in DOMAIN outboundQueue : outboundQueue[i].op # "subscribe"
    /\ subscriptions = {}

(* Nothing is left to run: the queue, the strand and the callers are empty. *)
Settled ==
  /\ connected /\ ready /\ ~userClosed /\ sock = "open"
  /\ outboundQueue = <<>> /\ ~writeInFlight
  /\ posted = <<>> /\ \A t \in Callers : calling[t] = NoTask

(* Once settled, nothing is pending, the venue sends no channel the session
   has dropped, and it sends every channel that is never unsubscribed: the
   private order feed survives reconnects (flushTopics, handleError,
   unsubscribe and their races). *)
VenueAgrees ==
  Settled => /\ pendingTopics = {}
             /\ venueSubs \subseteq subscriptions
             /\ subscriptions \ Books \subseteq venueSubs

(* The parts that make the five invariants above inductive. *)

(* The one connect is the first task ever posted. *)
ConnectsOnce ==
  /\ \A i \in DOMAIN posted : posted[i].op = "connect" => i = 1 /\ generation = 0
  /\ \A t \in Callers : calling[t].op # "connect"
  /\ generation = 0 => chain = "idle" /\ ~connected /\ ~reconnectScheduled

(* While the chain runs, or waits to run again, the connection is down. *)
DownWhileConnecting ==
  /\ reconnectScheduled => ~connected /\ chain = "idle"
  /\ chain # "idle" => ~connected /\ ~ready
  /\ ~connected => ~writeInFlight

(* Nothing is outstanding for a generation that has no connection yet. *)
NothingAhead ==
  \A g \in Gens : g > generation \/ (g = generation /\ chain # "idle") =>
                   ~reads[g] /\ writes[g] = 0

(* No order, however the handlers of old and new connections, the callers and
   the failures interleave, leads out of all these together. *)
SessionInv == /\ ConnectsOnce
              /\ DownWhileConnecting
              /\ NothingAhead
              /\ OneWrite
              /\ ListensWhileConnected
              /\ NeverWedged
              /\ PumpNeverStalls
              /\ SubscribesAfterGreeting

OnlyEnds(g) == /\ reads'[g] => reads[g]
               /\ ping'[g] = "armed" => ping[g] = "armed"
               /\ ping[g] = "none" => ping'[g] = "none"

(* Once close() has run nothing begins, whatever was posted, armed, under way
   or half failed at that moment: no connection attempt, no read, no timer; what
   is outstanding only ends (header line 65; the checks of userClosed in
   startConnect, handleError, onHandshake and both timers). *)
ClosedStaysClosed ==
  [][userClosed => /\ userClosed' /\ generation' = generation
                   /\ chain = "idle" => chain' = "idle"
                   /\ reconnectWait' => reconnectWait
                   /\ \A g \in Gens : OnlyEnds(g)]_vars

Ledger == INSTANCE SubscriptionLedger
            WITH wanted <- subscriptions \cup pendingTopics,
                 sent   <- subscriptions,
                 up     <- connected /\ ready

(* The session implements the ledger: no reconnect, failure or flush, however
   interleaved with the callers, loses a wish, revives a dropped one or counts
   a channel as sent on a connection that is not up. *)
ImplementsLedger == Ledger!LedgerSpec

(* A channel that is never unsubscribed gets to the venue, through every
   failure, unless the session is closed. *)
EveryFeedGoesLive ==
  \A ch \in Channels \ Books :
    isSubscribed(ch) ~> (ch \in venueSubs \/ userClosed)

(* A connection lost in silence is replaced by a new one. *)
RecoversFromSilence == sock = "lost" ~> (sock = "open" \/ userClosed)

(* After close() every handler of the session ends, so that the last
   reference to it goes away. *)
CloseQuiesces == userClosed ~> Quiesced

(* What the header says of isSubscribed (line 85): sent or pending. Once
   settled, what counts as sent has been sent. *)
SubscribedMeansSent == Settled => subscriptions \subseteq venueSubs

(* What the header says of isConnected (line 82): the transport is up. *)
ConnectedMeansUp == isConnected => connected

(* What the header says of close() (line 65): it closes. *)
ClosedMeansClosed ==
  userClosed /\ Quiesced => sock \in {"none", "closed"}
=============================================================================
