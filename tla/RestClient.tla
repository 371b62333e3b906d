----------------------------- MODULE RestClient -----------------------------
(***************************************************************************)
(* What the threads that use one RESTClient (src/src/lighter_rest_client   *)
(* .cpp) share: the throttle, the auth token and the symbol map; with the  *)
(* renewal of the token in src/src/lighter_execution_gateway.cpp.          *)
(*                                                                         *)
(* Only the throttle and the renewal are under mutexes.  The token and the *)
(* map are written and read without one: a read that meets a write is a    *)
(* data race, and may give anything the build can make of it.  Here a      *)
(* token read meanwhile is torn, and a map read meanwhile has the symbol   *)
(* or not.                                                                 *)
(***************************************************************************)
EXTENDS Integers

CONSTANTS
  Threads, NoThread,
  Symbols,
  MinInterval,  \* minRequestInterval
  Life,         \* how long a token is good for (8 h)
  Margin,       \* how long before its end it is replaced (1 h)
  RequestTime,  \* how long a request may take
  LastStart,    \* bound: no call begins later
  MaxCalls      \* bound: calls, all together

ASSUME ThreadsAssumption == NoThread \notin Threads
ASSUME TimesAssumption == /\ MinInterval \in Nat \ {0}
                          /\ Life \in Nat /\ Margin \in Nat /\ Margin < Life
                          /\ RequestTime \in Nat /\ RequestTime < Margin
                          /\ LastStart \in Nat /\ MaxCalls \in Nat

VARIABLES
  now,
  (* RESTClient::P *)
  throttleMtx, lastRequestAt,
  authToken,        \* when the token expires, or Torn while it is assigned
  symbolToMarketId, symbolCachePopulated,
  (* the gateway *)
  authM, authTokenDeadline,
  (* the venue *)
  listed,
  (* the calls, by thread *)
  op,               \* the call
  pc,               \* where it is
  asks,             \* the symbol it asks for
  round,            \* its look at the map: the first or the last
  mintFailed,       \* the mint of this very call failed
  wake,             \* when its sleep ends
  carried,          \* the token of its request: "good", "expired" or "torn"
  answer,           \* the markets it has received
  outcome,
  (* history and bound *)
  sentAt,           \* when the last request passed the throttle
  beganAt,          \* when the call began
  listedAtCall,     \* the markets at that time
  raced,            \* another thread has refilled the map during the call
  calls

client  == <<throttleMtx, lastRequestAt, authToken, symbolToMarketId,
             symbolCachePopulated>>
gateway == <<authM, authTokenDeadline>>
thread  == <<op, pc, asks, round, mintFailed, wake, carried, answer, outcome>>
history == <<sentAt, beganAt, listedAtCall, raced, calls>>
vars == <<now, client, gateway, listed, thread, history>>

Torn == -1

Ops == {"order", "nonce", "instruments", "prices"}

TypeOK ==
  /\ now \in Nat
  /\ throttleMtx \in Threads \cup {NoThread} /\ authM \in Threads \cup {NoThread}
  /\ lastRequestAt \in (-MinInterval)..now
  /\ authToken \in Nat \cup {Torn}
  /\ authTokenDeadline \in Life..(now + Life)
  /\ symbolToMarketId \subseteq listed /\ listed \subseteq Symbols
  /\ symbolCachePopulated \in BOOLEAN
  /\ op \in [Threads -> Ops \cup {"none"}]
  /\ pc \in [Threads -> {"idle", "check", "minting", "find", "pace", "asleep",
                         "ask", "asked", "clear", "fill"}]
  /\ \A t \in Threads : /\ pc[t] = "asleep" <=> throttleMtx = t
                        /\ pc[t] = "minting" <=> authM = t
  /\ asks \in [Threads -> Symbols]
  /\ round \in [Threads -> {"first", "last"}]
  /\ mintFailed \in [Threads -> BOOLEAN]
  /\ wake \in [Threads -> 0..(now + MinInterval)]
  /\ carried \in [Threads -> {"none", "good", "expired", "torn"}]
  /\ answer \in [Threads -> SUBSET listed]
  /\ outcome \in [Threads -> {"none", "found", "unknown", "threw"}]
  /\ sentAt \in (-MinInterval)..now
  /\ beganAt \in [Threads -> 0..now]
  /\ listedAtCall \in [Threads -> SUBSET listed]
  /\ raced \in [Threads -> BOOLEAN]
  /\ calls \in 0..MaxCalls

(* The gateway's constructor has minted a token. *)
Init ==
  /\ now = 0
  /\ throttleMtx = NoThread /\ lastRequestAt = -MinInterval
  /\ authToken = Life
  /\ symbolToMarketId = {} /\ symbolCachePopulated = FALSE
  /\ authM = NoThread /\ authTokenDeadline = Life
  /\ listed \in SUBSET Symbols
  /\ op = [t \in Threads |-> "none"]
  /\ pc = [t \in Threads |-> "idle"]
  /\ asks \in [Threads -> Symbols]
  /\ round = [t \in Threads |-> "first"]
  /\ mintFailed = [t \in Threads |-> FALSE]
  /\ wake = [t \in Threads |-> 0]
  /\ carried = [t \in Threads |-> "none"]
  /\ answer = [t \in Threads |-> {}]
  /\ outcome = [t \in Threads |-> "none"]
  /\ sentAt = -MinInterval
  /\ beganAt = [t \in Threads |-> 0]
  /\ listedAtCall = [t \in Threads |-> {}]
  /\ raced = [t \in Threads |-> FALSE]
  /\ calls = 0
----------------------------------------------------------------------------
(* Faulty variants of the definitions below, each a slip the code could    *)
(* have: no behaviour of the specification uses them.                      *)

FaultyWritesOnly(o) == o = "order"
FaultyMintsAlways == TRUE
FaultyStamp(t) == wake[t] - MinInterval
FaultyForgetsMutex(t) == UNCHANGED throttleMtx
FaultyTrustsCache(t) == FALSE
----------------------------------------------------------------------------
(* Helpers.                                                                *)

Go(t, to) == pc' = [pc EXCEPT ![t] = to]

(* The call is over. *)
Done(t, result) == /\ Go(t, "idle")
                   /\ outcome' = [outcome EXCEPT ![t] = result]

(* The calls of the gateway that renew the token: sendSigned() and
   loadInstruments(). *)
Renews(o) == o \in {"order", "instruments"}

(* Somebody is between the clearing of the map and the end of its refill. *)
Refilling(t) == \E u \in Threads \ {t} : pc[u] = "fill"
----------------------------------------------------------------------------
(* Calls.                                                                  *)

(* sendTx by way of sendSigned(), refreshInstruments(), and the download of
   prices or fundings by symbol. *)
Begin(t, o) ==
  /\ pc[t] = "idle" /\ calls < MaxCalls /\ now <= LastStart
  /\ o # "nonce"
  /\ calls' = calls + 1
  /\ op' = [op EXCEPT ![t] = o]
  /\ \E s \in Symbols : asks' = [asks EXCEPT ![t] = s]
  /\ round' = [round EXCEPT ![t] = "first"]
  /\ mintFailed' = [mintFailed EXCEPT ![t] = FALSE]
  /\ carried' = [carried EXCEPT ![t] = "none"]
  /\ outcome' = [outcome EXCEPT ![t] = "none"]
  /\ beganAt' = [beganAt EXCEPT ![t] = now]
  /\ listedAtCall' = [listedAtCall EXCEPT ![t] = listed]
  /\ raced' = [raced EXCEPT ![t] = \E u \in Threads : pc[u] \in {"clear", "fill"}]
  /\ Go(t, IF Renews(o) THEN "check" ELSE IF o = "prices" THEN "find" ELSE "pace")
  /\ UNCHANGED <<now, client, gateway, listed, wake, answer, sentAt>>

----------------------------------------------------------------------------
(* refreshAuthTokenIfNeeded().                                             *)

NeedsMint == now >= authTokenDeadline - Margin

(* Early return. *)
TokenFresh(t) ==
  /\ pc[t] = "check" /\ authM = NoThread /\ ~NeedsMint
  /\ Go(t, "pace")
  /\ UNCHANGED <<now, client, gateway, listed, op, asks, round, mintFailed, wake,
                 carried, answer, outcome, history>>

(* The signer throws: go on with the old token. *)
MintFails(t) ==
  /\ pc[t] = "check" /\ authM = NoThread /\ NeedsMint
  /\ mintFailed' = [mintFailed EXCEPT ![t] = TRUE]
  /\ Go(t, "pace")
  /\ UNCHANGED <<now, client, gateway, listed, op, asks, round, wake, carried,
                 answer, outcome, history>>

(* Minted; setAuthToken() assigns the string. *)
MintStart(t) ==
  /\ pc[t] = "check" /\ authM = NoThread /\ NeedsMint
  /\ authM' = t
  /\ authToken' = Torn
  /\ Go(t, "minting")
  /\ UNCHANGED <<now, throttleMtx, lastRequestAt, symbolToMarketId,
                 symbolCachePopulated, authTokenDeadline, listed, op, asks, round,
                 mintFailed, wake, carried, answer, outcome, history>>

MintEnd(t) ==
  /\ pc[t] = "minting"
  /\ authM' = NoThread
  /\ authToken' = now + Life
  /\ authTokenDeadline' = now + Life
  /\ Go(t, "pace")
  /\ UNCHANGED <<now, throttleMtx, lastRequestAt, symbolToMarketId,
                 symbolCachePopulated, listed, op, asks, round, mintFailed,
                 wake, carried, answer, outcome, history>>

----------------------------------------------------------------------------
(* throttle(): sleeps under the mutex.                                     *)

SleepEnds == IF now - lastRequestAt < MinInterval THEN lastRequestAt + MinInterval
             ELSE now

Pace(t) ==
  /\ pc[t] = "pace" /\ throttleMtx = NoThread
  /\ throttleMtx' = t
  /\ wake' = [wake EXCEPT ![t] = SleepEnds]
  /\ Go(t, "asleep")
  /\ UNCHANGED <<now, lastRequestAt, authToken, symbolToMarketId,
                 symbolCachePopulated, gateway, listed, op, asks, round, mintFailed, carried, answer, outcome, history>>

(* The clock is read again after the sleep. *)
Stamp(t) == now

Unthrottle(t) == throttleMtx' = NoThread

Wake(t) ==
  /\ pc[t] = "asleep" /\ now >= wake[t]
  /\ lastRequestAt' = Stamp(t)
  /\ Unthrottle(t)
  /\ sentAt' = now
  /\ Go(t, "ask")
  /\ UNCHANGED <<now, authToken, symbolToMarketId, symbolCachePopulated, gateway,
                 listed, op, asks, round, mintFailed, wake, carried, answer,
                 outcome, beganAt, listedAtCall, raced, calls>>

----------------------------------------------------------------------------
(* The request: the token is read when it is built.                        *)

Ask(t) ==
  /\ pc[t] = "ask"
  /\ carried' = [carried EXCEPT ![t] = IF authToken = Torn THEN "torn"
                                       ELSE IF authToken <= now THEN "expired"
                                       ELSE "good"]
  /\ Go(t, "asked")
  /\ UNCHANGED <<now, client, gateway, listed, op, asks, round, mintFailed,
                 wake, answer, outcome, history>>

(* The markets come back, or the answer to a transaction or to the nonce. *)
Answer(t) ==
  /\ pc[t] = "asked"
  /\ IF op[t] \in {"instruments", "prices"}
     THEN /\ answer' = [answer EXCEPT ![t] = listed]
          /\ Go(t, "clear")
          /\ UNCHANGED outcome
     ELSE Done(t, "found") /\ UNCHANGED answer
  /\ UNCHANGED <<now, client, gateway, listed, op, asks, round, mintFailed,
                 wake, carried, history>>

(* A request that fails throws; sendSigned() then asks for the nonce. *)
Fail(t) ==
  /\ pc[t] = "asked"
  /\ IF op[t] = "order"
     THEN /\ op' = [op EXCEPT ![t] = "nonce"]
          /\ Go(t, "pace")
          /\ UNCHANGED outcome
     ELSE Done(t, "threw") /\ UNCHANGED op
  /\ UNCHANGED <<now, client, gateway, listed, asks, round, mintFailed, wake,
                 carried, answer, history>>

----------------------------------------------------------------------------
(* loadAssets(true): the map is cleared and refilled.                      *)

Clear(t) ==
  /\ pc[t] = "clear"
  /\ symbolToMarketId' = {}
  /\ raced' = [u \in Threads |-> raced[u] \/ u # t]
  /\ Go(t, "fill")
  /\ UNCHANGED <<now, throttleMtx, lastRequestAt, authToken, symbolCachePopulated,
                 gateway, listed, op, asks, round, mintFailed, wake, carried,
                 answer, outcome, sentAt, beganAt, listedAtCall, calls>>

Fill(t) ==
  /\ pc[t] = "fill"
  /\ symbolToMarketId' = symbolToMarketId \cup answer[t]
  /\ symbolCachePopulated' = TRUE
  /\ IF op[t] = "prices" THEN Go(t, "find") /\ UNCHANGED outcome
                         ELSE Done(t, "found")
  /\ answer' = [answer EXCEPT ![t] = {}]
  /\ UNCHANGED <<now, throttleMtx, lastRequestAt, authToken, gateway, listed, op,
                 asks, round, mintFailed, wake, carried, history>>

----------------------------------------------------------------------------
(* resolveMarketId().                                                      *)

(* The refresh on a miss, once. *)
Reloads(t) == round[t] = "first"

Seen(t) == IF Refilling(t) THEN BOOLEAN ELSE {asks[t] \in symbolToMarketId}

Find(t) ==
  /\ pc[t] = "find"
  /\ IF ~symbolCachePopulated
     THEN Go(t, "pace") /\ UNCHANGED <<round, outcome>>
     ELSE \E seen \in Seen(t) :
            \/ seen /\ Done(t, "found") /\ UNCHANGED round
            \/ /\ ~seen /\ Reloads(t)
               /\ round' = [round EXCEPT ![t] = "last"]
               /\ Go(t, "pace")
               /\ UNCHANGED outcome
            \/ ~seen /\ ~Reloads(t) /\ Done(t, "unknown") /\ UNCHANGED round
  /\ UNCHANGED <<now, client, gateway, listed, op, asks, mintFailed, wake,
                 carried, answer, history>>

----------------------------------------------------------------------------
(* The clock and the venue.                                                *)

(* A thread that can go on does so within a tick of the clock; one may wait for
   the throttle, or for an answer as long as RequestTime. *)
Waits(t) == \/ pc[t] = "idle"
            \/ pc[t] = "pace" /\ throttleMtx # NoThread
            \/ pc[t] = "asleep" /\ now < wake[t]
            \/ pc[t] = "asked" /\ now < wake[t] + RequestTime

Tick ==
  /\ now < LastStart \/ \E t \in Threads : pc[t] = "asleep"
  /\ \A t \in Threads : Waits(t)
  /\ now' = now + 1
  /\ UNCHANGED <<client, gateway, listed, thread, history>>

(* A market is listed; a delisted one stays in the answer. *)
List ==
  /\ \E s \in Symbols \ listed : listed' = listed \cup {s}
  /\ UNCHANGED <<now, client, gateway, thread, history>>
----------------------------------------------------------------------------

Rests == /\ \A t \in Threads : pc[t] = "idle"
         /\ UNCHANGED vars

ThreadStep(t) == \/ \E o \in Ops : Begin(t, o)
                 \/ TokenFresh(t) \/ MintFails(t) \/ MintStart(t) \/ MintEnd(t)
                 \/ Pace(t) \/ Wake(t) \/ Ask(t) \/ Answer(t) \/ Fail(t)
                 \/ Clear(t) \/ Fill(t) \/ Find(t)

Next == (\E t \in Threads : ThreadStep(t)) \/ Tick \/ List \/ Rests

Spec == Init /\ [][Next]_vars
----------------------------------------------------------------------------
(* Properties.                                                             *)

(* Two requests never pass the throttle closer than the interval, whichever
   threads send them (throttle, lines 71-79). *)
Paced ==
  [][\A t \in Threads : pc[t] = "asleep" /\ pc'[t] = "ask"
       => now - sentAt >= MinInterval]_vars

(* The calls that mint when it is time never send an expired token, a read
   any less than a write, unless the mint of that very call failed, and the next
   one tries again, or the call was held up for more than the margin
   (refreshAuthTokenIfNeeded and its callers; the outage of 2026-07-21 in the
   comment of gateway lines 267-273). *)
FreshToken ==
  \A t \in Threads :
    pc[t] = "asked" /\ op[t] \in {"order", "nonce", "instruments"}
      /\ carried[t] = "expired" => mintFailed[t] \/ now - beganAt[t] > Margin

(* Threads that find the token old at the same time mint it once (the check
   under authM, gateway lines 275-280). *)
MintsOnce ==
  [][authTokenDeadline' # authTokenDeadline \/ authToken' # authToken
       => now >= authTokenDeadline - Margin]_vars

(* A symbol is called unknown only when it was not listed at the call, or
   when another thread refilled the map meanwhile, which may hide it: with the
   answer of an earlier request it may even stay hidden (resolveMarketId,
   lines 136-147). *)
UnknownMeansUnlisted ==
  \A t \in Threads : outcome[t] = "unknown"
                       => asks[t] \notin listedAtCall[t] \/ raced[t]
=============================================================================
