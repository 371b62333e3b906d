-------------------------- MODULE RestClientProofs --------------------------
(***************************************************************************)
(* Theorems about RestClient, for every value of its constants.            *)
(***************************************************************************)
EXTENDS RestClient, TLAPS

----------------------------------------------------------------------------
(* Types.                                                                  *)

(* A step that leaves alone what the threads share keeps the types when the
   thread's own part is typed and it neither takes nor leaves a mutex. *)
LEMMA LocalStep ==
  ASSUME TypeOK, NEW t \in Threads, NEW to,
         Go(t, to), pc[t] \notin {"asleep", "minting"},
         to \in {"idle", "check", "find", "pace", "ask", "asked", "clear", "fill"},
         UNCHANGED <<throttleMtx, authM>>
  PROVE  /\ pc' \in [Threads -> {"idle", "check", "minting", "find", "pace",
                                 "asleep", "ask", "asked", "clear", "fill"}]
         /\ \A u \in Threads : /\ pc'[u] = "asleep" <=> throttleMtx' = u
                               /\ pc'[u] = "minting" <=> authM' = u
BY DEF TypeOK, Go

LEMMA TypeStep == TypeOK /\ [Next]_vars => TypeOK'
<1> SUFFICES ASSUME TypeOK, [Next]_vars
             PROVE  TypeOK'
  OBVIOUS
<1> USE ThreadsAssumption, TimesAssumption
<1>1. CASE UNCHANGED vars
  BY <1>1 DEF TypeOK, vars, client, gateway, thread, history
<1>2. ASSUME NEW t \in Threads, NEW o \in Ops, Begin(t, o)
      PROVE  TypeOK'
  <2>1. PICK s \in Symbols : asks' = [asks EXCEPT ![t] = s]
    BY <1>2 DEF Begin
  <2>2. PICK to \in {"check", "find", "pace"} : Go(t, to)
    BY <1>2 DEF Begin
  <2>3. pc[t] = "idle" /\ UNCHANGED <<throttleMtx, authM>>
    BY <1>2 DEF Begin, client, gateway
  <2>4. /\ pc' \in [Threads -> {"idle", "check", "minting", "find", "pace",
                                "asleep", "ask", "asked", "clear", "fill"}]
        /\ \A u \in Threads : /\ pc'[u] = "asleep" <=> throttleMtx' = u
                              /\ pc'[u] = "minting" <=> authM' = u
    BY <2>2, <2>3, LocalStep
  <2>5. calls' \in 0..MaxCalls
    BY <1>2 DEF Begin, TypeOK
  <2>6. raced' \in [Threads -> BOOLEAN]
    BY <1>2 DEF Begin, TypeOK
  <2>7. /\ op' \in [Threads -> Ops \cup {"none"}]
        /\ asks' \in [Threads -> Symbols]
        /\ round' \in [Threads -> {"first", "last"}]
        /\ mintFailed' \in [Threads -> BOOLEAN]
        /\ carried' \in [Threads -> {"none", "good", "expired", "torn"}]
        /\ outcome' \in [Threads -> {"none", "found", "unknown", "threw"}]
        /\ listedAtCall' \in [Threads -> SUBSET listed]
        /\ beganAt' \in [Threads -> 0..now]
    BY <1>2, <2>1 DEF Begin, TypeOK
  <2>8. QED
    BY <1>2, <2>4, <2>5, <2>6, <2>7 DEF Begin, TypeOK, client, gateway
<1>3. ASSUME NEW t \in Threads, TokenFresh(t)
      PROVE  TypeOK'
  BY <1>3, LocalStep DEF TokenFresh, TypeOK, client, gateway, history
<1>4. ASSUME NEW t \in Threads, MintFails(t)
      PROVE  TypeOK'
  BY <1>4, LocalStep DEF MintFails, TypeOK, client, gateway, history
<1>5. ASSUME NEW t \in Threads, MintStart(t)
      PROVE  TypeOK'
  <2>1. /\ pc' \in [Threads -> {"idle", "check", "minting", "find", "pace",
                                "asleep", "ask", "asked", "clear", "fill"}]
        /\ \A u \in Threads : /\ pc'[u] = "asleep" <=> throttleMtx' = u
                              /\ pc'[u] = "minting" <=> authM' = u
    BY <1>5 DEF MintStart, Go, TypeOK
  <2>2. authM' \in Threads /\ authToken' = Torn
    BY <1>5 DEF MintStart
  <2>3. UNCHANGED <<now, throttleMtx, lastRequestAt, symbolToMarketId,
                    symbolCachePopulated, authTokenDeadline, listed, op, asks,
                    round, mintFailed, wake, carried, answer, outcome, history>>
    BY <1>5 DEF MintStart
  <2>4. QED
    BY <2>1, <2>2, <2>3 DEF TypeOK, history
<1>6. ASSUME NEW t \in Threads, MintEnd(t)
      PROVE  TypeOK'
  <2>1. now + Life \in Nat /\ now + Life \in Life..(now + Life)
    BY DEF TypeOK
  <2>2. /\ pc' \in [Threads -> {"idle", "check", "minting", "find", "pace",
                                "asleep", "ask", "asked", "clear", "fill"}]
        /\ \A u \in Threads : /\ pc'[u] = "asleep" <=> throttleMtx' = u
                              /\ pc'[u] = "minting" <=> authM' = u
    BY <1>6 DEF MintEnd, Go, TypeOK
  <2>3. /\ authM' = NoThread /\ authToken' \in Nat
        /\ authTokenDeadline' \in Life..(now + Life)
    BY <1>6, <2>1 DEF MintEnd
  <2>4. UNCHANGED <<now, throttleMtx, lastRequestAt, symbolToMarketId,
                    symbolCachePopulated, listed, op, asks, round, mintFailed,
                    wake, carried, answer, outcome, history>>
    BY <1>6 DEF MintEnd
  <2>5. QED
    BY <2>2, <2>3, <2>4 DEF TypeOK, history
<1>7. ASSUME NEW t \in Threads, Pace(t)
      PROVE  TypeOK'
  <2>1. SleepEnds \in 0..(now + MinInterval)
    BY DEF SleepEnds, TypeOK
  <2>2. wake' \in [Threads -> 0..(now + MinInterval)]
    BY <1>7, <2>1 DEF Pace, TypeOK
  <2>3. /\ pc' \in [Threads -> {"idle", "check", "minting", "find", "pace",
                                "asleep", "ask", "asked", "clear", "fill"}]
        /\ \A u \in Threads : /\ pc'[u] = "asleep" <=> throttleMtx' = u
                              /\ pc'[u] = "minting" <=> authM' = u
    BY <1>7 DEF Pace, Go, TypeOK, gateway
  <2>4. throttleMtx' \in Threads
    BY <1>7 DEF Pace
  <2>5. UNCHANGED <<now, lastRequestAt, authToken, symbolToMarketId,
                    symbolCachePopulated, gateway, listed, op, asks, round,
                    mintFailed, carried, answer, outcome, history>>
    BY <1>7 DEF Pace
  <2>6. QED
    BY <2>2, <2>3, <2>4, <2>5 DEF TypeOK, gateway, history
<1>8. ASSUME NEW t \in Threads, Wake(t)
      PROVE  TypeOK'
  <2>1. now \in (-MinInterval)..now
    BY DEF TypeOK
  <2>2. QED
    BY <1>8, <2>1 DEF Wake, Stamp, Unthrottle, Go, TypeOK, gateway
<1>9. ASSUME NEW t \in Threads, Ask(t)
      PROVE  TypeOK'
  BY <1>9, LocalStep DEF Ask, TypeOK, client, gateway, history
<1>10. ASSUME NEW t \in Threads, Answer(t)
       PROVE  TypeOK'
  BY <1>10, LocalStep DEF Answer, Done, TypeOK, client, gateway, history
<1>11. ASSUME NEW t \in Threads, Fail(t)
       PROVE  TypeOK'
  BY <1>11, LocalStep DEF Fail, Done, Ops, TypeOK, client, gateway, history
<1>12. ASSUME NEW t \in Threads, Clear(t)
       PROVE  TypeOK'
  <2>1. raced' \in [Threads -> BOOLEAN]
    BY <1>12 DEF Clear, TypeOK
  <2>2. QED
    BY <1>12, <2>1, LocalStep DEF Clear, TypeOK, gateway
<1>13. ASSUME NEW t \in Threads, Fill(t)
       PROVE  TypeOK'
  BY <1>13, LocalStep DEF Fill, Done, TypeOK, gateway, history
<1>14. ASSUME NEW t \in Threads, Find(t)
       PROVE  TypeOK'
  <2>1. PICK to \in {"pace", "idle"} : Go(t, to)
    BY <1>14 DEF Find, Done
  <2>2. /\ outcome' \in [Threads -> {"none", "found", "unknown", "threw"}]
        /\ round' \in [Threads -> {"first", "last"}]
    BY <1>14 DEF Find, Done, TypeOK
  <2>3. pc[t] = "find"
    BY <1>14 DEF Find
  <2>4. QED
    BY <1>14, <2>1, <2>2, <2>3, LocalStep
       DEF Find, TypeOK, client, gateway, history
<1>15. CASE Tick
  BY <1>15 DEF Tick, TypeOK, client, gateway, thread, history
<1>16. CASE List
  BY <1>16 DEF List, TypeOK, client, gateway, thread, history
<1>17. QED
  BY <1>1, <1>2, <1>3, <1>4, <1>5, <1>6, <1>7, <1>8, <1>9, <1>10, <1>11, <1>12,
     <1>13, <1>14, <1>15, <1>16
     DEF Next, ThreadStep, Rests

(* Every variable keeps its type, the two mutexes are held by the threads that
   sleep and mint, and the map names listed markets only. *)
THEOREM TypeCorrect == Spec => []TypeOK
<1>1. Init => TypeOK
  <2> SUFFICES ASSUME Init PROVE TypeOK
    OBVIOUS
  <2> USE ThreadsAssumption, TimesAssumption DEF Init
  <2>1. /\ now \in Nat
        /\ throttleMtx \in Threads \cup {NoThread} /\ authM \in Threads \cup {NoThread}
        /\ authToken \in Nat \cup {Torn}
        /\ symbolToMarketId \subseteq listed /\ listed \subseteq Symbols
        /\ symbolCachePopulated \in BOOLEAN
    OBVIOUS
  <2>2. /\ lastRequestAt \in (-MinInterval)..now /\ sentAt \in (-MinInterval)..now
        /\ authTokenDeadline \in Life..(now + Life)
        /\ calls \in 0..MaxCalls
    OBVIOUS
  <2>3. /\ op \in [Threads -> Ops \cup {"none"}]
        /\ pc \in [Threads -> {"idle", "check", "minting", "find", "pace", "asleep",
                               "ask", "asked", "clear", "fill"}]
        /\ \A t \in Threads : /\ pc[t] = "asleep" <=> throttleMtx = t
                              /\ pc[t] = "minting" <=> authM = t
        /\ asks \in [Threads -> Symbols]
        /\ round \in [Threads -> {"first", "last"}]
    OBVIOUS
  <2>4. /\ mintFailed \in [Threads -> BOOLEAN]
        /\ wake \in [Threads -> 0..(now + MinInterval)]
        /\ carried \in [Threads -> {"none", "good", "expired", "torn"}]
    OBVIOUS
  <2>5. /\ answer \in [Threads -> SUBSET listed]
        /\ outcome \in [Threads -> {"none", "found", "unknown", "threw"}]
        /\ listedAtCall \in [Threads -> SUBSET listed]
        /\ beganAt \in [Threads -> 0..now]
        /\ raced \in [Threads -> BOOLEAN]
    OBVIOUS
  <2>6. QED
    BY <2>1, <2>2, <2>3, <2>4, <2>5 DEF TypeOK
<1>2. QED
  BY <1>1, TypeStep, PTL DEF Spec

----------------------------------------------------------------------------
(* The throttle and the renewal.                                           *)

(* The last request is the one that the throttle remembers, and who sleeps
   wakes no sooner than an interval after it. *)
Spaced ==
  /\ sentAt = lastRequestAt
  /\ \A t \in Threads : pc[t] = "asleep" => lastRequestAt + MinInterval <= wake[t]

(* Who mints has found that it is time. *)
MintsInTime == \A t \in Threads : pc[t] = "minting" => NeedsMint

LEMMA ClockStep ==
  /\ TypeOK /\ Spaced /\ MintsInTime /\ [Next]_vars
  => Spaced' /\ MintsInTime'
<1> SUFFICES ASSUME TypeOK, Spaced, MintsInTime, [Next]_vars
             PROVE  Spaced' /\ MintsInTime'
  OBVIOUS
<1> USE ThreadsAssumption, TimesAssumption
<1>t. /\ now \in Nat /\ lastRequestAt \in Int /\ authTokenDeadline \in Nat
      /\ \A t \in Threads : wake[t] \in Nat
      /\ \A t \in Threads : pc[t] = "asleep" <=> throttleMtx = t
      /\ \A t \in Threads : pc[t] = "minting" <=> authM = t
  BY DEF TypeOK
<1>1. ASSUME NEW t \in Threads, NEW to, Go(t, to), to \notin {"asleep", "minting"},
             UNCHANGED <<now, sentAt, lastRequestAt, wake, authTokenDeadline>>
      PROVE  Spaced' /\ MintsInTime'
  BY <1>1 DEF Go, Spaced, MintsInTime, NeedsMint, TypeOK
<1>2. ASSUME NEW t \in Threads, NEW o \in Ops, Begin(t, o)
      PROVE  Spaced' /\ MintsInTime'
  BY <1>1, <1>2 DEF Begin, client, gateway
<1>3. ASSUME NEW t \in Threads, TokenFresh(t) \/ MintFails(t)
      PROVE  Spaced' /\ MintsInTime'
  BY <1>1, <1>3 DEF TokenFresh, MintFails, client, gateway, history
<1>4. ASSUME NEW t \in Threads, MintStart(t)
      PROVE  Spaced' /\ MintsInTime'
  BY <1>4 DEF MintStart, Go, Spaced, MintsInTime, NeedsMint, TypeOK, history
<1>5. ASSUME NEW t \in Threads, MintEnd(t)
      PROVE  Spaced' /\ MintsInTime'
  <2>1. /\ pc[t] = "minting" /\ pc' = [pc EXCEPT ![t] = "pace"]
        /\ UNCHANGED <<now, sentAt, lastRequestAt, wake>>
    BY <1>5 DEF MintEnd, Go, history
  <2>2. \A u \in Threads : u # t => pc[u] # "minting"
    BY <1>t, <2>1
  <2>3. QED
    BY <2>1, <2>2 DEF Spaced, MintsInTime, TypeOK
<1>6. ASSUME NEW t \in Threads, Pace(t)
      PROVE  Spaced' /\ MintsInTime'
  <2>1. /\ pc' = [pc EXCEPT ![t] = "asleep"] /\ throttleMtx = NoThread
        /\ wake' = [wake EXCEPT ![t] = SleepEnds]
        /\ UNCHANGED <<now, sentAt, lastRequestAt, authTokenDeadline>>
    BY <1>6 DEF Pace, Go, gateway, history
  <2>2. lastRequestAt + MinInterval <= SleepEnds
    BY <1>t DEF SleepEnds
  <2>3. \A u \in Threads : pc[u] # "asleep"
    BY <1>t, <2>1
  <2>4. wake'[t] = SleepEnds
    BY <2>1 DEF TypeOK
  <2>5. QED
    BY <2>1, <2>2, <2>3, <2>4 DEF Spaced, MintsInTime, NeedsMint, TypeOK
<1>7. ASSUME NEW t \in Threads, Wake(t)
      PROVE  Spaced' /\ MintsInTime'
  <2>1. /\ pc[t] = "asleep" /\ pc' = [pc EXCEPT ![t] = "ask"]
        /\ sentAt' = now /\ lastRequestAt' = now
        /\ UNCHANGED <<now, wake, authTokenDeadline>>
    BY <1>7 DEF Wake, Stamp, Go, gateway
  <2>2. \A u \in Threads : u # t => pc[u] # "asleep"
    BY <1>t, <2>1
  <2>3. QED
    BY <2>1, <2>2 DEF Spaced, MintsInTime, NeedsMint, TypeOK
<1>8. ASSUME NEW t \in Threads, Ask(t) \/ Answer(t) \/ Fail(t)
      PROVE  Spaced' /\ MintsInTime'
  BY <1>1, <1>8 DEF Ask, Answer, Fail, Done, client, gateway, history
<1>9. ASSUME NEW t \in Threads, Clear(t) \/ Fill(t)
      PROVE  Spaced' /\ MintsInTime'
  BY <1>1, <1>9 DEF Clear, Fill, Done, gateway, history
<1>10. ASSUME NEW t \in Threads, Find(t)
       PROVE  Spaced' /\ MintsInTime'
  BY <1>1, <1>10 DEF Find, Done, client, gateway, history
<1>11. CASE Tick
  BY <1>t, <1>11 DEF Tick, Spaced, MintsInTime, NeedsMint, client, gateway, thread,
                     history
<1>12. CASE List \/ UNCHANGED vars
  BY <1>12 DEF List, vars, Spaced, MintsInTime, NeedsMint, client, gateway, thread,
               history
<1>13. QED
  BY <1>2, <1>3, <1>4, <1>5, <1>6, <1>7, <1>8, <1>9, <1>10, <1>11, <1>12
     DEF Next, ThreadStep, Rests

LEMMA ClockInvariant == Spec => [](Spaced /\ MintsInTime)
<1>1. Init => Spaced /\ MintsInTime
  BY DEF Init, Spaced, MintsInTime
<1>2. QED
  BY <1>1, ClockStep, TypeCorrect, PTL DEF Spec

(* Requests pass the throttle an interval apart, however many threads wait for
   it and whatever the interval (throttle, lines 71-79). *)
THEOREM RequestsArePaced == Spec => Paced
<1>1. ASSUME TypeOK, Spaced, [Next]_vars, NEW t \in Threads,
             pc[t] = "asleep", pc'[t] = "ask"
      PROVE  now - sentAt >= MinInterval
  <2>1. now >= wake[t]
    <3>1. ASSUME NEW u \in Threads, Wake(u)
          PROVE  now >= wake[t]
      <4>1. u = t
        BY <1>1, <3>1 DEF Wake, TypeOK
      <4>2. QED
        BY <3>1, <4>1 DEF Wake
    <3>2. ASSUME ~(\E u \in Threads : Wake(u))
          PROVE  FALSE
      <4>1. pc'[t] = pc[t]
        <5>1. ASSUME NEW u \in Threads, ThreadStep(u)
              PROVE  pc'[t] = pc[t]
          <6>1. /\ pc[u] # "asleep"
                /\ \E to : pc' = [pc EXCEPT ![u] = to]
            BY <3>2, <5>1 DEF ThreadStep, Begin, TokenFresh, MintFails, MintStart,
               MintEnd, Pace, Ask, Answer, Fail, Clear, Fill, Find, Done, Go
          <6>2. u # t
            BY <1>1, <6>1
          <6>3. QED
            BY <6>1, <6>2 DEF TypeOK
        <5>2. CASE Tick \/ List \/ Rests \/ UNCHANGED vars
          BY <5>2 DEF Tick, List, Rests, vars, thread
        <5>3. QED
          BY <1>1, <5>1, <5>2 DEF Next
      <4>2. QED
        BY <1>1, <4>1
    <3>3. QED
      BY <3>1, <3>2
  <2>2. /\ sentAt + MinInterval <= wake[t] /\ wake[t] \in Nat
        /\ now \in Nat /\ sentAt \in Int
    BY <1>1, TimesAssumption DEF Spaced, TypeOK
  <2>3. QED
    BY <2>1, <2>2, TimesAssumption
<1>2. TypeOK /\ Spaced /\ [Next]_vars =>
        [\A t \in Threads : pc[t] = "asleep" /\ pc'[t] = "ask"
           => now - sentAt >= MinInterval]_vars
  BY <1>1
<1>3. QED
  BY <1>2, TypeCorrect, ClockInvariant, PTL DEF Spec, Paced

(* However many threads find the token old, it is minted once: who comes later
   finds the new deadline (refreshAuthTokenIfNeeded, gateway lines 274-287). *)
THEOREM TokenIsMintedOnce == Spec => MintsOnce
<1>1. ASSUME TypeOK, MintsInTime, [Next]_vars,
             authTokenDeadline' # authTokenDeadline \/ authToken' # authToken
      PROVE  NeedsMint
  <2>1. ASSUME NEW t \in Threads, MintStart(t) \/ MintEnd(t)
        PROVE  NeedsMint
    BY <1>1, <2>1 DEF MintStart, MintEnd, MintsInTime
  <2>2. ASSUME NEW t \in Threads, ThreadStep(t), ~MintStart(t), ~MintEnd(t)
        PROVE  FALSE
    BY <1>1, <2>2 DEF ThreadStep, Begin, TokenFresh, MintFails, Pace, Wake, Ask,
       Answer, Fail, Clear, Fill, Find, client, gateway
  <2>3. CASE Tick \/ List \/ Rests \/ UNCHANGED vars
    BY <1>1, <2>3 DEF Tick, List, Rests, vars, client, gateway
  <2>4. QED
    BY <1>1, <2>1, <2>2, <2>3 DEF Next
<1>2. TypeOK /\ MintsInTime /\ [Next]_vars =>
        [authTokenDeadline' # authTokenDeadline \/ authToken' # authToken
           => now >= authTokenDeadline - Margin]_vars
  BY <1>1 DEF NeedsMint
<1>3. QED
  BY <1>2, TypeCorrect, ClockInvariant, PTL DEF Spec, MintsOnce

----------------------------------------------------------------------------
(* The token.                                                              *)

MintingOps == {"order", "nonce", "instruments"}

(* Between two renewals the client's token ends when the gateway thinks. *)
TokenOrTorn == authToken \in {Torn, authTokenDeadline}

(* Only calls that do not renew look at the map. *)
LooksUp == \A t \in Threads : pc[t] = "find" => op[t] = "prices"

(* Unless its mint failed, a call that renews goes on with a token that had
   the margin left when the call began, or with a later one. *)
MarginLeft ==
  \A t \in Threads :
    pc[t] \in {"pace", "asleep", "ask", "asked"} /\ op[t] \in MintingOps /\ ~mintFailed[t]
      => beganAt[t] + Margin < authTokenDeadline

TokenInv == TokenOrTorn /\ LooksUp /\ MarginLeft /\ FreshToken

LEMMA TokenStep == TypeOK /\ TokenInv /\ [Next]_vars => TokenInv'
<1> SUFFICES ASSUME TypeOK, TokenInv, [Next]_vars
             PROVE  TokenInv'
  OBVIOUS
<1> USE ThreadsAssumption, TimesAssumption
<1>0. TokenOrTorn /\ LooksUp /\ MarginLeft /\ FreshToken
  BY DEF TokenInv
<1>t. /\ now \in Nat /\ authTokenDeadline \in Nat /\ authTokenDeadline <= now + Life
      /\ authToken \in Nat \cup {Torn} /\ Torn \notin Nat
      /\ pc \in [Threads -> {"idle", "check", "minting", "find", "pace", "asleep",
                             "ask", "asked", "clear", "fill"}]
      /\ op \in [Threads -> Ops \cup {"none"}]
      /\ mintFailed \in [Threads -> BOOLEAN]
      /\ carried \in [Threads -> {"none", "good", "expired", "torn"}]
      /\ \A t \in Threads : beganAt[t] \in Nat /\ beganAt[t] <= now
  BY DEF TypeOK, Torn
(* A step that leaves the token and the clock alone, and lets its thread go on
   to where it already had to have the margin. *)
<1>1. ASSUME NEW t \in Threads, NEW to, Go(t, to),
             to = "find" => op[t] = "prices",
             to \in {"pace", "asleep", "ask"} /\ op[t] \in MintingOps
               => pc[t] \in {"pace", "asleep", "ask", "asked"},
             to # "asked",
             UNCHANGED <<now, authToken, authTokenDeadline, op, mintFailed, carried, beganAt>>
      PROVE  TokenInv'
  BY <1>0, <1>t, <1>1 DEF Go, TokenInv, TokenOrTorn, LooksUp, MarginLeft, FreshToken
<1>2. ASSUME NEW t \in Threads, NEW o \in Ops, Begin(t, o)
      PROVE  TokenInv'
  <2>1. PICK to \in {"check", "find"} :
          pc' = [pc EXCEPT ![t] = to] /\ (to = "find" => o = "prices")
    BY <1>2 DEF Begin, Go, Renews, Ops
  <2>2. /\ op' = [op EXCEPT ![t] = o] /\ mintFailed' = [mintFailed EXCEPT ![t] = FALSE]
        /\ carried' = [carried EXCEPT ![t] = "none"] /\ beganAt' = [beganAt EXCEPT ![t] = now]
        /\ UNCHANGED <<now, authToken, authTokenDeadline>>
    BY <1>2 DEF Begin, client, gateway
  <2>3. \A u \in Threads \ {t} :
          /\ pc'[u] = pc[u] /\ op'[u] = op[u] /\ mintFailed'[u] = mintFailed[u]
          /\ carried'[u] = carried[u] /\ beganAt'[u] = beganAt[u]
    BY <2>1, <2>2, <1>t
  <2>4. pc'[t] = to /\ op'[t] = o
    BY <2>1, <2>2, <1>t
  <2>5. QED
    BY <1>0, <2>1, <2>2, <2>3, <2>4
    DEF TokenInv, TokenOrTorn, LooksUp, MarginLeft, FreshToken
<1>3. ASSUME NEW t \in Threads, TokenFresh(t)
      PROVE  TokenInv'
  <2>1. /\ pc' = [pc EXCEPT ![t] = "pace"] /\ now + Margin < authTokenDeadline
        /\ UNCHANGED <<now, authToken, authTokenDeadline, op, mintFailed, carried, beganAt>>
    BY <1>3, <1>t DEF TokenFresh, Go, NeedsMint, client, gateway, history
  <2>2. beganAt[t] + Margin < authTokenDeadline
    BY <1>t, <2>1
  <2>3. QED
    BY <1>0, <1>t, <2>1, <2>2 DEF TokenInv, TokenOrTorn, LooksUp, MarginLeft, FreshToken
<1>4. ASSUME NEW t \in Threads, MintFails(t)
      PROVE  TokenInv'
  <2>1. /\ pc' = [pc EXCEPT ![t] = "pace"] /\ mintFailed' = [mintFailed EXCEPT ![t] = TRUE]
        /\ UNCHANGED <<now, authToken, authTokenDeadline, op, carried, beganAt>>
    BY <1>4 DEF MintFails, Go, client, gateway, history
  <2>2. QED
    BY <1>0, <1>t, <2>1 DEF TokenInv, TokenOrTorn, LooksUp, MarginLeft, FreshToken
<1>5. ASSUME NEW t \in Threads, MintStart(t)
      PROVE  TokenInv'
  <2>1. /\ pc' = [pc EXCEPT ![t] = "minting"] /\ authToken' = Torn
        /\ UNCHANGED <<now, authTokenDeadline, op, mintFailed, carried, beganAt>>
    BY <1>5 DEF MintStart, Go, history
  <2>2. QED
    BY <1>0, <1>t, <2>1 DEF TokenInv, TokenOrTorn, LooksUp, MarginLeft, FreshToken
<1>6. ASSUME NEW t \in Threads, MintEnd(t)
      PROVE  TokenInv'
  <2>1. /\ pc' = [pc EXCEPT ![t] = "pace"]
        /\ authToken' = now + Life /\ authTokenDeadline' = now + Life
        /\ UNCHANGED <<now, op, mintFailed, carried, beganAt>>
    BY <1>6 DEF MintEnd, Go, history
  <2>2. \A u \in Threads : beganAt[u] + Margin < authTokenDeadline'
    BY <1>t, <2>1
  <2>3. QED
    BY <1>0, <1>t, <2>1, <2>2 DEF TokenInv, TokenOrTorn, LooksUp, MarginLeft, FreshToken
<1>7. ASSUME NEW t \in Threads, Pace(t) \/ Wake(t)
      PROVE  TokenInv'
  BY <1>1, <1>7 DEF Pace, Wake, gateway, history
(* The token read is torn, or the one of the deadline. *)
<1>8. ASSUME NEW t \in Threads, Ask(t)
      PROVE  TokenInv'
  <2>1. /\ pc[t] = "ask" /\ pc' = [pc EXCEPT ![t] = "asked"]
        /\ carried' = [carried EXCEPT ![t] = IF authToken = Torn THEN "torn"
                                             ELSE IF authToken <= now THEN "expired"
                                             ELSE "good"]
        /\ UNCHANGED <<now, authToken, authTokenDeadline, op, mintFailed, beganAt>>
    BY <1>8 DEF Ask, Go, client, gateway, history
  <2>2. ASSUME carried'[t] = "expired", op[t] \in MintingOps, ~mintFailed[t]
        PROVE  now - beganAt[t] > Margin
    <3>1. authToken # Torn /\ authToken <= now
      BY <1>t, <2>1, <2>2
    <3>2. authTokenDeadline <= now
      BY <1>0, <3>1 DEF TokenOrTorn
    <3>3. beganAt[t] + Margin < authTokenDeadline
      BY <1>0, <2>1, <2>2 DEF MarginLeft
    <3>4. QED
      BY <1>t, <3>2, <3>3
  <2>3. \A u \in Threads \ {t} : pc'[u] = pc[u] /\ carried'[u] = carried[u]
    BY <1>t, <2>1
  <2>4. pc'[t] = "asked"
    BY <1>t, <2>1
  <2>5. FreshToken'
    BY <1>0, <2>1, <2>2, <2>3 DEF FreshToken, MintingOps
  <2>6. QED
    BY <1>0, <2>1, <2>3, <2>4, <2>5 DEF TokenInv, TokenOrTorn, LooksUp, MarginLeft
<1>9. ASSUME NEW t \in Threads, Answer(t)
      PROVE  TokenInv'
  BY <1>1, <1>9 DEF Answer, Done, client, gateway, history
<1>10. ASSUME NEW t \in Threads, Fail(t)
       PROVE  TokenInv'
  <2>1. CASE op[t] = "order"
    <3>1. /\ pc[t] = "asked" /\ pc' = [pc EXCEPT ![t] = "pace"]
          /\ op' = [op EXCEPT ![t] = "nonce"]
          /\ UNCHANGED <<now, authToken, authTokenDeadline, mintFailed, carried, beganAt>>
      BY <1>10, <2>1 DEF Fail, Go, client, gateway, history
    <3>2. ~mintFailed[t] => beganAt[t] + Margin < authTokenDeadline
      BY <1>0, <2>1, <3>1 DEF MarginLeft, MintingOps
    <3>3. QED
      BY <1>0, <1>t, <3>1, <3>2
      DEF TokenInv, TokenOrTorn, LooksUp, MarginLeft, FreshToken
  <2>2. CASE op[t] # "order"
    BY <1>1, <1>10, <2>2 DEF Fail, Done, client, gateway, history
  <2>3. QED
    BY <2>1, <2>2
<1>11. ASSUME NEW t \in Threads, Clear(t) \/ Fill(t)
       PROVE  TokenInv'
  BY <1>1, <1>11 DEF Clear, Fill, Done, gateway, history
<1>12. ASSUME NEW t \in Threads, Find(t)
       PROVE  TokenInv'
  <2>1. op[t] \notin MintingOps
    BY <1>0, <1>12 DEF Find, LooksUp, MintingOps
  <2>2. QED
    BY <1>1, <1>12, <2>1 DEF Find, Done, client, gateway, history
<1>13. CASE Tick
  <2>1. now' = now + 1
        /\ UNCHANGED <<pc, op, authToken, authTokenDeadline, mintFailed, carried, beganAt>>
    BY <1>13 DEF Tick, client, gateway, thread, history
  <2>2. \A t \in Threads : now - beganAt[t] > Margin => now' - beganAt[t] > Margin
    BY <1>t, <2>1
  <2>3. QED
    BY <1>0, <2>1, <2>2 DEF TokenInv, TokenOrTorn, LooksUp, MarginLeft, FreshToken
<1>14. CASE List \/ UNCHANGED vars
  BY <1>0, <1>14 DEF List, vars, client, gateway, thread, history,
                     TokenInv, TokenOrTorn, LooksUp, MarginLeft, FreshToken
<1>15. QED
  BY <1>2, <1>3, <1>4, <1>5, <1>6, <1>7, <1>8, <1>9, <1>10, <1>11, <1>12, <1>13, <1>14
     DEF Next, ThreadStep, Rests

(* A call that renews the token sends an expired one only when its own mint has
   failed or it was held up for more than the margin, whoever mints, fails to or
   waits at the throttle meanwhile (refreshAuthTokenIfNeeded, gateway lines
   274-292, and its callers). *)
THEOREM TokenIsFresh == Spec => []FreshToken
<1>1. Init => TokenInv
  BY DEF Init, TokenInv, TokenOrTorn, LooksUp, MarginLeft, FreshToken
<1>2. Spec => []TokenInv
  BY <1>1, TokenStep, TypeCorrect, PTL DEF Spec
<1>3. TokenInv => FreshToken
  BY DEF TokenInv
<1>4. QED
  BY <1>2, <1>3, PTL

----------------------------------------------------------------------------
(* The symbol map.                                                         *)

(* A call that has not been raced is alone with the map. *)
Alone ==
  \A t, u \in Threads : u # t /\ pc[u] = "fill" /\ pc[t] # "idle" => raced[t]

(* An answer names what was listed when its call began. *)
Covers ==
  \A t \in Threads : pc[t] \in {"clear", "fill"} => listedAtCall[t] \subseteq answer[t]

(* So does the map that a call looks at for the last time, unless raced. *)
LastLook ==
  \A t \in Threads : pc[t] = "find" /\ round[t] = "last" /\ ~raced[t]
                       => listedAtCall[t] \subseteq symbolToMarketId

MapInv == Alone /\ Covers /\ LastLook /\ UnknownMeansUnlisted

LEMMA MapStep == TypeOK /\ MapInv /\ [Next]_vars => MapInv'
<1> SUFFICES ASSUME TypeOK, MapInv, [Next]_vars
             PROVE  MapInv'
  OBVIOUS
<1>0. Alone /\ Covers /\ LastLook /\ UnknownMeansUnlisted
  BY DEF MapInv
<1>t. /\ pc \in [Threads -> {"idle", "check", "minting", "find", "pace", "asleep",
                             "ask", "asked", "clear", "fill"}]
      /\ asks \in [Threads -> Symbols] /\ round \in [Threads -> {"first", "last"}]
      /\ answer \in [Threads -> SUBSET listed]
      /\ listedAtCall \in [Threads -> SUBSET listed]
      /\ raced \in [Threads -> BOOLEAN]
      /\ outcome \in [Threads -> {"none", "found", "unknown", "threw"}]
  BY DEF TypeOK
<1>1. ASSUME NEW t \in Threads, NEW to, Go(t, to),
             to \notin {"clear", "fill", "find"}, pc[t] # "idle",
             NEW x \in {"none", "found", "threw"},
             outcome' \in {outcome, [outcome EXCEPT ![t] = x]},
             UNCHANGED <<asks, round, answer, symbolToMarketId, listedAtCall, raced>>
      PROVE  MapInv'
  BY <1>0, <1>t, <1>1
     DEF Go, MapInv, Alone, Covers, LastLook, UnknownMeansUnlisted
<1>2. ASSUME NEW t \in Threads, NEW o \in Ops, Begin(t, o)
      PROVE  MapInv'
  <2>1. PICK s \in Symbols : asks' = [asks EXCEPT ![t] = s]
    BY <1>2 DEF Begin
  <2>2. PICK to \in {"check", "find", "pace"} : pc' = [pc EXCEPT ![t] = to]
    BY <1>2 DEF Begin, Go
  <2>3. /\ round' = [round EXCEPT ![t] = "first"]
        /\ outcome' = [outcome EXCEPT ![t] = "none"]
        /\ listedAtCall' = [listedAtCall EXCEPT ![t] = listed]
        /\ UNCHANGED <<answer, symbolToMarketId>>
    BY <1>2 DEF Begin, client
  <2>4. raced' = [raced EXCEPT ![t] = \E u \in Threads : pc[u] \in {"clear", "fill"}]
    BY <1>2 DEF Begin
  <2>5. Alone'
    <3>1. SUFFICES ASSUME NEW v \in Threads, NEW u \in Threads,
                          u # v, pc'[u] = "fill", pc'[v] # "idle"
                   PROVE  raced'[v]
      BY DEF Alone
    <3>2. pc[u] = "fill"
      BY <1>t, <2>2, <3>1
    <3>3. CASE v = t
      BY <1>t, <2>4, <3>2, <3>3
    <3>4. CASE v # t
      BY <1>0, <1>t, <2>2, <2>4, <3>1, <3>2, <3>4 DEF Alone
    <3>5. QED
      BY <3>3, <3>4
  <2>6. Covers' /\ LastLook' /\ UnknownMeansUnlisted'
    <3>1. /\ \A u \in Threads : u # t => /\ pc'[u] = pc[u] /\ raced'[u] = raced[u]
                                         /\ round'[u] = round[u]
                                         /\ outcome'[u] = outcome[u]
                                         /\ listedAtCall'[u] = listedAtCall[u]
                                         /\ asks'[u] = asks[u]
          /\ pc'[t] = to /\ round'[t] = "first" /\ outcome'[t] = "none"
      BY <1>t, <2>1, <2>2, <2>3, <2>4
    <3>2. QED
      BY <1>0, <2>3, <3>1 DEF Covers, LastLook, UnknownMeansUnlisted
  <2>7. QED
    BY <2>5, <2>6 DEF MapInv
<1>3. ASSUME NEW t \in Threads,
             \/ TokenFresh(t) \/ MintFails(t) \/ MintStart(t) \/ MintEnd(t)
             \/ Pace(t) \/ Wake(t) \/ Ask(t) \/ Fail(t)
      PROVE  MapInv'
  BY <1>1, <1>3 DEF TokenFresh, MintFails, MintStart, MintEnd, Pace, Wake, Ask, Fail,
                    Done, client, history
<1>4. ASSUME NEW t \in Threads, Answer(t)
      PROVE  MapInv'
  <2>1. CASE op[t] \in {"instruments", "prices"}
    <3>1. /\ answer' = [answer EXCEPT ![t] = listed]
          /\ pc[t] = "asked" /\ pc' = [pc EXCEPT ![t] = "clear"]
          /\ UNCHANGED <<asks, round, outcome, symbolToMarketId, listedAtCall, raced>>
      BY <1>4, <2>1 DEF Answer, Go, client, history
    <3>2. QED
      BY <1>0, <1>t, <3>1
         DEF MapInv, Alone, Covers, LastLook, UnknownMeansUnlisted
  <2>2. CASE op[t] \notin {"instruments", "prices"}
    BY <1>1, <1>4, <2>2 DEF Answer, Done, client, history
  <2>3. QED
    BY <2>1, <2>2
<1>5. ASSUME NEW t \in Threads, Clear(t)
      PROVE  MapInv'
  <2>1. /\ pc[t] = "clear" /\ pc' = [pc EXCEPT ![t] = "fill"]
        /\ UNCHANGED <<asks, round, outcome, answer, listedAtCall>>
    BY <1>5 DEF Clear, Go
  <2>2. \A u \in Threads : /\ raced[u] => raced'[u]
                           /\ u # t => raced'[u]
    BY <1>5 DEF Clear
  <2>3. QED
    BY <1>0, <1>t, <2>1, <2>2
       DEF MapInv, Alone, Covers, LastLook, UnknownMeansUnlisted
<1>6. ASSUME NEW t \in Threads, Fill(t)
      PROVE  MapInv'
  <2>1. /\ pc[t] = "fill" /\ symbolToMarketId' = symbolToMarketId \cup answer[t]
        /\ answer' = [answer EXCEPT ![t] = {}]
        /\ UNCHANGED <<asks, round, listedAtCall, raced>>
    BY <1>6 DEF Fill, history
  <2>2. PICK to \in {"find", "idle"} : pc' = [pc EXCEPT ![t] = to]
    BY <1>6 DEF Fill, Done, Go
  <2>3. outcome' \in {outcome, [outcome EXCEPT ![t] = "found"]}
    BY <1>6 DEF Fill, Done
  <2>4. listedAtCall[t] \subseteq symbolToMarketId'
    BY <1>0, <2>1 DEF Covers
  <2>5. QED
    BY <1>0, <1>t, <2>1, <2>2, <2>3, <2>4
       DEF MapInv, Alone, Covers, LastLook, UnknownMeansUnlisted
<1>7. ASSUME NEW t \in Threads, Find(t)
      PROVE  MapInv'
  <2>1. /\ pc[t] = "find"
        /\ UNCHANGED <<asks, answer, symbolToMarketId, listedAtCall, raced>>
    BY <1>7 DEF Find, client, history
  <2>2. PICK to \in {"pace", "idle"} : pc' = [pc EXCEPT ![t] = to]
    BY <1>7 DEF Find, Done, Go
  <2>3. Alone' /\ Covers'
    BY <1>0, <1>t, <2>1, <2>2 DEF Alone, Covers
  <2>4. LastLook'
    <3>1. round' \in {round, [round EXCEPT ![t] = "last"]}
      BY <1>7 DEF Find
    <3>2. QED
      BY <1>0, <1>t, <2>1, <2>2, <3>1 DEF LastLook
  <2>5. UnknownMeansUnlisted'
    <3>1. CASE outcome' = [outcome EXCEPT ![t] = "unknown"] /\ outcome' # outcome
      <4>1. PICK seen \in Seen(t) : ~seen /\ round[t] = "last"
        BY <1>7, <1>t, <3>1 DEF Find, Done, Reloads
      <4>2. ASSUME ~raced[t]
            PROVE  asks[t] \notin listedAtCall[t]
        <5>1. ~Refilling(t)
          BY <1>0, <2>1, <4>2 DEF Alone, Refilling
        <5>2. asks[t] \notin symbolToMarketId
          BY <4>1, <5>1 DEF Seen
        <5>3. QED
          BY <1>0, <2>1, <4>1, <4>2, <5>2 DEF LastLook
      <4>3. QED
        BY <1>0, <1>t, <2>1, <3>1, <4>2 DEF UnknownMeansUnlisted
    <3>2. CASE outcome' \in {outcome, [outcome EXCEPT ![t] = "found"]}
      BY <1>0, <1>t, <2>1, <3>2 DEF UnknownMeansUnlisted
    <3>3. QED
      BY <1>7, <3>1, <3>2 DEF Find, Done
  <2>6. QED
    BY <2>3, <2>4, <2>5 DEF MapInv
<1>8. CASE Tick \/ List \/ UNCHANGED vars
  BY <1>0, <1>8 DEF Tick, List, vars, client, thread, history, MapInv, Alone,
                    Covers, LastLook, UnknownMeansUnlisted
<1>9. QED
  BY <1>2, <1>3, <1>4, <1>5, <1>6, <1>7, <1>8 DEF Next, ThreadStep, Rests

(* A call that finds its symbol unknown asked for one that was not listed, or
   was raced by another refill: the last look is at a map refilled for it
   (resolveMarketId, lines 136-147). *)
THEOREM UnknownIsUnlisted == Spec => []UnknownMeansUnlisted
<1>1. Init => MapInv
  BY DEF Init, MapInv, Alone, Covers, LastLook, UnknownMeansUnlisted
<1>2. Spec => []MapInv
  BY <1>1, MapStep, TypeCorrect, PTL DEF Spec
<1>3. MapInv => UnknownMeansUnlisted
  BY DEF MapInv
<1>4. QED
  BY <1>2, <1>3, PTL
=============================================================================
