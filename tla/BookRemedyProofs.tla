-------------------------- MODULE BookRemedyProofs --------------------------
(***************************************************************************)
(* That no subscription of OrderBooks is forgotten and no crossed book is  *)
(* left to itself: theorems for every value of its constants.  They are    *)
(* about what is owed: tasks on the strand, frames, and snapshots.         *)
(***************************************************************************)
EXTENDS OrderBooksProofs

----------------------------------------------------------------------------
(* The members of a sequence.                                              *)

LEMMA InAppended ==
  ASSUME NEW S, NEW s \in Seq(S), NEW e \in S
  PROVE  ToSet(Append(s, e)) = ToSet(s) \cup {e}
<1>1. /\ Len(s) \in Nat /\ DOMAIN s = 1..Len(s)
      /\ DOMAIN Append(s, e) = 1..(Len(s) + 1)
      /\ \A i \in 1..Len(s) : Append(s, e)[i] = s[i]
      /\ Append(s, e)[Len(s) + 1] = e
  BY AppendProperties, LenProperties
<1>2. ASSUME NEW x \in ToSet(s) PROVE x \in ToSet(Append(s, e))
  BY <1>1 DEF ToSet
<1>3. e \in ToSet(Append(s, e))
  BY <1>1 DEF ToSet
<1>4. ASSUME NEW x \in ToSet(Append(s, e)), x # e PROVE x \in ToSet(s)
  BY <1>1, <1>4 DEF ToSet
<1>5. QED
  BY <1>2, <1>3, <1>4

LEMMA InTail ==
  ASSUME NEW S, NEW s \in Seq(S), s # <<>>
  PROVE  ToSet(s) = {Head(s)} \cup ToSet(Tail(s))
<1>1. /\ Len(s) \in Nat /\ Len(s) # 0 /\ DOMAIN s = 1..Len(s)
      /\ Head(s) = s[1] /\ DOMAIN Tail(s) = 1..(Len(s) - 1)
      /\ \A i \in 1..(Len(s) - 1) : Tail(s)[i] = s[i + 1]
  BY HeadTailProperties, LenProperties, EmptySeq
<1>2. ASSUME NEW i \in 1..Len(s) PROVE s[i] \in {Head(s)} \cup ToSet(Tail(s))
  <2>1. CASE i = 1
    BY <1>1, <2>1
  <2>2. CASE i # 1
    <3>1. i - 1 \in 1..(Len(s) - 1) /\ Tail(s)[i - 1] = s[i]
      BY <1>1, <2>2
    <3>2. QED
      BY <1>1, <3>1 DEF ToSet
  <2>3. QED
    BY <2>1, <2>2
<1>3. ASSUME NEW i \in 1..(Len(s) - 1) PROVE Tail(s)[i] \in ToSet(s)
  BY <1>1 DEF ToSet
<1>4. Head(s) \in ToSet(s)
  BY <1>1 DEF ToSet
<1>5. QED
  BY <1>1, <1>2, <1>3, <1>4 DEF ToSet

LEMMA InJoined ==
  ASSUME NEW S, NEW s \in Seq(S), NEW t \in Seq(S)
  PROVE  ToSet(s \o t) = ToSet(s) \cup ToSet(t)
<1>1. /\ Len(s) \in Nat /\ Len(t) \in Nat
      /\ DOMAIN s = 1..Len(s) /\ DOMAIN t = 1..Len(t)
      /\ DOMAIN (s \o t) = 1..(Len(s) + Len(t))
      /\ \A i \in 1..(Len(s) + Len(t)) :
           (s \o t)[i] = IF i =< Len(s) THEN s[i] ELSE t[i - Len(s)]
  BY ConcatProperties, LenProperties
<1>2. ASSUME NEW i \in 1..(Len(s) + Len(t)) PROVE (s \o t)[i] \in ToSet(s) \cup ToSet(t)
  <2>1. CASE i =< Len(s)
    BY <1>1, <2>1 DEF ToSet
  <2>2. CASE ~(i =< Len(s))
    <3>1. i - Len(s) \in 1..Len(t) /\ (s \o t)[i] = t[i - Len(s)]
      BY <1>1, <2>2
    <3>2. QED
      BY <1>1, <3>1 DEF ToSet
  <2>3. QED
    BY <2>1, <2>2
<1>3. ASSUME NEW i \in 1..Len(s) PROVE s[i] \in ToSet(s \o t)
  <2>1. i \in 1..(Len(s) + Len(t)) /\ (s \o t)[i] = s[i]
    BY <1>1
  <2>2. QED
    BY <1>1, <2>1 DEF ToSet
<1>4. ASSUME NEW i \in 1..Len(t) PROVE t[i] \in ToSet(s \o t)
  <2>1. i + Len(s) \in 1..(Len(s) + Len(t)) /\ (s \o t)[i + Len(s)] = t[i]
    BY <1>1
  <2>2. QED
    BY <1>1, <2>1 DEF ToSet
<1>5. QED
  BY <1>1, <1>2, <1>3, <1>4 DEF ToSet

LEMMA NoneIn == ToSet(<<>>) = {}
BY DEF ToSet

LEMMA LastAppended ==
  ASSUME NEW S, NEW s \in Seq(S), NEW e \in S
  PROVE  Append(s, e) # <<>> /\ Last(Append(s, e)) = e
BY AppendProperties DEF Last

LEMMA LastOfTail ==
  ASSUME NEW S, NEW s \in Seq(S), s # <<>>
  PROVE  IF Tail(s) = <<>> THEN Head(s) = Last(s) ELSE Last(Tail(s)) = Last(s)
<1>1. /\ Len(s) \in Nat /\ Len(s) # 0 /\ Len(Tail(s)) = Len(s) - 1
      /\ Head(s) = s[1] /\ Tail(s) \in Seq(S)
      /\ \A i \in 1..(Len(s) - 1) : Tail(s)[i] = s[i + 1]
  BY HeadTailProperties, LenProperties, EmptySeq
<1>2. Tail(s) = <<>> <=> Len(s) = 1
  BY <1>1, EmptySeq
<1>3. QED
  BY <1>1, <1>2 DEF Last

----------------------------------------------------------------------------
(* What is owed.                                                           *)

Tasks == {"flush", "unsubscribe"}
Ops   == {"subscribe", "unsubscribe"}

(* What a resubscription posts before its flush. *)
Drop == IF entry = "sent" THEN <<"unsubscribe">> ELSE <<>>

LEMMA ResubscribePosts ==
  ASSUME TypeOK, Resubscribe
  PROVE  ToSet(posted') = ToSet(posted) \cup ToSet(Drop) \cup {"flush"}
<1>1. posted \in Seq(Tasks) /\ Drop \in Seq(Tasks) /\ <<"flush">> \in Seq(Tasks)
  <2>1. posted \in Seq(Tasks)
    BY DEF TypeOK, Tasks
  <2>2. <<"unsubscribe">> \in Seq(Tasks) /\ <<"flush">> \in Seq(Tasks) /\ <<>> \in Seq(Tasks)
    BY EmptySeq DEF Tasks
  <2>3. QED
    BY <2>1, <2>2 DEF Drop
<1>2. posted' = posted \o Drop \o <<"flush">>
  BY DEF Resubscribe, Drop
<1>3. posted \o Drop \in Seq(Tasks)
  BY <1>1, ConcatProperties
<1>4. /\ ToSet(posted') = ToSet(posted \o Drop) \cup ToSet(<<"flush">>)
      /\ ToSet(posted \o Drop) = ToSet(posted) \cup ToSet(Drop)
  BY <1>1, <1>2, <1>3, InJoined
<1>5. ToSet(<<"flush">>) = {"flush"}
  BY DEF ToSet
<1>6. QED
  BY <1>4, <1>5

(* A task that is owed stays owed until it runs. *)
LEMMA OwedKept ==
  ASSUME TypeOK, [Next]_vars, NEW task \in Tasks, Owed(task)
  PROVE  \/ Owed(task)'
         \/ task = "flush" /\ RunFlush
         \/ task = "unsubscribe" /\ RunUnsubscribe
<1>1. posted \in Seq(Tasks) /\ task # "none"
  BY DEF TypeOK, Tasks
<1>2. CASE calling' = calling /\ posted' = posted
  BY <1>2 DEF Owed
<1>3. CASE Start \/ subscribeOrderBook \/ unsubscribeOrderBook
  <2>1. calling = "none" /\ posted' = posted
    BY <1>3 DEF Start, subscribeOrderBook, unsubscribeOrderBook, Call
  <2>2. QED
    BY <1>1, <2>1 DEF Owed
<1>4. CASE Post
  <2>1. calling \in Tasks /\ posted' = Append(posted, calling)
    BY <1>4 DEF Post, TypeOK, Tasks
  <2>2. ToSet(posted') = ToSet(posted) \cup {calling}
    BY <1>1, <2>1, InAppended
  <2>3. QED
    BY <2>2 DEF Owed
<1>5. CASE RunFlush \/ RunUnsubscribe
  <2>1. posted # <<>> /\ posted' = Tail(posted) /\ calling' = calling
    BY <1>5 DEF RunFlush, RunUnsubscribe
  <2>2. ToSet(posted) = {Head(posted)} \cup ToSet(posted')
    BY <1>1, <2>1, InTail
  <2>3. \/ RunFlush /\ Head(posted) = "flush"
        \/ RunUnsubscribe /\ Head(posted) = "unsubscribe"
    BY <1>5 DEF RunFlush, RunUnsubscribe
  <2>4. QED
    BY <2>1, <2>2, <2>3 DEF Owed
<1>6. CASE onOrderBookMessage
  <2>1. calling' = calling
    BY <1>6 DEF onOrderBookMessage
  <2>2. CASE Resubscribe
    <3>1. ToSet(posted) \subseteq ToSet(posted')
      BY <2>2, ResubscribePosts
    <3>2. QED
      BY <2>1, <3>1 DEF Owed
  <2>3. QED
    BY <1>2, <1>6, <2>1, <2>2 DEF onOrderBookMessage
<1>7. CASE LinkUp \/ VenueStep \/ Move \/ LinkDown
  BY <1>2, <1>7
  DEF LinkUp, VenueStep, VenueSubscribe, VenueUnsubscribe, Move, LinkDown, ledger
<1>8. CASE UNCHANGED vars
  BY <1>2, <1>8 DEF vars, ledger
<1>9. QED
  BY <1>3, <1>4, <1>5, <1>6, <1>7, <1>8 DEF Next, CoreStep, IoStep

(* A resubscription owes a flush, and an unsubscription first if the channel
   counts as sent. *)
LEMMA ResubscribeOwes ==
  ASSUME TypeOK, Resubscribe
  PROVE  Owed("flush")' /\ (entry = "sent" => Owed("unsubscribe")')
<1>1. ToSet(<<"unsubscribe">>) = {"unsubscribe"}
  BY DEF ToSet
<1>2. QED
  BY <1>1, ResubscribePosts DEF Owed, Drop

(* A frame that is queued is sent, and a frame read is the first. *)
LEMMA FrameAppended ==
  ASSUME TypeOK, NEW op \in Ops, frames' = Append(frames, op)
  PROVE  /\ ToSet(frames') = ToSet(frames) \cup {op}
         /\ frames' # <<>> /\ Last(frames') = op
<1>1. frames \in Seq(Ops)
  BY DEF TypeOK, Ops
<1>2. QED
  BY <1>1, InAppended, LastAppended

LEMMA FrameRead ==
  ASSUME TypeOK, frames # <<>>, frames' = Tail(frames)
  PROVE  /\ ToSet(frames) = {Head(frames)} \cup ToSet(frames')
         /\ IF frames' = <<>> THEN Head(frames) = Last(frames)
            ELSE Last(frames') = Last(frames)
<1>1. frames \in Seq(Ops)
  BY DEF TypeOK, Ops
<1>2. QED
  BY <1>1, InTail, LastOfTail

----------------------------------------------------------------------------
(* The invariant.                                                          *)

(* A connection that is down carries nothing. *)
DownIsSilent == ~up => ~streaming /\ frames = <<>> /\ inbox = <<>>

(* A channel that does not count as sent is one the venue does not send, or will
   stop sending: the unsubscription is owed, or is the last word to it. *)
DropFollows ==
  up /\ entry # "sent" =>
    \/ Owed("unsubscribe")
    \/ (frames = <<>> /\ ~streaming)
    \/ (frames # <<>> /\ Last(frames) = "unsubscribe")

Remedied == Crossed(book) /\ entry = "sent" /\ streaming => SnapshotComes \/ DropComes

RemedyInv ==
  NeverForgotten /\ DownIsSilent /\ DropFollows /\ Remedied

LEMMA RemedyInvInit == Init => RemedyInv
BY NoneIn, EmptyBook
DEF Init, RemedyInv, NeverForgotten, DownIsSilent, DropFollows, Remedied

LEMMA DownIsSilentStep ==
  ASSUME TypeOK, DownIsSilent, [Next]_vars
  PROVE  DownIsSilent'
<1>1. CASE CoreStep
  BY <1>1
  DEF DownIsSilent, CoreStep, Start, subscribeOrderBook, unsubscribeOrderBook, Post, Call,
      venue
<1>2. CASE RunFlush \/ RunUnsubscribe \/ LinkUp
  BY <1>2 DEF DownIsSilent, RunFlush, RunUnsubscribe, LinkUp, Flush, venue
<1>3. CASE onOrderBookMessage
  BY <1>3 DEF DownIsSilent, onOrderBookMessage, venue
<1>4. CASE VenueSubscribe \/ VenueUnsubscribe
  BY <1>4 DEF DownIsSilent, VenueSubscribe, VenueUnsubscribe, ledger
<1>5. CASE Move
  BY <1>5 DEF DownIsSilent, Move, ledger
<1>6. CASE LinkDown
  BY <1>6 DEF DownIsSilent, LinkDown
<1>7. CASE UNCHANGED vars
  BY <1>7 DEF DownIsSilent, vars, ledger, venue
<1>8. QED
  BY <1>1, <1>2, <1>3, <1>4, <1>5, <1>6, <1>7 DEF Next, IoStep, VenueStep

(* What is pending keeps its flush until the flush runs, and what counts as
   sent is sent, or on its way, or silenced. *)
LEMMA NeverForgottenStep ==
  ASSUME TypeOK, NeverForgotten, [Next]_vars
  PROVE  NeverForgotten'
<1> DEFINE FlushKept == Owed("flush") => Owed("flush")' \/ RunFlush
<1>1. FlushKept
  BY OwedKept DEF Tasks
<1> HIDE DEF FlushKept
<1>2. CASE CoreStep
  <2>1. UNCHANGED <<up, frames, streaming, silenced>>
    BY <1>2 DEF CoreStep, Start, subscribeOrderBook, unsubscribeOrderBook, Post, Call, venue
  <2>2. CASE subscribeOrderBook
    <3>1. Owed("flush")' /\ (entry' = "sent" => entry = "sent")
      BY <2>2 DEF subscribeOrderBook, Owed
    <3>2. QED
      BY <2>1, <3>1 DEF NeverForgotten, Sent
  <2>3. CASE unsubscribeOrderBook
    BY <2>3 DEF unsubscribeOrderBook, NeverForgotten
  <2>4. CASE Start \/ Post
    <3>1. UNCHANGED entry /\ ~RunFlush
      BY <2>4 DEF Start, Post, Call, RunFlush
    <3>2. QED
      BY <1>1, <2>1, <3>1 DEF NeverForgotten, Sent, FlushKept
  <2>5. QED
    BY <1>2, <2>2, <2>3, <2>4 DEF CoreStep
<1>3. CASE RunFlush \/ LinkUp
  <2>1. Flush /\ UNCHANGED <<streaming, silenced>>
    BY <1>3 DEF RunFlush, LinkUp, venue
  <2>2. CASE up' /\ entry = "pending"
    <3>1. entry' = "sent" /\ frames' = Append(frames, "subscribe")
      BY <2>1, <2>2 DEF Flush, FrameQueued
    <3>2. "subscribe" \in ToSet(frames')
      BY <3>1, FrameAppended DEF Ops
    <3>3. QED
      BY <3>1, <3>2 DEF NeverForgotten, Sent
  <2>3. CASE ~(up' /\ entry = "pending")
    BY <2>1, <2>3 DEF Flush, NeverForgotten, Sent
  <2>4. QED
    BY <2>2, <2>3
<1>4. CASE RunUnsubscribe
  <2>1. UNCHANGED <<up, entry, streaming, silenced>> /\ ~RunFlush
    BY <1>4 DEF RunUnsubscribe, RunFlush, venue
  <2>2. ToSet(frames) \subseteq ToSet(frames')
    BY <1>4, FrameAppended DEF RunUnsubscribe, Ops
  <2>3. QED
    BY <1>1, <2>1, <2>2 DEF NeverForgotten, Sent, FlushKept
<1>5. CASE onOrderBookMessage
  <2>1. UNCHANGED <<up, frames, streaming, silenced>>
    BY <1>5 DEF onOrderBookMessage, venue
  <2>2. CASE Resubscribe
    <3>1. entry' = "pending" /\ Owed("flush")'
      BY <2>2, ResubscribeOwes DEF Resubscribe
    <3>2. QED
      BY <3>1 DEF NeverForgotten
  <2>3. CASE UNCHANGED <<entry, posted>>
    <3>1. UNCHANGED calling
      BY <1>5 DEF onOrderBookMessage
    <3>2. QED
      BY <2>1, <2>3, <3>1 DEF NeverForgotten, Owed, Sent
  <2>4. QED
    BY <1>5, <2>2, <2>3 DEF onOrderBookMessage
<1>6. CASE VenueSubscribe
  BY <1>6 DEF VenueSubscribe, NeverForgotten, Owed, ledger
<1>7. CASE VenueUnsubscribe
  <2>1. UNCHANGED <<up, entry, posted, calling>>
    BY <1>7 DEF VenueUnsubscribe, ledger
  <2>2. entry = "sent" => silenced' \/ "subscribe" \in ToSet(frames')
    BY <1>7 DEF VenueUnsubscribe
  <2>3. QED
    BY <2>1, <2>2 DEF NeverForgotten, Owed, Sent
<1>8. CASE Move
  BY <1>8 DEF Move, NeverForgotten, Owed, Sent, ledger
<1>9. CASE LinkDown
  BY <1>9 DEF LinkDown, NeverForgotten, Requeued
<1>10. CASE UNCHANGED vars
  BY <1>10 DEF vars, NeverForgotten, Owed, Sent, ledger, venue
<1>11. QED
  BY <1>2, <1>3, <1>4, <1>5, <1>6, <1>7, <1>8, <1>9, <1>10 DEF Next, IoStep, VenueStep

(* An unsubscription that is owed stays owed until it is a frame, the last one;
   and a venue that has read it, and nothing after it, has stopped. *)
LEMMA DropFollowsStep ==
  ASSUME TypeOK, DownIsSilent, DropFollows, [Next]_vars
  PROVE  DropFollows'
<1> DEFINE DropKept == Owed("unsubscribe") => Owed("unsubscribe")' \/ RunUnsubscribe
           LastWord == \/ (frames = <<>> /\ ~streaming)
                       \/ (frames # <<>> /\ Last(frames) = "unsubscribe")
<1>1. DropKept
  BY OwedKept DEF Tasks
<1>2. ASSUME up /\ entry # "sent", ~RunUnsubscribe, UNCHANGED <<frames, streaming>>
      PROVE  DropFollows'
  BY <1>1, <1>2 DEF DropFollows
<1> HIDE DEF DropKept
<1>3. CASE CoreStep
  <2>1. UNCHANGED <<up, frames, streaming>> /\ ~RunUnsubscribe
    <3>1. CASE Post
      <4>1. UNCHANGED <<up, frames, streaming>> /\ calling # "none" /\ calling' = "none"
        BY <3>1 DEF Post, venue
      <4>2. QED
        BY <4>1 DEF RunUnsubscribe
    <3>2. CASE Start \/ subscribeOrderBook \/ unsubscribeOrderBook
      <4>1. UNCHANGED <<up, frames, streaming>> /\ calls' = calls + 1 /\ calls \in Nat
        BY <3>2
        DEF Start, subscribeOrderBook, unsubscribeOrderBook, Call, venue, TypeOK
      <4>2. QED
        BY <4>1 DEF RunUnsubscribe, counters
    <3>3. QED
      BY <1>3, <3>1, <3>2 DEF CoreStep
  <2>2. CASE entry # "sent"
    BY <1>2, <2>1, <2>2 DEF DropFollows
  <2>3. CASE entry = "sent" /\ entry' # "sent"
    <3>1. unsubscribeOrderBook
      BY <1>3, <2>3 DEF CoreStep, Start, subscribeOrderBook, Post
    <3>2. Owed("unsubscribe")'
      BY <2>3, <3>1 DEF unsubscribeOrderBook, Owed
    <3>3. QED
      BY <3>2 DEF DropFollows
  <2>4. QED
    BY <2>2, <2>3 DEF DropFollows
<1>4. CASE RunFlush
  <2>1. UNCHANGED <<up, streaming>> /\ Flush /\ ~RunUnsubscribe
    BY <1>4 DEF RunFlush, RunUnsubscribe, venue
  <2>2. up' /\ entry' # "sent" => entry # "sent" /\ UNCHANGED frames
    BY <2>1 DEF Flush
  <2>3. QED
    BY <1>2, <2>1, <2>2 DEF DropFollows
<1>5. CASE RunUnsubscribe
  <2>1. CASE up
    <3>1. frames' = Append(frames, "unsubscribe")
      BY <1>5, <2>1 DEF RunUnsubscribe
    <3>2. frames' # <<>> /\ Last(frames') = "unsubscribe"
      BY <3>1, FrameAppended DEF Ops
    <3>3. QED
      BY <3>2 DEF DropFollows
  <2>2. CASE ~up
    BY <1>5, <2>2 DEF RunUnsubscribe, DropFollows
  <2>3. QED
    BY <2>1, <2>2
<1>6. CASE LinkUp
  <2>1. ~streaming /\ frames = <<>>
    BY <1>6 DEF LinkUp, DownIsSilent
  <2>2. up' /\ entry' # "sent" => frames' = <<>> /\ ~streaming'
    BY <1>6, <2>1 DEF LinkUp, Flush, venue
  <2>3. QED
    BY <2>2 DEF DropFollows
<1>7. CASE onOrderBookMessage
  <2>1. UNCHANGED <<up, frames, streaming, calling>>
    BY <1>7 DEF onOrderBookMessage, venue
  <2>2. Owed("unsubscribe") => Owed("unsubscribe")'
    BY <1>7, <2>1, ResubscribePosts DEF onOrderBookMessage, Owed
  <2>3. CASE entry # "sent"
    BY <2>1, <2>2, <2>3 DEF DropFollows
  <2>4. CASE entry = "sent" /\ entry' # "sent"
    <3>1. Resubscribe
      BY <1>7, <2>4 DEF onOrderBookMessage
    <3>2. Owed("unsubscribe")'
      BY <2>4, <3>1, ResubscribeOwes
    <3>3. QED
      BY <3>2 DEF DropFollows
  <2>5. QED
    BY <2>3, <2>4 DEF DropFollows
<1>8. CASE VenueSubscribe \/ VenueUnsubscribe
  <2>1. /\ UNCHANGED <<up, entry, posted, calling>>
        /\ frames # <<>> /\ frames' = Tail(frames)
    BY <1>8 DEF VenueSubscribe, VenueUnsubscribe, ledger
  <2>2. Owed("unsubscribe")' <=> Owed("unsubscribe")
    BY <2>1 DEF Owed
  <2>3. CASE frames' = <<>>
    <3>1. Head(frames) = Last(frames)
      BY <2>1, <2>3, FrameRead
    <3>2. Head(frames) = "unsubscribe" => ~streaming'
      BY <1>8 DEF VenueSubscribe, VenueUnsubscribe
    <3>3. QED
      BY <2>1, <2>2, <2>3, <3>1, <3>2 DEF DropFollows
  <2>4. CASE frames' # <<>>
    <3>1. Last(frames') = Last(frames)
      BY <2>1, <2>4, FrameRead
    <3>2. QED
      BY <2>1, <2>2, <2>4, <3>1 DEF DropFollows
  <2>5. QED
    BY <2>3, <2>4
<1>9. CASE Move
  BY <1>9 DEF Move, ledger, Owed, DropFollows
<1>10. CASE LinkDown
  BY <1>10 DEF LinkDown, DropFollows
<1>11. CASE UNCHANGED vars
  BY <1>11 DEF vars, ledger, venue, Owed, DropFollows
<1>12. QED
  BY <1>3, <1>4, <1>5, <1>6, <1>7, <1>8, <1>9, <1>10, <1>11 DEF Next, IoStep, VenueStep

(* A book is crossed by a message, and then its channel is pending; when it
   counts as sent again the unsubscription comes first, and the snapshot that
   answers the frame behind it is no change to a crossed book. *)
LEMMA RemediedStep ==
  ASSUME TypeOK, Sound(venueBook), DownIsSilent, DropFollows, Remedied, [Next]_vars
  PROVE  Remedied'
<1> DEFINE Tasked == Owed("unsubscribe") => Owed("unsubscribe")' \/ RunUnsubscribe
<1>1. Tasked
  BY OwedKept DEF Tasks
<1> HIDE DEF Tasked
<1>2. CASE CoreStep
  <2>1. UNCHANGED <<up, book, frames, inbox, streaming>> /\ (entry' = "sent" => entry = "sent")
    BY <1>2
    DEF CoreStep, Start, subscribeOrderBook, unsubscribeOrderBook, Post, Call, venue
  <2>2. CASE ~RunUnsubscribe
    BY <1>1, <2>1, <2>2 DEF Remedied, SnapshotComes, DropComes, Tasked, Sent
  <2>3. CASE RunUnsubscribe
    <3>1. frames' = IF up THEN Append(frames, "unsubscribe") ELSE frames
      BY <2>3 DEF RunUnsubscribe
    <3>2. up => "unsubscribe" \in ToSet(frames')
      BY <3>1, FrameAppended DEF Ops
    <3>3. QED
      BY <2>1, <3>2 DEF DownIsSilent, Remedied, DropComes, Sent
  <2>4. QED
    BY <2>2, <2>3
<1>3. CASE RunFlush \/ LinkUp
  <2>1. UNCHANGED <<book, inbox, streaming, calling>> /\ Flush
    BY <1>3 DEF RunFlush, LinkUp, venue
  <2>2. "unsubscribe" \in ToSet(frames) => "unsubscribe" \in ToSet(frames')
    BY <2>1, FrameAppended DEF Flush, FrameQueued, Ops
  <2>3. Owed("unsubscribe") => Owed("unsubscribe")'
    <3>1. ~RunUnsubscribe \/ UNCHANGED posted
      BY <1>3 DEF RunFlush, LinkUp, RunUnsubscribe
    <3>2. QED
      BY <1>1, <2>1, <3>1 DEF Tasked, Owed
  <2>4. CASE entry = "sent"
    BY <2>1, <2>2, <2>3, <2>4 DEF Remedied, SnapshotComes, DropComes, Sent
  <2>5. CASE entry # "sent" /\ entry' = "sent"
    <3>1. CASE RunFlush
      <4>1. up
        BY <2>1, <2>5, <3>1 DEF RunFlush, Flush
      <4>2. CASE frames # <<>> /\ Last(frames) = "unsubscribe"
        <5>1. frames \in Seq(Ops)
          BY DEF TypeOK, Ops
        <5>2. Last(frames) \in ToSet(frames)
          BY <4>2, <5>1, EmptySeq, LenProperties DEF Last, ToSet
        <5>3. QED
          BY <2>2, <4>2, <5>2 DEF Remedied, DropComes, Sent
      <4>3. QED
        BY <2>1, <2>3, <2>5, <4>1, <4>2 DEF DropFollows, Remedied, DropComes
    <3>2. CASE LinkUp
      BY <2>1, <3>2 DEF LinkUp, DownIsSilent, Remedied
    <3>3. QED
      BY <1>3, <3>1, <3>2
  <2>6. QED
    BY <2>4, <2>5 DEF Remedied
<1>4. CASE RunUnsubscribe
  <2>1. UNCHANGED <<book, entry, up, inbox, streaming>>
    BY <1>4 DEF RunUnsubscribe, venue
  <2>2. up => "unsubscribe" \in ToSet(frames')
    BY <1>4, FrameAppended DEF RunUnsubscribe, Ops
  <2>3. QED
    BY <2>1, <2>2 DEF DownIsSilent, Remedied, DropComes, Sent
<1>5. CASE onOrderBookMessage
  <2>1. CASE Crossed(book')
    BY <1>5, <2>1 DEF onOrderBookMessage, Resubscribe, Remedied
  <2>2. CASE ~Crossed(book')
    BY <2>2 DEF Remedied, Crossed
  <2>3. QED
    BY <2>1, <2>2
<1>6. CASE VenueSubscribe
  <2>1. /\ UNCHANGED <<book, entry, posted, calling>>
        /\ frames # <<>> /\ frames' = Tail(frames) /\ Head(frames) = "subscribe"
    BY <1>6 DEF VenueSubscribe, ledger
  <2>2. DropComes => DropComes'
    BY <2>1, FrameRead DEF DropComes, Owed, Sent
  <2>3. CASE inbox' = Append(inbox, Snapshot(venueBook))
    <3>1. inbox \in Seq(Message) /\ venueBook \in Book
      BY DEF TypeOK
    <3>2. PICK m \in Message : m = Snapshot(venueBook)
      BY <3>1, SnapshotGives
    <3>3. m \in ToSet(inbox') /\ m.snapshot
      BY <2>3, <3>1, <3>2, InAppended DEF Snapshot
    <3>4. ~Crossed(Received(book', m))
      BY <2>1, <3>1, <3>2, SnapshotGives, SoundIsUncrossed DEF TypeOK
    <3>5. QED
      BY <3>3, <3>4 DEF Remedied, SnapshotComes
  <2>4. CASE streaming /\ UNCHANGED inbox
    BY <2>1, <2>2, <2>4 DEF Remedied, SnapshotComes
  <2>5. QED
    BY <1>6, <2>3, <2>4 DEF VenueSubscribe
<1>7. CASE VenueUnsubscribe \/ LinkDown
  BY <1>7 DEF VenueUnsubscribe, LinkDown, Remedied
<1>8. CASE Move
  <2>1. UNCHANGED <<book, entry, posted, calling, frames, streaming>>
    BY <1>8 DEF Move, ledger
  <2>2. ToSet(inbox) \subseteq ToSet(inbox')
    <3>1. inbox \in Seq(Message) /\ venueBook \in Book
      BY DEF TypeOK
    <3>2. venueBook' \in Book
      BY <1>8 DEF Move
    <3>3. PICK m \in Message : m = Change(venueBook, venueBook')
      BY <3>1, <3>2, ChangeGives
    <3>4. inbox' = inbox \/ inbox' = Append(inbox, m)
      BY <1>8, <3>3 DEF Move
    <3>5. ToSet(Append(inbox, m)) = ToSet(inbox) \cup {m}
      BY <3>1, InAppended
    <3>6. QED
      BY <3>4, <3>5
  <2>3. QED
    BY <2>1, <2>2 DEF Remedied, SnapshotComes, DropComes, Owed, Sent
<1>9. CASE UNCHANGED vars
  BY <1>9 DEF vars, ledger, venue, Remedied, SnapshotComes, DropComes, Owed, Sent
<1>10. QED
  BY <1>2, <1>3, <1>4, <1>5, <1>6, <1>7, <1>8, <1>9 DEF Next, IoStep, VenueStep

LEMMA RemedyInvStep ==
  TypeOK /\ BooksInv /\ RemedyInv /\ [Next]_vars => RemedyInv'
<1>1. BooksInv => Sound(venueBook)
  BY DEF BooksInv, VenueSound
<1>2. QED
  BY <1>1, NeverForgottenStep, DownIsSilentStep, DropFollowsStep, RemediedStep DEF RemedyInv

(* What handleError(), flushes, resubscriptions and the core's calls leave owed
   is enough for every subscription and for every crossed book. *)
THEOREM RemedyInvariant == Spec => []RemedyInv
BY RemedyInvInit, RemedyInvStep, BooksInvariant, PTL DEF Spec

----------------------------------------------------------------------------
(* The properties of the run.                                              *)

(* No call, flush, resubscription or loss of the connection, in any order, makes
   the session forget a channel of the manager. *)
THEOREM NeverForgottenAlways == Spec => []NeverForgotten
<1>1. RemedyInv => NeverForgotten
  BY DEF RemedyInv
<1>2. QED
  BY <1>1, RemedyInvariant, PTL

(* The resubscription of onMessage() does its work: a crossed book whose channel
   counts as sent again has its snapshot coming, or a venue that must send one. *)
THEOREM CrossedHasRemedy == Spec => []RemedyComes
<1>1. RemedyInv => RemedyComes
  BY DEF RemedyInv, RemedyComes, Remedied, NeverForgotten
<1>2. QED
  BY <1>1, RemedyInvariant, PTL

----------------------------------------------------------------------------
(* The session below the manager.                                          *)

LEMMA LedgerInitially == Init => Ledger!LedgerInit
BY DEF Init, Ledger!LedgerInit, Wanted, Counted

LEMMA EveryStepIsLedgers ==
  ASSUME TypeOK, [Next]_vars
  PROVE  [LedgerStep]_<<Wanted, Counted, up>>
<1> DEFINE Same == UNCHANGED <<Wanted, Counted, up>>
<1>1. ASSUME UNCHANGED <<entry, up>> PROVE Same
  BY <1>1 DEF Wanted, Counted
<1>2. ASSUME entry' = IF entry = "none" THEN "pending" ELSE entry, UNCHANGED up
      PROVE  Ledger!Want(Channel)
  BY <1>2 DEF Ledger!Want, Wanted, Counted
<1>3. CASE CoreStep
  <2>1. CASE subscribeOrderBook
    BY <1>2, <2>1 DEF subscribeOrderBook, Call, LedgerStep, Ledger!LedgerNext
  <2>2. CASE unsubscribeOrderBook
    <3>1. entry' = "none" /\ UNCHANGED up
      BY <2>2 DEF unsubscribeOrderBook, Call
    <3>2. Ledger!Unwant(Channel)
      BY <3>1 DEF Ledger!Unwant, Wanted, Counted
    <3>3. QED
      BY <3>2 DEF LedgerStep, Ledger!LedgerNext
  <2>3. CASE Start \/ Post
    BY <1>1, <2>3 DEF Start, Post, Call
  <2>4. QED
    BY <1>3, <2>1, <2>2, <2>3 DEF CoreStep
<1>4. CASE RunFlush
  <2>1. CASE up /\ entry = "pending"
    <3>1. entry' = "sent" /\ UNCHANGED up
      BY <1>4, <2>1 DEF RunFlush, Flush
    <3>2. Ledger!Send
      BY <2>1, <3>1 DEF Ledger!Send, Wanted, Counted
    <3>3. QED
      BY <3>2 DEF LedgerStep, Ledger!LedgerNext
  <2>2. CASE ~(up /\ entry = "pending")
    BY <1>1, <1>4, <2>2 DEF RunFlush, Flush
  <2>3. QED
    BY <2>1, <2>2
<1>5. CASE LinkUp
  <2>1. ~up /\ up' = TRUE /\ entry' = IF entry = "pending" THEN "sent" ELSE entry
    BY <1>5 DEF LinkUp, Flush
  <2>2. entry \in {"none", "pending"}
    BY <2>1 DEF TypeOK
  <2>3. Ledger!Up
    BY <2>1, <2>2 DEF Ledger!Up, Wanted, Counted
  <2>4. QED
    BY <2>3 DEF LedgerStep, Ledger!LedgerNext
<1>6. CASE LinkDown
  <2>1. up /\ up' = FALSE /\ entry' = IF entry = "sent" THEN "pending" ELSE entry
    BY <1>6 DEF LinkDown, Requeued
  <2>2. Ledger!Down
    BY <2>1 DEF Ledger!Down, Wanted, Counted
  <2>3. QED
    BY <2>2 DEF LedgerStep, Ledger!LedgerNext
<1>7. CASE onOrderBookMessage
  <2>1. CASE Resubscribe
    <3>1. entry' = "pending" /\ UNCHANGED up
      BY <1>7, <2>1 DEF onOrderBookMessage, Resubscribe
    <3>2. GivenUpAndWanted
      BY <3>1 DEF GivenUpAndWanted, Wanted, Counted
    <3>3. QED
      BY <1>7, <3>2 DEF LedgerStep
  <2>2. CASE UNCHANGED entry
    BY <1>1, <1>7, <2>2 DEF onOrderBookMessage
  <2>3. QED
    BY <1>7, <2>1, <2>2 DEF onOrderBookMessage
<1>8. CASE RunUnsubscribe \/ VenueStep \/ Move \/ (UNCHANGED vars)
  BY <1>1, <1>8
  DEF RunUnsubscribe, VenueStep, VenueSubscribe, VenueUnsubscribe, Move, vars, ledger
<1>9. QED
  BY <1>3, <1>4, <1>5, <1>6, <1>7, <1>8 DEF Next, IoStep

(* What this module takes for granted of the session, its ledger of the channel
   through calls, flushes, greetings and losses, is what WsSession is proved to
   implement. *)
THEOREM LedgerRelied == Spec => ReliesOnLedger
BY LedgerInitially, EveryStepIsLedgers, TypeCorrect, PTL DEF Spec, ReliesOnLedger
=============================================================================
