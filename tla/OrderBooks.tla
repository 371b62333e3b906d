----------------------------- MODULE OrderBooks -----------------------------
(***************************************************************************)
(* The order book that src/src/lighter_ws_stream_manager.cpp keeps of a    *)
(* market, from the snapshot and the changes the venue sends, and the      *)
(* quote the gateway makes of it.  Markets share only the session, so one  *)
(* is modelled; calls for another market matter by the flush they post.    *)
(*                                                                         *)
(* The manager's book belongs to the io thread, which also runs the        *)
(* session's tasks; the core calls from a thread of its own.  Of the       *)
(* session (module WsSession) there is the ledger's entry of this channel, *)
(* the tasks posted on the strand, and the frames on their way.            *)
(***************************************************************************)
EXTENDS Naturals, SequencesExt

CONSTANTS
  Prices,    \* the prices of levels
  Opening,   \* bound: the venue's books to start from
  MaxMoves,  \* bound: changes of the venue's book
  MaxLost,   \* bound: changes that never arrive
  MaxDrops,  \* bound: losses of the connection
  MaxCalls   \* bound: calls of the core

ASSUME PricesAssumption == Prices \subseteq Nat \ {0} /\ IsFiniteSet(Prices)

Book  == [bids : SUBSET Prices, asks : SUBSET Prices]
Empty == [bids |-> {}, asks |-> {}]

(* The venue's book is never crossed. *)
Sound(b) == \A p \in b.bids, q \in b.asks : p < q

ASSUME OpeningAssumption == Opening \subseteq {b \in Book : Sound(b)}
ASSUME CountsAssumption == {MaxMoves, MaxLost, MaxDrops, MaxCalls} \subseteq Nat

VARIABLES
  session,          \* the session and the io thread exist
  book,             \* books[marketId]
  quote,            \* quoteCache
  (* the session *)
  up,               \* connected and greeted
  entry,            \* the channel's place in the ledger
  posted,           \* tasks on the strand
  calling,          \* the task the core's call has yet to post
  (* the connection and the venue *)
  frames, inbox,    \* to the venue, and from it
  venueBook,
  streaming,        \* the venue sends the channel
  silenced,         \* it stopped at a frame that came too late
  gap,              \* a change was lost after the last snapshot
  (* the bounds' counters, and what the venue has shown *)
  moves, lost, drops, calls, tops

ledger   == <<up, entry, posted>>
venue    == <<venueBook, streaming, silenced, gap, tops>>
counters == <<moves, lost, drops, calls>>
vars == <<session, book, quote, ledger, calling, frames, inbox, venue, counters>>

Message == [snapshot : BOOLEAN, on : Book, off : Book]

BestBid(b) == IF b.bids = {} THEN 0 ELSE Max(b.bids)
BestAsk(b) == IF b.asks = {} THEN 0 ELSE Min(b.asks)
Top(b)     == [bid |-> BestBid(b), ask |-> BestAsk(b)]
NoQuote    == [bid |-> 0, ask |-> 0]

TypeOK ==
  /\ session \in BOOLEAN /\ up \in BOOLEAN
  /\ book \in Book /\ venueBook \in Book
  /\ quote \in [bid : Prices \cup {0}, ask : Prices \cup {0}]
  /\ entry \in {"none", "pending", "sent"}
  /\ posted \in Seq({"flush", "unsubscribe"})
  /\ calling \in {"none", "flush", "unsubscribe"}
  /\ frames \in Seq({"subscribe", "unsubscribe"})
  /\ inbox \in Seq(Message)
  /\ streaming \in BOOLEAN /\ silenced \in BOOLEAN /\ gap \in BOOLEAN
  /\ (entry = "sent" => up) /\ (up => session)
  /\ {moves, lost, drops, calls} \subseteq Nat

Init ==
  /\ session = FALSE /\ up = FALSE
  /\ book = Empty /\ quote = NoQuote
  /\ entry = "none" /\ posted = <<>> /\ calling = "none"
  /\ frames = <<>> /\ inbox = <<>>
  /\ venueBook \in Opening
  /\ streaming = FALSE /\ silenced = FALSE /\ gap = FALSE
  /\ moves = 0 /\ lost = 0 /\ drops = 0 /\ calls = 0
  /\ tops = {Top(venueBook)}
----------------------------------------------------------------------------
(* Faulty variants of the definitions below, each a slip the code could    *)
(* have: no behaviour of the specification uses them.                      *)

FaultyNoReplay == entry
FaultyKeepsBook(m) == book
FaultyKeepsEmptied(side, on, off) == side \cup on
FaultyPublishesSnapshots(m, b) == IF m.snapshot THEN quote' = Top(b)
                                  ELSE UNCHANGED quote
FaultySubscribesAgain == /\ UNCHANGED entry
                         /\ posted' = Append(posted, "flush")
FaultyFrameLost == UNCHANGED frames
FaultyDropsOnly == entry' = "pending" /\ posted' = Append(posted, "unsubscribe")
----------------------------------------------------------------------------
(* The session, seen from the manager.                                     *)

(* flushTopics(): what is pending counts as sent once it is queued. *)
FrameQueued == frames' = Append(frames, "subscribe")

Flush == IF up' /\ entry = "pending"
         THEN entry' = "sent" /\ FrameQueued
         ELSE UNCHANGED <<entry, frames>>

RunFlush ==
  /\ posted # <<>> /\ Head(posted) = "flush"
  /\ posted' = Tail(posted)
  /\ UNCHANGED up /\ Flush
  /\ UNCHANGED <<session, book, quote, calling, inbox, venue, counters>>

RunUnsubscribe ==
  /\ posted # <<>> /\ Head(posted) = "unsubscribe"
  /\ posted' = Tail(posted)
  /\ frames' = IF up THEN Append(frames, "unsubscribe") ELSE frames
  /\ UNCHANGED <<session, book, quote, up, entry, calling, inbox, venue, counters>>

(* The venue greets a connection: the ledger is replayed. *)
LinkUp ==
  /\ session /\ ~up
  /\ up' = TRUE /\ Flush
  /\ UNCHANGED <<session, book, quote, posted, calling, inbox, venue, counters>>

(* What was sent is pending again. *)
Requeued == IF entry = "sent" THEN "pending" ELSE entry

(* handleError(): what was on its way is lost; the book stays. *)
LinkDown ==
  /\ up /\ drops < MaxDrops
  /\ drops' = drops + 1
  /\ up' = FALSE
  /\ entry' = Requeued
  /\ frames' = <<>> /\ inbox' = <<>>
  /\ streaming' = FALSE /\ silenced' = FALSE /\ gap' = FALSE
  /\ UNCHANGED <<session, book, quote, posted, calling, venueBook, tops, moves, lost,
                 calls>>
----------------------------------------------------------------------------
(* The core's calls: the ledger changes at once, the task is posted later. *)

Call == /\ calling = "none" /\ calls < MaxCalls
        /\ calls' = calls + 1
        /\ UNCHANGED <<book, quote, up, posted, frames, inbox, venue, moves, lost, drops>>

(* ensureSession(): the first call makes the session. *)
EnsureSession == session' = TRUE

(* start(), or a subscription of another market. *)
Start == /\ Call
         /\ EnsureSession
         /\ calling' \in {"none", "flush"}
         /\ UNCHANGED entry

subscribeOrderBook ==
  /\ Call
  /\ EnsureSession
  /\ entry' = IF entry = "none" THEN "pending" ELSE entry
  /\ calling' = "flush"

(* No frame is owed for a subscription not yet sent; without a session there
   is nothing to do. *)
unsubscribeOrderBook ==
  /\ Call
  /\ entry' = "none"
  /\ calling' = IF entry = "sent" THEN "unsubscribe" ELSE "none"
  /\ UNCHANGED session

Post ==
  /\ calling # "none"
  /\ posted' = Append(posted, calling)
  /\ calling' = "none"
  /\ UNCHANGED <<session, book, quote, up, entry, frames, inbox, venue, counters>>
----------------------------------------------------------------------------
(* onMessage(), on the io thread.                                          *)

(* Sizes are not kept apart: a level is there, or was given size zero. *)
applyLevels(side, on, off) == (side \ off) \cup on

Cleared(m) == IF m.snapshot THEN Empty ELSE book

Apply(b, m) == [bids |-> applyLevels(b.bids, m.on.bids, m.off.bids),
                asks |-> applyLevels(b.asks, m.on.asks, m.off.asks)]

Crossed(b) == b.bids # {} /\ b.asks # {} /\ BestBid(b) > BestAsk(b)

(* bookCB, and the quote the gateway's callback caches. *)
Publish(m, b) == quote' = Top(b)

(* session->unsubscribe(channel), session->subscribe(channel) *)
Resubscribe ==
  /\ entry' = "pending"
  /\ posted' = posted \o (IF entry = "sent" THEN <<"unsubscribe">> ELSE <<>>)
                      \o <<"flush">>

onOrderBookMessage ==
  /\ inbox # <<>>
  /\ inbox' = Tail(inbox)
  /\ LET m == Head(inbox) IN
       /\ book' = Apply(Cleared(m), m)
       /\ IF Crossed(book')
          THEN Resubscribe /\ UNCHANGED quote
          ELSE Publish(m, book') /\ UNCHANGED <<entry, posted>>
  /\ UNCHANGED <<session, up, calling, frames, venue, counters>>
----------------------------------------------------------------------------
(* The venue (external).                                                   *)

Snapshot(b) == [snapshot |-> TRUE, on |-> b, off |-> Empty]

Change(b, c) == [snapshot |-> FALSE,
                 on  |-> [bids |-> c.bids \ b.bids, asks |-> c.asks \ b.asks],
                 off |-> [bids |-> b.bids \ c.bids, asks |-> b.asks \ c.asks]]

(* A subscription is answered with the whole book; a second one while the
   channel is sent, with the book or with nothing but a complaint. *)
VenueSubscribe ==
  /\ frames # <<>> /\ Head(frames) = "subscribe"
  /\ frames' = Tail(frames)
  /\ streaming' = TRUE /\ silenced' = FALSE
  /\ \/ inbox' = Append(inbox, Snapshot(venueBook)) /\ gap' = FALSE
     \/ streaming /\ UNCHANGED <<inbox, gap>>
  /\ UNCHANGED <<session, book, quote, ledger, calling, venueBook, tops, counters>>

VenueUnsubscribe ==
  /\ frames # <<>> /\ Head(frames) = "unsubscribe"
  /\ frames' = Tail(frames)
  /\ streaming' = FALSE
  /\ silenced' = (entry = "sent" /\ "subscribe" \notin ToSet(frames'))
  /\ UNCHANGED <<session, book, quote, ledger, calling, inbox, venueBook, gap, tops,
                 counters>>

(* The market moves; the change is sent, or is lost. *)
Move ==
  /\ moves < MaxMoves
  /\ moves' = moves + 1
  /\ venueBook' \in {b \in Book : Sound(b) /\ b # venueBook}
  /\ tops' = tops \cup {Top(venueBook')}
  /\ \/ /\ inbox' = IF streaming THEN Append(inbox, Change(venueBook, venueBook'))
                    ELSE inbox
        /\ UNCHANGED <<gap, lost>>
     \/ /\ streaming /\ lost < MaxLost
        /\ lost' = lost + 1 /\ gap' = TRUE
        /\ UNCHANGED inbox
  /\ UNCHANGED <<session, book, quote, ledger, calling, frames, streaming, silenced, drops,
                 calls>>
----------------------------------------------------------------------------

(* Nothing is under way: a rest, which the market or the core may end. *)
Rests == /\ posted = <<>> /\ calling = "none" /\ frames = <<>> /\ inbox = <<>>
         /\ session => up

CoreStep == Start \/ subscribeOrderBook \/ unsubscribeOrderBook \/ Post

IoStep == RunFlush \/ RunUnsubscribe \/ LinkUp \/ onOrderBookMessage

VenueStep == VenueSubscribe \/ VenueUnsubscribe

Next == \/ CoreStep \/ IoStep \/ VenueStep
        \/ Move \/ LinkDown
        \/ (Rests /\ UNCHANGED vars)

Spec == Init /\ [][Next]_vars

(* The io thread runs its tasks and handles what it reads, the venue reads
   what it is sent, and the session comes back. *)
Fairness == /\ WF_vars(Post) /\ WF_vars(RunFlush \/ RunUnsubscribe)
            /\ WF_vars(LinkUp) /\ WF_vars(onOrderBookMessage)
            /\ WF_vars(VenueStep)

FairSpec == Spec /\ Fairness
----------------------------------------------------------------------------
(* Properties.                                                             *)

(* What a book becomes by a message. *)
Received(b, m) == Apply(IF m.snapshot THEN Empty ELSE b, m)

(* The book now, and after each message on its way. *)
BooksToCome[i \in 0..Len(inbox)] ==
  IF i = 0 THEN book ELSE Received(BooksToCome[i - 1], inbox[i])

BookToCome == BooksToCome[Len(inbox)]

(* While the venue sends the channel and no change was lost since its last
   snapshot, the book is the venue's book but for what is on its way: whatever
   stale levels a lost connection, an unsubscription or an earlier loss left in
   it (applyLevels, the clearing at lines 121-124). *)
Converges == streaming /\ ~gap => BookToCome = venueBook

(* And once nothing is on its way, the quote the gateway trades by is the
   venue's: no crossed or half-applied book has replaced it (lines 134-152,
   gateway lines 567-584). *)
QuoteIsCurrent ==
  streaming /\ ~gap /\ inbox = <<>> => book = venueBook /\ quote = Top(venueBook)

(* Unless a change was lost the gateway never trades by a quote that the venue
   never had, across reconnects and resubscriptions, and the manager sounds no
   false alarm: the book it keeps is not crossed. *)
NoPhantomQuote == lost = 0 => quote \in tops \cup {NoQuote} /\ ~Crossed(book)

Owed(task) == task \in ToSet(posted) \cup {calling}
Sent(op)   == op \in ToSet(frames)

(* A subscription is never forgotten, whatever calls, flushes, resubscriptions
   and losses of the connection met: while it is pending on a connection that
   is up the flush that will send it is owed; and once it counts as sent the
   venue sends the channel, or will when it reads its frames, or stopped at an
   unsubscribe frame that came too late (requeueing in handleError(), lines
   457-466 of lighter_ws_session.cpp; lines 142-146 of the manager). *)
NeverForgotten ==
  /\ entry = "pending" /\ up => Owed("flush")
  /\ entry = "sent" => streaming \/ silenced \/ Sent("subscribe")

(* A snapshot on its way that clears what is crossed. *)
SnapshotComes == \E m \in ToSet(inbox) : m.snapshot /\ ~Crossed(Received(book, m))
DropComes     == Owed("unsubscribe") \/ Sent("unsubscribe")

(* A crossed book is never left to itself: when its channel counts as sent
   again, a fresh snapshot is on its way, or the frame is that will bring one,
   since the venue has stopped or will stop sending before it (a subscribe frame
   alone could be answered with nothing); or the race of ws_subscribed_not_sent
   has struck (lines 137-148). *)
RemedyComes ==
  Crossed(book) /\ entry = "sent" =>
    SnapshotComes \/ DropComes \/ silenced \/ (~streaming /\ Sent("subscribe"))

(* The session this module takes for granted is the one that WsSession is shown
   to be: of this channel it is the ledger of SubscriptionLedger, one of whose
   steps each step here is, except that the pair of calls for a crossed book is
   two of them at once (lines 144-145). *)
Channel == "book"
Wanted  == IF entry = "none" THEN {} ELSE {Channel}
Counted == IF entry = "sent" THEN {Channel} ELSE {}

Ledger == INSTANCE SubscriptionLedger
            WITH Channels <- {Channel}, Books <- {Channel},
                 wanted <- Wanted, sent <- Counted

GivenUpAndWanted == /\ Wanted' = Wanted \cup {Channel}
                    /\ Counted' = Counted \ {Channel}
                    /\ UNCHANGED up

LedgerStep == Ledger!LedgerNext \/ (onOrderBookMessage /\ GivenUpAndWanted)

ReliesOnLedger == Ledger!LedgerInit /\ [][LedgerStep]_<<Wanted, Counted, up>>


(* What the core has subscribed to, and not given up, gets to its quote. *)
SubscribedGetsQuotes ==
  entry # "none" ~> entry = "none" \/ silenced \/ gap
                      \/ (streaming /\ quote = Top(venueBook))
=============================================================================
