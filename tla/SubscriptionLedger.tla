-------------------------- MODULE SubscriptionLedger --------------------------
(***************************************************************************)
(* What the session of src/src/lighter_ws_session.cpp promises about       *)
(* subscriptions, without sockets, queues or timers: the channels its      *)
(* users want, those it counts as sent on the current connection, and      *)
(* whether that connection is up and greeted.  What is wanted changes by a *)
(* caller's wish only; what is sent is a part of it, sent only while the   *)
(* link is up and forgotten as a whole when the link goes down.            *)
(***************************************************************************)
CONSTANTS Channels, Books

VARIABLES wanted, sent, up

ledger == <<wanted, sent, up>>

LedgerInit == wanted = {} /\ sent = {} /\ up = FALSE

Want(ch) == /\ wanted' = wanted \cup {ch}
            /\ UNCHANGED <<sent, up>>

Unwant(ch) == /\ wanted' = wanted \ {ch}
              /\ sent' = sent \ {ch}
              /\ UNCHANGED up

(* The greeting, and with it the replay of everything wanted. *)
Up == ~up /\ up' = TRUE /\ sent' = wanted /\ UNCHANGED wanted

Send == up /\ sent' = wanted /\ UNCHANGED <<wanted, up>>

Down == up /\ up' = FALSE /\ sent' = {} /\ UNCHANGED wanted

LedgerNext == \/ \E ch \in Channels : Want(ch)
              \/ \E ch \in Books : Unwant(ch)
              \/ Up \/ Send \/ Down

LedgerSpec == LedgerInit /\ [][LedgerNext]_ledger
=============================================================================
