---------------------------- MODULE MCOrderBooks ----------------------------
(* A small instance of OrderBooks: three prices. *)
EXTENDS OrderBooks

MCPrices == 1..3

(* Markets with both sides; they may lose either later. *)
MCOpening == {b \in Book : Sound(b) /\ b.bids # {} /\ b.asks # {}}
=============================================================================
