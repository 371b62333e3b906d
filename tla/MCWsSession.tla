---------------------------- MODULE MCWsSession ----------------------------
(* Small instances of WsSession: an order book, which its users drop and   *)
(* take up again, and an account feed, which they keep.                    *)
EXTENDS WsSession, TLC

CONSTANTS book, account, t1, t2

MCChannels == {book, account}
MCBooks    == {book}
MCCallers  == {t1, t2}
MCOneCaller == {t1}

CallerSymmetry == Permutations(MCCallers)
=============================================================================
