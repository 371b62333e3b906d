---------------------------- MODULE MCRestClient ----------------------------
(* A small instance of RestClient. *)
EXTENDS RestClient, TLC

CONSTANTS t1, t2

MCThreads == {t1, t2}

(* Threads are interchangeable. *)
ThreadSymmetry == Permutations(MCThreads)
=============================================================================
