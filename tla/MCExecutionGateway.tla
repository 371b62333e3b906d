------------------------- MODULE MCExecutionGateway -------------------------
(* Small instances of ExecutionGateway. *)
EXTENDS ExecutionGateway, TLC

CONSTANTS o1, o2, t1, t2

MCOrders   == {o1, o2}
MCOneOrder == {o1}
MCThreads  == {t1, t2}

(* Orders and threads are interchangeable. *)
NameSymmetry == Permutations(MCOrders) \cup Permutations(MCThreads)
=============================================================================
