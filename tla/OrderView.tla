------------------------------ MODULE OrderView ------------------------------
(***************************************************************************)
(* What the gateway of src/src/lighter_execution_gateway.cpp promises the  *)
(* trading core about each order it submits, without transactions, nonces  *)
(* or feeds: an order opens once, its fills grow up to its quantity while  *)
(* it is open, and nothing is said of it after it is over.                 *)
(***************************************************************************)
EXTENDS Naturals

CONSTANTS Orders, Qty

VARIABLES phase, credited

view == <<phase, credited>>

ViewInit == /\ phase = [o \in Orders |-> "new"]
            /\ credited = [o \in Orders |-> 0]

Open(o) == /\ phase[o] = "new"
           /\ phase' = [phase EXCEPT ![o] = "open"]
           /\ UNCHANGED credited

Credit(o) == /\ phase[o] = "open"
             /\ \E n \in (credited[o] + 1)..Qty :
                  credited' = [credited EXCEPT ![o] = n]
             /\ UNCHANGED phase

End(o) == /\ phase[o] = "open"
          /\ phase' = [phase EXCEPT ![o] = "over"]
          /\ UNCHANGED credited

ViewNext == \E o \in Orders : Open(o) \/ Credit(o) \/ End(o)

ViewSpec == ViewInit /\ [][ViewNext]_view
=============================================================================
