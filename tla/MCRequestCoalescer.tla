-------------------------- MODULE MCRequestCoalescer --------------------------
(* An instance of RequestCoalescer for TLC: the callers in app/expenses and *)
(* app/resources pass a bound method and no arguments, so that a key is     *)
(* made of the prefix alone (expenses/service.py:142, 148;                  *)
(* resources/service.py:130).                                               *)
EXTENDS RequestCoalescer

MCRequests == {"expenses of A", "expenses of B", "resources of A"}
MCKeys == {"expenses", "resources"}
MCKeyOf == [q \in Requests |-> IF q = "resources of A" THEN "resources" ELSE "expenses"]
===============================================================================
