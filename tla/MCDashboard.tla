----------------------------- MODULE MCDashboard -----------------------------
EXTENDS Dashboard

CONSTANTS o1, o2

(* Different prices, so that no two sets of orders earn the same.  *)
MCPrice == [o \in Orders |-> IF o = o1 THEN 1 ELSE 2]
=============================================================================
