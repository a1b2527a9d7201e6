----------------------------- MODULE OrderLedger -----------------------------
(***************************************************************************)
(* What the shop promises about the status of an order, whoever changes    *)
(* it: an order is placed as "Pending", sent to delivery or cancelled, and *)
(* one in delivery is completed or still cancelled.  "Cancel" and          *)
(* "Completed" are final.  An order that is not placed yet is "Absent".    *)
(* The admin panel's part are the moves to "Delivery" and "Cancel" (the    *)
(* two buttons of SingleOrderWidget); the others are made by its clients.  *)
(***************************************************************************)
CONSTANT Orders

VARIABLE ledger

Stored   == {"Pending", "Delivery", "Cancel", "Completed"}
Statuses == Stored \cup {"Absent"}

Moves(s) ==
    CASE s = "Absent"   -> {"Pending"}
      [] s = "Pending"  -> {"Delivery", "Cancel"}
      [] s = "Delivery" -> {"Cancel", "Completed"}
      [] OTHER          -> {}

Init == ledger \in [Orders -> Statuses]

Advance(o) == \E s \in Moves(ledger[o]) : ledger' = [ledger EXCEPT ![o] = s]

Next == \E o \in Orders : Advance(o)

Spec == Init /\ [][Next]_ledger
=============================================================================
