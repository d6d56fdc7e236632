----------------------------- MODULE PointOfSale -----------------------------
(***************************************************************************)
(* The order, cash register and delivery services over one database, each  *)
(* serving several requests at a time.                                     *)
(***************************************************************************)
EXTENDS OrderService, DeliveryService

Serve(c) == OrderStep(c) \/ CashStep(c) \/ DeliveryStep(c)

Next == \E c \in Callers : Issue(c) \/ Retry(c) \/ Drop(c) \/ Serve(c)

Spec == Init /\ [][Next]_vars
=============================================================================
