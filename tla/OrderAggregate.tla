--------------------------- MODULE OrderAggregate ---------------------------
(***************************************************************************)
(* The pure order aggregate of packages/domain: its life cycle, the life   *)
(* cycle of its lines, and the mutations the services ask of it.  Nothing  *)
(* here has state; a stored order is an aggregate with a version.          *)
(*                                                                         *)
(* A line is its index in the order's items, which is never reused, and    *)
(* costs one unit of money: what the money rules depend on is how many     *)
(* lines are still payable.  No operation closes an order, so the state    *)
(* "closed" and its guard are left out.                                    *)
(***************************************************************************)
EXTENDS Naturals, Sequences, FiniteSets

CONSTANT DeliveryCharge   \* what a delivery order costs besides its lines

ASSUME ChargeAssumption == DeliveryCharge \in Nat

OrderStates == {"draft", "open", "partially_paid", "paid", "cancelled"}
LineStates ==
  {"pending", "sent", "preparing", "ready", "delivered", "cancelled"}

Aggregates ==
  [status: OrderStates, lines: Seq(LineStates), charge: {0, DeliveryCharge}]

OrderTransitions ==
  [draft |-> {"open", "cancelled"},
   open |-> {"partially_paid", "paid", "cancelled"},
   partially_paid |-> {"paid", "cancelled"},
   paid |-> {"cancelled"},
   cancelled |-> {}]

LineTransitions ==
  [pending |-> {"sent", "cancelled"},
   sent |-> {"preparing", "cancelled"},
   preparing |-> {"ready", "cancelled"},
   ready |-> {"delivered", "cancelled"},
   delivered |-> {},
   cancelled |-> {}]

\* Mutant: a paid order still takes lines.
AcceptsNewLines_Paid(status) ==
  status \in {"draft", "open", "partially_paid", "paid"}

AcceptsNewLines(status) == status \in {"draft", "open", "partially_paid"}

\* The lines the kitchen has seen and not finished with.
InKitchen(order) ==
  {l \in DOMAIN order.lines :
     order.lines[l] \in {"sent", "preparing", "ready"}}

Pending(order) == {l \in DOMAIN order.lines : order.lines[l] = "pending"}

\* calculateOrderAggregateTotals: cancelled lines are not payable, nothing of
\* a cancelled order is.
Total(order) ==
  IF order.status = "cancelled" THEN 0
  ELSE order.charge
         + Cardinality({l \in DOMAIN order.lines :
                          order.lines[l] # "cancelled"})

NewOrder(charge) == [status |-> "draft", lines |-> <<>>, charge |-> charge]

AddLine(order) == [order EXCEPT !.lines = Append(@, "pending")]

SetStatus(order, to) == [order EXCEPT !.status = to]

SetLines(order, lines, to) ==
  [order EXCEPT !.lines =
     [l \in DOMAIN @ |-> IF l \in lines THEN to ELSE @[l]]]

MoveLine(order, l, to) == SetLines(order, {l}, to)

CanMoveLine(order, l, to) ==
  /\ order.status # "cancelled"
  /\ l \in DOMAIN order.lines
  /\ to \in LineTransitions[order.lines[l]]

\* assessOrderCancellation and cancelOrder, without the delivery, which only
\* the database knows.
Cancellable(order) ==
  /\ order.status # "cancelled"
  /\ \A l \in DOMAIN order.lines : order.lines[l] # "delivered"

CancelWhole(order) ==
  SetStatus(SetLines(order, InKitchen(order) \union Pending(order),
                     "cancelled"), "cancelled")
=============================================================================
