--------------------------- MODULE DeliveryService ---------------------------
(***************************************************************************)
(* The delivery service: assign a courier, dispatch, complete, fail, and   *)
(* settle a delivered order in cash, or close it when it was prepaid.      *)
(***************************************************************************)
EXTENDS CashService

TripKinds == {"assign", "dispatch", "complete", "fail"}

-----------------------------------------------------------------------------
(***************************************************************************)
(* apply_delivery_transition.                                              *)
(***************************************************************************)

MaxAttempts == 2

Unassigned(courier) ==
  [state |-> "pending", courier |-> courier, attempts |-> 0, version |-> 0]

\* Where the trip stands; an order nobody was assigned to has no row yet.
Trip(o, command) ==
  IF deliveries[o] = Null
  THEN Unassigned(IF command.kind = "assign" THEN command.courier ELSE Null)
  ELSE deliveries[o]

MayMove(trip, command) ==
  CASE command.kind = "assign" ->
         /\ trip.state \in {"pending", "assigned", "failed"}
         /\ trip.state = "assigned" => trip.courier # command.courier
         /\ trip.state = "failed" => trip.attempts < MaxAttempts
    [] command.kind = "dispatch" ->
         trip.state = "assigned" /\ trip.attempts < MaxAttempts
    [] OTHER -> trip.state = "en_route"

Moved(trip, command) ==
  LET next == [trip EXCEPT !.version = @ + 1]
  IN CASE command.kind = "assign" ->
            [next EXCEPT !.state = "assigned", !.courier = command.courier]
       [] command.kind = "dispatch" ->
            [next EXCEPT !.state = "en_route", !.attempts = @ + 1]
       [] command.kind = "complete" -> [next EXCEPT !.state = "delivered"]
       [] command.kind = "fail" -> [next EXCEPT !.state = "failed"]

Deliverable(o) ==
  /\ orders[o] # Null
  /\ orders[o].status \in {"open", "partially_paid", "paid"}

MoveDelivery(c) ==
  /\ At(c, "received", TripKinds)
  /\ LET command == calls[c].command
         o == command.order
         trip == Trip(o, command)
     IN IF Journaled(command) THEN Replay(c)
        ELSE IF \/ ~Deliverable(o)
                \/ trip.version # command.deliveryVersion
                \/ ~MayMove(trip, command)
        THEN Reject(c)
        ELSE /\ deliveries' = [deliveries EXCEPT ![o] = Moved(trip, command)]
             /\ Commit(c, Result(Null, Null, Null))
             /\ UNCHANGED <<orderTables, cashTables>>

-----------------------------------------------------------------------------
(***************************************************************************)
(* settle.  After the look at the journal it weighs what is left to pay,   *)
(* from an order and a register read one after the other; when money is    *)
(* left it reads both again to prepare the collection.                     *)
(***************************************************************************)
ReadForBalance(c) ==
  /\ At(c, "looked", {"settle"})
  /\ ReadOrder(c, "weighing")

\* remainingBalance, and the branch on it.  A delivery whose intent is not
\* cash is not settled here while money is left.
Weigh(c) ==
  /\ At(c, "weighing", {"settle"})
  /\ LET call == WithRegister(c, "weighed")
         left == Remaining(call)
     IN IF \/ call.session = Null
           \/ left < 0
           \/ left > 0 /\ call.command.order \notin CashIntent
        THEN Reject(c)
        ELSE Proceed(c, [call EXCEPT
                           !.stage = IF left = 0 THEN "prepaid" ELSE @,
                           !.due = left])

ReadForSettlement(c) ==
  /\ At(c, "weighed", {"settle"})
  /\ ReadOrder(c, "ordered")

PrepareSettlement(c) ==
  /\ At(c, "ordered", {"settle"})
  /\ LET call == WithRegister(c, "prepared")
     IN IF Collectable(call, call.due) THEN Proceed(c, call) ELSE Reject(c)

\* The delivery a settlement is written against.
Delivered(command) ==
  /\ deliveries[command.order] # Null
  /\ deliveries[command.order].version = command.deliveryVersion
  /\ deliveries[command.order].state = "delivered"

Settled(o) ==
  deliveries' = [deliveries EXCEPT ![o].state = "settled",
                                   ![o].version = @ + 1]

\* The settlement's journal entry: what it collected, Null for nothing.
SettlementEntry(log, command, amount) ==
  Logged(log, "delivery", command, Result(Null, Null, amount))

\* settle_delivery: the collect and the settlement in one transaction, which
\* must leave the order paid.  A stored settlement is the same one only if it
\* collected the same money.
Settle(c) ==
  /\ At(c, "prepared", {"settle"})
  /\ LET call == calls[c]
         command == call.command
         o == command.order
     IN IF Journaled(command)
        THEN IF Entry(command).result.payment = call.due
             THEN Replay(c) ELSE Reject(c)
        ELSE IF \/ call.due # Total(call.order) - call.captured
                \/ ~Payable(orders[o]) \/ ~Delivered(command)
                \/ ~CoreAllows(call)
        THEN Reject(c)
        ELSE /\ Collected(c)
             /\ Settled(o)
             /\ journal' = SettlementEntry(
                             Logged(journal, "finance", command,
                                    CoreResult(call)), command, call.due)
             /\ Reply(c, Result(Null, Null, call.due))

\* settle_prepaid_delivery: nothing is collected.  A stored settlement is
\* answered without its payment, whatever it collected.
SettlePrepaid(c) ==
  /\ At(c, "prepaid", {"settle"})
  /\ LET command == calls[c].command
         o == command.order
     IN IF Journaled(command) /\ Entry(command).command = command
        THEN /\ Reply(c, Result(Null, Null, Null))
             /\ UNCHANGED <<orderTables, cashTables, deliveries, journal>>
        ELSE IF \/ Journaled(command)
                \/ orders[o].status # "paid" \/ ~Delivered(command)
        THEN Reject(c)
        ELSE /\ Settled(o)
             /\ journal' = SettlementEntry(journal, command, Null)
             /\ Reply(c, Result(Null, Null, Null))
             /\ UNCHANGED <<orderTables, cashTables>>

DeliveryStep(c) ==
  \/ MoveDelivery(c)
  \/ ReadForBalance(c) \/ Weigh(c)
  \/ ReadForSettlement(c) \/ PrepareSettlement(c)
  \/ Settle(c) \/ SettlePrepaid(c)
=============================================================================
