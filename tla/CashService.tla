----------------------------- MODULE CashService -----------------------------
(***************************************************************************)
(* The cash register service: open a session, collect a payment, close the *)
(* session and count the drawer.                                           *)
(*                                                                         *)
(* A service first asks whether its command was already applied, then      *)
(* reads the order, then the register together with what was captured for  *)
(* the order, and hands the aggregates it computed to one SQL function.    *)
(* Each of these is a step of its own.                                     *)
(***************************************************************************)
EXTENDS PointOfSaleStore

FinancialKinds == {"register_open", "collect", "close", "settle"}

-----------------------------------------------------------------------------
(***************************************************************************)
(* Reads.                                                                  *)
(***************************************************************************)

\* replay_financial_command and replay_delivery_settlement.
Look(c) ==
  /\ At(c, "received", FinancialKinds)
  /\ IF Journaled(calls[c].command) THEN Replay(c)
     ELSE Proceed(c, [calls[c] EXCEPT !.stage = "looked"])

\* readOrder: a missing order is refused.
ReadOrder(c, next) ==
  LET row == orders[calls[c].command.order]
  IN IF row = Null THEN Reject(c)
     ELSE Proceed(c, [calls[c] EXCEPT !.stage = next, !.order = row])

\* The call after readRegister: the session, and what the order's payments
\* have captured.
WithRegister(c, next) ==
  [calls[c] EXCEPT !.stage = next,
                   !.session = sessions[calls[c].command.session],
                   !.captured = Captured(calls[c].command.order)]

\* What is left of the order the call read.
Remaining(call) == Total(call.order) - call.captured

Payable(order) == order.status \in {"open", "partially_paid"}

\* prepareCollection: versions, states and amount, against what was read.
Collectable(call, amount) ==
  /\ call.session # Null
  /\ call.session.version = call.command.sessionVersion
  /\ call.session.status = "open"
  /\ call.order.version = call.command.version
  /\ Payable(call.order)
  /\ amount <= Remaining(call)

ReadForCollection(c) ==
  /\ At(c, "looked", {"collect"})
  /\ ReadOrder(c, "ordered")

PrepareCollection(c) ==
  /\ At(c, "ordered", {"collect"})
  /\ LET call == [WithRegister(c, "prepared")
                    EXCEPT !.due = calls[c].command.amount]
     IN IF Collectable(call, call.due) THEN Proceed(c, call) ELSE Reject(c)

ReadForClose(c) ==
  /\ At(c, "looked", {"close"})
  /\ LET command == calls[c].command
         session == sessions[command.session]
     IN IF \/ session = Null
           \/ session.version # command.sessionVersion
           \/ session.status # "open"
        THEN Reject(c)
        ELSE Proceed(c, [calls[c] EXCEPT !.stage = "prepared",
                                         !.session = session])

-----------------------------------------------------------------------------
(***************************************************************************)
(* The session.                                                            *)
(***************************************************************************)

MayOpen(s) ==
  /\ sessions[s] = Null
  /\ \A other \in Sessions :
       sessions[other] # Null => sessions[other].status = "closed"

\* open_cash_register.
OpenRegister(c) ==
  /\ At(c, "looked", {"register_open"})
  /\ LET command == calls[c].command
         s == command.session
     IN IF Journaled(command) THEN Replay(c)
        ELSE IF ~MayOpen(s) THEN Reject(c)
        ELSE /\ sessions' = [sessions EXCEPT ![s] =
                  [status |-> "open", drawer |-> Float, version |-> 1,
                   expected |-> Null]]
             /\ Commit(c, Result(Null, 1, Null))
             /\ UNCHANGED <<orderTables, payments, sequences, deliveries>>

\* Mutant: the session's version is not compared.
SessionCurrent_Blind(call) == sessions[call.command.session].status = "open"

\* The session's row still is what the call computed its aggregate from.
SessionCurrent(call) ==
  LET row == sessions[call.command.session]
  IN /\ row.version = call.command.sessionVersion
     /\ row.status = "open"
     /\ row = call.session

\* close_cash_register: the balance the aggregate expects must be the sum of
\* the session's cash movements.
CloseRegister(c) ==
  /\ At(c, "prepared", {"close"})
  /\ LET call == calls[c]
         s == call.command.session
     IN IF Journaled(call.command) THEN Replay(c)
        ELSE IF ~SessionCurrent(call) \/ call.session.drawer # Movements(s)
        THEN Reject(c)
        ELSE /\ sessions' = [sessions EXCEPT ![s] =
                  [call.session EXCEPT !.status = "closed",
                                       !.version = @ + 1,
                                       !.expected = Movements(s)]]
             /\ Commit(c, Result(Null, call.session.version + 1, Null))
             /\ UNCHANGED <<orderTables, payments, sequences, deliveries>>

-----------------------------------------------------------------------------
(***************************************************************************)
(* Collecting.                                                             *)
(***************************************************************************)

Method(command) ==
  IF command.kind = "settle" THEN "cash" ELSE command.method

\* A tip is asked for with the payment; a settlement takes the intent's.
Tip(command) == IF command.kind = "settle" THEN 0 ELSE command.tip

\* Mutant: the tip's movement shares the number of its sale.
Numbers_Shared(command) == 1

\* How many numbers of the device's sequence a payment takes: a cash tip is a
\* movement of its own.
Numbers(command) ==
  IF Method(command) = "cash" /\ Tip(command) > 0 THEN 2 ELSE 1

\* What goes into the drawer: a card payment does not.
IntoDrawer(command, amount) ==
  IF Method(command) = "cash" THEN amount + Tip(command) ELSE 0

\* The order's row still is what the call computed its aggregate from.
OrderCurrent(call) ==
  LET row == orders[call.command.order]
  IN row.version = call.command.version /\ Payable(row) /\ row = call.order

\* Mutant: what prepareCollection checked is not checked again.
CoreAllows_Unread(call) == call.due <= Total(call.order) - call.captured

\* collect_simple_payment_core: the rows it compares under its locks.
CoreAllows(call) ==
  LET command == call.command
  IN /\ OrderCurrent(call)
     /\ SessionCurrent(call)
     /\ Captured(command.order) = call.captured
     /\ call.due <= Total(call.order) - call.captured
     /\ sequences[command.device] + 1 = command.sequence

StatusAfter(call) ==
  IF call.due = Remaining(call) THEN "paid" ELSE "partially_paid"

\* collect_simple_payment_core: the rows it writes, journal aside.
CoreWrites(call) ==
  LET command == call.command
      o == command.order
      s == command.session
  IN /\ payments' = Append(payments,
          [order |-> o, session |-> s, method |-> Method(command),
           amount |-> call.due, tip |-> Tip(command),
           device |-> command.device, number |-> command.sequence,
           key |-> command.key])
     /\ sequences' = [sequences EXCEPT ![command.device] =
          @ + Numbers(command)]
     /\ sessions' = [sessions EXCEPT ![s] =
          [call.session EXCEPT
             !.version = @ + 1,
             !.drawer = @ + IntoDrawer(command, call.due)]]
     /\ orders' = [orders EXCEPT ![o] =
          Row(SetStatus(Aggregate(call.order), StatusAfter(call)),
              orders[o].version + 1)]

CoreResult(call) ==
  Result(call.command.version + 1, call.command.sessionVersion + 1, call.due)

Collected(c) ==
  /\ CoreWrites(calls[c])
  /\ UNCHANGED <<cancellations, kds>>

\* collect_simple_payment: while a courier has the order its cash waits for
\* the settlement and its card for the delivery, which it then settles.
Collect(c) ==
  /\ At(c, "prepared", {"collect"})
  /\ LET call == calls[c]
         command == call.command
         o == command.order
         delivery == DeliveryState(o)
         settles == delivery = "delivered" /\ StatusAfter(call) = "paid"
     IN IF Journaled(command) THEN Replay(c)
        ELSE IF \/ delivery \in {"assigned", "en_route"}
                \/ delivery = "delivered" /\ Method(command) = "cash"
                \/ ~CoreAllows(call)
        THEN Reject(c)
        ELSE /\ Collected(c)
             /\ Reply(c, CoreResult(call))
             /\ IF settles
                THEN /\ deliveries' = [deliveries EXCEPT
                          ![o].state = "settled", ![o].version = @ + 1]
                     /\ journal' =
                          Logged(Logged(journal, "finance", command,
                                        CoreResult(call)),
                                 "derived", command,
                                 Result(Null, Null, call.due))
                ELSE /\ journal' = Logged(journal, "finance", command,
                                          CoreResult(call))
                     /\ UNCHANGED deliveries

CashStep(c) ==
  \/ Look(c)
  \/ OpenRegister(c)
  \/ ReadForCollection(c) \/ PrepareCollection(c) \/ Collect(c)
  \/ ReadForClose(c) \/ CloseRegister(c)
=============================================================================
