---------------------------- MODULE OrderService ----------------------------
(***************************************************************************)
(* The order service: create, add a line, open, label, advance a line,     *)
(* cancel a line, send lines to the kitchen and cancel the order.          *)
(*                                                                         *)
(* create and label go straight to their SQL function.  The others read    *)
(* the order first, compute the next aggregate from what they read, and    *)
(* give it to the SQL function, which writes it or refuses.                *)
(***************************************************************************)
EXTENDS PointOfSaleStore

ReadingKinds == {"add", "open", "advance", "cancel_line", "send", "cancel"}

\* send and cancel hand a stale command to SQL, without steps: it may be a
\* retry of one already applied.
Forgiving == {"send", "cancel"}

-----------------------------------------------------------------------------
(***************************************************************************)
(* What the domain package makes of a command and the order it was read    *)
(* against.                                                                *)
(***************************************************************************)
Allowed(order, command) ==
  CASE command.kind = "add" -> AcceptsNewLines(order.status)
    [] command.kind = "open" -> "open" \in OrderTransitions[order.status]
    [] command.kind = "advance" ->
         CanMoveLine(order, command.line, command.to)
    [] command.kind = "cancel_line" ->
         /\ order.status \in {"draft", "open"}
         /\ CanMoveLine(order, command.line, "cancelled")
    [] command.kind = "send" -> command.lines \subseteq Pending(order)
    [] command.kind = "cancel" -> Cancellable(order)

Opened(order) ==
  IF order.status = "draft" THEN SetStatus(order, "open") ELSE order

Resulting(order, command) ==
  CASE command.kind = "add" -> AddLine(order)
    [] command.kind = "open" -> SetStatus(order, "open")
    [] command.kind = "advance" -> MoveLine(order, command.line, command.to)
    [] command.kind = "cancel_line" ->
         MoveLine(order, command.line, "cancelled")
    [] command.kind = "send" -> SetLines(Opened(order), command.lines, "sent")
    [] command.kind = "cancel" -> CancelWhole(order)

\* The versions a command takes: send and cancel are sequences of steps, each
\* of them a version, written together or not at all.
Steps(order, command) ==
  CASE command.kind = "send" ->
         Cardinality(command.lines) + (IF order.status = "draft" THEN 1 ELSE 0)
    [] command.kind = "cancel" -> Cardinality(InKitchen(order)) + 1
    [] OTHER -> 1

\* Mutant: only the order's own event is published when it is cancelled.
Touched_OrderOnly(order, command) ==
  CASE command.kind = "add" -> {Len(order.lines) + 1}
    [] command.kind \in {"advance", "cancel_line"} -> {command.line}
    [] command.kind = "send" -> command.lines
    [] OTHER -> {}

\* The lines a command tells the kitchen about.  A pending line that goes down
\* with its order is not among them.
Touched(order, command) ==
  CASE command.kind = "add" -> {Len(order.lines) + 1}
    [] command.kind \in {"advance", "cancel_line"} -> {command.line}
    [] command.kind = "send" -> command.lines
    [] command.kind = "cancel" -> InKitchen(order)
    [] OTHER -> {}

\* Lines in the order of the items.
InOrder(lines) ==
  CHOOSE s \in [1 .. Cardinality(lines) -> lines] :
    \A i, j \in DOMAIN s : i < j => s[i] < s[j]

\* kds_events: one per touched line, with the status it ends in, in the order
\* of the items.
Events(o, order, command) ==
  LET touched == InOrder(Touched(order, command))
      after == Resulting(order, command)
  IN [i \in DOMAIN touched |->
        [order |-> o, line |-> touched[i],
         status |-> after.lines[touched[i]]]]

-----------------------------------------------------------------------------
(***************************************************************************)
(* The services' reads.                                                    *)
(***************************************************************************)

\* readExact or read, and the domain's verdict on what it returned.
Read(c) ==
  /\ At(c, "received", ReadingKinds)
  /\ LET command == calls[c].command
         row == orders[command.order]
         exact == row # Null /\ row.version = command.version
     IN IF \/ row = Null
           \/ ~exact /\ command.kind \notin Forgiving
           \/ exact /\ ~Allowed(Aggregate(row), command)
        THEN Reject(c)
        ELSE Proceed(c, [calls[c] EXCEPT !.stage = "computed",
                                         !.order = row])

-----------------------------------------------------------------------------
(***************************************************************************)
(* The SQL functions.                                                      *)
(***************************************************************************)

\* Mutant: the row is not compared with what the command was computed from.
Current_Blind(c) == orders[calls[c].command.order] # Null

\* The version check under the row lock, and the comparisons of the aggregate
\* handed in with the stored one: the two differ in what the command changes.
Current(c) ==
  LET row == orders[calls[c].command.order]
  IN /\ row # Null
     /\ row.version = calls[c].command.version
     /\ row = calls[c].order

Create(c) ==
  /\ At(c, "received", {"create"})
  /\ LET command == calls[c].command
         o == command.order
         charge == IF o \in DeliveryOrders THEN DeliveryCharge ELSE 0
     IN IF Journaled(command) THEN Replay(c)
        ELSE IF orders[o] # Null THEN Reject(c)
        ELSE /\ orders' = [orders EXCEPT ![o] = Row(NewOrder(charge), 1)]
             /\ Commit(c, Result(1, Null, Null))
             /\ UNCHANGED <<cancellations, kds, cashTables, deliveries>>

\* assign_order_waiter and the account label: a new version of the same
\* aggregate, without reading it first.
Label(c) ==
  /\ At(c, "received", {"label"})
  /\ LET command == calls[c].command
         o == command.order
     IN IF Journaled(command) THEN Replay(c)
        ELSE IF \/ orders[o] = Null
                \/ orders[o].version # command.version
                \/ ~AcceptsNewLines(orders[o].status)
        THEN Reject(c)
        ELSE /\ orders' = [orders EXCEPT ![o].version = @ + 1]
             /\ Commit(c, Result(command.version + 1, Null, Null))
             /\ UNCHANGED <<cancellations, kds, cashTables, deliveries>>

\* What a computed command writes: the aggregate computed from the order the
\* call read, the versions its steps take, its kitchen events.
Write(c) ==
  LET command == calls[c].command
      o == command.order
      read == Aggregate(calls[c].order)
      version == orders[o].version + Steps(read, command)
  IN /\ orders' = [orders EXCEPT ![o] = Row(Resulting(read, command), version)]
     /\ kds' = kds \o Events(o, read, command)
     /\ Commit(c, Result(version, Null, Null))
     /\ UNCHANGED <<cashTables, deliveries>>

\* persist_order_mutation, persist_order_item_cancellation and
\* send_order_to_kitchen.  An aggregate that is not the stored one with the
\* command's change is refused, a stale send has no steps.
Persist(c) ==
  /\ At(c, "computed", ReadingKinds \ {"cancel"})
  /\ IF Journaled(calls[c].command) THEN Replay(c)
     ELSE IF ~Current(c) THEN Reject(c)
     ELSE Write(c) /\ UNCHANGED cancellations

\* Mutant: a courier on the road does not stop a cancellation.
MayCancel_Anywhere(o) == Cancellable(Aggregate(orders[o]))

MayCancel(o) ==
  /\ Cancellable(Aggregate(orders[o]))
  /\ DeliveryState(o) \notin {"assigned", "en_route"}

\* Mutant: only an order paid in full is owed a refund.
Refund_PaidOnly(o) ==
  IF orders[o].status = "paid" THEN "pending" ELSE "none"

Refund(o) ==
  IF Captured(o) > 0 \/ orders[o].status \in {"partially_paid", "paid"}
  THEN "pending" ELSE "none"

\* cancel_order.
CancelOrder(c) ==
  /\ At(c, "computed", {"cancel"})
  /\ LET o == calls[c].command.order
     IN IF Journaled(calls[c].command) THEN Replay(c)
        ELSE IF ~Current(c) \/ ~MayCancel(o) THEN Reject(c)
        ELSE /\ Write(c)
             /\ cancellations' = [cancellations EXCEPT ![o] =
                  [captured |-> Captured(o), refund |-> Refund(o)]]

OrderStep(c) ==
  Create(c) \/ Read(c) \/ Persist(c) \/ Label(c) \/ CancelOrder(c)
=============================================================================
