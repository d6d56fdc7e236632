---------------------------- MODULE CaptureSale ----------------------------
(***************************************************************************)
(* What turns a capture into an order: its lines, its delivery quote, how  *)
(* it will be paid, and the confirmation.  Here the service works before   *)
(* SQL does: it asks the journal whether the command was already applied,  *)
(* reads the capture and the menu in several steps, and hands what it      *)
(* computed to one SQL function; others write in between.                  *)
(***************************************************************************)
EXTENDS CaptureDesk

ProbedKinds == {"select", "quote", "intent", "confirm"}

\* The call in its next stage.
Onward(c, stage) == [calls[c] EXCEPT !.stage = stage]

\* The journal is asked first, so that nothing that changed since the command
\* was applied can refuse its retry.
Probe(c) ==
  /\ At(c, "received", ProbedKinds)
  /\ IF Journaled(calls[c].command) THEN End(c)
     ELSE Proceed(c, Onward(c, "probed"))

-----------------------------------------------------------------------------
(***************************************************************************)
(* The lines.                                                              *)
(***************************************************************************)

\* A selection is priced with the menu the client showed, if it still is the
\* published one.
PriceSelection(c) ==
  LET command == calls[c].command
  IN /\ At(c, "probed", {"select"})
     /\ IF command.catalog = head
        THEN Proceed(c, [Onward(c, "ready") EXCEPT !.plan =
               [kind |-> "selection", lines |-> command.lines,
                catalog |-> command.catalog, customer |-> Null]])
        ELSE End(c)

\* A plan of zero lines is no plan.
StoredPlan(c) ==
  IF calls[c].plan.lines = 0 THEN Null
  ELSE With(calls[c].plan, [applied |-> calls[c].command.version + 1])

ReplaceSelection(c) ==
  LET command == calls[c].command
      row == captures[command.capture]
  IN /\ At(c, "ready", {"select"})
     /\ Transaction(c,
          Holds(row, command) /\ calls[c].plan.catalog = head, row,
          [Effects(command.capture, row) EXCEPT !.plan = StoredPlan(c)])

\* An earlier order of the customer is matched against the menu of the moment.
PlanRepeat(c) ==
  LET command == calls[c].command
  IN /\ At(c, "received", {"repeat"})
     /\ Proceed(c, [Onward(c, "ready") EXCEPT !.plan =
          [kind |-> "repeat", lines |-> command.lines, catalog |-> head,
           customer |-> command.customer]])

RepeatOrder(c) ==
  LET command == calls[c].command
      row == captures[command.capture]
  IN /\ At(c, "ready", {"repeat"})
     /\ Transaction(c,
          /\ Holds(row, command)
          /\ row.customer = command.customer /\ row.party # Null
          /\ calls[c].plan.catalog = head, row,
          [Effects(command.capture, row) EXCEPT !.plan = StoredPlan(c)])

-----------------------------------------------------------------------------
(***************************************************************************)
(* The delivery quote and the payment intent.                              *)
(***************************************************************************)

\* The capture's address is looked up in the delivery zones of the moment.
ComputeQuote(c) ==
  LET command == calls[c].command
      row == captures[command.capture]
  IN /\ At(c, "probed", {"quote"})
     /\ IF row # Null /\ row.address # Null
        THEN \E covered \in BOOLEAN, fee \in Fees :
               Proceed(c, [Onward(c, "ready") EXCEPT !.quote =
                 [id |-> command.version + 1, address |-> row.address,
                  covered |-> covered, fee |-> IF covered THEN fee ELSE 0,
                  live |-> TRUE, applied |-> command.version + 1]])
        ELSE End(c)

SetQuote(c) ==
  LET command == calls[c].command
      row == captures[command.capture]
  IN /\ At(c, "ready", {"quote"})
     /\ Transaction(c, Holds(row, command) /\ row.channel = "delivery", row,
          [Effects(command.capture, row) EXCEPT !.quote = calls[c].quote])

\* The lines can be priced: the menu they were chosen from is the published
\* one.
Priceable(plan) == plan # Null /\ plan.catalog = head

TotalOf(basis) == Priced(basis.lines, basis.catalog) + basis.fee

PriceIntent(c) ==
  LET command == calls[c].command
      k == command.capture
      row == captures[k]
      basis == Basis(plans[k], row.channel, quotes[k])
  IN /\ At(c, "probed", {"intent"})
     /\ IF /\ row # Null /\ row.channel # Null /\ Priceable(plans[k])
           /\ Covers(command.tender, TotalOf(basis))
        THEN Proceed(c, [Onward(c, "ready") EXCEPT !.basis = basis])
        ELSE End(c)

SetIntent(c) ==
  LET command == calls[c].command
      row == captures[command.capture]
  IN /\ At(c, "ready", {"intent"})
     /\ Transaction(c, Holds(row, command), row,
          [Effects(command.capture, row) EXCEPT !.intent =
             [tender |-> command.tender, basis |-> calls[c].basis,
              applied |-> command.version + 1]])

-----------------------------------------------------------------------------
(***************************************************************************)
(* The confirmation.                                                       *)
(***************************************************************************)

\* What the service asks of the capture itself, and of the plan it has now.
ReadCapture(c) ==
  LET command == calls[c].command
      row == captures[command.capture]
  IN /\ At(c, "probed", {"confirm"})
     /\ IF /\ Current(row, command)
           /\ row.attention = "claimed" /\ row.lease = command.lease
           /\ row.channel # Null
           /\ row.channel = "delivery" => row.party # Null /\ row.address # Null
        THEN Proceed(c, [Onward(c, "read") EXCEPT
                           !.plan = plans[command.capture],
                           !.channel = row.channel])
        ELSE End(c)

\* A stored intent is good while it was priced on what is stored now, in the
\* published menu, and covers it.
IntentGood(k) ==
  \/ intents[k] = Null
  \/ /\ Priceable(plans[k]) /\ captures[k].channel # Null
     /\ intents[k].basis = Basis(plans[k], captures[k].channel, quotes[k])
     /\ Covers(intents[k].tender, TotalOf(intents[k].basis))

\* Then everything again, for the intent and the quote.
ReadMoney(c) ==
  LET k == calls[c].command.capture
  IN /\ At(c, "read", {"confirm"})
     /\ IF IntentGood(k)
        THEN Proceed(c, [Onward(c, "checked") EXCEPT !.quote = quotes[k]])
        ELSE End(c)

\* The order is built: its lines at the prices of the menu of the moment,
\* which for a selection is still the one it was chosen from, and its charge
\* from the quote.
Built(call) ==
  [channel |-> call.channel,
   lines |-> IF call.plan = Null THEN 0 ELSE call.plan.lines,
   catalog |-> IF call.plan = Null THEN Null ELSE head,
   charge |-> IF call.channel = "delivery" /\ call.quote # Null
              THEN call.quote.fee ELSE Null,
   quote |-> QuoteOf(call.channel, call.quote)]

SamePlan(plan, stored) ==
  stored # Null /\ \A field \in {"kind", "lines", "catalog", "customer"} :
                     stored[field] = plan[field]

\* Mutant: a selection is priced in whatever menu is published now.
Materialize_AnyMenu(c) ==
  LET call == calls[c]
  IN /\ At(c, "checked", {"confirm"})
     /\ Proceed(c, [NewCall(call.command) EXCEPT
                      !.stage = "ready", !.order = Built(call)])

Materialize(c) ==
  LET call == calls[c]
      k == call.command.capture
  IN /\ At(c, "checked", {"confirm"})
     /\ IF call.plan # Null =>
             /\ SamePlan(call.plan, plans[k])
             /\ call.plan.kind = "selection" => call.plan.catalog = head
        THEN Proceed(c, [NewCall(call.command) EXCEPT
                           !.stage = "ready", !.order = Built(call)])
        ELSE End(c)

\* The stored lines, priced again in the published menu, are the order's.  A
\* repeated order is confirmed at the version its lines were put in.
PlanAgrees(k, order, version) ==
  LET plan == plans[k]
  IN IF plan = Null THEN order.lines = 0
     ELSE /\ plan.kind = "repeat" => plan.applied = version
          /\ order.lines = plan.lines
          /\ Priced(order.lines, order.catalog) = Priced(plan.lines, head)

\* A delivery has a quote for its address that covers it, has not expired and
\* is the one the order is charged by.
QuoteAgrees(k, order) ==
  LET quote == quotes[k]
  IN /\ quote # Null => quote.address = captures[k].address
     /\ IF captures[k].channel = "delivery"
        THEN /\ quote # Null
             /\ quote.covered /\ quote.live
             /\ order.charge = quote.fee /\ order.quote = quote.id
        ELSE order.charge = Null

\* The last version a command of these kinds wrote.
LastWrite(k, kinds) ==
  Max({0} \union {journal[key].version : key \in
        {x \in DOMAIN journal : /\ journal[x].command.capture = k
                                /\ journal[x].command.kind \in kinds}})

\* Nothing the intent was priced on was written after it.
IntentFresh(k) ==
  \/ intents[k] = Null
  \/ /\ LastWrite(k, {"select", "repeat", "fulfillment"}) <= intents[k].applied
     /\ quotes[k] # Null => quotes[k].applied <= intents[k].applied

\* Mutant: the claim that was checked before the lock is not checked under it.
Confirmable_Unlocked(c) ==
  LET k == calls[c].command.capture
  IN /\ calls[c].command.order \notin DOMAIN taken
     /\ captures[k].channel = calls[c].order.channel
     /\ QuoteAgrees(k, calls[c].order) \/ captures[k].status # "draft"

Confirmable(c) ==
  LET command == calls[c].command
      k == command.capture
      row == captures[k]
      order == calls[c].order
  IN /\ command.order \notin DOMAIN taken
     /\ PlanAgrees(k, order, command.version)
     /\ QuoteAgrees(k, order)
     /\ IntentFresh(k)
     /\ Holds(row, command)
     /\ row.channel # Null /\ row.channel = order.channel
     /\ row.channel = "delivery" => row.party # Null /\ row.address # Null

\* The order with everything frozen beside it.
Frozen(k, command, order) ==
  [capture |-> k, version |-> command.version, channel |-> order.channel,
   lines |-> order.lines, catalog |-> order.catalog, charge |-> order.charge,
   address |-> captures[k].address, quote |-> quotes[k],
   intent |-> intents[k]]

Confirm(c) ==
  LET command == calls[c].command
      k == command.capture
      row == [Released(captures[k], "unclaimed") EXCEPT !.status = "confirmed"]
  IN /\ At(c, "ready", {"confirm"})
     /\ Transaction(c, Confirmable(c), row,
          [Effects(k, row) EXCEPT !.taken =
             Put(taken, command.order, Frozen(k, command, calls[c].order))])

SaleStep(c) ==
  \/ Probe(c) \/ PriceSelection(c) \/ ReplaceSelection(c) \/ PlanRepeat(c)
  \/ RepeatOrder(c) \/ ComputeQuote(c) \/ SetQuote(c) \/ PriceIntent(c)
  \/ SetIntent(c) \/ ReadCapture(c) \/ ReadMoney(c) \/ Materialize(c)
  \/ Confirm(c)
=============================================================================
