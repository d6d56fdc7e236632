---------------------------- MODULE PosProperties ----------------------------
(***************************************************************************)
(* What the point of sale promises, whatever its requests interleave,      *)
(* repeat or lose.                                                         *)
(***************************************************************************)
EXTENDS PointOfSale

\* Every variable holds values of the shape its table or request has.
PosTypeOK ==
  /\ \A o \in Orders : orders[o] # Null => orders[o] \in OrderRows
  /\ \A o \in Orders : cancellations[o] # Null
                         => cancellations[o] \in Cancellations
  /\ kds \in Seq(KdsEvents)
  /\ payments \in Seq(Payments)
  /\ \A s \in Sessions : sessions[s] # Null => sessions[s] \in SessionRows
  /\ sequences \in [Devices -> Nat]
  /\ \A o \in Orders : deliveries[o] # Null => deliveries[o] \in DeliveryRows
  /\ DOMAIN journal \subseteq Tables \X Nat
  /\ \A c \in Callers : calls[c] # Null =>
       /\ calls[c].captured \in Nat /\ calls[c].due \in Nat
       /\ calls[c].order # Null => calls[c].order \in OrderRows
       /\ calls[c].session # Null => calls[c].session \in SessionRows

-----------------------------------------------------------------------------
(***************************************************************************)
(* Orders and the kitchen.                                                 *)
(***************************************************************************)

Claims(o) ==
  {x \in DOMAIN journal :
     /\ journal[x].result.order # Null
     /\ journal[x].command.order = o}

From(x) ==
  IF journal[x].command.kind = "create" THEN 0 ELSE journal[x].command.version

SessionClaims(s) ==
  {x \in DOMAIN journal :
     /\ journal[x].result.session # Null
     /\ journal[x].command.session = s}

SessionFrom(x) ==
  IF journal[x].command.kind = "register_open" THEN 0
  ELSE journal[x].command.sessionVersion

\* The audit is complete: every version an order or a register session ever
\* had was made by exactly one journaled command, written against the version
\* before.  Two commands computed from one version, or one command applied
\* twice, would both claim it; a write nobody journaled would leave a gap.
VersionsExplained ==
  /\ \A o \in Orders :
       LET spans == {<<From(x), journal[x].result.order, x>> : x \in Claims(o)}
       IN \A v \in 1 .. MaxCommands * MaxLines :
            Cardinality({span \in spans : span[1] < v /\ v <= span[2]})
              = (IF v <= OrderVersion(o) THEN 1 ELSE 0)
  /\ \A s \in Sessions :
       LET spans == {<<SessionFrom(x), journal[x].result.session, x>> :
                       x \in SessionClaims(s)}
       IN \A v \in 1 .. MaxCommands :
            Cardinality({span \in spans : span[1] < v /\ v <= span[2]})
              = (IF v <= SessionVersion(s) THEN 1 ELSE 0)

\* The events that tell the kitchen of a line, by their cursors.
Tells(o, l) == {i \in DOMAIN kds : kds[i].order = o /\ kds[i].line = l}

\* What the kitchen was told of a line is its history: from pending, by the
\* moves the life cycle allows, to where the line is now.  The one thing it
\* is not told is that a line it never had to cook went down with its order.
KitchenTold ==
  \A o \in Created : \A l \in DOMAIN orders[o].lines :
    LET told == Tells(o, l)
        now == orders[o].lines[l]
    IN /\ \E first \in told :
            /\ \A i \in told : first <= i
            /\ kds[first].status = "pending"
       /\ \A i, j \in told :
            i < j /\ (\A k \in told : k <= i \/ j <= k)
              => kds[j].status \in LineTransitions[kds[i].status]
       /\ \E last \in told :
            /\ \A i \in told : i <= last
            /\ \/ kds[last].status = now
               \/ /\ kds[last].status = "pending"
                  /\ now = "cancelled" /\ orders[o].status = "cancelled"

\* A step that leaves an order where it was or moves it on.
MovesForward(o) ==
  LET old == orders[o]
      new == orders'[o]
  IN /\ new # Null
     /\ new.status \in {old.status} \union OrderTransitions[old.status]
     /\ \A l \in DOMAIN old.lines :
          /\ l \in DOMAIN new.lines
          /\ new.lines[l] \in {old.lines[l]} \union LineTransitions[old.lines[l]]
     /\ new # old => new.version > old.version

\* No request undoes another's work: an order and its lines only move along
\* their life cycles, no line disappears, and whatever changes takes a new
\* version with it.
OrdersMoveForward == [][\A o \in Created : MovesForward(o)]_vars

-----------------------------------------------------------------------------
(***************************************************************************)
(* Money.                                                                  *)
(***************************************************************************)

\* An order's status says how much of its total was captured, and neither a
\* payment nor a new, cancelled or unpaid line can make the two disagree.
MoneyMatchesStatus ==
  \A o \in Created :
    LET total == Total(orders[o])
    IN CASE orders[o].status \in {"draft", "open"} -> Captured(o) = 0
         [] orders[o].status = "partially_paid" ->
              0 < Captured(o) /\ Captured(o) < total
         [] orders[o].status = "paid" -> Captured(o) = total
         [] OTHER -> TRUE

\* A cancelled order owes back exactly what was captured for it: nothing is
\* forgotten when it is cancelled and nothing is captured afterwards.
RefundOwed ==
  \A o \in Created :
    /\ (cancellations[o] # Null) <=> (orders[o].status = "cancelled")
    /\ cancellations[o] # Null =>
         /\ cancellations[o].captured = Captured(o)
         /\ (cancellations[o].refund = "pending") <=> (Captured(o) > 0)

\* The drawer the session's aggregate expects is its float and its recorded
\* cash movements, and a closed session keeps the balance it was counted
\* against: no payment is lost to another or slips in behind the close.  The
\* register's money is in one session at a time.
DrawerReconciles ==
  /\ \A s \in Sessions : sessions[s] # Null =>
       /\ sessions[s].drawer = Movements(s)
       /\ sessions[s].status = "closed" => sessions[s].expected = Movements(s)
  /\ \A s, t \in {s \in Sessions : sessions[s] # Null} :
       sessions[s].status = "open" /\ sessions[t].status = "open" => s = t

\* No key is charged twice, however often its command is sent, also when it
\* is sent again with the versions of the moment, and every charge is the one
\* journaled under its key.
ChargedOnce ==
  /\ \A i, j \in DOMAIN payments :
       payments[i].key = payments[j].key => i = j
  /\ \A i \in DOMAIN payments :
       LET entry == <<"finance", payments[i].key>>
       IN /\ entry \in DOMAIN journal
          /\ journal[entry].command.order = payments[i].order
          /\ journal[entry].result.payment = payments[i].amount

-----------------------------------------------------------------------------
(***************************************************************************)
(* The services keep the Ledger: a bill is an order's status and total with *)
(* its payments and its cancellation's record, a till is a session's row.   *)
(***************************************************************************)
Stage(status) ==
  CASE status \in {"draft", "open"} -> "unpaid"
    [] status = "partially_paid" -> "partial"
    [] status = "paid" -> "paid"
    [] OTHER -> "void"

Owed(cancellation) ==
  IF cancellation # Null /\ cancellation.refund = "pending"
  THEN cancellation.captured ELSE 0

BillOf(row, cancellation, captured) ==
  IF row = Null
  THEN [stage |-> "none", due |-> 0, paid |-> captured,
        owed |-> Owed(cancellation)]
  ELSE [stage |-> Stage(row.status),
        due |-> IF row.status = "cancelled" THEN 0 ELSE Total(row),
        paid |-> captured, owed |-> Owed(cancellation)]

TillOf(row) ==
  IF row = Null THEN [state |-> "none", cash |-> 0, counted |-> 0]
  ELSE [state |-> row.status, cash |-> row.drawer,
        counted |-> IF row.expected = Null THEN 0 ELSE row.expected]

BillsOfOrders ==
  [o \in Orders |-> BillOf(orders[o], cancellations[o], Captured(o))]

TillsOfSessions == [s \in Sessions |-> TillOf(sessions[s])]

KeysCharged == {payments[i].key : i \in DOMAIN payments}

Books == INSTANCE Ledger WITH
  bills <- BillsOfOrders, tills <- TillsOfSessions, charged <- KeysCharged

\* Requests that interleave, repeat and are lost together keep the ledger: no
\* step touches a bill, a till or the keys but as one of its entries, with the
\* order, the payment and the drawer written at once.  (Tables that stand still
\* leave the books alone: named first, they are most of the steps.)
KeepsLedger ==
  [][\/ UNCHANGED <<orders, cancellations, payments, sessions>>
     \/ Books!Next]_Books!books

-----------------------------------------------------------------------------
(***************************************************************************)
(* The financial sequence of a device.                                     *)
(***************************************************************************)

\* The movement numbers of a payment: its sale's and its cash tip's.
MovementNumbers(p) ==
  {p.number} \union
  (IF p.method = "cash" /\ p.tip > 0 THEN {p.number + 1} ELSE {})

\* A device's financial sequence has neither gaps nor repetitions: its
\* payments and their tips use each number up to the last exactly once.
NumbersInSequence ==
  \A d \in Devices :
    LET mine == {i \in DOMAIN payments : payments[i].device = d}
    IN /\ UNION {MovementNumbers(payments[i]) : i \in mine}
            = 1 .. sequences[d]
       /\ \A i, j \in mine :
            i # j => MovementNumbers(payments[i])
                       \intersect MovementNumbers(payments[j]) = {}

-----------------------------------------------------------------------------
(***************************************************************************)
(* Deliveries.                                                             *)
(***************************************************************************)

Dispatches(o) ==
  {x \in DOMAIN journal : /\ journal[x].command.kind = "dispatch"
                          /\ journal[x].command.order = o}

\* The delivery and the order agree: nobody is sent out with, or still carries,
\* an order that is not to be delivered, and a settled trip's order is paid,
\* or was cancelled later and its money is owed back.  The attempts counted
\* are the dispatches accepted, and there is no third, however failures,
\* assignments and repeated requests mix.
DeliveryAgrees ==
  \A o \in Orders : deliveries[o] # Null =>
    /\ deliveries[o].attempts = Cardinality(Dispatches(o))
    /\ deliveries[o].attempts <= MaxAttempts
    /\ CASE deliveries[o].state \in {"assigned", "en_route"} ->
              orders[o].status \in {"open", "partially_paid", "paid"}
         [] deliveries[o].state = "settled" ->
              \/ orders[o].status = "paid"
              \/ /\ orders[o].status = "cancelled"
                 /\ cancellations[o].refund = "pending"
         [] OTHER -> TRUE

\* packages/shared-types/src/deliveries.ts:83: the payment of a settlement's
\* result is null when a prepaid order was closed without collecting anything.
\* A client told so may trust that its command collected nothing.
NullMeansNothingCollected ==
  \A c \in Callers :
    At(c, "answered", {"settle"}) /\ calls[c].result.payment = Null =>
      \A i \in DOMAIN payments :
        payments[i].key # calls[c].command.key
=============================================================================
