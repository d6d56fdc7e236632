-------------------------- MODULE PointOfSaleStore --------------------------
(***************************************************************************)
(* What the order, cash register and delivery services share: the tables   *)
(* they keep in PostgreSQL, the requests they are serving, and the shape   *)
(* of every command.                                                       *)
(*                                                                         *)
(* A command is written against the versions its client saw.  The service  *)
(* reads what it needs, computes the next aggregates with the domain       *)
(* package, and hands both to one SQL function, a transaction under the    *)
(* order's advisory lock that first looks the command's key up in a        *)
(* journal and then compares the versions: it is one action here.  Other   *)
(* requests, and the same command sent twice, interleave with the reads.   *)
(***************************************************************************)
EXTENDS OrderAggregate, FiniteSetsExt, SequencesExt

CONSTANTS
  Orders,          \* order ids the clients use
  DeliveryOrders,  \* the orders whose channel is delivery
  CashIntent,      \* delivery orders whose payment intent is cash or unstated
  Sessions,        \* cash register sessions of one register
  Devices,         \* devices that take payments
  Couriers,        \* couriers of the branch
  Callers,         \* requests that may be served at once
  Kinds,           \* kinds of command the clients send
  Tips,            \* tips a payment may carry
  Float,           \* the opening float
  MaxLines,        \* bound: lines of an order
  MaxCommands,     \* bound: journaled commands
  Null

ASSUME StoreAssumption ==
  /\ DeliveryOrders \subseteq Orders /\ CashIntent \subseteq DeliveryOrders
  /\ Tips \subseteq Nat /\ Float \in Nat
  /\ IsFiniteSet(Callers)
  /\ MaxLines \in Nat /\ MaxCommands \in Nat
  /\ Null \notin Nat

VARIABLES
  orders,         \* app.orders: order |-> Null or an aggregate and its version
  cancellations,  \* app.order_cancellations: order |-> Null or its record
  kds,            \* app.kds_events in cursor order
  payments,       \* app.payments, with their rows of app.cash_movements
  sessions,       \* app.cash_register_sessions: session |-> Null or its row
  sequences,      \* financial_device_sequences: device |-> last number used
  deliveries,     \* app.order_deliveries: order |-> Null or its row
  journal,        \* the idempotency journals: <<table, key>> |-> entry
  calls           \* request being served |-> Null or its progress

orderTables == <<orders, cancellations, kds>>
cashTables == <<payments, sessions, sequences>>
vars == <<orderTables, cashTables, deliveries, journal, calls>>

OrderRows ==
  [status: OrderStates, lines: Seq(LineStates), charge: {0, DeliveryCharge},
   version: Nat \ {0}]

SessionRows ==
  [status: {"open", "closed"}, drawer: Nat, version: Nat \ {0},
   expected: Nat \union {Null}]

DeliveryStates == {"assigned", "en_route", "delivered", "failed", "settled"}

DeliveryRows ==
  [state: DeliveryStates, courier: Couriers, attempts: Nat,
   version: Nat \ {0}]

Payments ==
  [order: Orders, session: Sessions, method: {"cash", "card"},
   amount: Nat \ {0}, tip: Nat, device: Devices, number: Nat \ {0},
   key: Nat]

Cancellations == [captured: Nat, refund: {"none", "pending"}]

\* A row that is there is not the absence of one.
ASSUME RowAssumption ==
  Null \notin OrderRows \union SessionRows \union DeliveryRows
                \union Cancellations

KdsEvents == [order: Orders, line: Nat \ {0}, status: LineStates]

Tables == {"order", "command", "finance", "delivery", "derived"}

-----------------------------------------------------------------------------
Put(f, key, value) ==
  [x \in DOMAIN f \union {key} |-> IF x = key THEN value ELSE f[x]]

Aggregate(row) ==
  [status |-> row.status, lines |-> row.lines, charge |-> row.charge]

\* Mutant: the first version is 0, as a command that has seen none sends it.
Row_FromZero(order, version) ==
  [status |-> order.status, lines |-> order.lines, charge |-> order.charge,
   version |-> version - 1]

Row(order, version) ==
  [status |-> order.status, lines |-> order.lines, charge |-> order.charge,
   version |-> version]

OrderVersion(o) == IF orders[o] = Null THEN 0 ELSE orders[o].version

SessionVersion(s) == IF sessions[s] = Null THEN 0 ELSE sessions[s].version

DeliveryVersion(o) ==
  IF deliveries[o] = Null THEN 0 ELSE deliveries[o].version

DeliveryState(o) ==
  IF deliveries[o] = Null THEN "pending" ELSE deliveries[o].state

\* The sum of a sequence of amounts.
SumOf(amounts) ==
  LET upTo[n \in 0 .. Len(amounts)] ==
        IF n = 0 THEN 0 ELSE upTo[n - 1] + amounts[n]
  IN upTo[Len(amounts)]

Captured(o) ==
  SumOf([i \in DOMAIN payments |->
           IF payments[i].order = o THEN payments[i].amount ELSE 0])

\* What the rows of cash_movements say a session's drawer holds.
Movements(s) ==
  Float + SumOf([i \in DOMAIN payments |->
                   IF payments[i].session = s /\ payments[i].method = "cash"
                   THEN payments[i].amount + payments[i].tip ELSE 0])

-----------------------------------------------------------------------------
(***************************************************************************)
(* Commands and the calls that serve them.                                 *)
(***************************************************************************)

\* The journal table that remembers a command of this kind.
Table(command) ==
  CASE command.kind \in {"send", "cancel"} -> "command"
    [] command.kind \in {"register_open", "collect", "close"} -> "finance"
    [] command.kind \in {"assign", "dispatch", "complete", "fail", "settle"}
         -> "delivery"
    [] OTHER -> "order"

\* Mutant: the journal is asked for the whole command, not for its key.
Journaled_Whole(command) ==
  /\ <<Table(command), command.key>> \in DOMAIN journal
  /\ journal[<<Table(command), command.key>>].command = command

Journaled(command) == <<Table(command), command.key>> \in DOMAIN journal

Entry(command) == journal[<<Table(command), command.key>>]

Sent == {calls[c].command : c \in {d \in Callers : calls[d] # Null}}

Known == {journal[x].command : x \in DOMAIN journal}

\* A client draws a fresh key for a new command; a refused command leaves no
\* trace of its key, so the least unused number stands for any fresh one.
FreshKey ==
  Min((1 .. MaxCommands + 2 * Cardinality(Callers))
        \ {command.key : command \in Sent \union Known})

Created == {o \in Orders : orders[o] # Null}

\* The state a screen offers for a line; a line at its end is asked to leave
\* it, and a retry may ask for what was offered before.
NextLineState(o, l) ==
  CASE orders[o].lines[l] = "pending" -> "sent"
    [] orders[o].lines[l] = "sent" -> "preparing"
    [] orders[o].lines[l] = "preparing" -> "ready"
    [] OTHER -> "delivered"

\* What can be asked for the lines of an order.
LineCommands(key, o) ==
  {[kind |-> "send", key |-> key, order |-> o, version |-> OrderVersion(o),
    lines |-> ls] : ls \in (SUBSET DOMAIN orders[o].lines) \ {{}}}
  \union
  {[kind |-> "advance", key |-> key, order |-> o,
    version |-> OrderVersion(o), line |-> l, to |-> NextLineState(o, l)] :
     l \in DOMAIN orders[o].lines}
  \union
  {[kind |-> "cancel_line", key |-> key, order |-> o,
    version |-> OrderVersion(o), line |-> l] : l \in DOMAIN orders[o].lines}

OrderCommands(key) ==
  {[kind |-> "create", key |-> key, order |-> o] : o \in Orders \ Created}
  \union
  {[kind |-> "add", key |-> key, order |-> o, version |-> OrderVersion(o)] :
     o \in {p \in Created : Len(orders[p].lines) < MaxLines}}
  \union
  {[kind |-> k, key |-> key, order |-> o, version |-> OrderVersion(o)] :
     k \in {"open", "label", "cancel"}, o \in Created}
  \union UNION {LineCommands(key, o) : o \in Created}

CashCommands(key) ==
  {[kind |-> "register_open", key |-> key, session |-> s] : s \in Sessions}
  \union
  {[kind |-> "close", key |-> key, session |-> s,
    sessionVersion |-> SessionVersion(s)] : s \in Sessions}
  \union UNION
  {{[kind |-> "collect", key |-> key, order |-> o,
     version |-> OrderVersion(o), session |-> s,
     sessionVersion |-> SessionVersion(s), method |-> m, amount |-> a,
     tip |-> t, device |-> d, sequence |-> sequences[d] + 1] :
      s \in Sessions, m \in {"cash", "card"}, a \in 1 .. Total(orders[o]),
      t \in Tips, d \in Devices} : o \in Created}

DeliveryCommands(key) ==
  {[kind |-> "assign", key |-> key, order |-> o,
    deliveryVersion |-> DeliveryVersion(o), courier |-> k] :
     o \in DeliveryOrders, k \in Couriers}
  \union
  {[kind |-> k, key |-> key, order |-> o,
    deliveryVersion |-> DeliveryVersion(o)] :
     k \in {"dispatch", "complete", "fail"}, o \in DeliveryOrders}
  \union
  {[kind |-> "settle", key |-> key, order |-> o,
    version |-> OrderVersion(o), deliveryVersion |-> DeliveryVersion(o),
    session |-> s, sessionVersion |-> SessionVersion(s), device |-> d,
    sequence |-> sequences[d] + 1] :
     o \in DeliveryOrders, s \in Sessions, d \in Devices}

NewCommands ==
  LET key == FreshKey
  IN {command \in OrderCommands(key) \union CashCommands(key)
                    \union DeliveryCommands(key) : command.kind \in Kinds}

\* The command with its key kept and its versions brought up to date.
Rebased(command) ==
  [field \in DOMAIN command |->
     CASE field = "version" -> OrderVersion(command.order)
       [] field = "sessionVersion" -> SessionVersion(command.session)
       [] field = "deliveryVersion" -> DeliveryVersion(command.order)
       [] field = "sequence" -> sequences[command.device] + 1
       [] OTHER -> command[field]]

\* What a call knows: how far it is, the order and the session it read, the
\* money it read as captured, the money it is to collect, and the result it
\* has for its client.
NewCall(command) ==
  [command |-> command, stage |-> "received", order |-> Null,
   session |-> Null, captured |-> 0, due |-> 0, result |-> Null]

At(c, stage, kinds) ==
  /\ calls[c] # Null
  /\ calls[c].stage = stage
  /\ calls[c].command.kind \in kinds

\* A result: the versions a command left behind and the money it collected.
Result(orderVersion, sessionVersion, payment) ==
  [order |-> orderVersion, session |-> sessionVersion, payment |-> payment]

Reply(c, result) ==
  calls' = [calls EXCEPT ![c] =
              [NewCall(calls[c].command) EXCEPT !.stage = "answered",
                                                !.result = result]]

\* The call goes on to its next stage; nothing is written.
Proceed(c, call) ==
  /\ calls' = [calls EXCEPT ![c] = call]
  /\ UNCHANGED <<orderTables, cashTables, deliveries, journal>>

\* A conflict, a malformed request, not found: nothing is written.
Refuse(c) == calls' = [calls EXCEPT ![c] = Null]

Logged(log, table, command, result) ==
  Put(log, <<table, command.key>>, [command |-> command, result |-> result])

\* The command's journal entry and its answer.
Commit(c, result) ==
  /\ journal' = Logged(journal, Table(calls[c].command), calls[c].command,
                       result)
  /\ Reply(c, result)

\* The SQL function's first step, under the lock: an identical command is
\* answered with what is stored and writes nothing.
Replay(c) ==
  /\ Journaled(calls[c].command)
  /\ IF Entry(calls[c].command).command = calls[c].command
     THEN Reply(c, Entry(calls[c].command).result)
     ELSE Refuse(c)
  /\ UNCHANGED <<orderTables, cashTables, deliveries, journal>>

\* A request whose service cannot go on with it.
Reject(c) ==
  /\ Refuse(c)
  /\ UNCHANGED <<orderTables, cashTables, deliveries, journal>>

-----------------------------------------------------------------------------
(***************************************************************************)
(* The clients and the network, external to the services.                  *)
(***************************************************************************)
Idle(c) == calls[c] # Null => calls[c].stage = "answered"

Issue(c) ==
  /\ Idle(c)
  /\ Cardinality(DOMAIN journal) < MaxCommands
  /\ \E command \in NewCommands : Proceed(c, NewCall(command))

\* A client sends a command again: it timed out or lost the answer, while the
\* first request may still be running.  It may have refreshed its versions.
Retry(c) ==
  /\ Idle(c)
  /\ \E command \in Sent \union Known :
       /\ command.kind \in Kinds
       /\ \E again \in {command, Rebased(command)} : Proceed(c, NewCall(again))

\* The request dies before it answers.
Drop(c) == ~Idle(c) /\ Reject(c)

Init ==
  /\ orders = [o \in Orders |-> Null]
  /\ cancellations = [o \in Orders |-> Null]
  /\ kds = <<>>
  /\ payments = <<>>
  /\ sessions = [s \in Sessions |-> Null]
  /\ sequences = [d \in Devices |-> 0]
  /\ deliveries = [o \in Orders |-> Null]
  /\ journal = <<>>
  /\ calls = [c \in Callers |-> Null]
=============================================================================
