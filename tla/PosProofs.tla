------------------------------ MODULE PosProofs ------------------------------
(***************************************************************************)
(* What the point of sale promises, proved for any number of orders,       *)
(* sessions, devices, couriers and concurrent requests, any float, tips    *)
(* and delivery charge.                                                    *)
(*                                                                         *)
(* The invariants are proved one after the other, each by induction with   *)
(* those before it.  Types holds the shapes of rows, commands and calls.   *)
(* From it every step is seen to be one of a few moves: a quiet one, an    *)
(* order written, a payment collected, a session opened or closed, a trip  *)
(* moved, a prepaid trip settled.  The other invariants are kept move by   *)
(* move, whichever request makes it.                                       *)
(***************************************************************************)
EXTENDS PosProperties, FiniteSetTheorems, FunctionTheorems, SequenceTheorems,
        WellFoundedInduction, TLAPS

-----------------------------------------------------------------------------
(***************************************************************************)
(* Types.                                                                  *)
(***************************************************************************)
OrderKinds == {"create", "add", "open", "label", "advance", "cancel_line",
               "send", "cancel"}

AllKinds == OrderKinds \union FinancialKinds \union TripKinds

\* A command of these kinds has this field, with a value of this set.
Has(command, kinds, field, values) ==
  command.kind \in kinds => field \in DOMAIN command
                              /\ command[field] \in values

\* What the services rely on of a command: its shape, a line the kitchen can
\* move never asked to be cancelled, a batch that is not empty, an amount that
\* is not zero.
CommandOK(command) ==
  /\ {"kind", "key"} \subseteq DOMAIN command
  /\ command.kind \in AllKinds /\ command.key \in Nat
  /\ Has(command, OrderKinds \union TripKinds \union {"collect", "settle"},
         "order", Orders)
  /\ Has(command, (OrderKinds \ {"create"}) \union {"collect", "settle"},
         "version", Nat)
  /\ Has(command, FinancialKinds, "session", Sessions)
  /\ Has(command, FinancialKinds \ {"register_open"}, "sessionVersion", Nat)
  /\ Has(command, TripKinds \union {"settle"}, "deliveryVersion", Nat)
  /\ Has(command, {"collect", "settle"}, "device", Devices)
  /\ Has(command, {"collect", "settle"}, "sequence", Nat)
  /\ Has(command, {"collect"}, "method", {"cash", "card"})
  /\ Has(command, {"collect"}, "amount", Nat \ {0})
  /\ Has(command, {"collect"}, "tip", Nat)
  /\ Has(command, {"assign"}, "courier", Couriers)
  /\ Has(command, {"advance"}, "to", LineStates \ {"cancelled"})
  /\ Has(command, {"send"}, "lines",
         {lines \in SUBSET Nat : IsFiniteSet(lines) /\ lines # {}})

CallFields ==
  {"command", "stage", "order", "session", "captured", "due", "result"}

\* What a call has learned by the stage it is at.
CallOK(call) ==
  /\ DOMAIN call = CallFields
  /\ call.captured \in Nat /\ call.due \in Nat
  /\ call.order \in OrderRows \union {Null}
  /\ call.session \in SessionRows \union {Null}
  /\ call.stage = "computed" =>
       /\ call.order # Null
       /\ call.order.version = call.command.version
            => Allowed(Aggregate(call.order), call.command)
  /\ call.stage \in {"weighing", "ordered"} => call.order # Null
  /\ call.stage = "prepared" => call.session # Null
  /\ call.stage = "prepared" /\ call.command.kind \in {"collect", "settle"}
       => call.order # Null /\ call.due # 0
  /\ call.stage \in {"weighed", "ordered"} /\ call.command.kind = "settle"
       => call.due # 0

CallsOK ==
  /\ DOMAIN calls = Callers
  /\ \A c \in Callers : calls[c] # Null => CallOK(calls[c])

\* An entry is filed under its command's key, in its command's journal; the
\* finance journal has a settlement's payment, the derived one a settlement
\* that a card payment made.
EntryOK(log, x) ==
  /\ x \in Tables \X Nat
  /\ log[x].command.key = x[2]
  /\ \/ x[1] = Table(log[x].command)
     \/ /\ x[1] = "finance" /\ log[x].command.kind = "settle"
        /\ <<"delivery", x[2]>> \in DOMAIN log
     \/ /\ x[1] = "derived" /\ log[x].command.kind = "collect"
        /\ <<"finance", x[2]>> \in DOMAIN log
  /\ x[1] \in {"delivery", "derived"} =>
       log[x].result.order = Null /\ log[x].result.session = Null

LogOK(log) ==
  /\ IsFiniteSet(DOMAIN log)
  /\ \A x \in DOMAIN log : EntryOK(log, x)

JournalOK == LogOK(journal)

\* The commands somebody may still send.
Heard == Sent \union Known

\* A key names one kind of command, wherever it turns up.
HeardOK ==
  \A a \in Heard :
    /\ CommandOK(a)
    /\ \A b \in Heard : a.key = b.key => a.kind = b.kind

\* The lines of an order that cost money.
LiveLines(order) == {l \in DOMAIN order.lines : order.lines[l] # "cancelled"}

\* Nothing of a cancelled order is left to cook or to pay.
Whole(order) == order.status = "cancelled" => LiveLines(order) = {}

\* The rows have the shape of their tables.
RowsOK ==
  /\ orders \in [Orders -> OrderRows \union {Null}]
  /\ \A o \in Orders : orders[o] # Null => Whole(orders[o])
  /\ cancellations \in [Orders -> Cancellations \union {Null}]
  /\ kds \in Seq(KdsEvents)
  /\ payments \in Seq(Payments)
  /\ sessions \in [Sessions -> SessionRows \union {Null}]
  /\ sequences \in [Devices -> Nat]
  /\ deliveries \in [Orders -> DeliveryRows \union {Null}]

Types == RowsOK /\ JournalOK /\ HeardOK /\ CallsOK

-----------------------------------------------------------------------------
(***************************************************************************)
(* Sums of amounts.                                                        *)
(***************************************************************************)

\* A nonempty set of naturals has a least element.
LEMMA LeastIsOne ==
  ASSUME NEW S \in SUBSET Nat, S # {}
  PROVE  \E least \in S : \A x \in S : least <= x
<1> DEFINE less == {ss \in Nat \X Nat : ss[1] < ss[2]}
<1>1. OpToRel(<, Nat) = less
  BY DEF OpToRel
<1>2. IsWellFoundedOn(less, Nat)
  BY <1>1, NatLessThanWellFounded
<1>3. PICK least \in S : \A x \in S : ~(<<x, least>> \in less)
  BY <1>2, WFMin
<1>4. ASSUME NEW x \in S PROVE least <= x
  <2>1. least \in Nat /\ x \in Nat
    OBVIOUS
  <2>2. x < least => <<x, least>> \in less
    BY <2>1
  <2> QED BY <1>3, <2>1, <2>2
<1> QED BY <1>4

\* The running totals of amounts, up to the n-th.
Totals(amounts, n, g) ==
  g = [k \in 0 .. n |-> IF k = 0 THEN 0 ELSE g[k - 1] + amounts[k]]

\* There are such totals, and only one choice of them.
LEMMA TotalsExist ==
  ASSUME NEW amounts \in Seq(Nat), NEW n \in 0 .. Len(amounts)
  PROVE  \E g \in [0 .. n -> Nat] : Totals(amounts, n, g)
<1> DEFINE Bad == {k \in 0 .. Len(amounts) :
                     ~ \E g \in [0 .. k -> Nat] : Totals(amounts, k, g)}
<1>1. Len(amounts) \in Nat
  BY LenProperties
<1>2. SUFFICES ASSUME Bad # {} PROVE FALSE
  OBVIOUS
<1>3. PICK m \in Bad : \A k \in Bad : m <= k
  <2>1. Bad \in SUBSET Nat
    BY <1>1
  <2> HIDE DEF Bad
  <2> QED BY <1>2, <2>1, LeastIsOne
<1>4. m \in 0 .. Len(amounts) /\ m \in Nat
  BY <1>1
<1>5. CASE m = 0
  <2> DEFINE g == [k \in 0 .. 0 |-> 0]
  <2>1. g \in [0 .. 0 -> Nat] /\ Totals(amounts, 0, g)
    BY DEF Totals
  <2> QED BY <1>5, <2>1
<1>6. CASE m # 0
  <2>0. m - 1 \in 0 .. Len(amounts) /\ m - 1 < m
    BY <1>1, <1>4, <1>6
  <2>1. m - 1 \notin Bad
    <3> HIDE DEF Bad
    <3>1. m - 1 \in Bad => m <= m - 1
      BY <1>3
    <3> QED BY <1>4, <2>0, <3>1
  <2>2. PICK h \in [0 .. m - 1 -> Nat] : Totals(amounts, m - 1, h)
    BY <2>0, <2>1
  <2> DEFINE g == [k \in 0 .. m |-> IF k = m THEN h[m - 1] + amounts[m]
                                    ELSE h[k]]
  <2>3. amounts[m] \in Nat
    BY <1>1, <1>4, <1>6, ElementOfSeq
  <2>4. h[m - 1] \in Nat
    BY <1>4, <1>6, <2>2
  <2>5. g \in [0 .. m -> Nat]
    BY <1>4, <1>6, <2>2, <2>3, <2>4
  <2>6. \A k \in 0 .. m :
          g[k] = IF k = 0 THEN 0 ELSE g[k - 1] + amounts[k]
    <3> SUFFICES ASSUME NEW k \in 0 .. m
                 PROVE  g[k] = IF k = 0 THEN 0 ELSE g[k - 1] + amounts[k]
      OBVIOUS
    <3>1. CASE k = m
      BY <1>4, <1>6, <3>1
    <3>2. CASE k # m
      <4>1. k \in 0 .. m - 1
        BY <1>4, <3>2
      <4>2. h[k] = IF k = 0 THEN 0 ELSE h[k - 1] + amounts[k]
        BY <2>2, <4>1 DEF Totals
      <4>3. k # 0 => k - 1 \in 0 .. m /\ k - 1 # m
        BY <1>4, <3>2
      <4> QED BY <3>2, <4>2, <4>3
    <3> QED BY <3>1, <3>2
  <2>7. Totals(amounts, m, g)
    BY <2>5, <2>6 DEF Totals
  <2> QED BY <2>5, <2>7
<1> QED BY <1>5, <1>6

\* Amounts that agree so far have the same totals so far.
LEMMA TotalsAgree ==
  ASSUME NEW a \in Seq(Nat), NEW b \in Seq(Nat),
         NEW n \in 0 .. Len(a), NEW m \in Nat, n <= m,
         \A k \in 1 .. n : a[k] = b[k],
         NEW g, Totals(a, n, g), NEW h, Totals(b, m, h)
  PROVE  \A k \in 0 .. n : g[k] = h[k]
<1> DEFINE Bad == {k \in 0 .. n : g[k] # h[k]}
<1>1. n \in Nat
  BY LenProperties
<1>2. SUFFICES ASSUME Bad # {} PROVE FALSE
  OBVIOUS
<1>3. PICK l \in Bad : \A k \in Bad : l <= k
  <2>1. Bad \in SUBSET Nat
    BY <1>1
  <2> HIDE DEF Bad
  <2> QED BY <1>2, <2>1, LeastIsOne
<1>4. l \in 0 .. n /\ l \in 0 .. m /\ l \in Nat
  BY <1>1
<1>5. l = 0 \/ g[l - 1] = h[l - 1]
  BY <1>1, <1>3, <1>4
<1>6. /\ g[l] = IF l = 0 THEN 0 ELSE g[l - 1] + a[l]
      /\ h[l] = IF l = 0 THEN 0 ELSE h[l - 1] + b[l]
  BY <1>4 DEF Totals
<1> QED BY <1>1, <1>4, <1>5, <1>6

\* The sum of no amounts, and of one amount more.
LEMMA SumOfAmounts ==
  ASSUME NEW a \in Seq(Nat)
  PROVE  /\ SumOf(a) \in Nat
         /\ a = <<>> => SumOf(a) = 0
         /\ \A x \in Nat : SumOf(Append(a, x)) = SumOf(a) + x
<1>1. Len(a) \in Nat
  BY LenProperties
<1> DEFINE T(s) == CHOOSE g : Totals(s, Len(s), g)
<1>2. \A s : SumOf(s) = T(s)[Len(s)]
  BY DEF SumOf, Totals
<1>3. ASSUME NEW s \in Seq(Nat)
      PROVE  Totals(s, Len(s), T(s)) /\ T(s)[Len(s)] \in Nat
  <2>1. Len(s) \in Nat
    BY LenProperties
  <2>2. PICK g \in [0 .. Len(s) -> Nat] : Totals(s, Len(s), g)
    BY <2>1, TotalsExist
  <2>3. Totals(s, Len(s), T(s))
    BY <2>2
  <2> HIDE DEF T
  <2>4. \A k \in 0 .. Len(s) : T(s)[k] = g[k]
    <3>1. /\ Len(s) \in 0 .. Len(s) /\ Len(s) <= Len(s)
          /\ \A k \in 1 .. Len(s) : s[k] = s[k]
      BY <2>1
    <3> DEFINE n == Len(s)
               t == T(s)
    <3>2. n \in 0 .. Len(s) /\ n \in Nat /\ n <= n
      BY <2>1
    <3>3. Totals(s, n, t) /\ Totals(s, n, g)
      BY <2>2, <2>3
    <3> HIDE DEF n, t
    <3>4. \A k \in 0 .. n : t[k] = g[k]
      BY <3>2, <3>3, TotalsAgree
    <3> QED BY <3>4 DEF n, t
  <2> QED BY <2>1, <2>2, <2>3, <2>4
<1> HIDE DEF T
<1>4. a = <<>> => SumOf(a) = 0
  <2> SUFFICES ASSUME a = <<>> PROVE SumOf(a) = 0
    OBVIOUS
  <2>1. Len(a) = 0
    BY EmptySeq
  <2>2. Totals(a, 0, T(a))
    BY <1>3, <2>1
  <2>3. T(a)[0] = 0
    BY <2>2 DEF Totals
  <2> QED BY <1>2, <2>1, <2>3
<1>5. ASSUME NEW x \in Nat
      PROVE  SumOf(Append(a, x)) = SumOf(a) + x
  <2> DEFINE b == Append(a, x)
             n == Len(a)
  <2>1. /\ b \in Seq(Nat) /\ Len(b) = n + 1 /\ b[n + 1] = x
        /\ \A k \in 1 .. n : a[k] = b[k]
    BY AppendProperties
  <2> HIDE DEF b
  <2>2. Totals(a, n, T(a)) /\ Totals(b, n + 1, T(b))
    BY <1>3, <2>1
  <2>3. \A k \in 0 .. n : T(a)[k] = T(b)[k]
    <3>1. n \in 0 .. Len(a) /\ n + 1 \in Nat /\ n <= n + 1
      BY <1>1
    <3> HIDE DEF n
    <3> QED BY <2>1, <2>2, <3>1, TotalsAgree
  <2>4. T(b)[n + 1] = T(b)[n] + b[n + 1]
    BY <1>1, <2>2 DEF Totals
  <2>5. n + 1 # 0 /\ n + 1 - 1 = n /\ n \in 0 .. n
    BY <1>1
  <2>6. SumOf(b) = T(b)[n + 1] /\ SumOf(a) = T(a)[n]
    BY <1>2, <2>1
  <2> QED BY <2>1, <2>3, <2>4, <2>5, <2>6 DEF b
<1> QED BY <1>2, <1>3, <1>4, <1>5

\* So many amounts make a sequence.
LEMMA AmountsAreSeq ==
  ASSUME NEW n \in Nat, NEW a \in [1 .. n -> Nat]
  PROVE  a \in Seq(Nat) /\ Len(a) = n
<1>1. a \in Seq(Nat)
  BY IsASeq
<1> QED BY <1>1, LenProperties

\* One amount more adds itself to the sum.
LEMMA SumGrows ==
  ASSUME NEW a \in Seq(Nat), NEW b \in Seq(Nat), Len(b) = Len(a) + 1,
         \A i \in 1 .. Len(a) : b[i] = a[i]
  PROVE  SumOf(b) = SumOf(a) + b[Len(b)]
<1> DEFINE n == Len(a)
           x == b[Len(b)]
<1>1. n \in Nat /\ Len(b) = n + 1
  BY LenProperties
<1>2. x \in Nat
  BY <1>1, ElementOfSeq
<1>3. /\ Append(a, x) \in Seq(Nat) /\ Len(Append(a, x)) = n + 1
      /\ Append(a, x)[n + 1] = x
      /\ \A i \in 1 .. n : Append(a, x)[i] = a[i]
  BY <1>2, AppendProperties
<1>4. b = Append(a, x)
  <2>1. \A i \in 1 .. n + 1 : b[i] = Append(a, x)[i]
    BY <1>1, <1>3
  <2> QED BY <1>1, <1>3, <2>1, SeqEqual
<1> QED BY <1>2, <1>4, SumOfAmounts

\* What was captured for an order and what a drawer holds are amounts, none
\* while there are no payments.
LEMMA MoneyIsNat ==
  ASSUME payments \in Seq(Payments)
  PROVE  \A x : /\ Captured(x) \in Nat /\ Movements(x) \in Nat
                /\ payments = <<>> => Captured(x) = 0 /\ Movements(x) = Float
<1> SUFFICES ASSUME NEW x
             PROVE  /\ Captured(x) \in Nat /\ Movements(x) \in Nat
                    /\ payments = <<>>
                         => Captured(x) = 0 /\ Movements(x) = Float
  OBVIOUS
<1> DEFINE a == [i \in DOMAIN payments |->
                   IF payments[i].order = x THEN payments[i].amount ELSE 0]
           b == [i \in DOMAIN payments |->
                   IF payments[i].session = x /\ payments[i].method = "cash"
                   THEN payments[i].amount + payments[i].tip ELSE 0]
<1>1. Len(payments) \in Nat /\ DOMAIN payments = 1 .. Len(payments)
  BY LenProperties
<1>2. \A i \in DOMAIN payments : payments[i].amount \in Nat
                               /\ payments[i].tip \in Nat
  <2>1. \A i \in DOMAIN payments : payments[i] \in Payments
    BY <1>1, ElementOfSeq
  <2> QED BY <2>1 DEF Payments
<1>3. a \in [1 .. Len(payments) -> Nat] /\ b \in [1 .. Len(payments) -> Nat]
  BY <1>1, <1>2
<1>4. a \in Seq(Nat) /\ b \in Seq(Nat)
  BY <1>1, <1>3, IsASeq
<1>5. payments = <<>> => a = <<>> /\ b = <<>>
  <2> SUFFICES ASSUME payments = <<>> PROVE a = <<>> /\ b = <<>>
    OBVIOUS
  <2>1. Len(payments) = 0
    BY EmptySeq
  <2>2. Len(a) = 0 /\ Len(b) = 0
    BY <1>1, <1>3, <1>4, <2>1, LenProperties
  <2> QED BY <1>4, <2>2, EmptySeq
<1>6. Captured(x) = SumOf(a) /\ Movements(x) = Float + SumOf(b)
  BY DEF Captured, Movements
<1> HIDE DEF a, b
<1>7. SumOf(a) \in Nat /\ SumOf(b) \in Nat /\ Float \in Nat
  BY <1>4, SumOfAmounts, StoreAssumption
<1>8. payments = <<>> => SumOf(a) = 0 /\ SumOf(b) = 0
  BY <1>4, <1>5, SumOfAmounts
<1> QED BY <1>6, <1>7, <1>8

\* A payment adds its amount to what was captured for its order and, paid in
\* cash, what was handed over to its session's drawer.
LEMMA MoneyAdds ==
  ASSUME payments \in Seq(Payments), NEW p \in Payments,
         payments' = Append(payments, p)
  PROVE  /\ \A x : Captured(x)' = Captured(x)
                          + (IF p.order = x THEN p.amount ELSE 0)
         /\ \A x : Movements(x)' = Movements(x)
                + (IF p.session = x /\ p.method = "cash"
                   THEN p.amount + p.tip ELSE 0)
<1> SUFFICES ASSUME NEW x
             PROVE  /\ Captured(x)' = Captured(x)
                          + (IF p.order = x THEN p.amount ELSE 0)
                    /\ Movements(x)' = Movements(x)
                          + (IF p.session = x /\ p.method = "cash"
                             THEN p.amount + p.tip ELSE 0)
  OBVIOUS
<1> DEFINE paid(q) == IF q.order = x THEN q.amount ELSE 0
           cash(q) == IF q.session = x /\ q.method = "cash"
                      THEN q.amount + q.tip ELSE 0
           n == Len(payments)
           a == [i \in DOMAIN payments |-> paid(payments[i])]
           aa == [i \in DOMAIN payments' |-> paid(payments'[i])]
           b == [i \in DOMAIN payments |-> cash(payments[i])]
           bb == [i \in DOMAIN payments' |-> cash(payments'[i])]
<1>1. n \in Nat /\ DOMAIN payments = 1 .. n
  BY LenProperties
<1>2. /\ Len(payments') = n + 1 /\ DOMAIN payments' = 1 .. n + 1
      /\ payments' \in Seq(Payments)
      /\ payments'[n + 1] = p
      /\ \A i \in 1 .. n : payments'[i] = payments[i]
  BY <1>1, AppendProperties, LenProperties
<1>3. \A q \in Payments : paid(q) \in Nat /\ cash(q) \in Nat
  BY DEF Payments
<1>4. /\ Captured(x) = SumOf(a) /\ Captured(x)' = SumOf(aa)
      /\ Movements(x) = Float + SumOf(b) /\ Movements(x)' = Float + SumOf(bb)
  BY DEF Captured, Movements
<1>5. /\ \A i \in 1 .. n : payments[i] \in Payments
      /\ \A i \in 1 .. n + 1 : payments'[i] \in Payments
  BY <1>1, <1>2, ElementOfSeq
<1> HIDE DEF n, paid, cash
<1>6. /\ a \in [1 .. n -> Nat] /\ aa \in [1 .. n + 1 -> Nat]
      /\ b \in [1 .. n -> Nat] /\ bb \in [1 .. n + 1 -> Nat]
  BY <1>1, <1>2, <1>3, <1>5
<1>7. /\ \A i \in 1 .. n : aa[i] = a[i] /\ bb[i] = b[i]
      /\ aa[n + 1] = paid(p) /\ bb[n + 1] = cash(p)
  BY <1>1, <1>2
<1> HIDE DEF a, aa, b, bb
<1>8. /\ a \in Seq(Nat) /\ aa \in Seq(Nat) /\ b \in Seq(Nat) /\ bb \in Seq(Nat)
      /\ Len(a) = n /\ Len(aa) = n + 1 /\ Len(b) = n /\ Len(bb) = n + 1
  <2>1. a \in Seq(Nat) /\ Len(a) = n /\ b \in Seq(Nat) /\ Len(b) = n
    BY <1>1, <1>6, AmountsAreSeq
  <2> DEFINE m == n + 1
  <2>2. m \in Nat /\ aa \in [1 .. m -> Nat] /\ bb \in [1 .. m -> Nat]
    BY <1>1, <1>6
  <2> HIDE DEF m
  <2>3. aa \in Seq(Nat) /\ Len(aa) = m /\ bb \in Seq(Nat) /\ Len(bb) = m
    BY <2>2, AmountsAreSeq
  <2> QED BY <2>1, <2>3 DEF m
<1>9. SumOf(aa) = SumOf(a) + paid(p)
  BY <1>1, <1>7, <1>8, SumGrows
<1>10. SumOf(bb) = SumOf(b) + cash(p)
  BY <1>1, <1>7, <1>8, SumGrows
<1>11. SumOf(a) \in Nat /\ SumOf(b) \in Nat /\ paid(p) \in Nat
       /\ cash(p) \in Nat /\ Float \in Nat
  BY <1>3, <1>8, SumOfAmounts, StoreAssumption
<1> QED BY <1>4, <1>9, <1>10, <1>11 DEF paid, cash

-----------------------------------------------------------------------------
(***************************************************************************)
(* The aggregate and its mutations.                                        *)
(***************************************************************************)

\* A stored order's aggregate, and the row an aggregate is stored in.
LEMMA RowsAndAggregates ==
  /\ \A row \in OrderRows :
       /\ Aggregate(row) \in Aggregates
       /\ Aggregate(row).status = row.status
       /\ Aggregate(row).lines = row.lines
       /\ Aggregate(row).charge = row.charge
       /\ row.status \in OrderStates /\ row.lines \in Seq(LineStates)
       /\ row.version \in Nat \ {0} /\ row # Null
       /\ Total(row) = Total(Aggregate(row))
  /\ \A order \in Aggregates : \A v \in Nat \ {0} :
       /\ Row(order, v) \in OrderRows
       /\ Row(order, v).status = order.status
       /\ Row(order, v).lines = order.lines
       /\ Row(order, v).charge = order.charge
       /\ Row(order, v).version = v
       /\ Total(Row(order, v)) = Total(order)
<1>1. ASSUME NEW row \in OrderRows
      PROVE  /\ Aggregate(row) \in Aggregates
             /\ Aggregate(row).status = row.status
             /\ Aggregate(row).lines = row.lines
             /\ Aggregate(row).charge = row.charge
             /\ row.status \in OrderStates /\ row.lines \in Seq(LineStates)
             /\ row.version \in Nat \ {0}
  BY DEF OrderRows, Aggregates, Aggregate
<1>2. ASSUME NEW order \in Aggregates, NEW v \in Nat \ {0}
      PROVE  /\ Row(order, v) \in OrderRows
             /\ Row(order, v).status = order.status
             /\ Row(order, v).lines = order.lines
             /\ Row(order, v).charge = order.charge
             /\ Row(order, v).version = v
  BY DEF OrderRows, Aggregates, Row
<1>3. ASSUME NEW row \in OrderRows PROVE Total(row) = Total(Aggregate(row))
  BY <1>1 DEF Total
<1>4. ASSUME NEW order \in Aggregates, NEW v \in Nat \ {0}
      PROVE  Total(Row(order, v)) = Total(order)
  BY <1>2 DEF Total
<1>5. \A row \in OrderRows : row # Null
  BY RowAssumption
<1> QED BY <1>1, <1>2, <1>3, <1>4, <1>5

\* Lines that are set keep their places; nothing else of the order changes.
LEMMA LinesSet ==
  ASSUME NEW order \in Aggregates, NEW lines, NEW to \in LineStates
  PROVE  LET after == SetLines(order, lines, to)
         IN /\ after \in Aggregates
            /\ after.status = order.status /\ after.charge = order.charge
            /\ DOMAIN after.lines = DOMAIN order.lines
            /\ \A l \in DOMAIN order.lines :
                 after.lines[l] = IF l \in lines THEN to ELSE order.lines[l]
<1> DEFINE set == [l \in DOMAIN order.lines |->
                     IF l \in lines THEN to ELSE order.lines[l]]
<1>1. order.lines \in Seq(LineStates)
  BY DEF Aggregates
<1>2. /\ Len(order.lines) \in Nat
      /\ DOMAIN order.lines = 1 .. Len(order.lines)
      /\ \A l \in DOMAIN order.lines : order.lines[l] \in LineStates
  BY <1>1, LenProperties, ElementOfSeq
<1>3. set \in [1 .. Len(order.lines) -> LineStates]
  BY <1>2
<1>4. set \in Seq(LineStates)
  BY <1>2, <1>3, IsASeq
<1>5. SetLines(order, lines, to) = [order EXCEPT !.lines = set]
  BY DEF SetLines, Aggregates
<1>6. DOMAIN set = DOMAIN order.lines
      /\ \A l \in DOMAIN order.lines :
           set[l] = IF l \in lines THEN to ELSE order.lines[l]
  OBVIOUS
<1> HIDE DEF set
<1> QED BY <1>4, <1>5, <1>6 DEF Aggregates

\* An order that keeps its charge and its live lines costs as much, and one
\* with more of them no less.
LEMMA TotalGrows ==
  ASSUME NEW a \in Aggregates, NEW b \in Aggregates,
         a.status # "cancelled", b.status # "cancelled",
         a.charge = b.charge, LiveLines(a) \subseteq LiveLines(b)
  PROVE  /\ Total(a) \in Nat /\ Total(b) \in Nat
         /\ Total(a) <= Total(b)
         /\ LiveLines(a) = LiveLines(b) => Total(a) = Total(b)
<1>1. a.charge \in Nat
  BY ChargeAssumption DEF Aggregates
<1>2. ASSUME NEW c \in Aggregates
      PROVE  /\ IsFiniteSet(LiveLines(c)) /\ Cardinality(LiveLines(c)) \in Nat
  <2>1. c.lines \in Seq(LineStates)
    BY DEF Aggregates
  <2>2. Len(c.lines) \in Nat /\ DOMAIN c.lines = 1 .. Len(c.lines)
    BY <2>1, LenProperties
  <2>3. IsFiniteSet(1 .. Len(c.lines))
    BY <2>2, FS_Interval
  <2>4. LiveLines(c) \subseteq 1 .. Len(c.lines)
    BY <2>2 DEF LiveLines
  <2> QED BY <2>3, <2>4, FS_Subset, FS_CardinalityType
<1>3. Cardinality(LiveLines(a)) <= Cardinality(LiveLines(b))
  BY <1>2, FS_Subset
<1>4. /\ Total(a) = a.charge + Cardinality(LiveLines(a))
      /\ Total(b) = b.charge + Cardinality(LiveLines(b))
  BY DEF Total, LiveLines
<1> QED BY <1>1, <1>2, <1>3, <1>4

\* What an order costs is an amount.
LEMMA CostIsNat ==
  ASSUME NEW row \in OrderRows
  PROVE  Total(row) \in Nat
<1>1. Aggregate(row) \in Aggregates /\ Total(row) = Total(Aggregate(row))
  BY RowsAndAggregates
<1>2. CASE row.status = "cancelled"
  BY <1>2 DEF Total
<1>3. CASE row.status # "cancelled"
  BY <1>1, <1>3, TotalGrows, RowsAndAggregates
<1> QED BY <1>2, <1>3

\* An order that moved along its life cycle, with its lines along theirs.
MovedOn(old, new) ==
  /\ new.status \in {old.status} \union OrderTransitions[old.status]
  /\ DOMAIN old.lines \subseteq DOMAIN new.lines
  /\ \A l \in DOMAIN old.lines :
       new.lines[l] \in {old.lines[l]} \union LineTransitions[old.lines[l]]

\* An order that went on without its money changing: it is not cancelled, at
\* most opened, and what is partly paid gets no cheaper, what is paid costs
\* the same.
MoneyStands(old, new) ==
  /\ new.status # "cancelled"
  /\ \/ new.status = old.status
     \/ old.status = "draft" /\ new.status = "open"
  /\ old.status = "partially_paid" => Total(old) <= Total(new)
  /\ old.status = "paid" => Total(old) = Total(new)

\* An order whose lines only moved along, none of them cancelled, costs what
\* it did.
LEMMA MovedLinesCost ==
  ASSUME NEW order \in Aggregates, order.status # "cancelled",
         NEW lines \in SUBSET DOMAIN order.lines,
         NEW to \in LineStates \ {"cancelled"},
         \A l \in lines : to \in LineTransitions[order.lines[l]]
  PROVE  LET after == SetLines(order, lines, to)
         IN /\ after \in Aggregates
            /\ after.status = order.status /\ after.charge = order.charge
            /\ MovedOn(order, after) /\ MoneyStands(order, after)
<1> DEFINE after == SetLines(order, lines, to)
<1>1. /\ after \in Aggregates
      /\ after.status = order.status /\ after.charge = order.charge
      /\ DOMAIN after.lines = DOMAIN order.lines
      /\ \A l \in DOMAIN order.lines :
           after.lines[l] = IF l \in lines THEN to ELSE order.lines[l]
  BY LinesSet
<1> HIDE DEF after
<1>2. \A l \in lines : order.lines[l] # "cancelled"
  BY DEF LineTransitions
<1>3. LiveLines(after) = LiveLines(order)
  BY <1>1, <1>2 DEF LiveLines
<1>4. MovedOn(order, after)
  BY <1>1 DEF MovedOn
<1>5. Total(order) = Total(after) /\ Total(order) \in Nat
  BY <1>1, <1>3, TotalGrows
<1>6. MoneyStands(order, after)
  BY <1>1, <1>5 DEF MoneyStands
<1> QED BY <1>1, <1>4, <1>6 DEF after

\* What the domain allows a command moves the order along; every command but
\* a cancellation leaves its money standing.  (packages/domain/src/order.ts)
LEMMA DomainMoves ==
  ASSUME NEW order \in Aggregates, NEW command, CommandOK(command),
         command.kind \in ReadingKinds, Allowed(order, command), Whole(order)
  PROVE  LET after == Resulting(order, command)
         IN /\ after \in Aggregates /\ Whole(after)
            /\ MovedOn(order, after)
            /\ IF command.kind = "cancel"
               THEN order.status # "cancelled" /\ after.status = "cancelled"
               ELSE MoneyStands(order, after)
<1> DEFINE after == Resulting(order, command)
<1>0. /\ order.lines \in Seq(LineStates) /\ order.status \in OrderStates
      /\ order.charge \in {0, DeliveryCharge}
  BY DEF Aggregates
<1>1. /\ Len(order.lines) \in Nat
      /\ DOMAIN order.lines = 1 .. Len(order.lines)
      /\ \A l \in DOMAIN order.lines : order.lines[l] \in LineStates
  BY <1>0, LenProperties, ElementOfSeq
<1>2. CASE command.kind = "add"
  <2>1. after = AddLine(order) /\ AcceptsNewLines(order.status)
    BY <1>2 DEF Resulting, Allowed
  <2> DEFINE lines == Append(order.lines, "pending")
  <2>2. /\ lines \in Seq(LineStates)
        /\ DOMAIN order.lines \subseteq DOMAIN lines
        /\ \A l \in DOMAIN order.lines : lines[l] = order.lines[l]
    <3>1. "pending" \in LineStates
      BY DEF LineStates
    <3>2. /\ lines \in Seq(LineStates) /\ Len(lines) = Len(order.lines) + 1
          /\ \A l \in 1 .. Len(order.lines) : lines[l] = order.lines[l]
      BY <1>0, <3>1, AppendProperties
    <3>3. DOMAIN lines = 1 .. Len(lines)
      BY <3>2, LenProperties
    <3> QED BY <1>1, <3>2, <3>3
  <2>3. after = [order EXCEPT !.lines = lines]
    BY <2>1 DEF AddLine, Aggregates
  <2> HIDE DEF lines, after
  <2>4. /\ after \in Aggregates /\ after.status = order.status
        /\ after.charge = order.charge /\ after.lines = lines
    BY <2>2, <2>3 DEF Aggregates
  <2>5. MovedOn(order, after)
    BY <2>2, <2>4 DEF MovedOn
  <2>6. order.status \in {"draft", "open", "partially_paid"}
    BY <2>1 DEF AcceptsNewLines
  <2>7. LiveLines(order) \subseteq LiveLines(after)
    BY <2>2, <2>4 DEF LiveLines
  <2>8. Total(order) <= Total(after)
    BY <2>4, <2>6, <2>7, TotalGrows
  <2>9. MoneyStands(order, after)
    BY <2>4, <2>6, <2>8 DEF MoneyStands
  <2> QED BY <1>2, <2>4, <2>5, <2>6, <2>9 DEF after, Whole
<1>3. CASE command.kind = "open"
  <2>1. after = [order EXCEPT !.status = "open"]
        /\ "open" \in OrderTransitions[order.status]
    BY <1>3 DEF Resulting, Allowed, SetStatus
  <2>2. order.status = "draft"
    BY <1>0, <2>1 DEF OrderTransitions, OrderStates
  <2> HIDE DEF after
  <2>3. /\ after \in Aggregates /\ after.status = "open"
        /\ after.lines = order.lines
    BY <2>1 DEF Aggregates, OrderStates
  <2>4. MovedOn(order, after) /\ MoneyStands(order, after)
    BY <2>1, <2>2, <2>3 DEF MovedOn, MoneyStands
  <2> QED BY <1>3, <2>3, <2>4 DEF after, Whole
<1>4. CASE command.kind = "advance"
  <2>1. command.to \in LineStates \ {"cancelled"}
    BY <1>4 DEF CommandOK, Has
  <2>2. /\ after = SetLines(order, {command.line}, command.to)
        /\ CanMoveLine(order, command.line, command.to)
    BY <1>4 DEF Resulting, Allowed, MoveLine
  <2>3. /\ after \in Aggregates /\ after.status = order.status
        /\ MovedOn(order, after) /\ MoneyStands(order, after)
    BY <2>1, <2>2, MovedLinesCost DEF CanMoveLine
  <2> QED BY <1>4, <2>2, <2>3 DEF Whole, CanMoveLine
<1>5. CASE command.kind = "cancel_line"
  <2>1. /\ after = SetLines(order, {command.line}, "cancelled")
        /\ CanMoveLine(order, command.line, "cancelled")
        /\ order.status \in {"draft", "open"}
    BY <1>5 DEF Resulting, Allowed, MoveLine
  <2>2. "cancelled" \in LineStates
    BY DEF LineStates
  <2>3. /\ after \in Aggregates
        /\ after.status = order.status
        /\ DOMAIN after.lines = DOMAIN order.lines
        /\ \A l \in DOMAIN order.lines :
             after.lines[l] = IF l \in {command.line} THEN "cancelled"
                              ELSE order.lines[l]
    BY <2>1, <2>2, LinesSet
  <2> HIDE DEF after
  <2>4. MovedOn(order, after) /\ MoneyStands(order, after)
    BY <2>1, <2>3 DEF MovedOn, MoneyStands, CanMoveLine
  <2> QED BY <1>5, <2>1, <2>3, <2>4 DEF after, Whole
<1>6. CASE command.kind = "send"
  <2> DEFINE opened == Opened(order)
  <2>1. /\ after = SetLines(opened, command.lines, "sent")
        /\ command.lines \subseteq Pending(order) /\ command.lines # {}
    BY <1>6 DEF Resulting, Allowed, CommandOK, Has
  <2>2. /\ opened \in Aggregates /\ opened.lines = order.lines
        /\ opened.charge = order.charge
        /\ opened.status = IF order.status = "draft" THEN "open"
                           ELSE order.status
    BY DEF Opened, SetStatus, Aggregates, OrderStates
  <2>3. PICK l \in command.lines : TRUE
    BY <2>1
  <2>4. /\ command.lines \subseteq DOMAIN order.lines
        /\ \A k \in command.lines : order.lines[k] = "pending"
    BY <2>1 DEF Pending
  <2> HIDE DEF opened, after
  <2>5. order.status # "cancelled"
    BY <2>3, <2>4 DEF Whole, LiveLines
  <2>6. /\ opened.status # "cancelled"
        /\ "sent" \in LineStates \ {"cancelled"}
        /\ command.lines \in SUBSET DOMAIN opened.lines
        /\ \A k \in command.lines : "sent" \in LineTransitions[opened.lines[k]]
    BY <2>2, <2>4, <2>5 DEF LineStates, LineTransitions
  <2>7. /\ after \in Aggregates /\ after.status = opened.status
        /\ MovedOn(opened, after) /\ MoneyStands(opened, after)
    BY <2>1, <2>2, <2>6, MovedLinesCost
  <2>8. MovedOn(order, after)
    BY <1>0, <2>2, <2>5, <2>7 DEF MovedOn, OrderTransitions, OrderStates
  <2>9. Total(opened) = Total(order)
    BY <2>2, <2>5 DEF Total
  <2>10. MoneyStands(order, after)
    BY <2>2, <2>5, <2>7, <2>9 DEF MoneyStands
  <2> QED BY <1>6, <2>2, <2>5, <2>7, <2>8, <2>10 DEF after, Whole
<1>7. CASE command.kind = "cancel"
  <2> DEFINE down == InKitchen(order) \union Pending(order)
             emptied == SetLines(order, down, "cancelled")
  <2>1. /\ after = SetStatus(emptied, "cancelled")
        /\ Cancellable(order)
    BY <1>7 DEF Resulting, Allowed, CancelWhole
  <2>2. /\ emptied \in Aggregates
        /\ DOMAIN emptied.lines = DOMAIN order.lines
        /\ \A l \in DOMAIN order.lines :
             emptied.lines[l] = IF l \in down THEN "cancelled"
                                ELSE order.lines[l]
    BY LinesSet DEF LineStates
  <2> HIDE DEF emptied, after
  <2>3. /\ after \in Aggregates /\ after.status = "cancelled"
        /\ after.lines = emptied.lines
    BY <2>1, <2>2 DEF SetStatus, Aggregates, OrderStates
  <2>4. \A l \in DOMAIN order.lines :
          IF l \in down THEN "cancelled" \in LineTransitions[order.lines[l]]
          ELSE order.lines[l] = "cancelled"
    BY <1>1, <2>1 DEF Cancellable, InKitchen, Pending, LineStates,
                      LineTransitions
  <2> HIDE DEF down
  <2>5. LiveLines(after) = {}
    BY <2>2, <2>3, <2>4 DEF LiveLines
  <2>6. /\ order.status # "cancelled"
        /\ "cancelled" \in OrderTransitions[order.status]
    BY <1>0, <2>1 DEF Cancellable, OrderStates, OrderTransitions
  <2>7. MovedOn(order, after)
    BY <2>2, <2>3, <2>4, <2>6 DEF MovedOn
  <2> QED BY <1>7, <2>3, <2>5, <2>6, <2>7 DEF after, Whole
<1> QED BY <1>2, <1>3, <1>4, <1>5, <1>6, <1>7 DEF ReadingKinds

-----------------------------------------------------------------------------
(***************************************************************************)
(* The kitchen's events.                                                   *)
(***************************************************************************)

\* Finitely many lines can be put in order, each of them once: a line's place
\* is the number of lines up to it.
LEMMA LinesInOrder ==
  ASSUME NEW S \in SUBSET Nat, IsFiniteSet(S)
  PROVE  /\ InOrder(S) \in [1 .. Cardinality(S) -> S]
         /\ \A i, j \in 1 .. Cardinality(S) :
              i < j => InOrder(S)[i] < InOrder(S)[j]
         /\ \A l \in S : \E i \in 1 .. Cardinality(S) : InOrder(S)[i] = l
<1> DEFINE n == Cardinality(S)
           upTo(l) == {k \in S : k <= l}
           place == [l \in S |-> Cardinality(upTo(l))]
<1>1. n \in Nat
  BY FS_CardinalityType
<1>2. ASSUME NEW l \in S
      PROVE  /\ IsFiniteSet(upTo(l)) /\ place[l] = Cardinality(upTo(l))
             /\ place[l] \in 1 .. n
  <2>1. /\ IsFiniteSet(upTo(l)) /\ Cardinality(upTo(l)) \in Nat
        /\ Cardinality(upTo(l)) <= n
    <3>1. upTo(l) \in SUBSET S
      OBVIOUS
    <3> QED BY <3>1, FS_Subset, FS_CardinalityType
  <2>2. Cardinality(upTo(l)) # 0
    <3>1. l \in upTo(l)
      OBVIOUS
    <3> QED BY <2>1, <3>1, FS_EmptySet
  <2>3. place[l] = Cardinality(upTo(l))
    OBVIOUS
  <2> QED BY <1>1, <2>1, <2>2, <2>3
<1>3. ASSUME NEW k \in S, NEW l \in S, k < l
      PROVE  place[k] < place[l]
  <2>1. upTo(k) \in SUBSET upTo(l) /\ l \in upTo(l) /\ l \notin upTo(k)
    <3>1. /\ k \in Nat /\ l \in Nat /\ \A m \in S : m \in Nat
      OBVIOUS
    <3>2. /\ \A m \in S : m <= k => m <= l
          /\ l <= l /\ ~ (l <= k)
      BY <1>3, <3>1
    <3> QED BY <3>2
  <2> HIDE DEF upTo
  <2>2. place[k] # place[l] /\ place[k] <= place[l]
    BY <1>2, <2>1, FS_Subset
  <2> QED BY <1>1, <1>2, <2>2
<1> HIDE DEF place, upTo
<1>4. place \in Injection(S, 1 .. n)
  <2>1. \A k, l \in S : place[k] = place[l] => k = l
    <3> SUFFICES ASSUME NEW k \in S, NEW l \in S, place[k] = place[l], k # l
                 PROVE  FALSE
      OBVIOUS
    <3>1. k < l \/ l < k
      OBVIOUS
    <3>2. place[k] < place[l] \/ place[l] < place[k]
      BY <1>3, <3>1
    <3> QED BY <1>1, <1>2, <3>2
  <2>2. place \in [S -> 1 .. n]
    BY <1>2 DEF place
  <2> QED BY <2>1, <2>2, Fun_IsInj
<1>5. /\ IsFiniteSet(1 .. n) /\ Cardinality(1 .. n) = n
  BY <1>1, FS_Interval
<1>6. place \in Surjection(S, 1 .. n)
  BY <1>4, <1>5, FS_Injection
<1>7. \A i \in 1 .. n : \E l \in S : place[l] = i
  BY <1>6, Fun_SurjectionProperties
<1> DEFINE s == [i \in 1 .. n |-> CHOOSE l \in S : place[l] = i]
<1>8. /\ s \in [1 .. n -> S]
      /\ \A i \in 1 .. n : place[s[i]] = i
  BY <1>7
<1> HIDE DEF s
<1>9. ASSUME NEW i \in DOMAIN s, NEW j \in DOMAIN s, i < j
      PROVE  s[i] < s[j]
  <2>1. s[i] \in Nat /\ s[j] \in Nat /\ s[i] \in S /\ s[j] \in S
    BY <1>8
  <2>2. ~ (s[j] < s[i]) /\ s[i] # s[j]
    <3>1. place[s[i]] = i /\ place[s[j]] = j /\ i \in Nat /\ j \in Nat
      BY <1>1, <1>8
    <3>2. s[j] < s[i] => place[s[j]] < place[s[i]]
      BY <1>3, <2>1
    <3> QED BY <1>9, <3>1, <3>2
  <2> QED BY <2>1, <2>2
<1> DEFINE t == InOrder(S)
<1>10. t \in [1 .. n -> S] /\ \A i, j \in DOMAIN t : i < j => t[i] < t[j]
  BY <1>8, <1>9 DEF InOrder
<1> HIDE DEF t
<1>11. t \in Injection(1 .. n, S)
  <2>1. \A i, j \in 1 .. n : t[i] = t[j] => i = j
    <3> SUFFICES ASSUME NEW i \in 1 .. n, NEW j \in 1 .. n, t[i] = t[j], i # j
                 PROVE  FALSE
      OBVIOUS
    <3>1. i < j \/ j < i
      BY <1>1
    <3>2. t[i] < t[j] \/ t[j] < t[i]
      BY <1>10, <3>1
    <3>3. t[i] \in Nat
      BY <1>10
    <3> QED BY <3>2, <3>3
  <2> QED BY <1>10, <2>1, Fun_IsInj
<1>12. t \in Surjection(1 .. n, S)
  BY <1>5, <1>11, FS_Injection
<1>13. \A l \in S : \E i \in 1 .. n : t[i] = l
  BY <1>12 DEF Surjection
<1> QED BY <1>10, <1>13 DEF t

\* The lines a command tells the kitchen about are lines of the order it
\* makes, and it takes a version at least.
LEMMA TouchedLines ==
  ASSUME NEW order \in Aggregates, NEW command, CommandOK(command),
         command.kind \in ReadingKinds, Allowed(order, command), Whole(order)
  PROVE  /\ Touched(order, command) \in SUBSET Nat
         /\ IsFiniteSet(Touched(order, command))
         /\ Touched(order, command)
              \subseteq DOMAIN Resulting(order, command).lines
         /\ Steps(order, command) \in Nat \ {0}
<1> DEFINE after == Resulting(order, command)
           touched == Touched(order, command)
<1>1. /\ order.lines \in Seq(LineStates)
      /\ after.lines \in Seq(LineStates)
      /\ DOMAIN order.lines \subseteq DOMAIN after.lines
  BY DomainMoves DEF Aggregates, MovedOn
<1>2. /\ Len(order.lines) \in Nat /\ DOMAIN order.lines = 1 .. Len(order.lines)
      /\ Len(after.lines) \in Nat /\ DOMAIN after.lines = 1 .. Len(after.lines)
  <2> HIDE DEF after
  <2> QED BY <1>1, LenProperties
<1>3. /\ IsFiniteSet(DOMAIN order.lines) /\ IsFiniteSet(InKitchen(order))
      /\ InKitchen(order) \subseteq DOMAIN order.lines
      /\ Cardinality(InKitchen(order)) \in Nat
  <2>1. IsFiniteSet(DOMAIN order.lines)
    BY <1>2, FS_Interval
  <2>2. InKitchen(order) \in SUBSET DOMAIN order.lines
    BY DEF InKitchen
  <2> QED BY <2>1, <2>2, FS_Subset, FS_CardinalityType
<1>4. DOMAIN order.lines \in SUBSET Nat /\ DOMAIN after.lines \in SUBSET Nat
  BY <1>2
<1>5. CASE command.kind = "add"
  <2>1. touched = {Len(order.lines) + 1} /\ Steps(order, command) = 1
    BY <1>5 DEF Touched, Steps
  <2>2. after.lines = Append(order.lines, "pending")
    BY <1>5 DEF Resulting, AddLine, Aggregates
  <2>3. Len(after.lines) = Len(order.lines) + 1
    BY <1>1, <2>2, AppendProperties DEF LineStates
  <2>4. IsFiniteSet(touched)
    BY <2>1, FS_Singleton
  <2>5. Len(order.lines) + 1 \in 1 .. Len(after.lines)
    BY <1>2, <2>3
  <2>6. Len(order.lines) + 1 \in Nat
    BY <1>2
  <2> QED BY <1>2, <2>1, <2>4, <2>5, <2>6
<1>6. CASE command.kind \in {"advance", "cancel_line"}
  <2>1. /\ touched = {command.line} /\ Steps(order, command) = 1
        /\ command.line \in DOMAIN order.lines
    BY <1>6 DEF Touched, Steps, Allowed, CanMoveLine
  <2>2. IsFiniteSet(touched)
    BY <2>1, FS_Singleton
  <2>3. command.line \in Nat /\ command.line \in DOMAIN after.lines
    BY <1>1, <1>4, <2>1
  <2> QED BY <2>1, <2>2, <2>3
<1>7. CASE command.kind = "send"
  <2>1. /\ touched = command.lines
        /\ Steps(order, command) = Cardinality(command.lines)
                                     + (IF order.status = "draft" THEN 1 ELSE 0)
        /\ command.lines \subseteq Pending(order)
    BY <1>7 DEF Touched, Steps, Allowed
  <2>2. IsFiniteSet(command.lines) /\ command.lines # {}
    BY <1>7 DEF CommandOK, Has
  <2>3. Cardinality(command.lines) \in Nat \ {0}
    BY <2>2, FS_CardinalityType, FS_EmptySet
  <2>4. command.lines \subseteq DOMAIN order.lines
    BY <2>1 DEF Pending
  <2> QED BY <1>1, <1>4, <2>1, <2>2, <2>3, <2>4
<1>8. CASE command.kind = "cancel"
  <2>1. /\ touched = InKitchen(order)
        /\ Steps(order, command) = Cardinality(InKitchen(order)) + 1
    BY <1>8 DEF Touched, Steps
  <2> QED BY <1>1, <1>3, <1>4, <2>1
<1>9. CASE command.kind = "open"
  <2>1. touched = {} /\ Steps(order, command) = 1
    BY <1>9 DEF Touched, Steps
  <2> QED BY <2>1, FS_EmptySet
<1> QED BY <1>5, <1>6, <1>7, <1>8, <1>9 DEF ReadingKinds

\* What a command tells the kitchen: of each touched line once, where the line
\* is then.  (persist_order_mutation's kds event)
LEMMA EventsTell ==
  ASSUME NEW o \in Orders, NEW order \in Aggregates,
         NEW command, CommandOK(command), command.kind \in ReadingKinds,
         Allowed(order, command), Whole(order)
  PROVE  LET events == Events(o, order, command)
             after == Resulting(order, command)
         IN /\ events \in Seq(KdsEvents)
            /\ \A i \in DOMAIN events :
                 /\ events[i].order = o
                 /\ events[i].line \in Touched(order, command)
                 /\ events[i].status = after.lines[events[i].line]
            /\ \A i, j \in DOMAIN events :
                 events[i].line = events[j].line => i = j
            /\ \A l \in Touched(order, command) :
                 \E i \in DOMAIN events : events[i].line = l
<1> DEFINE after == Resulting(order, command)
           touched == Touched(order, command)
           s == InOrder(touched)
           n == Cardinality(touched)
           events == Events(o, order, command)
<1>1. /\ touched \in SUBSET Nat /\ IsFiniteSet(touched)
      /\ touched \subseteq DOMAIN after.lines
  BY TouchedLines
<1>2. after.lines \in Seq(LineStates)
  BY DomainMoves DEF Aggregates
<1>3. events = [i \in DOMAIN s |->
                  [order |-> o, line |-> s[i], status |-> after.lines[s[i]]]]
  BY DEF Events
<1> HIDE DEF after, touched
<1>4. /\ DOMAIN after.lines = 1 .. Len(after.lines) /\ Len(after.lines) \in Nat
      /\ \A l \in touched : after.lines[l] \in LineStates /\ l \in Nat \ {0}
  <2>1. /\ DOMAIN after.lines = 1 .. Len(after.lines)
        /\ Len(after.lines) \in Nat
    BY <1>2, LenProperties
  <2>2. \A l \in DOMAIN after.lines : after.lines[l] \in LineStates
    BY <1>2, <2>1, ElementOfSeq
  <2>3. \A l \in 1 .. Len(after.lines) : l \in Nat \ {0}
    BY <2>1
  <2> QED BY <1>1, <2>1, <2>2, <2>3
<1>5. n \in Nat
  BY <1>1, FS_CardinalityType
<1>6. /\ s \in [1 .. n -> touched]
      /\ \A i, j \in 1 .. n : i < j => s[i] < s[j]
      /\ \A l \in touched : \E i \in 1 .. n : s[i] = l
  BY <1>1, LinesInOrder
<1> HIDE DEF s, n, events
<1>7. /\ DOMAIN events = 1 .. n
      /\ \A i \in 1 .. n :
           /\ events[i] = [order |-> o, line |-> s[i],
                           status |-> after.lines[s[i]]]
           /\ s[i] \in touched
  BY <1>3, <1>6
<1>8. \A i \in 1 .. n : /\ events[i] \in KdsEvents
                        /\ events[i].order = o /\ events[i].line = s[i]
                        /\ events[i].status = after.lines[s[i]]
  BY <1>4, <1>7 DEF KdsEvents
<1>9. events \in Seq(KdsEvents)
  <2>1. events \in [1 .. n -> KdsEvents]
    BY <1>3, <1>6, <1>7, <1>8
  <2> QED BY <1>5, <2>1, IsASeq
<1>10. \A i, j \in 1 .. n : events[i].line = events[j].line => i = j
  <2> SUFFICES ASSUME NEW i \in 1 .. n, NEW j \in 1 .. n, s[i] = s[j], i # j
               PROVE  FALSE
    BY <1>8
  <2>1. i < j \/ j < i
    BY <1>5
  <2>2. s[i] < s[j] \/ s[j] < s[i]
    BY <1>6, <2>1
  <2>3. s[i] \in Nat
    BY <1>1, <1>7
  <2> QED BY <2>2, <2>3
<1> QED BY <1>6, <1>7, <1>8, <1>9, <1>10 DEF events, after, touched

-----------------------------------------------------------------------------
(***************************************************************************)
(* The moves.                                                              *)
(***************************************************************************)

\* The database stands still: a read, an answer out of the journal, a refusal.
Quiet == UNCHANGED <<orderTables, cashTables, deliveries, journal>>

\* An order is created, or written with what its command makes of it: its
\* version grows from the one the command was written against.
OrderWritten(command, row) ==
  LET o == command.order
      old == orders[o]
  IN /\ command.kind \in OrderKinds /\ ~Journaled(command)
     /\ journal' = Logged(journal, Table(command), command,
                          Result(row.version, Null, Null))
     /\ row \in OrderRows /\ Whole(row)
     /\ orders' = [orders EXCEPT ![o] = row]
     /\ OrderVersion(o) = IF command.kind = "create" THEN 0
                          ELSE command.version
     /\ OrderVersion(o) < row.version
     /\ IF command.kind = "create"
        THEN old = Null /\ row.status = "draft" /\ row.lines = <<>>
        ELSE old # Null /\ MovedOn(old, row)
     /\ IF command.kind = "cancel"
        THEN /\ old.status # "cancelled" /\ row.status = "cancelled"
             /\ DeliveryState(o) \notin {"assigned", "en_route"}
             /\ cancellations' = [cancellations EXCEPT ![o] =
                  [captured |-> Captured(o), refund |-> Refund(o)]]
        ELSE /\ command.kind # "create" => MoneyStands(old, row)
             /\ UNCHANGED cancellations
     /\ IF command.kind \in ReadingKinds
        THEN LET read == Aggregate(old)
             IN /\ Allowed(read, command)
                /\ row.status = Resulting(read, command).status
                /\ row.lines = Resulting(read, command).lines
                /\ kds' = kds \o Events(o, read, command)
        ELSE /\ command.kind = "label" => row.lines = old.lines
             /\ UNCHANGED kds
     /\ UNCHANGED <<cashTables, deliveries>>

\* What is left to pay of an order.
Left(o) == Total(orders[o]) - Captured(o)

PaymentRow(command, due) ==
  [order |-> command.order, session |-> command.session,
   method |-> Method(command), amount |-> due, tip |-> Tip(command),
   device |-> command.device, number |-> command.sequence,
   key |-> command.key]

\* The order and the session a payment is written against.
Awaits(command, due) ==
  LET order == orders[command.order]
      session == sessions[command.session]
  IN /\ order # Null /\ Payable(order) /\ order.version = command.version
     /\ session # Null /\ session.status = "open"
     /\ session.version = command.sessionVersion
     /\ sequences[command.device] + 1 = command.sequence
     /\ due \in Nat \ {0} /\ due <= Left(command.order)

\* The rows a payment writes.
PaymentWritten(command, due) ==
  LET o == command.order
      s == command.session
  IN /\ payments' = Append(payments, PaymentRow(command, due))
     /\ sequences' = [sequences EXCEPT ![command.device] =
          @ + Numbers(command)]
     /\ sessions' = [sessions EXCEPT ![s] =
          [sessions[s] EXCEPT !.version = @ + 1,
                              !.drawer = @ + IntoDrawer(command, due)]]
     /\ orders' = [orders EXCEPT ![o] =
          Row(SetStatus(Aggregate(orders[o]),
                        IF due = Left(o) THEN "paid" ELSE "partially_paid"),
              orders[o].version + 1)]
     /\ UNCHANGED <<cancellations, kds>>

Outcome(command, due) ==
  Result(command.version + 1, command.sessionVersion + 1, due)

\* A payment is collected; it may settle a delivery that waits for it, as a
\* cash settlement always does.
PaymentTaken(command, due) ==
  LET o == command.order
  IN /\ ~Journaled(command)
     /\ Awaits(command, due)
     /\ PaymentWritten(command, due)
     /\ \/ /\ command.kind = "collect"
           /\ journal' = Logged(journal, "finance", command,
                                Outcome(command, due))
           /\ UNCHANGED deliveries
        \/ /\ command.kind = "collect"
           /\ journal' = Logged(Logged(journal, "finance", command,
                                       Outcome(command, due)),
                                "derived", command, Result(Null, Null, due))
           /\ due = Left(o) /\ DeliveryState(o) = "delivered"
           /\ Settled(o)
        \/ /\ command.kind = "settle"
           /\ journal' = Logged(Logged(journal, "finance", command,
                                       Outcome(command, due)),
                                "delivery", command, Result(Null, Null, due))
           /\ due = Left(o) /\ Delivered(command)
           /\ Settled(o)

\* A session is opened, when no other is open.
SessionOpened(command) ==
  LET s == command.session
  IN /\ command.kind = "register_open" /\ ~Journaled(command)
     /\ MayOpen(s)
     /\ sessions' = [sessions EXCEPT ![s] =
          [status |-> "open", drawer |-> Float, version |-> 1,
           expected |-> Null]]
     /\ journal' = Logged(journal, "finance", command, Result(Null, 1, Null))
     /\ UNCHANGED <<orderTables, payments, sequences, deliveries>>

\* A session is closed on what its movements say.
SessionClosed(command) ==
  LET s == command.session
      session == sessions[s]
  IN /\ command.kind = "close" /\ ~Journaled(command)
     /\ session # Null /\ session.status = "open"
     /\ session.version = command.sessionVersion
     /\ session.drawer = Movements(s)
     /\ sessions' = [sessions EXCEPT ![s] =
          [session EXCEPT !.status = "closed", !.version = @ + 1,
                          !.expected = Movements(s)]]
     /\ journal' = Logged(journal, "finance", command,
                          Result(Null, session.version + 1, Null))
     /\ UNCHANGED <<orderTables, payments, sequences, deliveries>>

\* A courier is assigned, sent out, arrives or fails.
TripMoved(command) ==
  LET o == command.order
      trip == Trip(o, command)
  IN /\ command.kind \in TripKinds /\ ~Journaled(command)
     /\ Deliverable(o) /\ MayMove(trip, command)
     /\ deliveries' = [deliveries EXCEPT ![o] = Moved(trip, command)]
     /\ journal' = Logged(journal, "delivery", command,
                          Result(Null, Null, Null))
     /\ UNCHANGED <<orderTables, cashTables>>

\* A delivered order that was paid before is settled.
TripPrepaid(command) ==
  /\ command.kind = "settle" /\ ~Journaled(command)
  /\ orders[command.order].status = "paid" /\ Delivered(command)
  /\ Settled(command.order)
  /\ journal' = Logged(journal, "delivery", command, Result(Null, Null, Null))
  /\ UNCHANGED <<orderTables, cashTables>>

Moves(command) ==
  \/ \E row : OrderWritten(command, row)
  \/ \E due : command.kind \in {"collect", "settle"}
                /\ PaymentTaken(command, due)
  \/ SessionOpened(command)
  \/ SessionClosed(command)
  \/ TripMoved(command)
  \/ TripPrepaid(command)

\* What becomes of the call: it ends, or goes on with its command.
CallGoesOn(c) ==
  \E call : /\ calls' = [calls EXCEPT ![c] = call]
            /\ call # Null => /\ CallOK(call)
                              /\ call.command = calls[c].command

Served(c) == CallGoesOn(c) /\ (Quiet \/ Moves(calls[c].command))

-----------------------------------------------------------------------------
(***************************************************************************)
(* Every request is served by moves.                                       *)
(***************************************************************************)

\* A new call knows nothing yet, and an answer goes with the call's command.
LEMMA FreshCalls ==
  ASSUME NEW command
  PROVE  /\ CallOK(NewCall(command)) /\ NewCall(command).command = command
         /\ \A result :
              LET call == [NewCall(command) EXCEPT !.stage = "answered",
                                                   !.result = result]
              IN CallOK(call) /\ call.command = command
BY DEF CallOK, NewCall, CallFields

\* Refusals and answers end a call; out of the journal they write nothing.
LEMMA CallsEnd ==
  ASSUME NEW c
  PROVE  /\ Refuse(c) => CallGoesOn(c)
         /\ \A result : Reply(c, result) => CallGoesOn(c)
         /\ Reject(c) => CallGoesOn(c) /\ Quiet
         /\ Replay(c) => CallGoesOn(c) /\ Quiet
<1>1. Refuse(c) => CallGoesOn(c)
  BY DEF Refuse, CallGoesOn
<1>2. ASSUME NEW result, Reply(c, result) PROVE CallGoesOn(c)
  <2> DEFINE call == [NewCall(calls[c].command)
                        EXCEPT !.stage = "answered", !.result = result]
  <2>1. CallOK(call) /\ call.command = calls[c].command
    BY FreshCalls
  <2>2. calls' = [calls EXCEPT ![c] = call]
    BY <1>2 DEF Reply
  <2> HIDE DEF call
  <2> QED BY <2>1, <2>2 DEF CallGoesOn
<1> QED BY <1>1, <1>2 DEF Reject, Replay, Quiet

\* A call that only read goes on.
LEMMA CallsProceed ==
  ASSUME NEW c, NEW call, Proceed(c, call), CallOK(call),
         call.command = calls[c].command
  PROVE  Served(c)
BY DEF Proceed, Served, CallGoesOn, Quiet

\* What a call being served is known to be.
LEMMA CallKnown ==
  ASSUME Types, NEW c \in Callers, calls[c] # Null
  PROVE  /\ CallOK(calls[c]) /\ CommandOK(calls[c].command)
         /\ calls[c].command \in Sent
BY DEF Types, CallsOK, HeardOK, Heard, Sent

\* What a stored order is known to be.
LEMMA OrderKnown ==
  ASSUME Types, NEW o \in Orders, orders[o] # Null
  PROVE  /\ orders[o] \in OrderRows /\ Whole(orders[o])
         /\ Aggregate(orders[o]) \in Aggregates
         /\ Whole(Aggregate(orders[o]))
         /\ OrderVersion(o) = orders[o].version
<1>1. orders[o] \in OrderRows /\ Whole(orders[o])
  BY DEF Types, RowsOK
<1>2. Whole(Aggregate(orders[o]))
  BY <1>1, RowsAndAggregates DEF Whole, LiveLines
<1> QED BY <1>1, <1>2, RowsAndAggregates DEF OrderVersion

\* Reading an order, the domain's verdict with it, moves nothing.
LEMMA ReadServes ==
  ASSUME Types, NEW c \in Callers, Read(c)
  PROVE  Served(c)
<1> DEFINE command == calls[c].command
           row == orders[command.order]
           call == [calls[c] EXCEPT !.stage = "computed", !.order = row]
<1>1. calls[c] # Null /\ command.kind \in ReadingKinds
  BY DEF Read, At
<1>2. CallOK(calls[c]) /\ CommandOK(command)
  BY <1>1, CallKnown
<1>3. command.order \in Orders
  BY <1>1, <1>2 DEF CommandOK, Has, ReadingKinds, OrderKinds
<1>4. CASE Reject(c)
  BY <1>4, CallsEnd DEF Served
<1>5. CASE ~Reject(c)
  <2>1. /\ Proceed(c, call) /\ row # Null
        /\ row.version = command.version => Allowed(Aggregate(row), command)
    BY <1>5 DEF Read
  <2>2. row \in OrderRows
    BY <1>3, <2>1, OrderKnown
  <2> HIDE DEF row
  <2>3. /\ DOMAIN call = CallFields /\ call.command = command
        /\ call.stage = "computed" /\ call.order = row
        /\ call.captured = calls[c].captured /\ call.due = calls[c].due
        /\ call.session = calls[c].session
    BY <1>2 DEF CallOK, CallFields
  <2> HIDE DEF call
  <2>4. CallOK(call)
    BY <1>2, <2>1, <2>2, <2>3 DEF CallOK
  <2> QED BY <2>1, <2>3, <2>4, CallsProceed
<1> QED BY <1>4, <1>5

\* Creating an order.
LEMMA CreateServes ==
  ASSUME Types, NEW c \in Callers, Create(c)
  PROVE  Served(c)
<1> DEFINE command == calls[c].command
           o == command.order
           charge == IF o \in DeliveryOrders THEN DeliveryCharge ELSE 0
           row == Row(NewOrder(charge), 1)
<1>1. calls[c] # Null /\ command.kind = "create"
  BY DEF Create, At
<1>2. CallOK(calls[c]) /\ CommandOK(command)
  BY <1>1, CallKnown
<1>3. o \in Orders
  BY <1>1, <1>2 DEF CommandOK, Has, OrderKinds
<1>4. CASE Replay(c) \/ Reject(c)
  BY <1>4, CallsEnd DEF Served
<1>5. CASE ~ (Replay(c) \/ Reject(c))
  <2>1. /\ ~Journaled(command) /\ orders[o] = Null
        /\ orders' = [orders EXCEPT ![o] = row]
        /\ Commit(c, Result(1, Null, Null))
        /\ UNCHANGED <<cancellations, kds, cashTables, deliveries>>
    BY <1>5 DEF Create
  <2>2. NewOrder(charge) \in Aggregates /\ NewOrder(charge).status = "draft"
        /\ NewOrder(charge).lines = <<>>
    BY EmptySeq DEF NewOrder, Aggregates, OrderStates
  <2>3. /\ row \in OrderRows /\ row.status = "draft" /\ row.lines = <<>>
        /\ row.version = 1
    BY <2>2, RowsAndAggregates
  <2> HIDE DEF row
  <2>4. Whole(row)
    BY <2>3 DEF Whole
  <2>5. OrderVersion(o) = 0
    BY <2>1 DEF OrderVersion
  <2>6. OrderWritten(command, row)
    BY <1>1, <2>1, <2>3, <2>4, <2>5
       DEF OrderWritten, OrderKinds, Commit, ReadingKinds
  <2>7. CallGoesOn(c)
    BY <2>1, CallsEnd DEF Commit
  <2> QED BY <2>6, <2>7 DEF Served, Moves
<1> QED BY <1>4, <1>5

\* Labelling an order.
LEMMA LabelServes ==
  ASSUME Types, NEW c \in Callers, Label(c)
  PROVE  Served(c)
<1> DEFINE command == calls[c].command
           o == command.order
           row == [orders[o] EXCEPT !.version = @ + 1]
<1>1. calls[c] # Null /\ command.kind = "label"
  BY DEF Label, At
<1>2. CallOK(calls[c]) /\ CommandOK(command)
  BY <1>1, CallKnown
<1>3. o \in Orders
  BY <1>1, <1>2 DEF CommandOK, Has, OrderKinds
<1>4. CASE Replay(c) \/ Reject(c)
  BY <1>4, CallsEnd DEF Served
<1>5. CASE ~ (Replay(c) \/ Reject(c))
  <2>1. /\ ~Journaled(command) /\ orders[o] # Null
        /\ orders[o].version = command.version
        /\ AcceptsNewLines(orders[o].status)
        /\ orders' = [orders EXCEPT ![o].version = @ + 1]
        /\ Commit(c, Result(command.version + 1, Null, Null))
        /\ UNCHANGED <<cancellations, kds, cashTables, deliveries>>
    BY <1>5 DEF Label
  <2>2. /\ orders[o] \in OrderRows /\ OrderVersion(o) = command.version
        /\ Whole(orders[o])
    BY <1>3, <2>1, OrderKnown
  <2>3. orders' = [orders EXCEPT ![o] = row]
    BY <2>1
  <2>4. orders[o].version + 1 \in Nat \ {0} /\ orders[o].version \in Nat
    BY <2>2 DEF OrderRows
  <2>5. /\ row \in OrderRows /\ row.version = orders[o].version + 1
        /\ row.status = orders[o].status /\ row.lines = orders[o].lines
        /\ row.charge = orders[o].charge
    BY <2>2, <2>4 DEF OrderRows
  <2> HIDE DEF row
  <2>6. Whole(row) /\ MovedOn(orders[o], row) /\ Total(row) = Total(orders[o])
    BY <2>2, <2>5 DEF Whole, LiveLines, MovedOn, Total
  <2>7. orders[o].status \in {"draft", "open", "partially_paid"}
    BY <2>1 DEF AcceptsNewLines
  <2>8. Total(orders[o]) \in Nat
    <3>1. Aggregate(orders[o]) \in Aggregates
          /\ Aggregate(orders[o]).status # "cancelled"
          /\ Total(orders[o]) = Total(Aggregate(orders[o]))
      BY <2>2, <2>7, RowsAndAggregates
    <3> QED BY <3>1, TotalGrows
  <2>9. MoneyStands(orders[o], row)
    BY <2>5, <2>6, <2>7, <2>8 DEF MoneyStands
  <2>10. OrderVersion(o) < row.version
    BY <2>1, <2>2, <2>4, <2>5
  <2>11. journal' = Logged(journal, Table(command), command,
                           Result(row.version, Null, Null))
    BY <2>1, <2>5 DEF Commit
  <2>12. OrderWritten(command, row)
    BY <1>1, <2>1, <2>2, <2>3, <2>5, <2>6, <2>9, <2>10, <2>11
       DEF OrderWritten, OrderKinds, ReadingKinds
  <2>13. CallGoesOn(c)
    BY <2>1, CallsEnd DEF Commit
  <2> QED BY <2>12, <2>13 DEF Served, Moves
<1> QED BY <1>4, <1>5

\* Writing what was computed, when it was computed from the stored row.
LEMMA WriteServes ==
  ASSUME Types, NEW c \in Callers, calls[c] # Null,
         calls[c].stage = "computed", calls[c].command.kind \in ReadingKinds,
         ~Journaled(calls[c].command), Current(c), Write(c),
         IF calls[c].command.kind = "cancel"
         THEN LET o == calls[c].command.order
              IN /\ MayCancel(o)
                 /\ cancellations' = [cancellations EXCEPT ![o] =
                      [captured |-> Captured(o), refund |-> Refund(o)]]
         ELSE UNCHANGED cancellations
  PROVE  Served(c)
<1> DEFINE command == calls[c].command
           o == command.order
           old == orders[o]
           read == Aggregate(old)
           after == Resulting(read, command)
           version == old.version + Steps(read, command)
           row == Row(after, version)
<1>1. CallOK(calls[c]) /\ CommandOK(command)
  BY CallKnown
<1>2. o \in Orders
  BY <1>1 DEF CommandOK, Has, ReadingKinds, OrderKinds
<1>3. old # Null /\ old.version = command.version /\ calls[c].order = old
  BY DEF Current
<1>4. /\ old \in OrderRows /\ read \in Aggregates
      /\ Whole(read) /\ OrderVersion(o) = old.version
      /\ old.version \in Nat
      /\ read.status = old.status /\ read.lines = old.lines
      /\ Total(old) = Total(read)
  BY <1>2, <1>3, OrderKnown, RowsAndAggregates
<1>5. Allowed(read, command)
  BY <1>1, <1>3 DEF CallOK
<1>6. /\ after \in Aggregates /\ Whole(after) /\ MovedOn(read, after)
      /\ IF command.kind = "cancel"
         THEN read.status # "cancelled" /\ after.status = "cancelled"
         ELSE MoneyStands(read, after)
  BY <1>1, <1>4, <1>5, DomainMoves
<1>7. Steps(read, command) \in Nat \ {0}
  BY <1>1, <1>4, <1>5, TouchedLines
<1>8. /\ orders' = [orders EXCEPT ![o] = row]
      /\ kds' = kds \o Events(o, read, command)
      /\ Commit(c, Result(version, Null, Null))
      /\ UNCHANGED <<cashTables, deliveries>>
  BY <1>3 DEF Write
<1>9. version \in Nat \ {0} /\ old.version < version
  BY <1>4, <1>7
<1> HIDE DEF version, after, read, old
<1>10. /\ row \in OrderRows /\ row.version = version
       /\ row.status = after.status /\ row.lines = after.lines
       /\ Total(row) = Total(after)
  BY <1>6, <1>9, RowsAndAggregates
<1> HIDE DEF row
<1>11. /\ Whole(row) /\ MovedOn(old, row)
       /\ command.kind # "cancel" => MoneyStands(old, row)
  BY <1>4, <1>6, <1>10 DEF Whole, LiveLines, MovedOn, MoneyStands
<1>12. OrderWritten(command, row)
  <2>1. /\ command.kind \in OrderKinds /\ command.kind # "create"
        /\ ~Journaled(command) /\ command.kind \in ReadingKinds
    BY DEF OrderKinds, ReadingKinds
  <2>2. journal' = Logged(journal, Table(command), command,
                          Result(row.version, Null, Null))
    BY <1>8, <1>10 DEF Commit
  <2>3. /\ OrderVersion(o) = command.version /\ OrderVersion(o) < row.version
    BY <1>3, <1>4, <1>9, <1>10 DEF old
  <2>4. IF command.kind = "cancel"
        THEN /\ old.status # "cancelled" /\ row.status = "cancelled"
             /\ DeliveryState(o) \notin {"assigned", "en_route"}
             /\ cancellations' = [cancellations EXCEPT ![o] =
                  [captured |-> Captured(o), refund |-> Refund(o)]]
        ELSE /\ MoneyStands(old, row)
             /\ UNCHANGED cancellations
    BY <1>4, <1>6, <1>10, <1>11 DEF MayCancel
  <2> QED BY <1>3, <1>5, <1>8, <1>10, <1>11, <2>1, <2>2, <2>3, <2>4
          DEF OrderWritten, old, read, after
<1>13. CallGoesOn(c)
  BY <1>8, CallsEnd DEF Commit
<1> QED BY <1>12, <1>13 DEF Served, Moves

\* The SQL functions that persist a computed order.
LEMMA PersistServes ==
  ASSUME Types, NEW c \in Callers, Persist(c) \/ CancelOrder(c)
  PROVE  Served(c)
<1>1. /\ calls[c] # Null /\ calls[c].stage = "computed"
      /\ calls[c].command.kind \in ReadingKinds
  BY DEF Persist, CancelOrder, At, ReadingKinds
<1>2. CASE Replay(c) \/ Reject(c)
  BY <1>2, CallsEnd DEF Served
<1>3. CASE ~ (Replay(c) \/ Reject(c))
  <2>1. /\ ~Journaled(calls[c].command) /\ Current(c) /\ Write(c)
        /\ IF calls[c].command.kind = "cancel"
           THEN LET o == calls[c].command.order
                IN /\ MayCancel(o)
                   /\ cancellations' = [cancellations EXCEPT ![o] =
                        [captured |-> Captured(o), refund |-> Refund(o)]]
           ELSE UNCHANGED cancellations
    BY <1>3 DEF Persist, CancelOrder, At
  <2> QED BY <1>1, <2>1, WriteServes
<1> QED BY <1>2, <1>3

\* Every step of the order service.
LEMMA OrderServes ==
  ASSUME Types, NEW c \in Callers, OrderStep(c)
  PROVE  Served(c)
BY ReadServes, CreateServes, LabelServes, PersistServes DEF OrderStep

\* What a stored session is known to be.
LEMMA SessionKnown ==
  ASSUME Types, NEW s \in Sessions, sessions[s] # Null
  PROVE  /\ sessions[s] \in SessionRows
         /\ sessions[s].status \in {"open", "closed"}
         /\ sessions[s].drawer \in Nat
         /\ sessions[s].version \in Nat \ {0}
         /\ sessions[s].expected \in Nat \union {Null}
<1>1. sessions[s] \in SessionRows
  BY DEF Types, RowsOK
<1> QED BY <1>1 DEF SessionRows

\* Finding out what was journaled.
LEMMA LookServes ==
  ASSUME Types, NEW c \in Callers, Look(c)
  PROVE  Served(c)
<1> DEFINE call == [calls[c] EXCEPT !.stage = "looked"]
<1>1. CallOK(calls[c])
  BY CallKnown DEF Look, At
<1>2. CASE Replay(c)
  BY <1>2, CallsEnd DEF Served
<1>3. CASE ~Replay(c)
  <2>1. Proceed(c, call)
    BY <1>3 DEF Look
  <2>2. /\ DOMAIN call = CallFields /\ call.command = calls[c].command
        /\ call.stage = "looked" /\ call.order = calls[c].order
        /\ call.captured = calls[c].captured /\ call.due = calls[c].due
        /\ call.session = calls[c].session
    BY <1>1 DEF CallOK, CallFields
  <2> HIDE DEF call
  <2>3. CallOK(call)
    BY <1>1, <2>2 DEF CallOK
  <2> QED BY <2>1, <2>2, <2>3, CallsProceed
<1> QED BY <1>2, <1>3

\* Reading an order on the way to a stage that asks nothing but the order and,
\* of a settlement, the amount it carries.
LEMMA ReadOrderServes ==
  ASSUME Types, NEW c \in Callers, calls[c] # Null,
         calls[c].command.kind \in {"collect", "settle"},
         NEW next \in {"weighing", "ordered"}, ReadOrder(c, next),
         next = "ordered" /\ calls[c].command.kind = "settle"
           => calls[c].due # 0
  PROVE  Served(c)
<1> DEFINE o == calls[c].command.order
           call == [calls[c] EXCEPT !.stage = next, !.order = orders[o]]
<1>1. CallOK(calls[c]) /\ CommandOK(calls[c].command)
  BY CallKnown
<1>2. o \in Orders
  BY <1>1 DEF CommandOK, Has
<1>3. CASE Reject(c)
  BY <1>3, CallsEnd DEF Served
<1>4. CASE ~Reject(c)
  <2>1. Proceed(c, call) /\ orders[o] # Null
    BY <1>4 DEF ReadOrder
  <2>2. orders[o] \in OrderRows
    BY <1>2, <2>1, OrderKnown
  <2>3. /\ DOMAIN call = CallFields /\ call.command = calls[c].command
        /\ call.stage = next /\ call.order = orders[o]
        /\ call.captured = calls[c].captured /\ call.due = calls[c].due
        /\ call.session = calls[c].session
    BY <1>1 DEF CallOK, CallFields
  <2> HIDE DEF call
  <2>4. CallOK(call)
    BY <1>1, <2>1, <2>2, <2>3 DEF CallOK
  <2> QED BY <2>1, <2>3, <2>4, CallsProceed
<1> QED BY <1>3, <1>4

\* A call after it read the register.
LEMMA RegisterRead ==
  ASSUME Types, NEW c \in Callers, calls[c] # Null,
         calls[c].command.kind \in {"collect", "settle"}, NEW next
  PROVE  LET call == WithRegister(c, next)
         IN /\ DOMAIN call = CallFields /\ call.command = calls[c].command
            /\ call.stage = next /\ call.order = calls[c].order
            /\ call.captured \in Nat /\ call.due = calls[c].due
            /\ call.session \in SessionRows \union {Null}
<1> DEFINE s == calls[c].command.session
           o == calls[c].command.order
<1>1. CallOK(calls[c]) /\ CommandOK(calls[c].command)
  BY CallKnown
<1>2. s \in Sessions
  BY <1>1 DEF CommandOK, Has, FinancialKinds
<1>3. sessions[s] \in SessionRows \union {Null}
  BY <1>2 DEF Types, RowsOK
<1>4. Captured(o) \in Nat
  BY MoneyIsNat DEF Types, RowsOK
<1> QED BY <1>1, <1>3, <1>4 DEF WithRegister, CallOK, CallFields

\* Preparing a collection, also a settlement's.
LEMMA PrepareServes ==
  ASSUME Types, NEW c \in Callers,
         PrepareCollection(c) \/ PrepareSettlement(c)
  PROVE  Served(c)
<1> DEFINE command == calls[c].command
           read == WithRegister(c, "prepared")
<1>1. /\ calls[c] # Null /\ command.kind \in {"collect", "settle"}
      /\ calls[c].stage = "ordered"
  BY DEF PrepareCollection, PrepareSettlement, At
<1>2. CallOK(calls[c]) /\ CommandOK(command)
  BY <1>1, CallKnown
<1>3. /\ DOMAIN read = CallFields /\ read.command = command
      /\ read.stage = "prepared" /\ read.order = calls[c].order
      /\ read.captured \in Nat /\ read.due = calls[c].due
      /\ read.session \in SessionRows \union {Null}
  BY <1>1, RegisterRead
<1>4. CASE Reject(c)
  BY <1>4, CallsEnd DEF Served
<1>5. CASE ~Reject(c)
  <2>1. PICK call : /\ Proceed(c, call) /\ Collectable(call, call.due)
                    /\ \/ /\ command.kind = "collect"
                          /\ call = [read EXCEPT !.due = command.amount]
                       \/ command.kind = "settle" /\ call = read
    BY <1>5 DEF PrepareCollection, PrepareSettlement, At
  <2>2. command.kind = "collect" => command.amount \in Nat \ {0}
    BY <1>2 DEF CommandOK, Has
  <2>3. command.kind = "settle" => calls[c].due # 0
    BY <1>1, <1>2 DEF CallOK
  <2> HIDE DEF read
  <2>4. /\ DOMAIN call = CallFields /\ call.command = command
        /\ call.stage = "prepared" /\ call.order = calls[c].order
        /\ call.captured \in Nat /\ call.due \in Nat \ {0}
        /\ call.session \in SessionRows \union {Null}
    BY <1>2, <1>3, <2>1, <2>2, <2>3 DEF CallFields, CallOK
  <2>5. call.session # Null /\ call.order # Null
    BY <1>1, <1>2, <2>1, <2>4 DEF Collectable, CallOK
  <2>6. CallOK(call)
    BY <1>2, <2>4, <2>5 DEF CallOK
  <2> QED BY <2>1, <2>4, <2>6, CallsProceed
<1> QED BY <1>4, <1>5

\* Weighing what is left to pay of a delivered order.
LEMMA WeighServes ==
  ASSUME Types, NEW c \in Callers, Weigh(c)
  PROVE  Served(c)
<1> DEFINE read == WithRegister(c, "weighed")
           left == Remaining(read)
           call == [read EXCEPT
                      !.stage = IF left = 0 THEN "prepaid" ELSE @,
                      !.due = left]
<1>1. /\ calls[c] # Null /\ calls[c].command.kind \in {"collect", "settle"}
      /\ calls[c].stage = "weighing"
  BY DEF Weigh, At
<1>2. CallOK(calls[c])
  BY <1>1, CallKnown
<1>3. /\ DOMAIN read = CallFields /\ read.command = calls[c].command
      /\ read.stage = "weighed" /\ read.order = calls[c].order
      /\ read.captured \in Nat /\ read.due = calls[c].due
      /\ read.session \in SessionRows \union {Null}
  BY <1>1, RegisterRead
<1>4. CASE Reject(c)
  BY <1>4, CallsEnd DEF Served
<1>5. CASE ~Reject(c)
  <2>1. Proceed(c, call) /\ ~ (left < 0)
    BY <1>5 DEF Weigh
  <2>2. calls[c].order \in OrderRows
    BY <1>1, <1>2 DEF CallOK
  <2>3. Total(calls[c].order) \in Nat
    BY <2>2, CostIsNat
  <2>4. left \in Nat
    BY <1>3, <2>1, <2>3 DEF Remaining
  <2> HIDE DEF read, left
  <2>5. /\ DOMAIN call = CallFields /\ call.command = calls[c].command
        /\ call.stage = IF left = 0 THEN "prepaid" ELSE "weighed"
        /\ call.order = calls[c].order
        /\ call.captured = read.captured /\ call.due = left
        /\ call.session = read.session
    BY <1>3 DEF CallFields
  <2> HIDE DEF call
  <2>6. CallOK(call)
    BY <1>2, <1>3, <2>4, <2>5 DEF CallOK
  <2> QED BY <2>1, <2>5, <2>6, CallsProceed
<1> QED BY <1>4, <1>5

\* The reads before a payment, a settlement and a close.
LEMMA ReadsServe ==
  ASSUME Types, NEW c \in Callers,
         \/ ReadForCollection(c) \/ ReadForBalance(c)
         \/ ReadForSettlement(c) \/ ReadForClose(c)
  PROVE  Served(c)
<1>1. CASE ReadForCollection(c)
  BY <1>1, ReadOrderServes DEF ReadForCollection, At
<1>2. CASE ReadForBalance(c)
  BY <1>2, ReadOrderServes DEF ReadForBalance, At
<1>3. CASE ReadForSettlement(c)
  <2>1. /\ calls[c] # Null /\ calls[c].stage = "weighed"
        /\ calls[c].command.kind = "settle" /\ ReadOrder(c, "ordered")
    BY <1>3 DEF ReadForSettlement, At
  <2>2. calls[c].due # 0
    BY <2>1, CallKnown DEF CallOK
  <2> QED BY <2>1, <2>2, ReadOrderServes
<1>4. CASE ReadForClose(c)
  <2> DEFINE s == calls[c].command.session
             call == [calls[c] EXCEPT !.stage = "prepared",
                                      !.session = sessions[s]]
  <2>1. /\ calls[c] # Null /\ calls[c].command.kind = "close"
    BY <1>4 DEF ReadForClose, At
  <2>2. CallOK(calls[c]) /\ CommandOK(calls[c].command)
    BY <2>1, CallKnown
  <2>3. s \in Sessions
    BY <2>1, <2>2 DEF CommandOK, Has, FinancialKinds
  <2>4. CASE Reject(c)
    BY <2>4, CallsEnd DEF Served
  <2>5. CASE ~Reject(c)
    <3>1. Proceed(c, call) /\ sessions[s] # Null
      BY <1>4, <2>5 DEF ReadForClose
    <3>2. sessions[s] \in SessionRows
      BY <2>3, <3>1, SessionKnown
    <3>3. /\ DOMAIN call = CallFields /\ call.command = calls[c].command
          /\ call.stage = "prepared" /\ call.order = calls[c].order
          /\ call.captured = calls[c].captured /\ call.due = calls[c].due
          /\ call.session = sessions[s]
      BY <2>2 DEF CallOK, CallFields
    <3> HIDE DEF call
    <3>4. CallOK(call)
      BY <2>1, <2>2, <3>1, <3>2, <3>3 DEF CallOK
    <3> QED BY <3>1, <3>3, <3>4, CallsProceed
  <2> QED BY <2>4, <2>5
<1> QED BY <1>1, <1>2, <1>3, <1>4

\* Opening and closing a session.
LEMMA RegisterServes ==
  ASSUME Types, NEW c \in Callers, OpenRegister(c) \/ CloseRegister(c)
  PROVE  Served(c)
<1> DEFINE command == calls[c].command
           s == command.session
<1>1. /\ calls[c] # Null /\ command.kind \in {"register_open", "close"}
  BY DEF OpenRegister, CloseRegister, At
<1>2. CallOK(calls[c]) /\ CommandOK(command)
  BY <1>1, CallKnown
<1>3. s \in Sessions
  BY <1>1, <1>2 DEF CommandOK, Has, FinancialKinds
<1>4. Table(command) = "finance"
  BY <1>1 DEF Table
<1>5. CASE Replay(c) \/ Reject(c)
  BY <1>5, CallsEnd DEF Served
<1>6. CASE OpenRegister(c) /\ ~ (Replay(c) \/ Reject(c))
  <2>1. /\ command.kind = "register_open" /\ ~Journaled(command) /\ MayOpen(s)
        /\ sessions' = [sessions EXCEPT ![s] =
             [status |-> "open", drawer |-> Float, version |-> 1,
              expected |-> Null]]
        /\ Commit(c, Result(Null, 1, Null))
        /\ UNCHANGED <<orderTables, payments, sequences, deliveries>>
    BY <1>6 DEF OpenRegister, At
  <2>2. SessionOpened(command)
    BY <1>4, <2>1 DEF SessionOpened, Commit
  <2> QED BY <2>1, <2>2, CallsEnd DEF Served, Moves, Commit
<1>7. CASE CloseRegister(c) /\ ~ (Replay(c) \/ Reject(c))
  <2>1. /\ command.kind = "close" /\ ~Journaled(command)
        /\ calls[c].stage = "prepared"
        /\ SessionCurrent(calls[c]) /\ calls[c].session.drawer = Movements(s)
        /\ sessions' = [sessions EXCEPT ![s] =
             [calls[c].session EXCEPT !.status = "closed", !.version = @ + 1,
                                      !.expected = Movements(s)]]
        /\ Commit(c, Result(Null, calls[c].session.version + 1, Null))
        /\ UNCHANGED <<orderTables, payments, sequences, deliveries>>
    BY <1>7 DEF CloseRegister, At
  <2>2. calls[c].session # Null
    BY <1>2, <2>1 DEF CallOK
  <2>3. SessionClosed(command)
    BY <1>4, <2>1, <2>2 DEF SessionClosed, Commit, SessionCurrent
  <2> QED BY <2>1, <2>3, CallsEnd DEF Served, Moves, Commit
<1> QED BY <1>5, <1>6, <1>7

\* What collect_simple_payment_core takes and writes: the rows it compared
\* are the stored ones.
LEMMA CoreTakes ==
  ASSUME Types, NEW c \in Callers, calls[c] # Null,
         calls[c].stage = "prepared",
         calls[c].command.kind \in {"collect", "settle"},
         CoreAllows(calls[c])
  PROVE  /\ Awaits(calls[c].command, calls[c].due)
         /\ Collected(c) => PaymentWritten(calls[c].command, calls[c].due)
         /\ CoreResult(calls[c]) = Outcome(calls[c].command, calls[c].due)
         /\ StatusAfter(calls[c]) =
              IF calls[c].due = Left(calls[c].command.order)
              THEN "paid" ELSE "partially_paid"
         /\ Total(calls[c].order) - calls[c].captured
              = Left(calls[c].command.order)
<1> DEFINE call == calls[c]
           command == call.command
           o == command.order
           s == command.session
           due == call.due
<1>1. CallOK(call) /\ CommandOK(command)
  BY CallKnown
<1>2. o \in Orders /\ s \in Sessions
  BY <1>1 DEF CommandOK, Has, FinancialKinds
<1>3. call.session # Null /\ call.order # Null /\ due \in Nat \ {0}
  BY <1>1 DEF CallOK
<1>4. /\ orders[o] = call.order /\ Payable(orders[o])
      /\ orders[o].version = command.version
      /\ sessions[s] = call.session /\ sessions[s].status = "open"
      /\ sessions[s].version = command.sessionVersion
      /\ Captured(o) = call.captured
      /\ due <= Total(orders[o]) - call.captured
      /\ sequences[command.device] + 1 = command.sequence
  BY DEF CoreAllows, OrderCurrent, SessionCurrent
<1>5. Left(o) = Total(call.order) - call.captured
  BY <1>4 DEF Left
<1>6. Awaits(command, due)
  BY <1>3, <1>4 DEF Awaits, Left
<1>7. StatusAfter(call) = IF due = Left(o) THEN "paid" ELSE "partially_paid"
  BY <1>5 DEF StatusAfter, Remaining
<1>8. Collected(c) => PaymentWritten(command, due)
  BY <1>4, <1>7 DEF Collected, CoreWrites, PaymentWritten, PaymentRow
<1>9. CoreResult(call) = Outcome(command, due)
  BY DEF CoreResult, Outcome
<1> QED BY <1>5, <1>6, <1>7, <1>8, <1>9

\* Collecting a payment.
LEMMA CollectServes ==
  ASSUME Types, NEW c \in Callers, Collect(c)
  PROVE  Served(c)
<1> DEFINE call == calls[c]
           command == call.command
           o == command.order
<1>1. /\ call # Null /\ command.kind = "collect" /\ call.stage = "prepared"
  BY DEF Collect, At
<1>2. CASE Replay(c) \/ Reject(c)
  BY <1>2, CallsEnd DEF Served
<1>3. CASE ~ (Replay(c) \/ Reject(c))
  <2>1. /\ ~Journaled(command) /\ CoreAllows(call) /\ Collected(c)
        /\ Reply(c, CoreResult(call))
        /\ IF DeliveryState(o) = "delivered" /\ StatusAfter(call) = "paid"
           THEN /\ deliveries' = [deliveries EXCEPT
                     ![o].state = "settled", ![o].version = @ + 1]
                /\ journal' =
                     Logged(Logged(journal, "finance", command,
                                   CoreResult(call)),
                            "derived", command,
                            Result(Null, Null, call.due))
           ELSE /\ journal' = Logged(journal, "finance", command,
                                     CoreResult(call))
                /\ UNCHANGED deliveries
    BY <1>3 DEF Collect
  <2>2. /\ Awaits(command, call.due) /\ PaymentWritten(command, call.due)
        /\ CoreResult(call) = Outcome(command, call.due)
        /\ StatusAfter(call) = IF call.due = Left(o) THEN "paid"
                               ELSE "partially_paid"
    BY <1>1, <2>1, CoreTakes
  <2>3. PaymentTaken(command, call.due)
    BY <1>1, <2>1, <2>2 DEF PaymentTaken, Settled
  <2>4. CallGoesOn(c)
    BY <2>1, CallsEnd
  <2> QED BY <1>1, <2>3, <2>4 DEF Served, Moves
<1> QED BY <1>2, <1>3

\* Settling a delivered order in cash.
LEMMA SettleServes ==
  ASSUME Types, NEW c \in Callers, Settle(c)
  PROVE  Served(c)
<1> DEFINE call == calls[c]
           command == call.command
           o == command.order
<1>1. /\ call # Null /\ command.kind = "settle" /\ call.stage = "prepared"
  BY DEF Settle, At
<1>2. CASE Replay(c) \/ Reject(c)
  BY <1>2, CallsEnd DEF Served
<1>3. CASE ~ (Replay(c) \/ Reject(c))
  <2>1. /\ ~Journaled(command) /\ CoreAllows(call) /\ Collected(c)
        /\ call.due = Total(call.order) - call.captured
        /\ Delivered(command) /\ Settled(o)
        /\ journal' = Logged(Logged(journal, "finance", command,
                                    CoreResult(call)),
                             "delivery", command,
                             Result(Null, Null, call.due))
        /\ Reply(c, Result(Null, Null, call.due))
    BY <1>3 DEF Settle, SettlementEntry
  <2>2. /\ Awaits(command, call.due) /\ PaymentWritten(command, call.due)
        /\ CoreResult(call) = Outcome(command, call.due)
        /\ call.due = Left(o)
    BY <1>1, <2>1, CoreTakes
  <2>3. PaymentTaken(command, call.due)
    BY <1>1, <2>1, <2>2 DEF PaymentTaken
  <2>4. CallGoesOn(c)
    BY <2>1, CallsEnd
  <2> QED BY <1>1, <2>3, <2>4 DEF Served, Moves
<1> QED BY <1>2, <1>3

\* Moving a trip, and settling one whose order was prepaid.
LEMMA TripServes ==
  ASSUME Types, NEW c \in Callers, MoveDelivery(c) \/ SettlePrepaid(c)
  PROVE  Served(c)
<1> DEFINE command == calls[c].command
           o == command.order
<1>1. CASE Replay(c) \/ Reject(c)
  BY <1>1, CallsEnd DEF Served
<1>2. CASE MoveDelivery(c) /\ ~ (Replay(c) \/ Reject(c))
  <2>1. /\ command.kind \in TripKinds /\ ~Journaled(command)
        /\ Deliverable(o) /\ MayMove(Trip(o, command), command)
        /\ deliveries' = [deliveries EXCEPT
                            ![o] = Moved(Trip(o, command), command)]
        /\ Commit(c, Result(Null, Null, Null))
        /\ UNCHANGED <<orderTables, cashTables>>
    BY <1>2 DEF MoveDelivery, At
  <2>2. Table(command) = "delivery"
    BY <2>1 DEF Table, TripKinds
  <2>3. TripMoved(command)
    BY <2>1, <2>2 DEF TripMoved, Commit
  <2> QED BY <2>1, <2>3, CallsEnd DEF Served, Moves, Commit
<1>3. CASE SettlePrepaid(c) /\ ~ (Replay(c) \/ Reject(c))
  <2>1. command.kind = "settle"
    BY <1>3 DEF SettlePrepaid, At
  <2>2. CASE Journaled(command)
    <3>1. /\ Reply(c, Result(Null, Null, Null))
          /\ UNCHANGED <<orderTables, cashTables, deliveries, journal>>
      BY <1>3, <2>2 DEF SettlePrepaid
    <3> QED BY <3>1, CallsEnd DEF Served, Quiet
  <2>3. CASE ~Journaled(command)
    <3>1. /\ orders[o].status = "paid" /\ Delivered(command)
          /\ Settled(o)
          /\ journal' = Logged(journal, "delivery", command,
                               Result(Null, Null, Null))
          /\ Reply(c, Result(Null, Null, Null))
          /\ UNCHANGED <<orderTables, cashTables>>
      BY <1>3, <2>3 DEF SettlePrepaid, SettlementEntry
    <3>2. TripPrepaid(command)
      BY <2>1, <2>3, <3>1 DEF TripPrepaid
    <3> QED BY <3>1, <3>2, CallsEnd DEF Served, Moves
  <2> QED BY <2>2, <2>3
<1> QED BY <1>1, <1>2, <1>3

\* Whatever serves a call makes a move, or none, and lets the call go on.
LEMMA EveryServiceMoves ==
  ASSUME Types, NEW c \in Callers, Serve(c)
  PROVE  Served(c)
BY OrderServes, LookServes, ReadsServe, WeighServes, PrepareServes,
   RegisterServes, CollectServes, SettleServes, TripServes
   DEF Serve, CashStep, DeliveryStep

-----------------------------------------------------------------------------
(***************************************************************************)
(* What clients send.                                                      *)
(***************************************************************************)

\* The versions a client can have seen are numbers.
LEMMA VersionsAreNat ==
  ASSUME Types
  PROVE  /\ \A o \in Orders : OrderVersion(o) \in Nat
                                /\ DeliveryVersion(o) \in Nat
         /\ \A s \in Sessions : SessionVersion(s) \in Nat
         /\ \A d \in Devices : sequences[d] + 1 \in Nat
<1>1. ASSUME NEW o \in Orders PROVE OrderVersion(o) \in Nat
  BY OrderKnown, RowsAndAggregates DEF OrderVersion
<1>2. ASSUME NEW o \in Orders PROVE DeliveryVersion(o) \in Nat
  <2>1. deliveries[o] \in DeliveryRows \union {Null}
    BY DEF Types, RowsOK
  <2> QED BY <2>1 DEF DeliveryRows, DeliveryVersion
<1>3. ASSUME NEW s \in Sessions PROVE SessionVersion(s) \in Nat
  BY SessionKnown DEF SessionVersion
<1>4. ASSUME NEW d \in Devices PROVE sequences[d] + 1 \in Nat
  BY DEF Types, RowsOK
<1> QED BY <1>1, <1>2, <1>3, <1>4

\* A key is still to be had while the journal has room.
LEMMA KeysAreFresh ==
  ASSUME Types, Cardinality(DOMAIN journal) < MaxCommands
  PROVE  FreshKey \in Nat /\ \A a \in Heard : a.key # FreshKey
<1> DEFINE busy == {d \in Callers : calls[d] # Null}
           sent == {command.key : command \in Sent}
           known == {command.key : command \in Known}
           keys == {command.key : command \in Sent \union Known}
           n == MaxCommands + 2 * Cardinality(Callers)
           free == (1 .. n) \ keys
<1>1. /\ IsFiniteSet(busy) /\ Cardinality(busy) <= Cardinality(Callers)
      /\ Cardinality(busy) \in Nat
      /\ Cardinality(Callers) \in Nat /\ MaxCommands \in Nat
      /\ IsFiniteSet(DOMAIN journal) /\ Cardinality(DOMAIN journal) \in Nat
  <2>1. IsFiniteSet(Callers) /\ MaxCommands \in Nat
    BY StoreAssumption
  <2>2. busy \in SUBSET Callers
    OBVIOUS
  <2>3. IsFiniteSet(DOMAIN journal)
    BY DEF Types, JournalOK, LogOK
  <2> QED BY <2>1, <2>2, <2>3, FS_Subset, FS_CardinalityType
<1>2. IsFiniteSet(sent) /\ Cardinality(sent) <= Cardinality(busy)
  <2> DEFINE f == [d \in busy |-> calls[d].command.key]
  <2>1. f \in [busy -> sent] /\ \A k \in sent : \E d \in busy : f[d] = k
    BY DEF Sent
  <2>2. f \in Surjection(busy, sent)
    BY <2>1, Fun_IsSurj
  <2> HIDE DEF f, busy, sent
  <2> QED BY <1>1, <2>2, FS_Surjection
<1>3. IsFiniteSet(known) /\ Cardinality(known) <= Cardinality(DOMAIN journal)
  <2> DEFINE f == [x \in DOMAIN journal |-> journal[x].command.key]
  <2>1. /\ f \in [DOMAIN journal -> known]
        /\ \A k \in known : \E x \in DOMAIN journal : f[x] = k
    BY DEF Known
  <2>2. f \in Surjection(DOMAIN journal, known)
    BY <2>1, Fun_IsSurj
  <2> HIDE DEF f, known
  <2> QED BY <1>1, <2>2, FS_Surjection
<1>4. keys = sent \union known
  OBVIOUS
<1>5. /\ n \in Nat
      /\ Cardinality(busy) + Cardinality(DOMAIN journal) < n
  BY <1>1
<1> HIDE DEF busy, sent, known, keys, n
<1>6. /\ IsFiniteSet(keys) /\ Cardinality(keys) < n
  <2>1. /\ IsFiniteSet(keys) /\ IsFiniteSet(sent \intersect known)
        /\ Cardinality(keys) = Cardinality(sent) + Cardinality(known)
                                 - Cardinality(sent \intersect known)
    BY <1>2, <1>3, <1>4, FS_Union, FS_Intersection
  <2>2. /\ Cardinality(sent) \in Nat /\ Cardinality(known) \in Nat
        /\ Cardinality(sent \intersect known) \in Nat
    BY <1>2, <1>3, <2>1, FS_CardinalityType
  <2> QED BY <1>1, <1>2, <1>3, <1>5, <2>1, <2>2
<1>7. free # {}
  <2> SUFFICES ASSUME 1 .. n \subseteq keys PROVE FALSE
    OBVIOUS
  <2>1. Cardinality(1 .. n) = n
    BY <1>5, FS_Interval
  <2>2. Cardinality(1 .. n) <= Cardinality(keys)
    BY <1>6, FS_Subset
  <2>3. Cardinality(keys) \in Nat
    BY <1>6, FS_CardinalityType
  <2> QED BY <1>5, <1>6, <2>1, <2>2, <2>3
<1>8. free \in SUBSET Nat
  BY <1>5
<1>9. FreshKey = Min(free)
  BY DEF FreshKey, n, keys
<1> HIDE DEF free
<1>10. Min(free) \in free
  BY <1>7, <1>8, LeastIsOne DEF Min
<1> QED BY <1>8, <1>9, <1>10 DEF free, keys, Heard

\* A client's new command has the fields its kind needs.
LEMMA NewCommandsOK ==
  ASSUME Types, NEW key \in Nat,
         NEW command \in OrderCommands(key) \union CashCommands(key)
                           \union DeliveryCommands(key)
  PROVE  CommandOK(command) /\ command.key = key
<1>1. Created \subseteq Orders
  BY DEF Created
<1>2. CASE command \in OrderCommands(key)
  <2>1. CASE \E o \in Orders \ Created :
               command = [kind |-> "create", key |-> key, order |-> o]
    BY <2>1 DEF CommandOK, Has, AllKinds, OrderKinds, FinancialKinds, TripKinds
  <2>2. CASE \E o \in Created : \E k \in {"add", "open", "label", "cancel"} :
               command = [kind |-> k, key |-> key, order |-> o,
                          version |-> OrderVersion(o)]
    BY <1>1, <2>2, VersionsAreNat
       DEF CommandOK, Has, AllKinds, OrderKinds, FinancialKinds, TripKinds
  <2>3. CASE \E o \in Created :
             \E ls \in (SUBSET DOMAIN orders[o].lines) \ {{}} :
               command = [kind |-> "send", key |-> key, order |-> o,
                          version |-> OrderVersion(o), lines |-> ls]
    <3>0. PICK o \in Created :
            \E ls \in (SUBSET DOMAIN orders[o].lines) \ {{}} :
              command = [kind |-> "send", key |-> key, order |-> o,
                         version |-> OrderVersion(o), lines |-> ls]
      BY <2>3
    <3>1. PICK ls \in (SUBSET DOMAIN orders[o].lines) \ {{}} :
            command = [kind |-> "send", key |-> key, order |-> o,
                       version |-> OrderVersion(o), lines |-> ls]
      BY <3>0
    <3>2. ls \in SUBSET Nat /\ IsFiniteSet(ls) /\ ls # {}
      <4>1. o \in Orders /\ orders[o] # Null
        BY DEF Created
      <4>2. orders[o].lines \in Seq(LineStates)
        BY <4>1, OrderKnown, RowsAndAggregates
      <4>3. /\ DOMAIN orders[o].lines = 1 .. Len(orders[o].lines)
            /\ Len(orders[o].lines) \in Nat
        BY <4>2, LenProperties
      <4>4. /\ IsFiniteSet(DOMAIN orders[o].lines)
            /\ DOMAIN orders[o].lines \in SUBSET Nat
        BY <4>3, FS_Interval
      <4> QED BY <4>4, FS_Subset
    <3> QED BY <1>1, <3>1, <3>2, VersionsAreNat
            DEF CommandOK, Has, AllKinds, OrderKinds, FinancialKinds, TripKinds
  <2>4. CASE \E o \in Created : \E l \in DOMAIN orders[o].lines :
               command = [kind |-> "advance", key |-> key, order |-> o,
                          version |-> OrderVersion(o), line |-> l,
                          to |-> NextLineState(o, l)]
    <3>1. \A o, l : NextLineState(o, l) \in LineStates \ {"cancelled"}
      BY DEF NextLineState, LineStates
    <3> QED BY <1>1, <2>4, <3>1, VersionsAreNat
            DEF CommandOK, Has, AllKinds, OrderKinds, FinancialKinds, TripKinds
  <2>5. CASE \E o \in Created : \E l \in DOMAIN orders[o].lines :
               command = [kind |-> "cancel_line", key |-> key, order |-> o,
                          version |-> OrderVersion(o), line |-> l]
    BY <1>1, <2>5, VersionsAreNat
       DEF CommandOK, Has, AllKinds, OrderKinds, FinancialKinds, TripKinds
  <2>6. CASE \E o \in Created : command \in LineCommands(key, o)
    <3>1. PICK o \in Created : command \in LineCommands(key, o)
      BY <2>6
    <3>2. \/ \E ls \in (SUBSET DOMAIN orders[o].lines) \ {{}} :
               command = [kind |-> "send", key |-> key, order |-> o,
                          version |-> OrderVersion(o), lines |-> ls]
          \/ \E l \in DOMAIN orders[o].lines :
               command = [kind |-> "advance", key |-> key, order |-> o,
                          version |-> OrderVersion(o), line |-> l,
                          to |-> NextLineState(o, l)]
          \/ \E l \in DOMAIN orders[o].lines :
               command = [kind |-> "cancel_line", key |-> key, order |-> o,
                          version |-> OrderVersion(o), line |-> l]
      BY <3>1 DEF LineCommands
    <3> QED BY <2>3, <2>4, <2>5, <3>2
  <2>7. \/ \E o \in Orders \ Created :
               command = [kind |-> "create", key |-> key, order |-> o]
        \/ \E o \in Created : \E k \in {"add", "open", "label", "cancel"} :
               command = [kind |-> k, key |-> key, order |-> o,
                          version |-> OrderVersion(o)]
        \/ \E o \in Created : command \in LineCommands(key, o)
    BY <1>2 DEF OrderCommands
  <2> QED BY <2>1, <2>2, <2>6, <2>7
<1>3. CASE command \in CashCommands(key)
  <2>1. CASE \E s \in Sessions :
               command = [kind |-> "register_open", key |-> key, session |-> s]
    BY <2>1 DEF CommandOK, Has, AllKinds, OrderKinds, FinancialKinds, TripKinds
  <2>2. CASE \E s \in Sessions :
               command = [kind |-> "close", key |-> key, session |-> s,
                          sessionVersion |-> SessionVersion(s)]
    BY <2>2, VersionsAreNat
       DEF CommandOK, Has, AllKinds, OrderKinds, FinancialKinds, TripKinds
  <2>3. CASE \E o \in Created, s \in Sessions, m \in {"cash", "card"},
                t \in Tips, d \in Devices :
             \E a \in 1 .. Total(orders[o]) :
               command = [kind |-> "collect", key |-> key, order |-> o,
                          version |-> OrderVersion(o), session |-> s,
                          sessionVersion |-> SessionVersion(s), method |-> m,
                          amount |-> a, tip |-> t, device |-> d,
                          sequence |-> sequences[d] + 1]
    <3>1. \A t \in Tips : t \in Nat
      BY StoreAssumption
    <3>2. \A o \in Created : \A a \in 1 .. Total(orders[o]) : a \in Nat \ {0}
      OBVIOUS
    <3> QED BY <1>1, <2>3, <3>1, <3>2, VersionsAreNat
            DEF CommandOK, Has, AllKinds, OrderKinds, FinancialKinds, TripKinds
  <2> QED BY <1>3, <2>1, <2>2, <2>3 DEF CashCommands
<1>4. CASE command \in DeliveryCommands(key)
  <2>0. DeliveryOrders \subseteq Orders
    BY StoreAssumption
  <2>1. CASE \E o \in DeliveryOrders : \E k \in Couriers :
               command = [kind |-> "assign", key |-> key, order |-> o,
                          deliveryVersion |-> DeliveryVersion(o),
                          courier |-> k]
    BY <2>0, <2>1, VersionsAreNat
       DEF CommandOK, Has, AllKinds, OrderKinds, FinancialKinds, TripKinds
  <2>2. CASE \E o \in DeliveryOrders :
             \E k \in {"dispatch", "complete", "fail"} :
               command = [kind |-> k, key |-> key, order |-> o,
                          deliveryVersion |-> DeliveryVersion(o)]
    BY <2>0, <2>2, VersionsAreNat
       DEF CommandOK, Has, AllKinds, OrderKinds, FinancialKinds, TripKinds
  <2>3. CASE \E o \in DeliveryOrders : \E s \in Sessions : \E d \in Devices :
               command = [kind |-> "settle", key |-> key, order |-> o,
                          version |-> OrderVersion(o),
                          deliveryVersion |-> DeliveryVersion(o),
                          session |-> s,
                          sessionVersion |-> SessionVersion(s), device |-> d,
                          sequence |-> sequences[d] + 1]
    BY <2>0, <2>3, VersionsAreNat
       DEF CommandOK, Has, AllKinds, OrderKinds, FinancialKinds, TripKinds
  <2> QED BY <1>4, <2>1, <2>2, <2>3 DEF DeliveryCommands
<1> QED BY <1>2, <1>3, <1>4

\* A command brought up to date is the same request.
LEMMA RebasedOK ==
  ASSUME Types, NEW command, CommandOK(command)
  PROVE  LET again == Rebased(command)
         IN /\ CommandOK(again)
            /\ again.key = command.key /\ again.kind = command.kind
<1> DEFINE again == Rebased(command)
<1>1. /\ DOMAIN again = DOMAIN command
      /\ \A field \in DOMAIN command :
           field \notin {"version", "sessionVersion", "deliveryVersion",
                         "sequence"} => again[field] = command[field]
      /\ "version" \in DOMAIN command
           => again.version = OrderVersion(command.order)
      /\ "sessionVersion" \in DOMAIN command
           => again.sessionVersion = SessionVersion(command.session)
      /\ "deliveryVersion" \in DOMAIN command
           => again.deliveryVersion = DeliveryVersion(command.order)
      /\ "sequence" \in DOMAIN command
           => again.sequence = sequences[command.device] + 1
  BY DEF Rebased
<1> HIDE DEF again
<1>2. again.key = command.key /\ again.kind = command.kind
  BY <1>1 DEF CommandOK
<1>3. \A kinds, values : \A field \in {"order", "session", "device", "method",
                                       "amount", "tip", "courier", "to",
                                       "lines"} :
        Has(command, kinds, field, values) => Has(again, kinds, field, values)
  BY <1>1, <1>2 DEF Has
<1>4. Has(again, (OrderKinds \ {"create"}) \union {"collect", "settle"},
          "version", Nat)
  <2>1. Has(command, OrderKinds \union TripKinds \union {"collect", "settle"},
            "order", Orders)
    BY DEF CommandOK
  <2>2. Has(command, (OrderKinds \ {"create"}) \union {"collect", "settle"},
            "version", Nat)
    BY DEF CommandOK
  <2> QED BY <1>1, <1>2, <2>1, <2>2, VersionsAreNat DEF Has
<1>5. Has(again, FinancialKinds \ {"register_open"}, "sessionVersion", Nat)
  <2>1. Has(command, FinancialKinds, "session", Sessions)
    BY DEF CommandOK
  <2>2. Has(command, FinancialKinds \ {"register_open"}, "sessionVersion", Nat)
    BY DEF CommandOK
  <2> QED BY <1>1, <1>2, <2>1, <2>2, VersionsAreNat DEF Has
<1>6. Has(again, TripKinds \union {"settle"}, "deliveryVersion", Nat)
  <2>1. Has(command, OrderKinds \union TripKinds \union {"collect", "settle"},
            "order", Orders)
    BY DEF CommandOK
  <2>2. Has(command, TripKinds \union {"settle"}, "deliveryVersion", Nat)
    BY DEF CommandOK
  <2> QED BY <1>1, <1>2, <2>1, <2>2, VersionsAreNat DEF Has
<1>7. Has(again, {"collect", "settle"}, "sequence", Nat)
  <2>1. Has(command, {"collect", "settle"}, "device", Devices)
    BY DEF CommandOK
  <2>2. Has(command, {"collect", "settle"}, "sequence", Nat)
    BY DEF CommandOK
  <2> QED BY <1>1, <1>2, <2>1, <2>2, VersionsAreNat DEF Has
<1>8. CommandOK(again)
  BY <1>1, <1>2, <1>3, <1>4, <1>5, <1>6, <1>7 DEF CommandOK
<1> QED BY <1>2, <1>8 DEF again

\* What clients do leaves the tables and the journal alone.
LEMMA ClientsAreQuiet ==
  ASSUME NEW c, Issue(c) \/ Retry(c) \/ Drop(c)
  PROVE  Quiet
BY DEF Issue, Retry, Drop, Proceed, Reject, Quiet

\* A request for a command whose key, if it was heard before, was heard for
\* this kind of command.
LEMMA RequestTypes ==
  ASSUME Types, NEW c \in Callers, NEW command, CommandOK(command),
         \A b \in Heard : command.key = b.key => command.kind = b.kind,
         Proceed(c, NewCall(command))
  PROVE  Types'
<1>1. Quiet /\ calls' = [calls EXCEPT ![c] = NewCall(command)]
  BY DEF Proceed, Quiet
<1>2. RowsOK'
  BY <1>1 DEF Types, RowsOK, Quiet, orderTables, cashTables
<1>3. JournalOK'
  BY <1>1 DEF Types, JournalOK, Quiet
<1>4. CallsOK'
  <2>1. DOMAIN calls' = Callers
    BY <1>1 DEF Types, CallsOK
  <2>2. ASSUME NEW d \in Callers, calls'[d] # Null PROVE CallOK(calls'[d])
    BY <1>1, <2>2, FreshCalls DEF Types, CallsOK
  <2> QED BY <2>1, <2>2 DEF CallsOK
<1>5. HeardOK'
  <2>1. Known' = Known
    BY <1>1 DEF Known, Quiet
  <2>2. \A a \in Sent' : a \in Sent \/ a = command
    <3>1. \A d \in Callers : calls'[d] = calls[d] \/ calls'[d] = NewCall(command)
      BY <1>1 DEF Types, CallsOK
    <3>2. ASSUME NEW d \in Callers, calls'[d] # Null
          PROVE  calls'[d].command \in Sent \union {command}
      <4>1. calls'[d] = NewCall(command) => calls'[d].command = command
        BY FreshCalls
      <4> QED BY <3>1, <3>2, <4>1 DEF Sent
    <3> QED BY <3>2 DEF Sent
  <2>3. \A a \in Heard' : a \in Heard \/ a = command
    BY <2>1, <2>2 DEF Heard
  <2>4. ASSUME NEW a \in Heard' PROVE CommandOK(a)
    BY <2>3 DEF Types, HeardOK
  <2>5. ASSUME NEW a \in Heard', NEW b \in Heard', a.key = b.key
        PROVE  a.kind = b.kind
    BY <2>3, <2>5 DEF Types, HeardOK
  <2> QED BY <2>4, <2>5 DEF HeardOK
<1> QED BY <1>2, <1>3, <1>4, <1>5 DEF Types

\* Whatever clients send, or give up, keeps the types.
LEMMA ClientTypes ==
  ASSUME Types, NEW c \in Callers, Issue(c) \/ Retry(c) \/ Drop(c)
  PROVE  Types'
<1>1. CASE Issue(c)
  <2>1. PICK command \in NewCommands : Proceed(c, NewCall(command))
    BY <1>1 DEF Issue
  <2>2. FreshKey \in Nat /\ \A a \in Heard : a.key # FreshKey
    BY <1>1, KeysAreFresh DEF Issue
  <2>3. command \in OrderCommands(FreshKey) \union CashCommands(FreshKey)
                      \union DeliveryCommands(FreshKey)
    BY DEF NewCommands
  <2>4. CommandOK(command) /\ command.key = FreshKey
    BY <2>2, <2>3, NewCommandsOK
  <2> QED BY <2>1, <2>2, <2>4, RequestTypes
<1>2. CASE Retry(c)
  <2>1. PICK command \in Heard :
          \E again \in {command, Rebased(command)} : Proceed(c, NewCall(again))
    BY <1>2 DEF Retry, Heard
  <2>2. PICK again \in {command, Rebased(command)} : Proceed(c, NewCall(again))
    BY <2>1
  <2>3. CommandOK(command)
    BY DEF Types, HeardOK
  <2>4. /\ CommandOK(again)
        /\ again.key = command.key /\ again.kind = command.kind
    BY <2>3, RebasedOK
  <2>5. \A b \in Heard : again.key = b.key => again.kind = b.kind
    BY <2>4 DEF Types, HeardOK
  <2> QED BY <2>2, <2>4, <2>5, RequestTypes
<1>3. CASE Drop(c)
  <2>1. Quiet /\ calls' = [calls EXCEPT ![c] = Null]
    BY <1>3 DEF Drop, Reject, Refuse, Quiet
  <2>2. RowsOK'
    BY <2>1 DEF Types, RowsOK, Quiet, orderTables, cashTables
  <2>3. JournalOK'
    BY <2>1 DEF Types, JournalOK, Quiet
  <2>4. CallsOK'
    BY <2>1 DEF Types, CallsOK
  <2>5. HeardOK'
    <3>1. Known' = Known
      BY <2>1 DEF Known, Quiet
    <3>2. Sent' \subseteq Sent
      BY <2>1 DEF Types, CallsOK, Sent
    <3> QED BY <3>1, <3>2 DEF Types, HeardOK, Heard
  <2> QED BY <2>2, <2>3, <2>4, <2>5 DEF Types
<1> QED BY <1>1, <1>2, <1>3

-----------------------------------------------------------------------------
(***************************************************************************)
(* Moves keep the types.                                                   *)
(***************************************************************************)

\* An entry added to a journal.
Adds(log, after, x, command, result) ==
  /\ DOMAIN after = DOMAIN log \union {x}
  /\ after[x].command = command /\ after[x].result = result
  /\ \A y \in DOMAIN log : y # x => after[y] = log[y]

\* What logging does to a journal.
LEMMA EntryAdded ==
  ASSUME NEW log, NEW table, NEW command, NEW result
  PROVE  Adds(log, Logged(log, table, command, result),
              <<table, command.key>>, command, result)
BY DEF Logged, Put, Adds

\* The journal an entry is added to stays in order.
LEMMA LogGrows ==
  ASSUME NEW log, LogOK(log), NEW command, CommandOK(command),
         NEW result, NEW table \in Tables,
         \/ table = Table(command)
         \/ /\ table = "finance" /\ command.kind = "settle"
            /\ <<"delivery", command.key>> \in DOMAIN log
         \/ /\ table = "derived" /\ command.kind = "collect"
            /\ <<"finance", command.key>> \in DOMAIN log,
         table \in {"delivery", "derived"} =>
           result.order = Null /\ result.session = Null
  PROVE  LogOK(Logged(log, table, command, result))
<1> DEFINE x == <<table, command.key>>
           after == Logged(log, table, command, result)
<1>0. Adds(log, after, x, command, result)
  BY EntryAdded
<1> HIDE DEF after
<1>1. /\ DOMAIN after = DOMAIN log \union {x}
      /\ after[x].command = command /\ after[x].result = result
      /\ \A y \in DOMAIN log : y # x => after[y] = log[y]
  BY <1>0 DEF Adds
<1>2. x \in Tables \X Nat /\ x[1] = table /\ x[2] = command.key
  BY DEF CommandOK
<1>3. IsFiniteSet(DOMAIN after)
  BY <1>1, FS_AddElement DEF LogOK
<1>4. EntryOK(after, x)
  <2> HIDE DEF x
  <2> QED BY <1>1, <1>2 DEF EntryOK
<1>5. ASSUME NEW y \in DOMAIN log, y # x PROVE EntryOK(after, y)
  <2> HIDE DEF x
  <2>1. after[y] = log[y] /\ DOMAIN log \subseteq DOMAIN after
    BY <1>1, <1>5
  <2>2. EntryOK(log, y)
    BY DEF LogOK
  <2> QED BY <2>1, <2>2 DEF EntryOK
<1> HIDE DEF x
<1>6. \A y \in DOMAIN after : EntryOK(after, y)
  BY <1>1, <1>4, <1>5
<1> QED BY <1>3, <1>6 DEF LogOK, after

\* What results say.
LEMMA Results ==
  \A a, b, p : /\ Result(a, b, p).order = a /\ Result(a, b, p).session = b
               /\ Result(a, b, p).payment = p
BY DEF Result

\* A move files its command and nothing else.
LEMMA MovesFile ==
  ASSUME Types, NEW command \in Heard, Moves(command)
  PROVE  JournalOK' /\ Known' \subseteq Known \union {command}
<1>1. CommandOK(command) /\ LogOK(journal)
  BY DEF Types, HeardOK, JournalOK
<1>2. /\ Table(command) \in Tables
      /\ command.kind \in {"register_open", "collect", "close"}
           => Table(command) = "finance"
      /\ command.kind \in TripKinds \union {"settle"}
           => Table(command) = "delivery"
      /\ command.kind \in OrderKinds => Table(command) \in {"order", "command"}
  BY DEF Table, Tables, TripKinds, OrderKinds
<1> DEFINE known(log) == {log[x].command : x \in DOMAIN log}
<1>3. ASSUME NEW log, NEW table, NEW result
      PROVE  known(Logged(log, table, command, result))
               \subseteq known(log) \union {command}
  <2> DEFINE after == Logged(log, table, command, result)
             x == <<table, command.key>>
  <2>0. Adds(log, after, x, command, result)
    BY EntryAdded
  <2> HIDE DEF after, x
  <2>1. /\ DOMAIN after = DOMAIN log \union {x}
        /\ after[x].command = command
        /\ \A y \in DOMAIN log : y # x => after[y] = log[y]
    BY <2>0 DEF Adds
  <2>2. \A y \in DOMAIN after : after[y].command \in known(log) \union {command}
    BY <2>1
  <2> QED BY <2>2 DEF after
<1>4. ASSUME NEW table, NEW result, LogOK(Logged(journal, table, command, result)),
             journal' = Logged(journal, table, command, result)
      PROVE  JournalOK' /\ Known' \subseteq Known \union {command}
  <2> HIDE DEF known
  <2>1. known(journal') \subseteq known(journal) \union {command}
    BY <1>3, <1>4
  <2> QED BY <1>4, <2>1 DEF JournalOK, Known, known
<1>5. ASSUME NEW row, OrderWritten(command, row)
      PROVE  JournalOK' /\ Known' \subseteq Known \union {command}
  <2>1. LogOK(Logged(journal, Table(command), command,
                     Result(row.version, Null, Null)))
    BY <1>1, <1>2, <1>5, LogGrows DEF OrderWritten
  <2> QED BY <1>4, <1>5, <2>1 DEF OrderWritten
<1>6. CASE SessionOpened(command)
  <2>1. LogOK(Logged(journal, "finance", command, Result(Null, 1, Null)))
    BY <1>1, <1>2, <1>6, LogGrows DEF SessionOpened
  <2> QED BY <1>4, <1>6, <2>1 DEF SessionOpened
<1>7. CASE SessionClosed(command)
  <2> DEFINE result == Result(Null, sessions[command.session].version + 1, Null)
  <2>1. LogOK(Logged(journal, "finance", command, result))
    BY <1>1, <1>2, <1>7, LogGrows DEF SessionClosed
  <2> QED BY <1>4, <1>7, <2>1 DEF SessionClosed
<1>8. CASE TripMoved(command) \/ TripPrepaid(command)
  <2>1. command.kind \in TripKinds \union {"settle"}
        /\ journal' = Logged(journal, "delivery", command,
                             Result(Null, Null, Null))
    BY <1>8 DEF TripMoved, TripPrepaid
  <2> DEFINE result == Result(Null, Null, Null)
  <2>2. result.order = Null /\ result.session = Null
    BY Results
  <2> HIDE DEF result
  <2>3. LogOK(Logged(journal, "delivery", command, result))
    BY <1>1, <1>2, <2>1, <2>2, LogGrows
  <2> QED BY <1>4, <2>1, <2>3 DEF result
<1>9. ASSUME NEW due, command.kind \in {"collect", "settle"},
             PaymentTaken(command, due)
      PROVE  JournalOK' /\ Known' \subseteq Known \union {command}
  <2> DEFINE outcome == Outcome(command, due)
             settled == Result(Null, Null, due)
             paid == Logged(journal, "finance", command, outcome)
  <2>0. settled.order = Null /\ settled.session = Null
    BY Results
  <2>1. {"finance", "derived", "delivery"} \subseteq Tables
    BY DEF Tables
  <2>2. \/ /\ command.kind = "collect"
           /\ \/ journal' = paid
              \/ journal' = Logged(paid, "derived", command, settled)
        \/ /\ command.kind = "settle"
           /\ journal' = Logged(paid, "delivery", command, settled)
    BY <1>9 DEF PaymentTaken
  <2>3. known(journal) = Known
    BY DEF Known
  <2> HIDE DEF known, outcome, settled
  <2>4. CASE command.kind = "collect"
    <3>1. LogOK(paid)
      BY <1>1, <1>2, <2>1, <2>4, LogGrows
    <3>2. Adds(journal, paid, <<"finance", command.key>>, command, outcome)
      BY EntryAdded
    <3>3. known(paid) \subseteq Known \union {command}
      BY <1>3, <2>3
    <3> HIDE DEF paid
    <3>4. <<"finance", command.key>> \in DOMAIN paid
      BY <3>2 DEF Adds
    <3>5. LogOK(Logged(paid, "derived", command, settled))
      BY <1>1, <2>0, <2>1, <2>4, <3>1, <3>4, LogGrows
    <3>6. known(Logged(paid, "derived", command, settled))
            \subseteq Known \union {command}
      BY <1>3, <3>3
    <3>7. LogOK(journal') /\ known(journal') \subseteq Known \union {command}
      BY <2>2, <2>4, <3>1, <3>3, <3>5, <3>6
    <3> QED BY <3>7 DEF JournalOK, Known, known
  <2>5. CASE command.kind = "settle"
    \* The two entries are the same in either order.
    <3> DEFINE first == Logged(journal, "delivery", command, settled)
               both == Logged(first, "finance", command, outcome)
    <3>1. LogOK(first)
      BY <1>1, <1>2, <2>0, <2>1, <2>5, LogGrows
    <3>2. Adds(journal, first, <<"delivery", command.key>>, command, settled)
      BY EntryAdded
    <3>3. known(first) \subseteq Known \union {command}
      BY <1>3, <2>3
    <3>4. Logged(paid, "delivery", command, settled) = both
      BY DEF Logged, Put
    <3> HIDE DEF first, paid
    <3>5. <<"delivery", command.key>> \in DOMAIN first
      BY <3>2 DEF Adds
    <3>6. LogOK(both)
      BY <1>1, <2>1, <2>5, <3>1, <3>5, LogGrows
    <3>7. known(both) \subseteq Known \union {command}
      BY <1>3, <3>3
    <3>8. LogOK(journal') /\ known(journal') \subseteq Known \union {command}
      BY <2>2, <2>5, <3>4, <3>6, <3>7
    <3> QED BY <3>8 DEF JournalOK, Known, known
  <2> QED BY <1>9, <2>4, <2>5
<1> QED BY <1>5, <1>6, <1>7, <1>8, <1>9 DEF Moves

\* The rows a payment leaves: the order is paid or partly paid and a version
\* further, the session has the cash and is a version further, the device has
\* used its numbers.
LEMMA PaymentRows ==
  ASSUME Types, NEW command \in Heard, command.kind \in {"collect", "settle"},
         NEW due, PaymentTaken(command, due)
  PROVE  LET o == command.order
             s == command.session
             d == command.device
             p == PaymentRow(command, due)
         IN /\ o \in Orders /\ s \in Sessions /\ d \in Devices
            /\ p \in Payments /\ payments' = Append(payments, p)
            /\ p.order = o /\ p.session = s /\ p.device = d
            /\ p.amount = due /\ p.tip = Tip(command) /\ p.key = command.key
            /\ p.method = Method(command) /\ p.number = sequences[d] + 1
            /\ Numbers(command) \in {1, 2} /\ sequences[d] \in Nat
            /\ sequences' = [sequences EXCEPT ![d] = @ + Numbers(command)]
            /\ DOMAIN orders' = Orders /\ DOMAIN sessions' = Sessions
            /\ \A x \in Orders : x # o => orders'[x] = orders[x]
            /\ \A x \in Sessions : x # s => sessions'[x] = sessions[x]
            /\ orders[o] \in OrderRows /\ Payable(orders[o])
            /\ orders'[o] \in OrderRows
            /\ orders'[o].status =
                 IF due = Left(o) THEN "paid" ELSE "partially_paid"
            /\ orders'[o].lines = orders[o].lines
            /\ orders'[o].version = orders[o].version + 1
            /\ Total(orders'[o]) = Total(orders[o])
            /\ sessions[s] \in SessionRows /\ sessions[s].status = "open"
            /\ sessions'[s] \in SessionRows /\ sessions'[s].status = "open"
            /\ sessions'[s].version = sessions[s].version + 1
            /\ sessions'[s].drawer
                 = sessions[s].drawer + IntoDrawer(command, due)
<1> DEFINE o == command.order
           s == command.session
           d == command.device
           p == PaymentRow(command, due)
<1>1. CommandOK(command)
  BY DEF Types, HeardOK
<1>2. o \in Orders /\ s \in Sessions /\ d \in Devices
  BY <1>1 DEF CommandOK, Has, FinancialKinds
<1>3. Awaits(command, due) /\ PaymentWritten(command, due)
  BY DEF PaymentTaken
<1>4. sequences \in [Devices -> Nat]
  BY DEF Types, RowsOK
<1>5. sequences[d] \in Nat /\ command.sequence = sequences[d] + 1
  BY <1>2, <1>3, <1>4 DEF Awaits
<1>6. /\ Method(command) \in {"cash", "card"} /\ Tip(command) \in Nat
      /\ command.key \in Nat /\ due \in Nat \ {0}
  <2>1. command.key \in Nat /\ due \in Nat \ {0}
    BY <1>1, <1>3 DEF CommandOK, Awaits
  <2>2. Method(command) \in {"cash", "card"}
    BY <1>1 DEF CommandOK, Has, Method
  <2>3. Tip(command) \in Nat
    BY <1>1 DEF CommandOK, Has, Tip
  <2> QED BY <2>1, <2>2, <2>3
<1>7. /\ p \in Payments
      /\ p.order = o /\ p.session = s /\ p.device = d
      /\ p.amount = due /\ p.tip = Tip(command) /\ p.key = command.key
      /\ p.method = Method(command) /\ p.number = sequences[d] + 1
  <2>1. sequences[d] + 1 \in Nat \ {0}
    BY <1>5
  <2> QED BY <1>2, <1>5, <1>6, <2>1 DEF PaymentRow, Payments
<1>8. /\ payments' = Append(payments, p)
      /\ sequences' = [sequences EXCEPT ![d] = @ + Numbers(command)]
  BY <1>3 DEF PaymentWritten
<1>9. Numbers(command) \in {1, 2}
  BY DEF Numbers
<1>10. /\ DOMAIN orders = Orders /\ DOMAIN sessions = Sessions
  BY DEF Types, RowsOK
<1>11. /\ orders[o] # Null /\ sessions[s] # Null
       /\ Payable(orders[o]) /\ sessions[s].status = "open"
  BY <1>3 DEF Awaits
<1>12. /\ orders[o] \in OrderRows /\ Aggregate(orders[o]) \in Aggregates
       /\ orders[o].version \in Nat \ {0}
  BY <1>2, <1>11, OrderKnown, RowsAndAggregates
<1>13. /\ sessions[s] \in SessionRows /\ sessions[s].drawer \in Nat
       /\ sessions[s].version \in Nat \ {0}
  BY <1>2, <1>11, SessionKnown
<1> DEFINE to == IF due = Left(o) THEN "paid" ELSE "partially_paid"
           paid == SetStatus(Aggregate(orders[o]), to)
           row == Row(paid, orders[o].version + 1)
<1>14. /\ DOMAIN orders' = Orders /\ orders'[o] = row
       /\ \A x \in Orders : x # o => orders'[x] = orders[x]
  BY <1>2, <1>3, <1>10 DEF PaymentWritten
<1>15. /\ row \in OrderRows /\ row.status = to
       /\ row.lines = orders[o].lines /\ row.version = orders[o].version + 1
       /\ Total(row) = Total(orders[o])
  <2> DEFINE read == Aggregate(orders[o])
             v == orders[o].version + 1
  <2>1. /\ read \in Aggregates /\ read.lines = orders[o].lines
        /\ read.status = orders[o].status
        /\ Total(orders[o]) = Total(read) /\ v \in Nat \ {0}
    BY <1>12, RowsAndAggregates
  <2>2. to \in OrderStates /\ to # "cancelled" /\ read.status # "cancelled"
    BY <1>11, <2>1 DEF OrderStates, Payable
  <2> HIDE DEF read, v, to
  <2>3. /\ SetStatus(read, to) \in Aggregates
        /\ SetStatus(read, to).status = to
        /\ SetStatus(read, to).lines = read.lines
        /\ Total(SetStatus(read, to)) = Total(read)
    BY <2>1, <2>2 DEF SetStatus, Aggregates, Total
  <2> DEFINE after == SetStatus(read, to)
  <2>4. row = Row(after, v)
    BY DEF read, v, to
  <2> HIDE DEF after, row, paid
  <2>5. /\ row \in OrderRows /\ row.status = after.status
        /\ row.lines = after.lines /\ row.version = v
        /\ Total(row) = Total(after)
    <3>1. after \in Aggregates
      BY <2>3 DEF after
    <3> QED BY <2>1, <2>4, <3>1, RowsAndAggregates
  <2> QED BY <2>1, <2>3, <2>5 DEF v, after
<1>16. IntoDrawer(command, due) \in Nat
  BY <1>6 DEF IntoDrawer
<1> DEFINE session == [sessions[s] EXCEPT !.version = @ + 1,
                                          !.drawer = @ + IntoDrawer(command, due)]
<1>17. /\ DOMAIN sessions' = Sessions /\ sessions'[s] = session
       /\ \A x \in Sessions : x # s => sessions'[x] = sessions[x]
  BY <1>2, <1>3, <1>10 DEF PaymentWritten
<1>18. /\ session \in SessionRows /\ session.status = "open"
       /\ session.version = sessions[s].version + 1
       /\ session.drawer = sessions[s].drawer + IntoDrawer(command, due)
  <2>1. /\ sessions[s].version + 1 \in Nat \ {0}
        /\ sessions[s].drawer + IntoDrawer(command, due) \in Nat
    BY <1>13, <1>16
  <2> QED BY <1>11, <1>13, <2>1 DEF SessionRows
<1> HIDE DEF p, row, to, session
<1> QED BY <1>2, <1>5, <1>7, <1>8, <1>9, <1>11, <1>12, <1>13, <1>14, <1>15,
           <1>17, <1>18 DEF p, to

\* A delivery that is settled was delivered, and is a version further.
LEMMA TripSettled ==
  ASSUME Types, NEW o \in Orders, DeliveryState(o) = "delivered", Settled(o)
  PROVE  /\ deliveries[o] \in DeliveryRows
         /\ deliveries[o].state = "delivered"
         /\ deliveries' \in [Orders -> DeliveryRows \union {Null}]
         /\ deliveries'[o] \in DeliveryRows /\ deliveries'[o].state = "settled"
         /\ deliveries'[o].attempts = deliveries[o].attempts
         /\ \A x \in Orders : x # o => deliveries'[x] = deliveries[x]
<1>1. deliveries \in [Orders -> DeliveryRows \union {Null}]
  BY DEF Types, RowsOK
<1>2. deliveries[o] \in DeliveryRows /\ deliveries[o].state = "delivered"
  BY <1>1 DEF DeliveryState
<1> DEFINE row == [deliveries[o] EXCEPT !.state = "settled",
                                        !.version = @ + 1]
<1>3. deliveries' = [deliveries EXCEPT ![o] = row]
  BY <1>1, <1>2 DEF Settled
<1>4. /\ row \in DeliveryRows /\ row.state = "settled"
      /\ row.attempts = deliveries[o].attempts
  <2>1. deliveries[o].version + 1 \in Nat \ {0} /\ "settled" \in DeliveryStates
    BY <1>2 DEF DeliveryRows, DeliveryStates
  <2> QED BY <1>2, <2>1 DEF DeliveryRows
<1> HIDE DEF row
<1> QED BY <1>1, <1>2, <1>3, <1>4

\* The rows an order's command leaves.
LEMMA OrderRowsAfter ==
  ASSUME Types, NEW command \in Heard, NEW row, OrderWritten(command, row)
  PROVE  LET o == command.order
         IN /\ o \in Orders /\ CommandOK(command)
            /\ orders' \in [Orders -> OrderRows \union {Null}]
            /\ orders'[o] = row /\ row \in OrderRows /\ Whole(row)
            /\ \A x \in Orders : x # o => orders'[x] = orders[x]
            /\ cancellations' \in [Orders -> Cancellations \union {Null}]
            /\ \A x \in Orders : x # o => cancellations'[x] = cancellations[x]
            /\ command.kind # "cancel" => cancellations'[o] = cancellations[o]
            /\ command.kind = "cancel" =>
                 cancellations'[o] = [captured |-> Captured(o),
                                      refund |-> Refund(o)]
            /\ kds' \in Seq(KdsEvents)
<1> DEFINE o == command.order
<1>1. CommandOK(command) /\ command.kind \in OrderKinds
  BY DEF Types, HeardOK, OrderWritten
<1>2. o \in Orders
  BY <1>1 DEF CommandOK, Has
<1>3. /\ orders \in [Orders -> OrderRows \union {Null}]
      /\ cancellations \in [Orders -> Cancellations \union {Null}]
      /\ kds \in Seq(KdsEvents) /\ payments \in Seq(Payments)
  BY DEF Types, RowsOK
<1>4. /\ row \in OrderRows /\ Whole(row)
      /\ orders' = [orders EXCEPT ![o] = row]
  BY DEF OrderWritten
<1>5. /\ orders' \in [Orders -> OrderRows \union {Null}]
      /\ orders'[o] = row
      /\ \A x \in Orders : x # o => orders'[x] = orders[x]
  BY <1>2, <1>3, <1>4
<1> DEFINE record == [captured |-> Captured(o), refund |-> Refund(o)]
<1>6. record \in Cancellations
  <2>1. Captured(o) \in Nat
    BY <1>3, MoneyIsNat
  <2> QED BY <2>1 DEF Cancellations, Refund
<1>7. IF command.kind = "cancel"
      THEN cancellations' = [cancellations EXCEPT ![o] = record]
      ELSE cancellations' = cancellations
  BY DEF OrderWritten
<1> HIDE DEF record
<1>8. /\ cancellations' \in [Orders -> Cancellations \union {Null}]
      /\ \A x \in Orders : x # o => cancellations'[x] = cancellations[x]
      /\ command.kind # "cancel" => cancellations'[o] = cancellations[o]
      /\ command.kind = "cancel" => cancellations'[o] = record
  BY <1>2, <1>3, <1>6, <1>7
<1>9. kds' \in Seq(KdsEvents)
  <2>1. CASE command.kind \notin ReadingKinds
    <3>1. kds' = kds
      BY <2>1 DEF OrderWritten
    <3> QED BY <1>3, <3>1
  <2>2. CASE command.kind \in ReadingKinds
    <3> DEFINE read == Aggregate(orders[o])
    <3>1. /\ Allowed(read, command) /\ kds' = kds \o Events(o, read, command)
      BY <2>2 DEF OrderWritten
    <3>2. orders[o] # Null
      BY <2>2 DEF OrderWritten, ReadingKinds
    <3>3. read \in Aggregates /\ Whole(read)
      BY <1>2, <3>2, OrderKnown
    <3> HIDE DEF read
    <3>4. Events(o, read, command) \in Seq(KdsEvents)
      BY <1>1, <1>2, <2>2, <3>1, <3>3, EventsTell
    <3> QED BY <1>3, <3>1, <3>4, ConcatProperties
  <2> QED BY <2>1, <2>2
<1> QED BY <1>1, <1>2, <1>4, <1>5, <1>8, <1>9 DEF record

\* The row a trip's move leaves.
LEMMA TripAfter ==
  ASSUME Types, NEW command \in Heard, TripMoved(command)
  PROVE  LET o == command.order
             old == deliveries[o]
             new == deliveries'[o]
         IN /\ o \in Orders /\ new \in DeliveryRows
            /\ deliveries' \in [Orders -> DeliveryRows \union {Null}]
            /\ \A x \in Orders : x # o => deliveries'[x] = deliveries[x]
            /\ old = Null => command.kind = "assign" /\ new.attempts = 0
            /\ old # Null =>
                 /\ old \in DeliveryRows
                 /\ new.attempts = IF command.kind = "dispatch"
                                   THEN old.attempts + 1 ELSE old.attempts
            /\ command.kind = "dispatch" =>
                 old.state = "assigned" /\ old.attempts < MaxAttempts
            /\ new.state = IF command.kind = "assign" THEN "assigned"
                           ELSE IF command.kind = "dispatch" THEN "en_route"
                           ELSE IF command.kind = "complete" THEN "delivered"
                           ELSE "failed"
<1> DEFINE o == command.order
           old == deliveries[o]
           trip == Trip(o, command)
           new == Moved(trip, command)
<1>1. CommandOK(command) /\ command.kind \in TripKinds
  BY DEF Types, HeardOK, TripMoved
<1>2. o \in Orders /\ (command.kind = "assign" => command.courier \in Couriers)
  BY <1>1 DEF CommandOK, Has
<1>3. deliveries \in [Orders -> DeliveryRows \union {Null}]
  BY DEF Types, RowsOK
<1>4. /\ MayMove(trip, command)
      /\ deliveries' = [deliveries EXCEPT ![o] = new]
  BY DEF TripMoved
<1>5. CASE old = Null
  <2>1. trip.state = "pending"
    BY <1>5 DEF Trip, Unassigned
  <2>2. command.kind = "assign"
    BY <1>1, <1>4, <2>1 DEF MayMove, TripKinds
  <2>3. trip = [state |-> "pending", courier |-> command.courier,
                attempts |-> 0, version |-> 0]
    BY <1>5, <2>2 DEF Trip, Unassigned
  <2>4. new = [state |-> "assigned", courier |-> command.courier,
               attempts |-> 0, version |-> 1]
    <3> DEFINE next == [trip EXCEPT !.version = @ + 1]
    <3>1. next = [state |-> "pending", courier |-> command.courier,
                  attempts |-> 0, version |-> 1]
      BY <2>3
    <3>2. new = [next EXCEPT !.state = "assigned", !.courier = command.courier]
      BY <2>2 DEF Moved
    <3> HIDE DEF next, new
    <3> QED BY <3>1, <3>2
  <2>5. new \in DeliveryRows /\ new.attempts = 0 /\ new.state = "assigned"
    BY <1>2, <2>2, <2>4 DEF DeliveryRows, DeliveryStates
  <2> QED BY <1>2, <1>3, <1>4, <1>5, <2>2, <2>5
<1>6. CASE old # Null
  <2>1. old \in DeliveryRows
    BY <1>2, <1>3, <1>6
  <2>2. trip = old
    BY <1>6 DEF Trip
  <2>3. /\ old.version + 1 \in Nat \ {0} /\ old.attempts + 1 \in Nat
        /\ old.attempts \in Nat
    BY <2>1 DEF DeliveryRows
  <2> HIDE DEF old, trip
  <2>4. CASE command.kind = "assign"
    <3>1. new = [old EXCEPT !.version = @ + 1, !.state = "assigned",
                            !.courier = command.courier]
      BY <2>1, <2>2, <2>4 DEF Moved, DeliveryRows
    <3>2. /\ new \in DeliveryRows /\ new.attempts = old.attempts
          /\ new.state = "assigned"
      BY <1>2, <2>1, <2>3, <2>4, <3>1 DEF DeliveryRows, DeliveryStates
    <3> HIDE DEF new
    <3> QED BY <1>2, <1>3, <1>4, <1>6, <2>1, <2>4, <3>2 DEF old
  <2>5. CASE command.kind = "dispatch"
    <3>1. new = [old EXCEPT !.version = @ + 1, !.state = "en_route",
                            !.attempts = @ + 1]
      BY <2>1, <2>2, <2>5 DEF Moved, DeliveryRows
    <3>2. /\ new \in DeliveryRows /\ new.attempts = old.attempts + 1
          /\ new.state = "en_route"
      BY <2>1, <2>3, <3>1 DEF DeliveryRows, DeliveryStates
    <3>3. old.state = "assigned" /\ old.attempts < MaxAttempts
      BY <1>4, <2>2, <2>5 DEF MayMove
    <3> HIDE DEF new
    <3> QED BY <1>2, <1>3, <1>4, <1>6, <2>1, <2>5, <3>2, <3>3 DEF old
  <2>6. CASE command.kind \in {"complete", "fail"}
    <3> DEFINE to == IF command.kind = "complete" THEN "delivered" ELSE "failed"
    <3>1. new = [old EXCEPT !.version = @ + 1, !.state = to]
      BY <2>1, <2>2, <2>6 DEF Moved, DeliveryRows
    <3>2. to \in DeliveryStates
      BY DEF DeliveryStates
    <3> HIDE DEF to
    <3>3. /\ new \in DeliveryRows /\ new.attempts = old.attempts
          /\ new.state = to
      BY <2>1, <2>3, <3>1, <3>2 DEF DeliveryRows
    <3> HIDE DEF new
    <3> QED BY <1>2, <1>3, <1>4, <1>6, <2>1, <2>6, <3>3 DEF old, to
  <2> QED BY <1>1, <2>4, <2>5, <2>6 DEF TripKinds
<1> QED BY <1>5, <1>6

\* The row of a session that is opened or closed.
LEMMA SessionAfter ==
  ASSUME Types, NEW command \in Heard,
         SessionOpened(command) \/ SessionClosed(command)
  PROVE  LET s == command.session
         IN /\ s \in Sessions
            /\ sessions' \in [Sessions -> SessionRows \union {Null}]
            /\ \A x \in Sessions : x # s => sessions'[x] = sessions[x]
            /\ sessions'[s] \in SessionRows
            /\ SessionOpened(command) =>
                 /\ sessions[s] = Null
                 /\ sessions'[s].status = "open"
                 /\ sessions'[s].drawer = Float /\ sessions'[s].version = 1
            /\ SessionClosed(command) =>
                 /\ sessions[s] \in SessionRows /\ sessions[s].status = "open"
                 /\ sessions'[s].status = "closed"
                 /\ sessions'[s].drawer = sessions[s].drawer
                 /\ sessions'[s].version = sessions[s].version + 1
                 /\ sessions'[s].expected = Movements(s)
<1> DEFINE s == command.session
           old == sessions[s]
<1>1. s \in Sessions
  <2>1. CommandOK(command) /\ command.kind \in FinancialKinds
    BY DEF Types, HeardOK, SessionOpened, SessionClosed, FinancialKinds
  <2> QED BY <2>1 DEF CommandOK, Has
<1>2. sessions \in [Sessions -> SessionRows \union {Null}]
  BY DEF Types, RowsOK
<1>3. CASE SessionOpened(command)
  <2> DEFINE new == [status |-> "open", drawer |-> Float, version |-> 1,
                     expected |-> Null]
  <2>1. sessions' = [sessions EXCEPT ![s] = new] /\ old = Null
    BY <1>3 DEF SessionOpened, MayOpen
  <2>2. /\ new \in SessionRows /\ new.status = "open"
        /\ new.drawer = Float /\ new.version = 1
    BY StoreAssumption DEF SessionRows
  <2>3. ~SessionClosed(command)
    BY <1>3 DEF SessionOpened, SessionClosed
  <2> HIDE DEF new
  <2> QED BY <1>1, <1>2, <2>1, <2>2, <2>3
<1>4. CASE SessionClosed(command)
  <2> DEFINE new == [old EXCEPT !.status = "closed", !.version = @ + 1,
                                !.expected = Movements(s)]
  <2>1. /\ sessions' = [sessions EXCEPT ![s] = new]
        /\ old # Null /\ old.status = "open"
    BY <1>4 DEF SessionClosed
  <2>2. old \in SessionRows
    BY <1>1, <1>2, <2>1
  <2>3. Movements(s) \in Nat
    BY MoneyIsNat DEF Types, RowsOK
  <2>4. old.version + 1 \in Nat \ {0}
    BY <2>2 DEF SessionRows
  <2> HIDE DEF old
  <2>5. /\ new \in SessionRows /\ new.status = "closed"
        /\ new.drawer = old.drawer /\ new.version = old.version + 1
        /\ new.expected = Movements(s)
    BY <2>2, <2>3, <2>4 DEF SessionRows
  <2>6. ~SessionOpened(command)
    BY <1>4 DEF SessionOpened, SessionClosed
  <2> HIDE DEF new
  <2> QED BY <1>1, <1>2, <2>1, <2>2, <2>5, <2>6 DEF old
<1> QED BY <1>3, <1>4

\* A move leaves rows of the right shape.
LEMMA MovesRows ==
  ASSUME Types, NEW command \in Heard, Moves(command)
  PROVE  RowsOK'
<1>0. /\ orders \in [Orders -> OrderRows \union {Null}]
      /\ \A o \in Orders : orders[o] # Null => Whole(orders[o])
      /\ cancellations \in [Orders -> Cancellations \union {Null}]
      /\ kds \in Seq(KdsEvents)
      /\ payments \in Seq(Payments)
      /\ sessions \in [Sessions -> SessionRows \union {Null}]
      /\ sequences \in [Devices -> Nat]
      /\ deliveries \in [Orders -> DeliveryRows \union {Null}]
  BY DEF Types, RowsOK
<1>1. ASSUME NEW row, OrderWritten(command, row) PROVE RowsOK'
  <2> DEFINE o == command.order
  <2>1. /\ o \in Orders
        /\ orders' \in [Orders -> OrderRows \union {Null}]
        /\ orders'[o] = row /\ Whole(row)
        /\ \A x \in Orders : x # o => orders'[x] = orders[x]
        /\ cancellations' \in [Orders -> Cancellations \union {Null}]
        /\ kds' \in Seq(KdsEvents)
    BY <1>1, OrderRowsAfter
  <2>2. UNCHANGED <<payments, sessions, sequences, deliveries>>
    BY <1>1 DEF OrderWritten, cashTables
  <2>3. \A x \in Orders : orders'[x] # Null => Whole(orders'[x])
    BY <1>0, <2>1
  <2> QED BY <1>0, <2>1, <2>2, <2>3 DEF RowsOK
<1>2. ASSUME NEW due, command.kind \in {"collect", "settle"},
             PaymentTaken(command, due)
      PROVE  RowsOK'
  <2> DEFINE o == command.order
             s == command.session
             d == command.device
             p == PaymentRow(command, due)
  <2>1. /\ o \in Orders /\ s \in Sessions /\ d \in Devices
        /\ p \in Payments /\ payments' = Append(payments, p)
        /\ Numbers(command) \in {1, 2} /\ sequences[d] \in Nat
        /\ sequences' = [sequences EXCEPT ![d] = @ + Numbers(command)]
        /\ DOMAIN orders' = Orders /\ DOMAIN sessions' = Sessions
        /\ \A x \in Orders : x # o => orders'[x] = orders[x]
        /\ \A x \in Sessions : x # s => sessions'[x] = sessions[x]
        /\ orders[o] \in OrderRows
        /\ orders'[o] \in OrderRows
        /\ orders'[o].status \in {"paid", "partially_paid"}
        /\ sessions'[s] \in SessionRows
    BY <1>2, PaymentRows
  <2>2. payments' \in Seq(Payments)
    BY <1>0, <2>1, AppendProperties
  <2>3. sequences' \in [Devices -> Nat]
    <3>1. sequences[d] + Numbers(command) \in Nat
      BY <2>1
    <3> QED BY <1>0, <2>1, <3>1
  <2>4. /\ orders' = [x \in Orders |-> orders'[x]]
        /\ sessions' = [x \in Sessions |-> sessions'[x]]
    <3>1. /\ \E value : orders' = [orders EXCEPT ![o] = value]
          /\ \E value : sessions' = [sessions EXCEPT ![s] = value]
      BY <1>2 DEF PaymentTaken, PaymentWritten
    <3> QED BY <1>0, <3>1
  <2>5. orders' \in [Orders -> OrderRows \union {Null}]
    <3>1. \A x \in Orders : orders'[x] \in OrderRows \union {Null}
      BY <1>0, <2>1
    <3> QED BY <2>4, <3>1
  <2>6. sessions' \in [Sessions -> SessionRows \union {Null}]
    <3>1. \A x \in Sessions : sessions'[x] \in SessionRows \union {Null}
      BY <1>0, <2>1
    <3> QED BY <2>4, <3>1
  <2>7. \A x \in Orders : orders'[x] # Null => Whole(orders'[x])
    <3>1. Whole(orders'[o])
      BY <2>1 DEF Whole
    <3> QED BY <1>0, <2>1, <3>1
  <2>8. deliveries' \in [Orders -> DeliveryRows \union {Null}]
    <3>1. \/ UNCHANGED deliveries
          \/ DeliveryState(o) = "delivered" /\ Settled(o)
      BY <1>2 DEF PaymentTaken, DeliveryState, Delivered
    <3> QED BY <1>0, <2>1, <3>1, TripSettled
  <2>9. UNCHANGED <<cancellations, kds>>
    BY <1>2 DEF PaymentTaken, PaymentWritten
  <2> QED BY <1>0, <2>2, <2>3, <2>5, <2>6, <2>7, <2>8, <2>9 DEF RowsOK
<1>3. CASE SessionOpened(command) \/ SessionClosed(command)
  <2>1. sessions' \in [Sessions -> SessionRows \union {Null}]
    BY <1>3, SessionAfter
  <2>2. UNCHANGED <<orderTables, payments, sequences, deliveries>>
    BY <1>3 DEF SessionOpened, SessionClosed
  <2> QED BY <1>0, <2>1, <2>2 DEF RowsOK, orderTables
<1>4. CASE TripMoved(command)
  <2>1. deliveries' \in [Orders -> DeliveryRows \union {Null}]
    BY <1>4, TripAfter
  <2>2. UNCHANGED <<orderTables, cashTables>>
    BY <1>4 DEF TripMoved
  <2> QED BY <1>0, <2>1, <2>2 DEF RowsOK, orderTables, cashTables
<1>5. CASE TripPrepaid(command)
  <2>1. command.order \in Orders
    BY <1>5 DEF TripPrepaid, Types, HeardOK, CommandOK, Has
  <2>2. DeliveryState(command.order) = "delivered" /\ Settled(command.order)
    BY <1>5 DEF TripPrepaid, Delivered, DeliveryState
  <2>3. deliveries' \in [Orders -> DeliveryRows \union {Null}]
    BY <2>1, <2>2, TripSettled
  <2>4. UNCHANGED <<orderTables, cashTables>>
    BY <1>5 DEF TripPrepaid
  <2> QED BY <1>0, <2>3, <2>4 DEF RowsOK, orderTables, cashTables
<1> QED BY <1>1, <1>2, <1>3, <1>4, <1>5 DEF Moves

\* Serving a request keeps the types.
LEMMA ServedTypes ==
  ASSUME Types, NEW c \in Callers, calls[c] # Null, Served(c)
  PROVE  Types'
<1> DEFINE command == calls[c].command
<1>0. command \in Sent /\ command \in Heard
  BY CallKnown DEF Heard
<1>1. PICK call : /\ calls' = [calls EXCEPT ![c] = call]
                  /\ call # Null => CallOK(call) /\ call.command = command
  BY DEF Served, CallGoesOn
<1>2. CallsOK'
  BY <1>1 DEF Types, CallsOK
<1>3. Sent' \subseteq Sent
  <2>1. \A d \in Callers : calls'[d] = IF d = c THEN call ELSE calls[d]
    BY <1>1 DEF Types, CallsOK
  <2>2. ASSUME NEW d \in Callers, calls'[d] # Null
        PROVE  calls'[d].command \in Sent
    BY <1>0, <1>1, <2>1, <2>2 DEF Sent
  <2> QED BY <2>2 DEF Sent
<1>4. RowsOK' /\ JournalOK' /\ Known' \subseteq Known \union {command}
  <2>1. CASE Quiet
    <3>1. RowsOK'
      BY <2>1 DEF Types, RowsOK, Quiet, orderTables, cashTables
    <3>2. JournalOK' /\ Known' = Known
      BY <2>1 DEF Types, JournalOK, Known, Quiet
    <3> QED BY <3>1, <3>2
  <2>2. CASE Moves(command)
    BY <1>0, <2>2, MovesRows, MovesFile
  <2> QED BY <2>1, <2>2 DEF Served
<1>5. HeardOK'
  <2>1. Heard' \subseteq Heard
    BY <1>0, <1>3, <1>4 DEF Heard
  <2> QED BY <2>1 DEF Types, HeardOK
<1> QED BY <1>2, <1>4, <1>5 DEF Types

\* A request being served is there.
LEMMA ServedThere ==
  ASSUME NEW c, Serve(c)
  PROVE  calls[c] # Null
BY DEF Serve, OrderStep, CashStep, DeliveryStep, Create, Read, Persist, Label,
       CancelOrder, Look, OpenRegister, ReadForCollection, PrepareCollection,
       Collect, ReadForClose, CloseRegister, MoveDelivery, ReadForBalance,
       Weigh, ReadForSettlement, PrepareSettlement, Settle, SettlePrepaid, At

\* A step is quiet, or a move of a command that was heard.
LEMMA StepsMove ==
  ASSUME Types, [Next]_vars
  PROVE  Types' /\ (Quiet \/ \E command \in Heard : Moves(command))
<1>1. CASE UNCHANGED vars
  <2>1. Quiet /\ UNCHANGED calls
    BY <1>1 DEF vars, Quiet
  <2>2. RowsOK' /\ JournalOK'
    BY <2>1 DEF Types, RowsOK, JournalOK, Quiet, orderTables, cashTables
  <2>3. CallsOK' /\ Sent' = Sent /\ Known' = Known
    BY <2>1 DEF Types, CallsOK, Sent, Known, Quiet
  <2> QED BY <2>1, <2>2, <2>3 DEF Types, HeardOK, Heard
<1>2. ASSUME NEW c \in Callers, Issue(c) \/ Retry(c) \/ Drop(c)
      PROVE  Types' /\ Quiet
  BY <1>2, ClientTypes, ClientsAreQuiet
<1>3. ASSUME NEW c \in Callers, Serve(c)
      PROVE  Types' /\ (Quiet \/ \E command \in Heard : Moves(command))
  <2>1. calls[c] # Null /\ Served(c)
    BY <1>3, ServedThere, EveryServiceMoves
  <2>2. calls[c].command \in Heard
    BY <2>1, CallKnown DEF Heard
  <2> QED BY <2>1, <2>2, ServedTypes DEF Served
<1> QED BY <1>1, <1>2, <1>3 DEF Next

\* Nothing is there at first.
LEMMA TypesInit ==
  ASSUME Init
  PROVE  Types
<1>1. RowsOK
  <2>1. kds \in Seq(KdsEvents) /\ payments \in Seq(Payments)
    BY EmptySeq DEF Init
  <2> QED BY <2>1 DEF Init, RowsOK
<1>2. DOMAIN journal = {}
  <2>1. \A S : Len(<<>>) = 0 /\ DOMAIN <<>> = 1 .. 0
    BY EmptySeq
  <2> QED BY <2>1 DEF Init
<1>3. JournalOK
  BY <1>2, FS_EmptySet DEF JournalOK, LogOK
<1>4. CallsOK
  BY DEF Init, CallsOK
<1>5. HeardOK
  <2>1. Sent = {} /\ Known = {}
    BY <1>2 DEF Init, Sent, Known
  <2> QED BY <2>1 DEF HeardOK, Heard
<1> QED BY <1>1, <1>3, <1>4, <1>5 DEF Types

\* Rows, journals and requests always have the shapes their tables and
\* services give them, and a key never stands for two kinds of command.
THEOREM RowsKeepTheirShape == Spec => []Types
<1>1. Init => Types
  BY TypesInit
<1>2. Types /\ [Next]_vars => Types'
  BY StepsMove
<1> QED BY <1>1, <1>2, PTL DEF Spec

\* Every variable holds values of the shape its table or request has.
THEOREM TablesKeepTheirTypes == Spec => []PosTypeOK
<1>1. Types => PosTypeOK
  <2> SUFFICES ASSUME Types PROVE PosTypeOK
    OBVIOUS
  <2>1. DOMAIN journal \subseteq Tables \X Nat
    BY DEF Types, JournalOK, LogOK, EntryOK
  <2>2. \A c \in Callers : calls[c] # Null =>
          /\ calls[c].captured \in Nat /\ calls[c].due \in Nat
          /\ calls[c].order # Null => calls[c].order \in OrderRows
          /\ calls[c].session # Null => calls[c].session \in SessionRows
    BY DEF Types, CallsOK, CallOK
  <2> QED BY <2>1, <2>2 DEF Types, RowsOK, PosTypeOK
<1> QED BY <1>1, RowsKeepTheirShape, PTL

-----------------------------------------------------------------------------
(***************************************************************************)
(* Orders move forward.                                                    *)
(***************************************************************************)

\* No request undoes another's work: an order and its lines only move along
\* their life cycles, no line disappears, and whatever changes takes a new
\* version with it.
THEOREM NothingIsUndone == Spec => OrdersMoveForward
<1>1. ASSUME NEW o, orders[o] # Null, orders'[o] = orders[o]
      PROVE  MovesForward(o)
  BY <1>1 DEF MovesForward
<1>2. ASSUME Types, NEW command \in Heard, Moves(command), NEW o \in Created
      PROVE  MovesForward(o)
  <2>1. orders[o] # Null /\ o \in Orders
    BY DEF Created
  <2>2. ASSUME NEW row, OrderWritten(command, row)
        PROVE  MovesForward(o)
    <3>1. /\ orders'[command.order] = row /\ row \in OrderRows
          /\ \A x \in Orders : x # command.order => orders'[x] = orders[x]
      BY <1>2, <2>2, OrderRowsAfter
    <3>2. CASE o # command.order
      BY <1>1, <2>1, <3>1, <3>2
    <3>3. CASE o = command.order
      <4>1. MovedOn(orders[o], row) /\ OrderVersion(o) < row.version
        BY <2>1, <2>2, <3>3 DEF OrderWritten
      <4>2. OrderVersion(o) = orders[o].version
        BY <2>1 DEF OrderVersion
      <4>3. orders'[o] = row /\ row # Null
        BY <3>1, <3>3, RowsAndAggregates
      <4>4. orders[o].version \in Nat /\ row.version \in Nat
        BY <1>2, <2>1, <3>1, OrderKnown, RowsAndAggregates
      <4>5. row.version > orders[o].version
        BY <4>1, <4>2, <4>4
      <4> QED BY <4>1, <4>3, <4>5 DEF MovedOn, MovesForward
    <3> QED BY <3>2, <3>3
  <2>3. ASSUME NEW due, command.kind \in {"collect", "settle"},
               PaymentTaken(command, due)
        PROVE  MovesForward(o)
    <3> DEFINE p == command.order
    <3>1. /\ \A x \in Orders : x # p => orders'[x] = orders[x]
          /\ orders[p] \in OrderRows /\ Payable(orders[p])
          /\ orders'[p] \in OrderRows
          /\ orders'[p].status \in {"paid", "partially_paid"}
          /\ orders'[p].lines = orders[p].lines
          /\ orders'[p].version = orders[p].version + 1
      BY <1>2, <2>3, PaymentRows
    <3>2. CASE o # p
      BY <1>1, <2>1, <3>1, <3>2
    <3>3. CASE o = p
      <4>1. orders'[o] # Null /\ orders[o].version \in Nat
        BY <3>1, <3>3, RowsAndAggregates
      <4>2. orders'[o].status
              \in {orders[o].status} \union OrderTransitions[orders[o].status]
        BY <3>1, <3>3 DEF Payable, OrderTransitions
      <4>3. orders'[o].version > orders[o].version
        BY <3>1, <3>3, <4>1
      <4> QED BY <3>1, <3>3, <4>1, <4>2, <4>3 DEF MovesForward
    <3> QED BY <3>2, <3>3
  <2>4. CASE \/ SessionOpened(command) \/ SessionClosed(command)
             \/ TripMoved(command) \/ TripPrepaid(command)
    <3>1. orders' = orders
      BY <2>4 DEF SessionOpened, SessionClosed, TripMoved, TripPrepaid,
                  orderTables
    <3> QED BY <1>1, <2>1, <3>1
  <2> QED BY <1>2, <2>2, <2>3, <2>4 DEF Moves
<1>3. Types /\ [Next]_vars => [\A o \in Created : MovesForward(o)]_vars
  <2> SUFFICES ASSUME Types, [Next]_vars, NEW o \in Created
               PROVE  MovesForward(o)
    OBVIOUS
  <2>1. CASE Quiet
    <3>1. orders' = orders
      BY <2>1 DEF Quiet, orderTables
    <3> QED BY <1>1, <3>1 DEF Created
  <2>2. ASSUME NEW command \in Heard, Moves(command) PROVE MovesForward(o)
    BY <1>2, <2>2
  <2> QED BY <2>1, <2>2, StepsMove
<1> QED BY <1>3, RowsKeepTheirShape, PTL DEF Spec, OrdersMoveForward

-----------------------------------------------------------------------------
(***************************************************************************)
(* The money of orders.                                                    *)
(***************************************************************************)

\* The money of one order, with what the properties do not say: nothing was
\* captured or cancelled before it was created, and a paid order was paid with
\* something.
MoneyOf(row, cancellation, captured) ==
  /\ row = Null => captured = 0 /\ cancellation = Null
  /\ row # Null =>
       /\ row.status \in {"draft", "open"} => captured = 0
       /\ row.status = "partially_paid" => 0 < captured /\ captured < Total(row)
       /\ row.status = "paid" => captured = Total(row) /\ captured > 0
       /\ (cancellation # Null) <=> (row.status = "cancelled")
       /\ cancellation # Null =>
            /\ cancellation.captured = captured
            /\ (cancellation.refund = "pending") <=> (captured > 0)

MoneyOK == \A o \in Orders : MoneyOf(orders[o], cancellations[o], Captured(o))

\* It says what the properties say.
LEMMA MoneyOKSays ==
  ASSUME Types, MoneyOK
  PROVE  MoneyMatchesStatus /\ RefundOwed
<1>1. \A o \in Orders : orders[o] # Null => orders[o].status \in OrderStates
  BY OrderKnown, RowsAndAggregates
<1>2. MoneyMatchesStatus
  BY <1>1 DEF MoneyOf, MoneyOK, MoneyMatchesStatus, Created, OrderStates
<1>3. RefundOwed
  BY DEF MoneyOf, MoneyOK, RefundOwed, Created
<1> QED BY <1>2, <1>3

\* What was captured changes with the payments alone.
LEMMA MoneyUnchanged ==
  ASSUME payments' = payments
  PROVE  \A x : Captured(x)' = Captured(x) /\ Movements(x)' = Movements(x)
BY DEF Captured, Movements

\* An order's command leaves its money as its status says: creating it starts
\* with none, cancelling it owes back what was captured, and anything else
\* leaves the money standing.
LEMMA OrderMoney ==
  ASSUME Types, MoneyOK, NEW command \in Heard, NEW row,
         OrderWritten(command, row)
  PROVE  MoneyOK'
<1> DEFINE p == command.order
           old == orders[p]
<1>1. /\ p \in Orders
      /\ orders'[p] = row /\ row \in OrderRows
      /\ \A x \in Orders : x # p => orders'[x] = orders[x]
      /\ \A x \in Orders : x # p => cancellations'[x] = cancellations[x]
      /\ command.kind # "cancel" => cancellations'[p] = cancellations[p]
      /\ command.kind = "cancel" =>
           cancellations'[p] = [captured |-> Captured(p), refund |-> Refund(p)]
  BY OrderRowsAfter
<1>2. \A x : Captured(x)' = Captured(x)
  <2>1. payments' = payments
    BY DEF OrderWritten, cashTables
  <2> QED BY <2>1, MoneyUnchanged
<1>3. ASSUME NEW o \in Orders, o # p
      PROVE  MoneyOf(orders'[o], cancellations'[o], Captured(o))
  BY <1>1, <1>3 DEF MoneyOK
<1>4. /\ MoneyOf(old, cancellations[p], Captured(p))
      /\ Captured(p) \in Nat /\ row # Null /\ Total(row) \in Nat
  <2>1. Captured(p) \in Nat
    BY MoneyIsNat DEF Types, RowsOK
  <2> QED BY <1>1, <2>1, RowsAndAggregates, CostIsNat DEF MoneyOK
<1> DEFINE captured == Captured(p)
<1>5. MoneyOf(row, cancellations'[p], captured)
  <2>1. CASE command.kind = "create"
    <3>1. old = Null /\ row.status = "draft"
      BY <2>1 DEF OrderWritten
    <3> HIDE DEF captured
    <3> QED BY <1>1, <1>4, <2>1, <3>1 DEF MoneyOf, captured
  <2>2. CASE command.kind = "cancel"
    <3>1. old # Null /\ row.status = "cancelled" /\ old.status # "cancelled"
      BY <2>2 DEF OrderWritten
    <3> DEFINE record == [captured |-> captured, refund |-> Refund(p)]
    <3>2. /\ record # Null /\ cancellations'[p] = record
          /\ record.captured = captured /\ record.refund = Refund(p)
      <4>1. record \in Cancellations
        BY <1>4 DEF Cancellations, Refund
      <4> QED BY <1>1, <2>2, <4>1, RowAssumption
    <3>3. (Refund(p) = "pending") <=> (captured > 0)
      <4>1. old.status \in {"partially_paid", "paid"} => captured > 0
        BY <1>4, <3>1 DEF MoneyOf
      <4> QED BY <4>1 DEF Refund
    <3> HIDE DEF captured, record
    <3> QED BY <3>1, <3>2, <3>3, <1>4 DEF MoneyOf
  <2>3. CASE command.kind \notin {"create", "cancel"}
    <3>1. /\ old # Null /\ MoneyStands(old, row)
          /\ cancellations'[p] = cancellations[p]
      BY <1>1, <2>3 DEF OrderWritten
    <3>2. old \in OrderRows /\ Total(old) \in Nat
      BY <1>1, <3>1, OrderKnown, CostIsNat
    <3> HIDE DEF captured, old
    <3>3. MoneyOf(old, cancellations[p], captured) /\ captured \in Nat
      BY <1>4 DEF captured
    <3>4. CASE old.status = row.status
      BY <1>4, <3>1, <3>2, <3>3, <3>4 DEF MoneyOf, MoneyStands
    <3>5. CASE old.status = "draft" /\ row.status = "open"
      BY <1>4, <3>1, <3>3, <3>5 DEF MoneyOf
    <3> QED BY <3>1, <3>4, <3>5 DEF MoneyStands
  <2> QED BY <2>1, <2>2, <2>3
<1>6. \A o \in Orders : MoneyOf(orders'[o], cancellations'[o], Captured(o))
  BY <1>1, <1>3, <1>5
<1> QED BY <1>2, <1>6 DEF MoneyOK

\* A payment moves its order's status to what it has then captured.
LEMMA PaymentMoney ==
  ASSUME Types, MoneyOK, NEW command \in Heard,
         command.kind \in {"collect", "settle"},
         NEW due, PaymentTaken(command, due)
  PROVE  MoneyOK'
<1> DEFINE p == command.order
           payment == PaymentRow(command, due)
           old == orders[p]
           new == orders'[p]
<1>1. /\ p \in Orders /\ payment \in Payments
      /\ payments' = Append(payments, payment)
      /\ payment.order = p /\ payment.amount = due
      /\ \A x \in Orders : x # p => orders'[x] = orders[x]
      /\ old \in OrderRows /\ Payable(old) /\ new \in OrderRows
      /\ new.status = IF due = Left(p) THEN "paid" ELSE "partially_paid"
      /\ Total(new) = Total(old)
  BY PaymentRows
<1>2. cancellations' = cancellations /\ due \in Nat \ {0} /\ due <= Left(p)
  BY DEF PaymentTaken, PaymentWritten, Awaits
<1>3. \A x : Captured(x)' = Captured(x) + (IF p = x THEN due ELSE 0)
  <2>1. payments \in Seq(Payments)
    BY DEF Types, RowsOK
  <2> HIDE DEF payment, p
  <2> QED BY <1>1, <2>1, MoneyAdds
<1>4. \A x : Captured(x) \in Nat
  BY MoneyIsNat DEF Types, RowsOK
<1>5. ASSUME NEW o \in Orders, o # p
      PROVE  MoneyOf(orders'[o], cancellations'[o], Captured(o)')
  <2>1. Captured(o)' = Captured(o)
    BY <1>3, <1>4, <1>5
  <2>2. MoneyOf(orders[o], cancellations[o], Captured(o))
    BY DEF MoneyOK
  <2> QED BY <1>1, <1>2, <1>5, <2>1, <2>2
<1>6. MoneyOf(orders'[p], cancellations'[p], Captured(p)')
  <2> DEFINE before == Captured(p)
             after == Captured(p)'
  <2>1. /\ before \in Nat /\ after = before + due
        /\ MoneyOf(old, cancellations[p], before)
    BY <1>1, <1>3, <1>4 DEF MoneyOK
  <2>2. Left(p) = Total(old) - before /\ Total(old) \in Nat
    BY <1>1, CostIsNat DEF Left
  <2>3. old # Null /\ new # Null
    BY <1>1, RowsAndAggregates
  <2> HIDE DEF before, after, old, new
  <2>4. old.status \notin {"cancelled", "paid"} /\ cancellations[p] = Null
    BY <1>1, <2>1, <2>3 DEF Payable, MoneyOf
  <2>5. CASE due = Left(p)
    <3>1. new.status = "paid" /\ after = Total(new) /\ after > 0
      BY <1>1, <1>2, <2>1, <2>2, <2>5
    <3> QED BY <1>2, <2>3, <2>4, <3>1 DEF MoneyOf, after, new
  <2>6. CASE due # Left(p)
    <3>1. new.status = "partially_paid" /\ 0 < after /\ after < Total(new)
      BY <1>1, <1>2, <2>1, <2>2, <2>6
    <3> QED BY <1>2, <2>3, <2>4, <3>1 DEF MoneyOf, after, new
  <2> QED BY <2>5, <2>6
<1> QED BY <1>5, <1>6 DEF MoneyOK

\* The money of every order stays so, whatever requests interleave.
THEOREM MoneyStaysOK == Spec => [](Types /\ MoneyOK)
<1>1. Init => MoneyOK
  <2> SUFFICES ASSUME Init PROVE MoneyOK
    OBVIOUS
  <2>1. \A o : Captured(o) = 0
    BY EmptySeq, MoneyIsNat DEF Init
  <2> QED BY <2>1 DEF Init, MoneyOK, MoneyOf
<1>2. Types /\ MoneyOK /\ [Next]_vars => MoneyOK'
  <2> SUFFICES ASSUME Types, MoneyOK, [Next]_vars PROVE MoneyOK'
    OBVIOUS
  <2>1. ASSUME UNCHANGED <<orders, cancellations, payments>> PROVE MoneyOK'
    <3>1. \A o : Captured(o)' = Captured(o)
      BY <2>1, MoneyUnchanged
    <3> QED BY <2>1, <3>1 DEF MoneyOK
  <2>2. CASE Quiet
    BY <2>1, <2>2 DEF Quiet, orderTables, cashTables
  <2>3. ASSUME NEW command \in Heard, Moves(command) PROVE MoneyOK'
    <3>1. CASE \/ SessionOpened(command) \/ SessionClosed(command)
               \/ TripMoved(command) \/ TripPrepaid(command)
      BY <2>1, <3>1 DEF SessionOpened, SessionClosed, TripMoved, TripPrepaid,
                        orderTables, cashTables
    <3> QED BY <2>3, <3>1, OrderMoney, PaymentMoney DEF Moves
  <2> QED BY <2>2, <2>3, StepsMove
<1> QED BY <1>1, <1>2, RowsKeepTheirShape, PTL DEF Spec

\* An order's status says what was captured for it: neither a payment nor a
\* new, cancelled or unpaid line makes the two disagree.
THEOREM MoneyIsAccountedFor == Spec => []MoneyMatchesStatus
<1>1. Types /\ MoneyOK => MoneyMatchesStatus
  BY MoneyOKSays
<1> QED BY <1>1, MoneyStaysOK, PTL

\* A cancelled order owes back exactly what was captured for it, whichever of
\* a payment and a cancellation comes first.
THEOREM RefundsAreOwed == Spec => []RefundOwed
<1>1. Types /\ MoneyOK => RefundOwed
  BY MoneyOKSays
<1> QED BY <1>1, MoneyStaysOK, PTL

-----------------------------------------------------------------------------
(***************************************************************************)
(* The money of the register.                                              *)
(***************************************************************************)

\* A session's row agrees with its movements; before it is opened there are
\* none.  One session is open at a time.
DrawerOf(row, movements) ==
  /\ row = Null => movements = Float
  /\ row # Null => /\ row.drawer = movements
                   /\ row.status = "closed" => row.expected = movements

OpenSessions == {s \in Sessions : sessions[s] # Null
                                    /\ sessions[s].status = "open"}

DrawerOK ==
  /\ \A s \in Sessions : DrawerOf(sessions[s], Movements(s))
  /\ \A s, t \in OpenSessions : s = t

\* Opening a session starts its drawer with the float, closing it keeps what
\* its movements say.
LEMMA SessionDrawer ==
  ASSUME Types, DrawerOK, NEW command \in Heard,
         SessionOpened(command) \/ SessionClosed(command)
  PROVE  DrawerOK'
<1> DEFINE s == command.session
<1>1. /\ s \in Sessions
      /\ \A x \in Sessions : x # s => sessions'[x] = sessions[x]
      /\ sessions'[s] \in SessionRows
      /\ SessionOpened(command) =>
           /\ sessions[s] = Null
           /\ sessions'[s].status = "open" /\ sessions'[s].drawer = Float
      /\ SessionClosed(command) =>
           /\ sessions[s] \in SessionRows /\ sessions[s].status = "open"
           /\ sessions'[s].status = "closed"
           /\ sessions'[s].drawer = sessions[s].drawer
           /\ sessions'[s].expected = Movements(s)
  BY SessionAfter
<1>2. \A x : Movements(x)' = Movements(x)
  <2>1. payments' = payments
    BY DEF SessionOpened, SessionClosed
  <2> QED BY <2>1, MoneyUnchanged
<1>3. \A x \in Sessions : DrawerOf(sessions[x], Movements(x))
  BY DEF DrawerOK
<1> DEFINE held == Movements(s)
<1>4. DrawerOf(sessions'[s], held)
  <2>1. sessions'[s] # Null /\ (sessions[s] \in SessionRows => sessions[s] # Null)
    BY <1>1, RowAssumption
  <2>2. DrawerOf(sessions[s], held)
    BY <1>1, <1>3
  <2> HIDE DEF held
  <2>3. CASE SessionOpened(command)
    BY <1>1, <2>1, <2>2, <2>3 DEF DrawerOf
  <2>4. CASE SessionClosed(command)
    BY <1>1, <2>1, <2>2, <2>4 DEF DrawerOf, held
  <2> QED BY <2>3, <2>4
<1>5. \A x \in Sessions : DrawerOf(sessions'[x], Movements(x))
  BY <1>1, <1>3, <1>4
<1>6. \A x, y \in OpenSessions' : x = y
  <2>1. \A x \in Sessions : x # s =>
          (x \in OpenSessions' <=> x \in OpenSessions)
    BY <1>1 DEF OpenSessions
  <2>2. SessionClosed(command) => s \notin OpenSessions'
    BY <1>1 DEF OpenSessions
  <2>3. SessionOpened(command) => OpenSessions = {}
    BY DEF SessionOpened, MayOpen, OpenSessions
  <2>4. \A x \in OpenSessions' : x \in Sessions
    BY DEF OpenSessions
  <2> QED BY <2>1, <2>2, <2>3, <2>4 DEF DrawerOK
<1> QED BY <1>2, <1>5, <1>6 DEF DrawerOK

\* A payment puts into its session's drawer what its movements add up to.
LEMMA PaymentDrawer ==
  ASSUME Types, DrawerOK, NEW command \in Heard,
         command.kind \in {"collect", "settle"},
         NEW due, PaymentTaken(command, due)
  PROVE  DrawerOK'
<1> DEFINE s == command.session
           p == PaymentRow(command, due)
<1>1. /\ s \in Sessions /\ p \in Payments
      /\ payments' = Append(payments, p)
      /\ p.session = s /\ p.amount = due /\ p.tip = Tip(command)
      /\ p.method = Method(command)
      /\ \A x \in Sessions : x # s => sessions'[x] = sessions[x]
      /\ sessions[s] \in SessionRows /\ sessions[s].status = "open"
      /\ sessions'[s] \in SessionRows /\ sessions'[s].status = "open"
      /\ sessions'[s].drawer = sessions[s].drawer + IntoDrawer(command, due)
  BY PaymentRows
<1>2. \A x : Movements(x)' = Movements(x)
                 + (IF p.session = x /\ p.method = "cash"
                    THEN p.amount + p.tip ELSE 0)
  <2>1. payments \in Seq(Payments)
    BY DEF Types, RowsOK
  <2> HIDE DEF p
  <2> QED BY <1>1, <2>1, MoneyAdds
<1>3. \A x : Movements(x) \in Nat
  BY MoneyIsNat DEF Types, RowsOK
<1>4. \A x \in Sessions : DrawerOf(sessions[x], Movements(x))
  BY DEF DrawerOK
<1>5. sessions[s] # Null /\ sessions'[s] # Null
  BY <1>1, RowAssumption
<1> HIDE DEF p
<1>6. ASSUME NEW x \in Sessions, x # s
      PROVE  DrawerOf(sessions'[x], Movements(x)')
  <2>1. Movements(x)' = Movements(x)
    BY <1>1, <1>2, <1>3, <1>6
  <2> QED BY <1>1, <1>4, <1>6, <2>1
<1>7. DrawerOf(sessions'[s], Movements(s)')
  <2>1. Movements(s)' = Movements(s) + IntoDrawer(command, due)
    BY <1>1, <1>2, <1>3 DEF IntoDrawer
  <2>2. sessions[s].drawer = Movements(s)
    BY <1>1, <1>4, <1>5 DEF DrawerOf
  <2> QED BY <1>1, <1>5, <2>1, <2>2 DEF DrawerOf
<1>8. OpenSessions' = OpenSessions
  BY <1>1, <1>5 DEF OpenSessions
<1> QED BY <1>6, <1>7, <1>8 DEF DrawerOK

\* The drawer a session expects is its float and its recorded cash movements,
\* a closed session keeps what it was counted against, and the register's
\* money is in one session at a time.
THEOREM DrawersReconcile == Spec => []DrawerReconciles
<1>1. Init => DrawerOK
  <2> SUFFICES ASSUME Init PROVE DrawerOK
    OBVIOUS
  <2>1. \A s : Movements(s) = Float
    BY EmptySeq, MoneyIsNat DEF Init
  <2> QED BY <2>1 DEF Init, DrawerOK, DrawerOf, OpenSessions
<1>2. Types /\ DrawerOK /\ [Next]_vars => DrawerOK'
  <2> SUFFICES ASSUME Types, DrawerOK, [Next]_vars PROVE DrawerOK'
    OBVIOUS
  <2>1. ASSUME UNCHANGED <<sessions, payments>> PROVE DrawerOK'
    <3>1. \A s : Movements(s)' = Movements(s)
      BY <2>1, MoneyUnchanged
    <3> QED BY <2>1, <3>1 DEF DrawerOK, OpenSessions
  <2>2. CASE Quiet
    BY <2>1, <2>2 DEF Quiet, cashTables
  <2>3. ASSUME NEW command \in Heard, Moves(command) PROVE DrawerOK'
    <3>1. CASE (\E row : OrderWritten(command, row))
                 \/ TripMoved(command) \/ TripPrepaid(command)
      BY <2>1, <3>1 DEF OrderWritten, TripMoved, TripPrepaid, cashTables
    <3> QED BY <2>3, <3>1, SessionDrawer, PaymentDrawer DEF Moves
  <2> QED BY <2>2, <2>3, StepsMove
<1>3. DrawerOK => DrawerReconciles
  BY DEF DrawerOK, DrawerOf, DrawerReconciles, OpenSessions
<1> QED BY <1>1, <1>2, <1>3, RowsKeepTheirShape, PTL DEF Spec

\* The numbers of a payment follow the last of its device.
LEMMA PaymentNumbers ==
  ASSUME NEW command, NEW due, NEW n \in Nat,
         PaymentRow(command, due).tip \in Nat,
         PaymentRow(command, due).number = n + 1
  PROVE  MovementNumbers(PaymentRow(command, due))
           = (n + 1) .. (n + Numbers(command))
<1> DEFINE p == PaymentRow(command, due)
<1>1. p.method = Method(command) /\ p.tip = Tip(command)
  BY DEF PaymentRow
<1> HIDE DEF p
<1>2. CASE Numbers(command) = 2
  <2>1. MovementNumbers(p) = {n + 1, n + 1 + 1}
    BY <1>1, <1>2 DEF MovementNumbers, Numbers, p
  <2> QED BY <1>2, <2>1 DEF p
<1>3. CASE Numbers(command) = 1
  <2>1. MovementNumbers(p) = {n + 1}
    BY <1>1, <1>3 DEF MovementNumbers, Numbers, p
  <2> QED BY <1>3, <2>1 DEF p
<1> QED BY <1>2, <1>3 DEF Numbers

\* A device's financial sequence has neither gaps nor repetitions.
THEOREM SequencesHaveNoGaps == Spec => []NumbersInSequence
<1> DEFINE mine(d) == {i \in DOMAIN payments : payments[i].device = d}
           numbers(i) == MovementNumbers(payments[i])
<1>1. Init => NumbersInSequence
  <2>1. DOMAIN <<>> = {}
    BY EmptySeq
  <2> QED BY <2>1 DEF Init, NumbersInSequence
<1>2. ASSUME Types, NumbersInSequence, NEW command \in Heard,
             command.kind \in {"collect", "settle"},
             NEW due, PaymentTaken(command, due)
      PROVE  NumbersInSequence'
  <2> DEFINE e == command.device
             p == PaymentRow(command, due)
             last == sequences[e]
             more == Numbers(command)
  <2>1. /\ e \in Devices /\ p \in Payments
        /\ payments' = Append(payments, p)
        /\ p.device = e /\ p.number = last + 1
        /\ more \in {1, 2} /\ last \in Nat
        /\ sequences' = [sequences EXCEPT ![e] = @ + more]
    BY <1>2, PaymentRows
  <2>2. payments \in Seq(Payments) /\ sequences \in [Devices -> Nat]
    BY <1>2 DEF Types, RowsOK
  <2>3. MovementNumbers(p) = (last + 1) .. (last + more)
    <3>1. p.tip \in Nat
      BY <2>1 DEF Payments
    <3> HIDE DEF last
    <3> QED BY <2>1, <3>1, PaymentNumbers
  <2> HIDE DEF p
  <2> PICK n : n = Len(payments)
    OBVIOUS
  <2>4. /\ n \in Nat /\ DOMAIN payments = 1 .. n
        /\ DOMAIN payments' = 1 .. (n + 1)
        /\ payments'[n + 1] = p
        /\ \A i \in 1 .. n : payments'[i] = payments[i]
    <3>1. n \in Nat /\ DOMAIN payments = 1 .. n
      BY <2>2, LenProperties
    <3>2. /\ Len(payments') = n + 1 /\ payments'[n + 1] = p
          /\ \A i \in 1 .. n : payments'[i] = payments[i]
          /\ payments' \in Seq(Payments)
      BY <2>1, <2>2, AppendProperties
    <3> QED BY <3>1, <3>2, LenProperties
  <2> HIDE DEF last, more
  <2>5. \A d \in Devices :
          mine(d)' = mine(d) \union (IF d = e THEN {n + 1} ELSE {})
    BY <2>1, <2>4
  <2>6. /\ \A i \in 1 .. n : numbers(i)' = numbers(i)
        /\ numbers(n + 1)' = (last + 1) .. (last + more)
    <3>1. n + 1 \in DOMAIN payments' /\ payments'[n + 1] = p
      BY <2>4
    <3>2. \A i \in 1 .. n : numbers(i)' = numbers(i)
      BY <2>4
    <3> QED BY <2>3, <3>1, <3>2
  <2>7. \A d \in Devices : mine(d) \subseteq 1 .. n
    BY <2>4
  <2>8. \A d \in Devices :
          /\ UNION {numbers(i) : i \in mine(d)} = 1 .. sequences[d]
          /\ \A i, j \in mine(d) :
               i # j => numbers(i) \intersect numbers(j) = {}
    BY <1>2 DEF NumbersInSequence
  <2>9. ASSUME NEW d \in Devices, d # e
        PROVE  /\ UNION {numbers(i)' : i \in mine(d)'} = 1 .. sequences'[d]
               /\ \A i, j \in mine(d)' :
                    i # j => numbers(i)' \intersect numbers(j)' = {}
    <3>1. mine(d)' = mine(d)
      BY <2>5, <2>9
    <3>2. sequences'[d] = sequences[d]
      BY <2>1, <2>2, <2>9
    <3>3. \A i \in mine(d) : numbers(i)' = numbers(i)
      BY <2>6, <2>7
    <3> HIDE DEF mine, numbers
    <3> QED BY <2>8, <3>1, <3>2, <3>3
  <2>10. /\ UNION {numbers(i)' : i \in mine(e)'} = 1 .. sequences'[e]
         /\ \A i, j \in mine(e)' :
              i # j => numbers(i)' \intersect numbers(j)' = {}
    <3>1. mine(e)' = mine(e) \union {n + 1} /\ n + 1 \notin mine(e)
      BY <2>1, <2>4, <2>5, <2>7
    <3>2. sequences'[e] = last + more
      BY <2>1, <2>2 DEF last
    <3>3. \A i \in mine(e) : numbers(i)' = numbers(i)
      BY <2>1, <2>6, <2>7
    <3>4. /\ UNION {numbers(i) : i \in mine(e)} = 1 .. last
          /\ \A i, j \in mine(e) :
               i # j => numbers(i) \intersect numbers(j) = {}
      BY <2>1, <2>8 DEF last
    <3> HIDE DEF mine, numbers
    <3>5. \A i \in mine(e) : numbers(i) \subseteq 1 .. last
      BY <3>4
    <3>6. /\ 1 .. (last + more) = (1 .. last) \union ((last + 1) .. (last + more))
          /\ (1 .. last) \intersect ((last + 1) .. (last + more)) = {}
      BY <2>1
    <3> DEFINE fresh == (last + 1) .. (last + more)
               before == 1 .. last
    <3>7. numbers(n + 1)' = fresh
      BY <2>6
    <3> HIDE DEF fresh, before
    <3>8. UNION {numbers(i)' : i \in mine(e)'} = before \union fresh
      <4>1. UNION {numbers(i)' : i \in mine(e)'}
              = (UNION {numbers(i)' : i \in mine(e)}) \union numbers(n + 1)'
        BY <3>1
      <4>2. {numbers(i)' : i \in mine(e)} = {numbers(i) : i \in mine(e)}
        BY <3>3
      <4> QED BY <3>4, <3>7, <4>1, <4>2 DEF before
    <3>9. \A i, j \in mine(e)' :
            i # j => numbers(i)' \intersect numbers(j)' = {}
      <4>1. \A i \in mine(e) : numbers(i) \intersect fresh = {}
        BY <3>5, <3>6 DEF fresh
      <4>2. \A i \in mine(e)' : i \in mine(e) \/ i = n + 1
        BY <3>1
      <4> QED BY <3>3, <3>4, <3>7, <4>1, <4>2
    <3> QED BY <3>2, <3>6, <3>8, <3>9 DEF before, fresh
  <2> QED BY <2>9, <2>10 DEF NumbersInSequence
<1>3. Types /\ NumbersInSequence /\ [Next]_vars => NumbersInSequence'
  <2> SUFFICES ASSUME Types, NumbersInSequence, [Next]_vars
               PROVE  NumbersInSequence'
    OBVIOUS
  <2>1. ASSUME UNCHANGED <<payments, sequences>> PROVE NumbersInSequence'
    BY <2>1 DEF NumbersInSequence
  <2>2. CASE Quiet
    BY <2>1, <2>2 DEF Quiet, cashTables
  <2>3. ASSUME NEW command \in Heard, Moves(command) PROVE NumbersInSequence'
    <3>1. CASE \/ \E row : OrderWritten(command, row)
               \/ SessionOpened(command) \/ SessionClosed(command)
               \/ TripMoved(command) \/ TripPrepaid(command)
      BY <2>1, <3>1 DEF OrderWritten, SessionOpened, SessionClosed, TripMoved,
                        TripPrepaid, cashTables
    <3> QED BY <1>2, <2>3, <3>1 DEF Moves
  <2> QED BY <2>2, <2>3, StepsMove
<1> QED BY <1>1, <1>3, RowsKeepTheirShape, PTL DEF Spec

-----------------------------------------------------------------------------
(***************************************************************************)
(* The journal only grows, and its entries explain what was done.          *)
(***************************************************************************)

\* The journal after a move: every entry it had, and the command's.
Filed(command, table, result) ==
  Adds(journal, journal', <<table, command.key>>, command, result)
    /\ <<table, command.key>> \notin DOMAIN journal

\* What a payment files: the money in the finance journal, and, when it
\* settles a trip, the settlement in a journal of its own.
PaymentFiled(command, due) ==
  LET outcome == Outcome(command, due)
      x == <<"finance", command.key>>
  IN /\ x \notin DOMAIN journal
     /\ \/ Filed(command, "finance", outcome)
        \/ \E table \in {"derived", "delivery"} :
             LET y == <<table, command.key>>
             IN /\ y \notin DOMAIN journal
                /\ DOMAIN journal' = DOMAIN journal \union {x, y}
                /\ \A z \in DOMAIN journal : journal'[z] = journal[z]
                /\ journal'[x].command = command
                /\ journal'[x].result = outcome
                /\ journal'[y].command = command
                /\ journal'[y].result = Result(Null, Null, due)

\* A payment never overwrites an entry: its key was not charged before.
LEMMA PaymentIsFiled ==
  ASSUME Types, NEW command \in Heard, command.kind \in {"collect", "settle"},
         NEW due, PaymentTaken(command, due)
  PROVE  PaymentFiled(command, due)
<1> DEFINE x == <<"finance", command.key>>
           outcome == Outcome(command, due)
           settled == Result(Null, Null, due)
           paid == Logged(journal, "finance", command, outcome)
<1>1. /\ \A z \in DOMAIN journal : EntryOK(journal, z)
      /\ \A z \in DOMAIN journal : journal[z].command.key = command.key
                                     => journal[z].command.kind = command.kind
  <2>1. \A z \in DOMAIN journal : journal[z].command \in Heard
    BY DEF Heard, Known
  <2> QED BY <2>1 DEF Types, HeardOK, JournalOK, LogOK
<1>2. /\ ~Journaled(command)
      /\ \/ /\ command.kind = "collect"
            /\ \/ journal' = paid
               \/ journal' = Logged(paid, "derived", command, settled)
         \/ /\ command.kind = "settle"
            /\ journal' = Logged(paid, "delivery", command, settled)
  BY DEF PaymentTaken
<1>3. /\ command.kind = "collect" => Table(command) = "finance"
      /\ command.kind = "settle" => Table(command) = "delivery"
  BY DEF Table
<1>4. ASSUME x \in DOMAIN journal PROVE FALSE
  <2>1. CASE command.kind = "collect"
    BY <1>2, <1>3, <1>4, <2>1 DEF Journaled
  <2>2. CASE command.kind = "settle"
    <3> DEFINE entry == journal[x]
    <3>1. entry.command.kind = "settle"
      BY <1>1, <1>4, <2>2 DEF EntryOK
    <3>2. Table(entry.command) = "delivery"
      BY <3>1 DEF Table
    <3>3. <<"delivery", command.key>> \in DOMAIN journal
      BY <1>1, <1>4, <3>1, <3>2 DEF EntryOK
    <3> QED BY <1>2, <1>3, <2>2, <3>3 DEF Journaled
  <2> QED BY <2>1, <2>2
<1>5. ASSUME <<"derived", command.key>> \in DOMAIN journal PROVE FALSE
  <2> DEFINE z == <<"derived", command.key>>
  <2>1. Table(journal[z].command) # "derived"
    BY DEF Table
  <2>2. z \in DOMAIN journal /\ z[1] = "derived" /\ z[2] = command.key
    BY <1>5
  <2> HIDE DEF z
  <2>3. <<"finance", command.key>> \in DOMAIN journal
    BY <1>1, <2>1, <2>2 DEF EntryOK
  <2> QED BY <1>4, <2>3
<1>6. Adds(journal, paid, x, command, outcome)
  BY EntryAdded
<1> HIDE DEF paid, outcome, settled
<1>7. ASSUME NEW table \in {"derived", "delivery"},
             <<table, command.key>> \notin DOMAIN journal,
             journal' = Logged(paid, table, command, settled)
      PROVE  LET y == <<table, command.key>>
             IN /\ y \notin DOMAIN journal
                /\ DOMAIN journal' = DOMAIN journal \union {x, y}
                /\ \A z \in DOMAIN journal : journal'[z] = journal[z]
                /\ journal'[x].command = command
                /\ journal'[x].result = outcome
                /\ journal'[y].command = command
                /\ journal'[y].result = settled
  <2> DEFINE y == <<table, command.key>>
  <2>1. Adds(paid, journal', y, command, settled)
    BY <1>7, EntryAdded
  <2>2. x # y /\ y \notin DOMAIN journal
    BY <1>7
  <2> HIDE DEF x, y
  <2>3. x \notin DOMAIN journal
    BY <1>4
  <2> QED BY <1>6, <2>1, <2>2, <2>3 DEF Adds, y
<1>8. CASE command.kind = "collect"
  <2>1. CASE journal' = paid
    BY <1>4, <1>6, <2>1 DEF PaymentFiled, Filed, outcome
  <2>2. CASE journal' = Logged(paid, "derived", command, settled)
    <3>1. <<"derived", command.key>> \notin DOMAIN journal
      BY <1>5
    <3> QED BY <1>4, <1>7, <2>2, <3>1 DEF PaymentFiled, outcome, settled
  <2> QED BY <1>2, <1>8, <2>1, <2>2
<1>9. CASE command.kind = "settle"
  <2>1. <<"delivery", command.key>> \notin DOMAIN journal
    BY <1>2, <1>3, <1>9 DEF Journaled
  <2> QED BY <1>2, <1>4, <1>7, <1>9, <2>1 DEF PaymentFiled, outcome, settled
<1> QED BY <1>8, <1>9

\* Every other move files its command in its own journal.
LEMMA OthersAreFiled ==
  ASSUME NEW command
  PROVE  /\ \A row : OrderWritten(command, row) =>
              Filed(command, Table(command), Result(row.version, Null, Null))
         /\ SessionOpened(command) =>
              Filed(command, "finance", Result(Null, 1, Null))
         /\ SessionClosed(command) =>
              Filed(command, "finance",
                    Result(Null, sessions[command.session].version + 1, Null))
         /\ TripMoved(command) \/ TripPrepaid(command) =>
              Filed(command, "delivery", Result(Null, Null, Null))
<1>1. ASSUME NEW table, NEW result, table = Table(command),
             ~Journaled(command),
             journal' = Logged(journal, table, command, result)
      PROVE  Filed(command, table, result)
  BY <1>1, EntryAdded DEF Filed, Journaled
<1>2. /\ command.kind \in {"register_open", "close"} => Table(command) = "finance"
      /\ command.kind \in TripKinds \union {"settle"} => Table(command) = "delivery"
  BY DEF Table, TripKinds
<1>3. ASSUME NEW row, OrderWritten(command, row)
      PROVE  Filed(command, Table(command), Result(row.version, Null, Null))
  BY <1>1, <1>3 DEF OrderWritten
<1>4. ASSUME SessionOpened(command)
      PROVE  Filed(command, "finance", Result(Null, 1, Null))
  BY <1>1, <1>2, <1>4 DEF SessionOpened
<1>5. ASSUME SessionClosed(command)
      PROVE  Filed(command, "finance",
                   Result(Null, sessions[command.session].version + 1, Null))
  BY <1>1, <1>2, <1>5 DEF SessionClosed
<1>6. ASSUME TripMoved(command) \/ TripPrepaid(command)
      PROVE  Filed(command, "delivery", Result(Null, Null, Null))
  BY <1>1, <1>2, <1>6 DEF TripMoved, TripPrepaid
<1> QED BY <1>3, <1>4, <1>5, <1>6

\* No step forgets or rewrites an entry of the journal.
LEMMA JournalKeeps ==
  ASSUME Types, NEW command \in Heard, Moves(command)
  PROVE  \A x \in DOMAIN journal : x \in DOMAIN journal'
                                     /\ journal'[x] = journal[x]
<1>1. ASSUME NEW table, NEW result, Filed(command, table, result)
      PROVE  \A x \in DOMAIN journal : x \in DOMAIN journal'
                                         /\ journal'[x] = journal[x]
  BY <1>1 DEF Filed, Adds
<1>2. ASSUME NEW due, command.kind \in {"collect", "settle"},
             PaymentTaken(command, due)
      PROVE  \A x \in DOMAIN journal : x \in DOMAIN journal'
                                         /\ journal'[x] = journal[x]
  <2>1. PaymentFiled(command, due)
    BY <1>2, PaymentIsFiled
  <2>2. CASE \E table, result : Filed(command, table, result)
    BY <1>1, <2>2
  <2>3. CASE ~ \E table, result : Filed(command, table, result)
    BY <2>1, <2>3 DEF PaymentFiled
  <2> QED BY <2>2, <2>3
<1> QED BY <1>1, <1>2, OthersAreFiled DEF Moves

\* No key is charged twice, however often its command is sent, and every
\* charge is the one journaled under its key.
THEOREM EveryKeyIsChargedOnce == Spec => []ChargedOnce
<1>1. Init => ChargedOnce
  <2>1. DOMAIN <<>> = {}
    BY EmptySeq
  <2> QED BY <2>1 DEF Init, ChargedOnce
<1>2. ASSUME Types, ChargedOnce, NEW command \in Heard, Moves(command),
             payments' = payments
      PROVE  ChargedOnce'
  <2>1. \A x \in DOMAIN journal : x \in DOMAIN journal'
                                    /\ journal'[x] = journal[x]
    BY <1>2, JournalKeeps
  <2> QED BY <1>2, <2>1 DEF ChargedOnce
<1>3. ASSUME Types, ChargedOnce, NEW command \in Heard,
             command.kind \in {"collect", "settle"},
             NEW due, PaymentTaken(command, due)
      PROVE  ChargedOnce'
  <2> DEFINE p == PaymentRow(command, due)
             x == <<"finance", command.key>>
  <2>1. /\ payments' = Append(payments, p) /\ p.key = command.key
        /\ p.order = command.order /\ p.amount = due
        /\ payments \in Seq(Payments) /\ p \in Payments
    BY <1>3, PaymentRows DEF Types, RowsOK
  <2>2. PaymentFiled(command, due)
    BY <1>3, PaymentIsFiled
  <2>3. /\ x \notin DOMAIN journal /\ x \in DOMAIN journal'
        /\ journal'[x].command = command
        /\ journal'[x].result = Outcome(command, due)
        /\ \A z \in DOMAIN journal : z \in DOMAIN journal'
                                       /\ journal'[z] = journal[z]
    <3>1. CASE Filed(command, "finance", Outcome(command, due))
      BY <3>1 DEF Filed, Adds
    <3>2. CASE ~Filed(command, "finance", Outcome(command, due))
      BY <2>2, <3>2 DEF PaymentFiled
    <3> QED BY <3>1, <3>2
  <2>4. Outcome(command, due).payment = due
    BY Results DEF Outcome
  <2>5. PICK n : /\ n \in Nat /\ DOMAIN payments = 1 .. n
                 /\ DOMAIN payments' = 1 .. (n + 1)
                 /\ payments'[n + 1] = p
                 /\ \A i \in 1 .. n : payments'[i] = payments[i]
    <3> HIDE DEF p
    <3>1. Len(payments) \in Nat /\ DOMAIN payments = 1 .. Len(payments)
      BY <2>1, LenProperties
    <3>2. /\ Len(payments') = Len(payments) + 1
          /\ payments'[Len(payments) + 1] = p
          /\ \A i \in 1 .. Len(payments) : payments'[i] = payments[i]
          /\ payments' \in Seq(Payments)
      BY <2>1, AppendProperties
    <3> QED BY <3>1, <3>2, LenProperties
  <2> HIDE DEF p
  <2>6. \A i \in 1 .. n : payments[i].key # command.key
    BY <1>3, <2>3, <2>5 DEF ChargedOnce
  <2>7. \A i, j \in DOMAIN payments' :
          payments'[i].key = payments'[j].key => i = j
    <3>1. \A i, j \in 1 .. n : payments[i].key = payments[j].key => i = j
      BY <1>3, <2>5 DEF ChargedOnce
    <3>2. \A i \in DOMAIN payments' : i \in 1 .. n \/ i = n + 1
      BY <2>5
    <3>3. \A i \in 1 .. n : payments'[i].key = payments[i].key
      BY <2>5
    <3>4. payments'[n + 1].key = command.key
      BY <2>1, <2>5
    <3> QED BY <2>6, <3>1, <3>2, <3>3, <3>4
  <2>8. ASSUME NEW i \in DOMAIN payments'
        PROVE  LET entry == <<"finance", payments'[i].key>>
               IN /\ entry \in DOMAIN journal'
                  /\ journal'[entry].command.order = payments'[i].order
                  /\ journal'[entry].result.payment = payments'[i].amount
    <3>1. CASE i = n + 1
      BY <2>1, <2>3, <2>4, <2>5, <3>1
    <3>2. CASE i # n + 1
      <4>1. i \in DOMAIN payments /\ payments'[i] = payments[i]
        BY <2>5, <3>2
      <4> QED BY <1>3, <2>3, <4>1 DEF ChargedOnce
    <3> QED BY <3>1, <3>2
  <2> QED BY <2>7, <2>8 DEF ChargedOnce
<1>4. Types /\ ChargedOnce /\ [Next]_vars => ChargedOnce'
  <2> SUFFICES ASSUME Types, ChargedOnce, [Next]_vars PROVE ChargedOnce'
    OBVIOUS
  <2>1. CASE Quiet
    BY <2>1 DEF Quiet, cashTables, ChargedOnce
  <2>2. ASSUME NEW command \in Heard, Moves(command) PROVE ChargedOnce'
    <3>1. payments' = payments
            \/ \E due : command.kind \in {"collect", "settle"}
                          /\ PaymentTaken(command, due)
      BY <2>2 DEF Moves, OrderWritten, SessionOpened, SessionClosed, TripMoved,
                  TripPrepaid, cashTables
    <3> QED BY <1>2, <1>3, <2>2, <3>1
  <2> QED BY <2>1, <2>2, StepsMove
<1> QED BY <1>1, <1>4, RowsKeepTheirShape, PTL DEF Spec

-----------------------------------------------------------------------------
(***************************************************************************)
(* Every version is explained by one entry.                                *)
(***************************************************************************)

\* Spans of versions, <<from, to, entry>>, that explain the versions 1 to n:
\* each of them lies in exactly one span, and nothing else does.
Explained(spans, n) ==
  /\ \A p \in spans : /\ p[1] \in Nat /\ p[2] \in Nat
                      /\ p[1] < p[2] /\ p[2] <= n
  /\ \A v \in 1 .. n : \E p \in spans : p[1] < v /\ v <= p[2]
  /\ \A p, q \in spans : \A v \in 1 .. n :
       p[1] < v /\ v <= p[2] /\ q[1] < v /\ v <= q[2] => p = q

\* A span from the last version on explains those up to its end.
LEMMA SpanAdded ==
  ASSUME NEW spans, NEW n \in Nat, NEW m \in Nat, Explained(spans, n), n < m,
         NEW x
  PROVE  Explained(spans \union {<<n, m, x>>}, m)
<1> DEFINE new == <<n, m, x>>
           all == spans \union {new}
<1>1. new[1] = n /\ new[2] = m
  OBVIOUS
<1> HIDE DEF new
<1>2. \A p \in all : p \in spans \/ p = new
  OBVIOUS
<1>3. \A p \in spans : /\ p[1] \in Nat /\ p[2] \in Nat
                       /\ p[1] < p[2] /\ p[2] <= n
  BY DEF Explained
<1>4. \A p \in all : /\ p[1] \in Nat /\ p[2] \in Nat
                     /\ p[1] < p[2] /\ p[2] <= m
  BY <1>1, <1>2, <1>3
<1>5. ASSUME NEW v \in 1 .. m PROVE \E p \in all : p[1] < v /\ v <= p[2]
  <2>1. CASE v <= n
    <3>1. v \in 1 .. n
      BY <2>1
    <3> QED BY <3>1 DEF Explained
  <2>2. CASE n < v
    BY <1>1, <2>2
  <2> QED BY <2>1, <2>2
<1>6. ASSUME NEW p \in all, NEW q \in all, NEW v \in 1 .. m,
             p[1] < v, v <= p[2], q[1] < v, v <= q[2]
      PROVE  p = q
  <2>1. CASE v <= n
    <3>1. v \in 1 .. n /\ p # new /\ q # new
      BY <1>1, <1>6, <2>1
    <3> QED BY <1>2, <1>6, <3>1 DEF Explained
  <2>2. CASE n < v
    <3>1. p \notin spans /\ q \notin spans
      BY <1>3, <1>6, <2>2
    <3> QED BY <1>2, <3>1
  <2> QED BY <2>1, <2>2
<1> HIDE DEF all
<1> QED BY <1>4, <1>5, <1>6 DEF Explained, all, new

\* Exactly one span has a version that is explained, none has another.
LEMMA ExplainedOnce ==
  ASSUME NEW spans, NEW n \in Nat, Explained(spans, n), NEW v \in Nat \ {0}
  PROVE  Cardinality({span \in spans : span[1] < v /\ v <= span[2]})
           = (IF v <= n THEN 1 ELSE 0)
<1> DEFINE mine == {span \in spans : span[1] < v /\ v <= span[2]}
<1>1. CASE v <= n
  <2>1. v \in 1 .. n
    BY <1>1
  <2>2. PICK p \in spans : p[1] < v /\ v <= p[2]
    BY <2>1 DEF Explained
  <2>3. mine = {p}
    BY <2>1, <2>2 DEF Explained
  <2> HIDE DEF mine
  <2>4. Cardinality(mine) = 1
    BY <2>3, FS_Singleton
  <2> QED BY <1>1, <2>4 DEF mine
<1>2. CASE ~(v <= n)
  <2>1. mine = {}
    BY <1>2 DEF Explained
  <2> HIDE DEF mine
  <2>2. Cardinality(mine) = 0
    BY <2>1, FS_EmptySet
  <2> QED BY <1>2, <2>2 DEF mine
<1> QED BY <1>1, <1>2

OrderSpans(o) == {<<From(x), journal[x].result.order, x>> : x \in Claims(o)}

SessionSpans(s) ==
  {<<SessionFrom(x), journal[x].result.session, x>> : x \in SessionClaims(s)}

VersionsOK ==
  /\ \A o \in Orders : Explained(OrderSpans(o), OrderVersion(o))
  /\ \A s \in Sessions : Explained(SessionSpans(s), SessionVersion(s))

\* The version a command was written against.
Start(command) == IF command.kind = "create" THEN 0 ELSE command.version

SessionStart(command) ==
  IF command.kind = "register_open" THEN 0 ELSE command.sessionVersion

\* A step that adds entries to the journal.
Grows(fresh) ==
  /\ fresh \intersect DOMAIN journal = {}
  /\ DOMAIN journal' = DOMAIN journal \union fresh
  /\ \A z \in DOMAIN journal : journal'[z] = journal[z]

\* Entries without versions add no span.
LEMMA NoSpans ==
  ASSUME NEW fresh, Grows(fresh)
  PROVE  /\ \A o : (\A x \in fresh : \/ journal'[x].result.order = Null
                                     \/ journal'[x].command.order # o)
                     => OrderSpans(o)' = OrderSpans(o)
         /\ \A s : (\A x \in fresh : \/ journal'[x].result.session = Null
                                     \/ journal'[x].command.session # s)
                     => SessionSpans(s)' = SessionSpans(s)
<1>1. ASSUME NEW o, \A x \in fresh : \/ journal'[x].result.order = Null
                                     \/ journal'[x].command.order # o
      PROVE  OrderSpans(o)' = OrderSpans(o)
  <2>1. Claims(o)' = Claims(o)
    BY <1>1 DEF Claims, Grows
  <2>2. \A x \in Claims(o) : /\ From(x)' = From(x)
                             /\ journal'[x].result = journal[x].result
    BY DEF Claims, From, Grows
  <2> QED BY <2>1, <2>2 DEF OrderSpans
<1>2. ASSUME NEW s, \A x \in fresh : \/ journal'[x].result.session = Null
                                     \/ journal'[x].command.session # s
      PROVE  SessionSpans(s)' = SessionSpans(s)
  <2>1. SessionClaims(s)' = SessionClaims(s)
    BY <1>2 DEF SessionClaims, Grows
  <2>2. \A x \in SessionClaims(s) : /\ SessionFrom(x)' = SessionFrom(x)
                                    /\ journal'[x].result = journal[x].result
    BY DEF SessionClaims, SessionFrom, Grows
  <2> QED BY <2>1, <2>2 DEF SessionSpans
<1> QED BY <1>1, <1>2

\* An entry with a version adds the span from what its command was written
\* against to it.
LEMMA NewSpans ==
  ASSUME NEW fresh, Grows(fresh), NEW x \in fresh, NEW command, journal'[x].command = command
  PROVE  /\ (/\ journal'[x].result.order # Null
             /\ \A y \in fresh : y # x => journal'[y].result.order = Null)
              => OrderSpans(command.order)'
                   = OrderSpans(command.order)
                       \union {<<Start(command), journal'[x].result.order, x>>}
         /\ (/\ journal'[x].result.session # Null
             /\ \A y \in fresh : y # x => journal'[y].result.session = Null)
              => SessionSpans(command.session)'
                   = SessionSpans(command.session)
                       \union {<<SessionStart(command),
                                 journal'[x].result.session, x>>}
<1>1. ASSUME journal'[x].result.order # Null,
             \A y \in fresh : y # x => journal'[y].result.order = Null
      PROVE  OrderSpans(command.order)'
               = OrderSpans(command.order)
                   \union {<<Start(command), journal'[x].result.order, x>>}
  <2> DEFINE o == command.order
             span(y) == <<From(y), journal[y].result.order, y>>
  <2>1. {y \in DOMAIN journal' : /\ journal'[y].result.order # Null
                                 /\ journal'[y].command.order = o}
          = Claims(o) \union {x}
    BY <1>1 DEF Claims, Grows
  <2>2. \A y \in Claims(o) : span(y)' = span(y)
    BY DEF Claims, From, Grows
  <2>3. span(x)' = <<Start(command), journal'[x].result.order, x>>
    BY DEF From, Start, Grows
  <2>4. OrderSpans(o)' = {span(y)' : y \in Claims(o) \union {x}}
    BY <2>1 DEF OrderSpans, Claims
  <2>5. OrderSpans(o) = {span(y) : y \in Claims(o)}
    BY DEF OrderSpans
  <2> HIDE DEF span
  <2> QED BY <2>2, <2>3, <2>4, <2>5
<1>2. ASSUME journal'[x].result.session # Null,
             \A y \in fresh : y # x => journal'[y].result.session = Null
      PROVE  SessionSpans(command.session)'
               = SessionSpans(command.session)
                   \union {<<SessionStart(command),
                             journal'[x].result.session, x>>}
  <2> DEFINE s == command.session
             span(y) == <<SessionFrom(y), journal[y].result.session, y>>
  <2>1. {y \in DOMAIN journal' : /\ journal'[y].result.session # Null
                                 /\ journal'[y].command.session = s}
          = SessionClaims(s) \union {x}
    BY <1>2 DEF SessionClaims, Grows
  <2>2. \A y \in SessionClaims(s) : span(y)' = span(y)
    BY DEF SessionClaims, SessionFrom, Grows
  <2>3. span(x)' = <<SessionStart(command), journal'[x].result.session, x>>
    BY DEF SessionFrom, SessionStart
  <2>4. SessionSpans(s)' = {span(y)' : y \in SessionClaims(s) \union {x}}
    BY <2>1 DEF SessionSpans, SessionClaims
  <2>5. SessionSpans(s) = {span(y) : y \in SessionClaims(s)}
    BY DEF SessionSpans
  <2> HIDE DEF span
  <2> QED BY <2>2, <2>3, <2>4, <2>5
<1> QED BY <1>1, <1>2

\* The entry a move files, and what it grows the journal by.
LEMMA FiledGrows ==
  ASSUME NEW command, NEW table, NEW result, Filed(command, table, result)
  PROVE  LET x == <<table, command.key>>
         IN /\ Grows({x})
            /\ journal'[x].command = command /\ journal'[x].result = result
BY DEF Filed, Adds, Grows

\* Versions are numbers, before and after a move.
LEMMA VersionNumbers ==
  ASSUME Types
  PROVE  /\ \A o \in Orders : OrderVersion(o) \in Nat
         /\ \A s \in Sessions : SessionVersion(s) \in Nat
BY VersionsAreNat

\* The version an order's command makes is explained by its entry.
LEMMA OrderVersions ==
  ASSUME Types, VersionsOK, NEW command \in Heard, NEW row,
         OrderWritten(command, row)
  PROVE  VersionsOK'
<1> DEFINE p == command.order
           x == <<Table(command), command.key>>
           result == Result(row.version, Null, Null)
<1>1. /\ p \in Orders /\ row \in OrderRows /\ orders'[p] = row
      /\ \A o \in Orders : o # p => orders'[o] = orders[o]
  BY OrderRowsAfter
<1>2. /\ Start(command) = OrderVersion(p) /\ OrderVersion(p) < row.version
      /\ sessions' = sessions
  BY DEF OrderWritten, Start, cashTables
<1>3. Filed(command, Table(command), result)
  BY OthersAreFiled
<1>4. /\ result.order = row.version /\ result.session = Null
  BY Results
<1> DEFINE fresh == {x}
<1>5. /\ Grows(fresh) /\ x \in fresh /\ \A y \in fresh : y = x
      /\ journal'[x].command = command /\ journal'[x].result = result
  BY <1>3, FiledGrows
<1> HIDE DEF x, result, fresh
<1>6. /\ row.version \in Nat /\ OrderVersion(p) \in Nat /\ row # Null
      /\ row.version # Null
  BY <1>1, VersionNumbers, RowsAndAggregates, StoreAssumption
<1>7. ASSUME NEW o \in Orders
      PROVE  Explained(OrderSpans(o)', OrderVersion(o)')
  <2>1. Explained(OrderSpans(o), OrderVersion(o))
    BY DEF VersionsOK
  <2>2. CASE o = p
    <3>1. OrderSpans(o)' = OrderSpans(o)
                             \union {<<OrderVersion(o), row.version, x>>}
      <4>1. /\ journal'[x].result.order = row.version
            /\ journal'[x].result.order # Null
            /\ \A y \in fresh : y # x => journal'[y].result.order = Null
        BY <1>4, <1>5, <1>6
      <4> QED BY <1>2, <1>5, <2>2, <4>1, NewSpans
    <3>2. OrderVersion(o)' = row.version
      BY <1>1, <1>6, <2>2 DEF OrderVersion
    <3> QED BY <1>2, <1>6, <2>1, <2>2, <3>1, <3>2, SpanAdded
  <2>3. CASE o # p
    <3>1. OrderSpans(o)' = OrderSpans(o)
      <4>1. \A y \in fresh : journal'[y].command.order # o
        BY <1>5, <2>3
      <4> QED BY <1>5, <4>1, NoSpans
    <3>2. OrderVersion(o)' = OrderVersion(o)
      BY <1>1, <2>3 DEF OrderVersion
    <3> QED BY <2>1, <3>1, <3>2
  <2> QED BY <2>2, <2>3
<1>8. ASSUME NEW s \in Sessions
      PROVE  Explained(SessionSpans(s)', SessionVersion(s)')
  <2>1. SessionSpans(s)' = SessionSpans(s)
    <3>1. \A y \in fresh : journal'[y].result.session = Null
      BY <1>4, <1>5
    <3> QED BY <1>5, <3>1, NoSpans
  <2>2. SessionVersion(s)' = SessionVersion(s)
    BY <1>2 DEF SessionVersion
  <2> QED BY <2>1, <2>2 DEF VersionsOK
<1> QED BY <1>7, <1>8 DEF VersionsOK

\* So is the version a session is opened or closed with.
LEMMA SessionVersions ==
  ASSUME Types, VersionsOK, NEW command \in Heard,
         SessionOpened(command) \/ SessionClosed(command)
  PROVE  VersionsOK'
<1> DEFINE p == command.session
           x == <<"finance", command.key>>
           version == sessions'[p].version
           result == Result(Null, version, Null)
<1>1. /\ p \in Sessions /\ sessions'[p] \in SessionRows
      /\ \A s \in Sessions : s # p => sessions'[s] = sessions[s]
      /\ SessionOpened(command) => sessions[p] = Null /\ version = 1
      /\ SessionClosed(command) =>
           /\ sessions[p] \in SessionRows
           /\ version = sessions[p].version + 1
  BY SessionAfter
<1>2. sessions'[p] # Null /\ (sessions[p] \in SessionRows => sessions[p] # Null)
  BY <1>1, RowAssumption
<1>3. /\ SessionStart(command) = SessionVersion(p)
      /\ version = SessionVersion(p) + 1
  <2>1. CASE SessionOpened(command)
    BY <1>1, <2>1 DEF SessionOpened, SessionStart, SessionVersion
  <2>2. CASE SessionClosed(command)
    BY <1>1, <1>2, <2>2 DEF SessionClosed, SessionStart, SessionVersion
  <2> QED BY <2>1, <2>2
<1>4. Filed(command, "finance", result)
  BY <1>1, OthersAreFiled
<1>5. result.order = Null /\ result.session = version
  BY Results
<1>6. orders' = orders
  BY DEF SessionOpened, SessionClosed, orderTables
<1> PICK v : v = version
  OBVIOUS
<1> DEFINE fresh == {x}
<1>7. /\ Grows(fresh) /\ x \in fresh /\ \A y \in fresh : y = x
      /\ journal'[x].command = command /\ journal'[x].result = result
  BY <1>4, FiledGrows
<1> HIDE DEF x, result, version, fresh
<1>8. /\ v \in Nat /\ SessionVersion(p) \in Nat /\ v # Null
      /\ SessionVersion(p) < v
  <2>1. SessionVersion(p) \in Nat
    BY <1>1, VersionNumbers
  <2> QED BY <1>3, <2>1, StoreAssumption
<1>9. ASSUME NEW o \in Orders
      PROVE  Explained(OrderSpans(o)', OrderVersion(o)')
  <2>1. OrderSpans(o)' = OrderSpans(o)
    <3>1. \A y \in fresh : journal'[y].result.order = Null
      BY <1>5, <1>7
    <3> QED BY <1>7, <3>1, NoSpans
  <2>2. OrderVersion(o)' = OrderVersion(o)
    BY <1>6 DEF OrderVersion
  <2> QED BY <2>1, <2>2 DEF VersionsOK
<1>10. ASSUME NEW s \in Sessions
       PROVE  Explained(SessionSpans(s)', SessionVersion(s)')
  <2>1. Explained(SessionSpans(s), SessionVersion(s))
    BY DEF VersionsOK
  <2>2. CASE s = p
    <3>1. SessionSpans(s)' = SessionSpans(s)
                               \union {<<SessionVersion(s), v, x>>}
      <4>1. /\ journal'[x].result.session = v
            /\ journal'[x].result.session # Null
            /\ \A y \in fresh : y # x => journal'[y].result.session = Null
        BY <1>5, <1>7, <1>8
      <4> QED BY <1>3, <1>7, <2>2, <4>1, NewSpans
    <3>2. SessionVersion(s)' = v
      BY <1>2, <2>2 DEF SessionVersion, version
    <3> DEFINE spans == SessionSpans(s)
               n == SessionVersion(s)
    <3>3. Explained(spans, n) /\ n \in Nat /\ n < v
      BY <1>8, <2>1, <2>2
    <3> HIDE DEF spans, n
    <3>4. Explained(spans \union {<<n, v, x>>}, v)
      BY <1>8, <3>3, SpanAdded
    <3> QED BY <3>1, <3>2, <3>4 DEF spans, n
  <2>3. CASE s # p
    <3>1. SessionSpans(s)' = SessionSpans(s)
      <4>1. \A y \in fresh : journal'[y].command.session # s
        BY <1>7, <2>3
      <4> QED BY <1>7, <4>1, NoSpans
    <3>2. SessionVersion(s)' = SessionVersion(s)
      BY <1>1, <2>3 DEF SessionVersion
    <3> QED BY <2>1, <3>1, <3>2
  <2> QED BY <2>2, <2>3
<1> QED BY <1>9, <1>10 DEF VersionsOK

\* A payment's entry explains a version of its order and one of its session;
\* the settlement it may make explains none.
LEMMA PaymentVersions ==
  ASSUME Types, VersionsOK, NEW command \in Heard,
         command.kind \in {"collect", "settle"},
         NEW due, PaymentTaken(command, due)
  PROVE  VersionsOK'
<1> DEFINE p == command.order
           q == command.session
           x == <<"finance", command.key>>
           n == command.version
           m == command.sessionVersion
           outcome == Outcome(command, due)
<1>1. /\ p \in Orders /\ q \in Sessions
      /\ \A o \in Orders : o # p => orders'[o] = orders[o]
      /\ \A s \in Sessions : s # q => sessions'[s] = sessions[s]
      /\ orders[p] \in OrderRows /\ orders'[p] \in OrderRows
      /\ orders'[p].version = orders[p].version + 1
      /\ sessions[q] \in SessionRows /\ sessions'[q] \in SessionRows
      /\ sessions'[q].version = sessions[q].version + 1
  BY PaymentRows
<1>2. orders[p].version = n /\ sessions[q].version = m
  BY DEF PaymentTaken, Awaits
<1>3. /\ orders[p] # Null /\ orders'[p] # Null
      /\ sessions[q] # Null /\ sessions'[q] # Null
  BY <1>1, RowAssumption
<1>4. /\ OrderVersion(p) = n /\ OrderVersion(p)' = n + 1
      /\ SessionVersion(q) = m /\ SessionVersion(q)' = m + 1
  BY <1>1, <1>2, <1>3 DEF OrderVersion, SessionVersion
<1>5. n \in Nat /\ m \in Nat /\ n + 1 # Null /\ m + 1 # Null
  <2>1. n \in Nat /\ m \in Nat
    BY <1>1, <1>4, VersionNumbers
  <2> QED BY <2>1, StoreAssumption
<1>6. Start(command) = n /\ SessionStart(command) = m
  BY DEF Start, SessionStart
<1>7. outcome.order = n + 1 /\ outcome.session = m + 1
  BY Results DEF Outcome
<1>8. PICK fresh :
        /\ Grows(fresh) /\ x \in fresh
        /\ journal'[x].command = command /\ journal'[x].result = outcome
        /\ \A y \in fresh : y # x =>
             journal'[y].result.order = Null /\ journal'[y].result.session = Null
        /\ \A y \in fresh : journal'[y].command = command
  <2>1. PaymentFiled(command, due)
    BY PaymentIsFiled
  <2>2. CASE Filed(command, "finance", outcome)
    <3>1. /\ x \notin DOMAIN journal
          /\ DOMAIN journal' = DOMAIN journal \union {x}
          /\ \A z \in DOMAIN journal : journal'[z] = journal[z]
          /\ journal'[x].command = command /\ journal'[x].result = outcome
      BY <2>2 DEF Filed, Adds
    <3> DEFINE both == {x}
    <3> HIDE DEF x, outcome
    <3> WITNESS both
    <3> QED BY <3>1 DEF Grows
  <2>3. CASE ~Filed(command, "finance", outcome)
    <3> DEFINE settled == Result(Null, Null, due)
    <3>0. settled.order = Null /\ settled.session = Null
      BY Results
    <3> HIDE DEF settled
    <3>1. PICK table \in {"derived", "delivery"} :
             LET y == <<table, command.key>>
             IN /\ y \notin DOMAIN journal
                /\ DOMAIN journal' = DOMAIN journal \union {x, y}
                /\ \A z \in DOMAIN journal : journal'[z] = journal[z]
                /\ journal'[x].command = command
                /\ journal'[x].result = outcome
                /\ journal'[y].command = command
                /\ journal'[y].result = settled
      BY <2>1, <2>3 DEF PaymentFiled, settled
    <3>2. x \notin DOMAIN journal
      BY <2>1 DEF PaymentFiled
    <3> DEFINE y == <<table, command.key>>
               both == {x, y}
    <3>3. /\ both \intersect DOMAIN journal = {} /\ x \in both
          /\ DOMAIN journal' = DOMAIN journal \union both
          /\ \A z \in DOMAIN journal : journal'[z] = journal[z]
          /\ journal'[x].command = command /\ journal'[x].result = outcome
          /\ journal'[y].command = command /\ journal'[y].result = settled
      BY <3>1, <3>2
    <3> HIDE DEF x, y, outcome
    <3> WITNESS both
    <3> QED BY <3>0, <3>3 DEF Grows
  <2> QED BY <2>2, <2>3
<1> DEFINE nn == n + 1
           mm == m + 1
<1> HIDE DEF x, outcome, n, m
<1>9. /\ nn \in Nat /\ n < nn /\ nn # Null
       /\ mm \in Nat /\ m < mm /\ mm # Null
  BY <1>5
<1>10. /\ journal'[x].result.order = nn /\ journal'[x].result.session = mm
       /\ \A y \in fresh : y # x => journal'[y].result.order = Null
       /\ \A y \in fresh : y # x => journal'[y].result.session = Null
  BY <1>7, <1>8
<1>11. OrderVersion(p)' = nn /\ SessionVersion(q)' = mm
  BY <1>4
<1> HIDE DEF nn, mm
<1>12. ASSUME NEW o \in Orders
      PROVE  Explained(OrderSpans(o)', OrderVersion(o)')
  <2>1. Explained(OrderSpans(o), OrderVersion(o))
    BY DEF VersionsOK
  <2>2. CASE o = p
    <3>1. OrderSpans(o)' = OrderSpans(o) \union {<<n, nn, x>>}
      BY <1>6, <1>8, <1>9, <1>10, <2>2, NewSpans
    <3> DEFINE spans == OrderSpans(o)
    <3>2. Explained(spans, n)
      BY <1>4, <2>1, <2>2
    <3> HIDE DEF spans
    <3>3. Explained(spans \union {<<n, nn, x>>}, nn)
      BY <1>5, <1>9, <3>2, SpanAdded
    <3> QED BY <1>11, <2>2, <3>1, <3>3 DEF spans
  <2>3. CASE o # p
    <3>1. OrderSpans(o)' = OrderSpans(o)
      <4>1. \A y \in fresh : journal'[y].command.order # o
        BY <1>8, <2>3
      <4> QED BY <1>8, <4>1, NoSpans
    <3>2. OrderVersion(o)' = OrderVersion(o)
      BY <1>1, <2>3 DEF OrderVersion
    <3> QED BY <2>1, <3>1, <3>2
  <2> QED BY <2>2, <2>3
<1>13. ASSUME NEW s \in Sessions
       PROVE  Explained(SessionSpans(s)', SessionVersion(s)')
  <2>1. Explained(SessionSpans(s), SessionVersion(s))
    BY DEF VersionsOK
  <2>2. CASE s = q
    <3>1. SessionSpans(s)' = SessionSpans(s) \union {<<m, mm, x>>}
      BY <1>6, <1>8, <1>9, <1>10, <2>2, NewSpans
    <3> DEFINE spans == SessionSpans(s)
    <3>2. Explained(spans, m)
      BY <1>4, <2>1, <2>2
    <3> HIDE DEF spans
    <3>3. Explained(spans \union {<<m, mm, x>>}, mm)
      BY <1>5, <1>9, <3>2, SpanAdded
    <3> QED BY <1>11, <2>2, <3>1, <3>3 DEF spans
  <2>3. CASE s # q
    <3>1. SessionSpans(s)' = SessionSpans(s)
      <4>1. \A y \in fresh : journal'[y].command.session # s
        BY <1>8, <2>3
      <4> QED BY <1>8, <4>1, NoSpans
    <3>2. SessionVersion(s)' = SessionVersion(s)
      BY <1>1, <2>3 DEF SessionVersion
    <3> QED BY <2>1, <3>1, <3>2
  <2> QED BY <2>2, <2>3
<1> QED BY <1>12, <1>13 DEF VersionsOK

\* A trip's move explains no version of an order or a session.
LEMMA TripVersions ==
  ASSUME Types, VersionsOK, NEW command \in Heard,
         TripMoved(command) \/ TripPrepaid(command)
  PROVE  VersionsOK'
<1> DEFINE x == <<"delivery", command.key>>
           result == Result(Null, Null, Null)
<1>1. Filed(command, "delivery", result)
  BY OthersAreFiled
<1>2. result.order = Null /\ result.session = Null
  BY Results
<1>3. orders' = orders /\ sessions' = sessions
  BY DEF TripMoved, TripPrepaid, orderTables, cashTables
<1> DEFINE fresh == {x}
<1>4. /\ Grows(fresh) /\ \A y \in fresh : y = x
      /\ journal'[x].result = result
  BY <1>1, FiledGrows
<1> HIDE DEF x, result, fresh
<1>5. /\ \A o : OrderSpans(o)' = OrderSpans(o)
      /\ \A s : SessionSpans(s)' = SessionSpans(s)
  <2>1. \A y \in fresh : journal'[y].result.order = Null
                           /\ journal'[y].result.session = Null
    BY <1>2, <1>4
  <2> QED BY <1>4, <2>1, NoSpans
<1>6. /\ \A o : OrderVersion(o)' = OrderVersion(o)
      /\ \A s : SessionVersion(s)' = SessionVersion(s)
  BY <1>3 DEF OrderVersion, SessionVersion
<1> QED BY <1>5, <1>6 DEF VersionsOK

\* The audit is complete: every version an order or a register session ever
\* had was made by exactly one journaled command, written against the version
\* before.
THEOREM TheAuditIsComplete == Spec => []VersionsExplained
<1>1. Init => VersionsOK
  <2> SUFFICES ASSUME Init PROVE VersionsOK
    OBVIOUS
  <2>1. DOMAIN journal = {}
    BY EmptySeq DEF Init
  <2>2. /\ \A o : OrderSpans(o) = {} /\ \A s : SessionSpans(s) = {}
    BY <2>1 DEF OrderSpans, Claims, SessionSpans, SessionClaims
  <2>3. /\ \A o \in Orders : OrderVersion(o) = 0
        /\ \A s \in Sessions : SessionVersion(s) = 0
    BY DEF Init, OrderVersion, SessionVersion
  <2> QED BY <2>2, <2>3 DEF VersionsOK, Explained
<1>2. Types /\ VersionsOK /\ [Next]_vars => VersionsOK'
  <2> SUFFICES ASSUME Types, VersionsOK, [Next]_vars PROVE VersionsOK'
    OBVIOUS
  <2>1. CASE Quiet
    <3>1. UNCHANGED <<orders, sessions, journal>>
      BY <2>1 DEF Quiet, orderTables, cashTables
    <3>2. /\ \A o : OrderSpans(o)' = OrderSpans(o)
          /\ \A s : SessionSpans(s)' = SessionSpans(s)
      BY <3>1 DEF OrderSpans, Claims, From, SessionSpans, SessionClaims,
                  SessionFrom
    <3>3. /\ \A o : OrderVersion(o)' = OrderVersion(o)
          /\ \A s : SessionVersion(s)' = SessionVersion(s)
      BY <3>1 DEF OrderVersion, SessionVersion
    <3> QED BY <3>2, <3>3 DEF VersionsOK
  <2>2. ASSUME NEW command \in Heard, Moves(command) PROVE VersionsOK'
    BY <2>2, OrderVersions, PaymentVersions, SessionVersions, TripVersions
       DEF Moves
  <2> QED BY <2>1, <2>2, StepsMove
<1>3. Types /\ VersionsOK => VersionsExplained
  <2> SUFFICES ASSUME Types, VersionsOK PROVE VersionsExplained
    OBVIOUS
  <2>1. ASSUME NEW o \in Orders, NEW v \in 1 .. MaxCommands * MaxLines
        PROVE  Cardinality({span \in OrderSpans(o) :
                              span[1] < v /\ v <= span[2]})
                 = (IF v <= OrderVersion(o) THEN 1 ELSE 0)
    <3>1. v \in Nat \ {0} /\ OrderVersion(o) \in Nat
      BY StoreAssumption, VersionNumbers
    <3>2. Explained(OrderSpans(o), OrderVersion(o))
      BY DEF VersionsOK
    <3> QED BY <3>1, <3>2, ExplainedOnce
  <2>2. ASSUME NEW s \in Sessions, NEW v \in 1 .. MaxCommands
        PROVE  Cardinality({span \in SessionSpans(s) :
                              span[1] < v /\ v <= span[2]})
                 = (IF v <= SessionVersion(s) THEN 1 ELSE 0)
    <3>1. v \in Nat \ {0} /\ SessionVersion(s) \in Nat
      BY StoreAssumption, VersionNumbers
    <3>2. Explained(SessionSpans(s), SessionVersion(s))
      BY DEF VersionsOK
    <3> QED BY <3>1, <3>2, ExplainedOnce
  <2> QED BY <2>1, <2>2 DEF VersionsExplained, OrderSpans, SessionSpans
<1> QED BY <1>1, <1>2, <1>3, RowsKeepTheirShape, PTL DEF Spec

-----------------------------------------------------------------------------
(***************************************************************************)
(* Deliveries and orders agree.                                            *)
(***************************************************************************)

\* What a trip asks of its order: on the road only with an order to deliver,
\* settled only when it was paid.
TripState(state, row, cancellation) ==
  /\ row # Null
  /\ state \in {"assigned", "en_route"}
       => row.status \in {"open", "partially_paid", "paid"}
  /\ state = "settled" =>
       \/ row.status = "paid"
       \/ row.status = "cancelled" /\ cancellation.refund = "pending"

\* The trip of one order; none was dispatched before a courier was assigned.
TripOf(o) ==
  /\ deliveries[o] = Null => Dispatches(o) = {}
  /\ deliveries[o] # Null =>
       /\ deliveries[o].attempts = Cardinality(Dispatches(o))
       /\ deliveries[o].attempts <= MaxAttempts
       /\ TripState(deliveries[o].state, orders[o], cancellations[o])

DeliveriesOK == \A o \in Orders : TripOf(o)

\* A step that dispatches nobody leaves the dispatches as they are.
LEMMA DispatchesStay ==
  ASSUME NEW fresh, Grows(fresh), NEW command, command.kind # "dispatch",
         \A y \in fresh : journal'[y].command = command
  PROVE  \A o : Dispatches(o)' = Dispatches(o)
BY DEF Dispatches, Grows

\* What a payment files is its command, under new keys.
LEMMA PaymentGrows ==
  ASSUME Types, NEW command \in Heard, command.kind \in {"collect", "settle"},
         NEW due, PaymentTaken(command, due)
  PROVE  \E fresh : Grows(fresh)
                      /\ \A y \in fresh : journal'[y].command = command
<1> DEFINE x == <<"finance", command.key>>
           outcome == Outcome(command, due)
<1>1. PaymentFiled(command, due)
  BY PaymentIsFiled
<1>2. CASE Filed(command, "finance", outcome)
  <2>1. Grows({x}) /\ journal'[x].command = command
    BY <1>2, FiledGrows
  <2> QED BY <2>1
<1>3. CASE ~Filed(command, "finance", outcome)
  <2>1. PICK table \in {"derived", "delivery"} :
           LET y == <<table, command.key>>
           IN /\ y \notin DOMAIN journal
              /\ DOMAIN journal' = DOMAIN journal \union {x, y}
              /\ \A z \in DOMAIN journal : journal'[z] = journal[z]
              /\ journal'[x].command = command
              /\ journal'[y].command = command
    BY <1>1, <1>3 DEF PaymentFiled
  <2>2. x \notin DOMAIN journal
    BY <1>1 DEF PaymentFiled
  <2> DEFINE y == <<table, command.key>>
  <2>3. Grows({x, y}) /\ \A z \in {x, y} : journal'[z].command = command
    BY <2>1, <2>2 DEF Grows
  <2> QED BY <2>3
<1> QED BY <1>2, <1>3

\* An order's command leaves its trip alone: an order on the road is not
\* cancelled, and a settled one that is owes its money back.
LEMMA OrderTrips ==
  ASSUME Types, DeliveriesOK, NEW command \in Heard, NEW row,
         OrderWritten(command, row)
  PROVE  DeliveriesOK'
<1> DEFINE p == command.order
           old == orders[p]
<1>1. /\ p \in Orders /\ orders'[p] = row /\ row \in OrderRows
      /\ \A x \in Orders : x # p => orders'[x] = orders[x]
      /\ \A x \in Orders : x # p => cancellations'[x] = cancellations[x]
      /\ command.kind # "cancel" => cancellations'[p] = cancellations[p]
      /\ command.kind = "cancel" =>
           cancellations'[p] = [captured |-> Captured(p), refund |-> Refund(p)]
  BY OrderRowsAfter
<1>2. deliveries' = deliveries
  BY DEF OrderWritten
<1>3. \A o : Dispatches(o)' = Dispatches(o)
  <2> DEFINE x == <<Table(command), command.key>>
             fresh == {x}
  <2>1. Grows(fresh) /\ \A y \in fresh : journal'[y].command = command
    <3>1. Filed(command, Table(command), Result(row.version, Null, Null))
      BY OthersAreFiled
    <3> QED BY <3>1, FiledGrows
  <2>2. command.kind # "dispatch"
    BY DEF OrderWritten, OrderKinds
  <2> HIDE DEF fresh
  <2> QED BY <2>1, <2>2, DispatchesStay
<1>4. ASSUME deliveries[p] # Null
      PROVE  TripState(deliveries[p].state, row, cancellations'[p])
  <2> DEFINE state == deliveries[p].state
  <2>1. TripState(state, old, cancellations[p])
    BY <1>1, <1>4 DEF DeliveriesOK, TripOf
  <2>2. row # Null /\ old # Null /\ command.kind # "create"
    BY <1>1, <2>1, RowsAndAggregates DEF TripState, OrderWritten
  <2>3. CASE command.kind = "cancel"
    <3>1. row.status = "cancelled" /\ old.status # "cancelled"
          /\ state \notin {"assigned", "en_route"}
      BY <1>4, <2>3 DEF OrderWritten, DeliveryState
    <3>2. old.status = "paid" => Refund(p) = "pending"
      BY DEF Refund
    <3>3. cancellations'[p].refund = Refund(p)
      BY <1>1, <2>3
    <3> HIDE DEF state, old
    <3>4. TripState(state, row, cancellations'[p])
      BY <2>1, <2>2, <3>1, <3>2, <3>3 DEF TripState, old
    <3> QED BY <3>4 DEF state
  <2>4. CASE command.kind # "cancel"
    <3>1. MoneyStands(old, row) /\ cancellations'[p] = cancellations[p]
      BY <1>1, <2>2, <2>4 DEF OrderWritten
    <3> HIDE DEF state, old
    <3>2. TripState(state, row, cancellations[p])
      BY <2>1, <2>2, <3>1 DEF TripState, MoneyStands
    <3> QED BY <3>1, <3>2 DEF state
  <2> QED BY <2>3, <2>4
<1>5. ASSUME NEW o \in Orders PROVE TripOf(o)'
  <2>1. TripOf(o)
    BY DEF DeliveriesOK
  <2>2. CASE o = p
    BY <1>1, <1>2, <1>3, <1>4, <2>1, <2>2 DEF TripOf
  <2>3. CASE o # p
    BY <1>1, <1>2, <1>3, <2>1, <2>3 DEF TripOf
  <2> QED BY <2>2, <2>3
<1> QED BY <1>5 DEF DeliveriesOK

\* A payment pays an order that may be delivered, and settles only a trip that
\* arrived, with an order it paid in full.
LEMMA PaymentTrips ==
  ASSUME Types, DeliveriesOK, NEW command \in Heard,
         command.kind \in {"collect", "settle"},
         NEW due, PaymentTaken(command, due)
  PROVE  DeliveriesOK'
<1> DEFINE p == command.order
           old == orders[p]
           new == orders'[p]
<1>1. /\ p \in Orders
      /\ \A x \in Orders : x # p => orders'[x] = orders[x]
      /\ old \in OrderRows /\ Payable(old) /\ new \in OrderRows
      /\ new.status = IF due = Left(p) THEN "paid" ELSE "partially_paid"
  BY PaymentRows
<1>2. cancellations' = cancellations
  BY DEF PaymentTaken, PaymentWritten
<1>3. \A o : Dispatches(o)' = Dispatches(o)
  <2>1. PICK fresh : Grows(fresh)
                       /\ \A y \in fresh : journal'[y].command = command
    BY PaymentGrows
  <2> QED BY <2>1, DispatchesStay
<1>4. \A o \in Orders : TripOf(o)
  BY DEF DeliveriesOK
<1>5. new # Null
  BY <1>1, RowsAndAggregates
<1>6. CASE UNCHANGED deliveries
  <2>1. ASSUME deliveries[p] # Null
        PROVE  TripState(deliveries[p].state, new, cancellations[p])
    <3>1. TripState(deliveries[p].state, old, cancellations[p])
      BY <1>1, <1>4, <2>1 DEF TripOf
    <3> HIDE DEF old, new
    <3> QED BY <1>1, <1>5, <3>1 DEF TripState, Payable
  <2>2. ASSUME NEW o \in Orders PROVE TripOf(o)'
    <3>1. CASE o = p
      BY <1>1, <1>2, <1>3, <1>4, <1>6, <2>1, <3>1 DEF TripOf
    <3>2. CASE o # p
      BY <1>1, <1>2, <1>3, <1>4, <1>6, <3>2 DEF TripOf
    <3> QED BY <3>1, <3>2
  <2> QED BY <2>2 DEF DeliveriesOK
<1>7. CASE /\ due = Left(p) /\ DeliveryState(p) = "delivered" /\ Settled(p)
  <2>1. /\ deliveries[p] \in DeliveryRows
        /\ deliveries'[p] \in DeliveryRows
        /\ deliveries'[p].state = "settled"
        /\ deliveries'[p].attempts = deliveries[p].attempts
        /\ \A x \in Orders : x # p => deliveries'[x] = deliveries[x]
    BY <1>1, <1>7, TripSettled
  <2>2. deliveries[p] # Null /\ deliveries'[p] # Null
    BY <2>1, RowAssumption
  <2>3. TripState(deliveries'[p].state, new, cancellations[p])
    BY <1>1, <1>5, <1>7, <2>1 DEF TripState
  <2>4. ASSUME NEW o \in Orders PROVE TripOf(o)'
    <3>1. CASE o = p
      <4>1. TripOf(p)
        BY <1>1, <1>4
      <4> QED BY <1>2, <1>3, <2>1, <2>2, <2>3, <3>1, <4>1 DEF TripOf
    <3>2. CASE o # p
      BY <1>1, <1>2, <1>3, <1>4, <2>1, <3>2 DEF TripOf
    <3> QED BY <3>1, <3>2
  <2> QED BY <2>4 DEF DeliveriesOK
<1>8. Delivered(command) => DeliveryState(p) = "delivered"
  BY DEF Delivered, DeliveryState
<1> QED BY <1>6, <1>7, <1>8 DEF PaymentTaken

\* A trip moves only with an order to deliver; it counts its dispatches, and
\* there is no third.
LEMMA TripsMove ==
  ASSUME Types, DeliveriesOK, NEW command \in Heard, TripMoved(command)
  PROVE  DeliveriesOK'
<1> DEFINE p == command.order
           old == deliveries[p]
           new == deliveries'[p]
           x == <<"delivery", command.key>>
           fresh == {x}
<1>1. /\ p \in Orders /\ new \in DeliveryRows
      /\ \A o \in Orders : o # p => deliveries'[o] = deliveries[o]
      /\ old = Null => command.kind = "assign" /\ new.attempts = 0
      /\ old # Null =>
           /\ old \in DeliveryRows
           /\ new.attempts = IF command.kind = "dispatch"
                             THEN old.attempts + 1 ELSE old.attempts
      /\ command.kind = "dispatch" =>
           old.state = "assigned" /\ old.attempts < MaxAttempts
      /\ new.state = IF command.kind = "assign" THEN "assigned"
                     ELSE IF command.kind = "dispatch" THEN "en_route"
                     ELSE IF command.kind = "complete" THEN "delivered"
                     ELSE "failed"
  BY TripAfter
<1>2. /\ orders' = orders /\ cancellations' = cancellations
      /\ orders[p] # Null
      /\ orders[p].status \in {"open", "partially_paid", "paid"}
  BY DEF TripMoved, Deliverable, orderTables
<1>3. /\ Grows(fresh) /\ fresh = {x} /\ x \notin DOMAIN journal
      /\ x \in DOMAIN journal' /\ journal'[x].command = command
  <2>1. Filed(command, "delivery", Result(Null, Null, Null))
    BY OthersAreFiled
  <2> QED BY <2>1, FiledGrows DEF Filed, Adds
<1>4. \A o \in Orders : TripOf(o) /\ IsFiniteSet(Dispatches(o))
  <2>1. IsFiniteSet(DOMAIN journal)
    BY DEF Types, JournalOK, LogOK
  <2>2. \A o : Dispatches(o) \subseteq DOMAIN journal
    BY DEF Dispatches
  <2> QED BY <2>1, <2>2, FS_Subset DEF DeliveriesOK
<1>5. new # Null
  BY <1>1, RowAssumption
<1> HIDE DEF x, fresh
<1>6. \A o \in Orders : o # p => Dispatches(o)' = Dispatches(o)
  BY <1>3 DEF Dispatches, Grows
<1>7. Dispatches(p)' = IF command.kind = "dispatch"
                       THEN Dispatches(p) \union {x} ELSE Dispatches(p)
  BY <1>3 DEF Dispatches, Grows
<1>8. x \notin Dispatches(p)
  BY <1>3 DEF Dispatches
<1>9. new.attempts = Cardinality(Dispatches(p)') /\ new.attempts <= MaxAttempts
  <2> DEFINE before == Dispatches(p)
             n == Cardinality(before)
  <2>1. IsFiniteSet(before) /\ n \in Nat
    BY <1>1, <1>4, FS_CardinalityType
  <2>2. CASE old = Null
    <3>1. before = {} /\ command.kind # "dispatch" /\ new.attempts = 0
      BY <1>1, <1>4, <2>2 DEF TripOf
    <3>2. Dispatches(p)' = {}
      BY <1>7, <3>1
    <3> QED BY <3>1, <3>2, FS_EmptySet DEF MaxAttempts
  <2>3. CASE old # Null
    <3>1. old.attempts = n /\ n <= MaxAttempts
      BY <1>1, <1>4, <2>3 DEF TripOf
    <3>2. CASE command.kind = "dispatch"
      <4>1. Cardinality(before \union {x}) = n + 1
        BY <1>8, <2>1, FS_AddElement
      <4>2. new.attempts = n + 1 /\ n < MaxAttempts
        BY <1>1, <2>3, <3>1, <3>2
      <4> QED BY <1>7, <2>1, <3>2, <4>1, <4>2 DEF MaxAttempts
    <3>3. CASE command.kind # "dispatch"
      BY <1>1, <1>7, <2>3, <3>1, <3>3
    <3> QED BY <3>2, <3>3
  <2> QED BY <2>2, <2>3
<1>10. TripState(new.state, orders[p], cancellations[p])
  BY <1>1, <1>2 DEF TripState
<1>11. ASSUME NEW o \in Orders PROVE TripOf(o)'
  <2>1. CASE o = p
    <3> HIDE DEF new
    <3>1. TripOf(p)'
      BY <1>2, <1>5, <1>9, <1>10 DEF TripOf, new
    <3> QED BY <2>1, <3>1
  <2>2. CASE o # p
    BY <1>1, <1>2, <1>4, <1>6, <2>2 DEF TripOf
  <2> QED BY <2>1, <2>2
<1> QED BY <1>11 DEF DeliveriesOK

\* A prepaid trip is settled with an order that is paid.
LEMMA PrepaidTrips ==
  ASSUME Types, DeliveriesOK, NEW command \in Heard, TripPrepaid(command)
  PROVE  DeliveriesOK'
<1> DEFINE p == command.order
<1>1. p \in Orders
  BY DEF TripPrepaid, Types, HeardOK, CommandOK, Has
<1>2. /\ orders[p].status = "paid" /\ DeliveryState(p) = "delivered"
      /\ Settled(p) /\ orders' = orders /\ cancellations' = cancellations
  BY DEF TripPrepaid, Delivered, DeliveryState, orderTables
<1>3. /\ deliveries[p] \in DeliveryRows
      /\ deliveries'[p] \in DeliveryRows
      /\ deliveries'[p].state = "settled"
      /\ deliveries'[p].attempts = deliveries[p].attempts
      /\ \A x \in Orders : x # p => deliveries'[x] = deliveries[x]
  BY <1>1, <1>2, TripSettled
<1>4. deliveries[p] # Null /\ deliveries'[p] # Null
  BY <1>3, RowAssumption
<1>5. \A o : Dispatches(o)' = Dispatches(o)
  <2> DEFINE x == <<"delivery", command.key>>
             fresh == {x}
  <2>1. Grows(fresh) /\ \A y \in fresh : journal'[y].command = command
    <3>1. Filed(command, "delivery", Result(Null, Null, Null))
      BY OthersAreFiled
    <3> QED BY <3>1, FiledGrows
  <2>2. command.kind # "dispatch"
    BY DEF TripPrepaid
  <2> HIDE DEF fresh
  <2> QED BY <2>1, <2>2, DispatchesStay
<1>6. \A o \in Orders : TripOf(o)
  BY DEF DeliveriesOK
<1>7. TripState(deliveries'[p].state, orders[p], cancellations[p])
  BY <1>1, <1>2, <1>3, <1>4, <1>6 DEF TripOf, TripState
<1>8. ASSUME NEW o \in Orders PROVE TripOf(o)'
  <2>1. CASE o = p
    <3>1. TripOf(p)
      BY <1>1, <1>6
    <3> QED BY <1>2, <1>3, <1>4, <1>5, <1>7, <2>1, <3>1 DEF TripOf
  <2>2. CASE o # p
    BY <1>2, <1>3, <1>5, <1>6, <2>2 DEF TripOf
  <2> QED BY <2>1, <2>2
<1> QED BY <1>8 DEF DeliveriesOK

\* The delivery and the order agree, and the attempts counted are the
\* dispatches accepted, however failures, assignments and repeated requests
\* mix.
THEOREM DeliveriesAgree == Spec => []DeliveryAgrees
<1>1. Init => DeliveriesOK
  <2> SUFFICES ASSUME Init PROVE DeliveriesOK
    OBVIOUS
  <2>1. DOMAIN journal = {}
    BY EmptySeq DEF Init
  <2> QED BY <2>1 DEF Init, DeliveriesOK, TripOf, Dispatches
<1>2. Types /\ DeliveriesOK /\ [Next]_vars => DeliveriesOK'
  <2> SUFFICES ASSUME Types, DeliveriesOK, [Next]_vars PROVE DeliveriesOK'
    OBVIOUS
  <2>1. ASSUME UNCHANGED <<orders, cancellations, deliveries>>,
               \A o : Dispatches(o)' = Dispatches(o)
        PROVE  DeliveriesOK'
    BY <2>1 DEF DeliveriesOK, TripOf
  <2>2. CASE Quiet
    <3>1. \A o : Dispatches(o)' = Dispatches(o)
      BY <2>2 DEF Quiet, Dispatches
    <3> QED BY <2>1, <2>2, <3>1 DEF Quiet, orderTables
  <2>3. ASSUME NEW command \in Heard, Moves(command) PROVE DeliveriesOK'
    <3>1. CASE SessionOpened(command) \/ SessionClosed(command)
      <4>1. UNCHANGED <<orders, cancellations, deliveries>>
        BY <3>1 DEF SessionOpened, SessionClosed, orderTables
      <4> DEFINE x == <<"finance", command.key>>
                 fresh == {x}
      <4>2. Grows(fresh) /\ \A y \in fresh : journal'[y].command = command
        <5>1. PICK result : Filed(command, "finance", result)
          BY <3>1, OthersAreFiled
        <5> QED BY <5>1, FiledGrows
      <4> HIDE DEF fresh
      <4>3. command.kind # "dispatch"
        BY <3>1 DEF SessionOpened, SessionClosed
      <4> QED BY <2>1, <4>1, <4>2, <4>3, DispatchesStay
    <3> QED BY <2>3, <3>1, OrderTrips, PaymentTrips, TripsMove, PrepaidTrips
            DEF Moves
  <2> QED BY <2>2, <2>3, StepsMove
<1>3. Types /\ DeliveriesOK => DeliveryAgrees
  <2> SUFFICES ASSUME Types, DeliveriesOK, NEW o \in Orders,
                      deliveries[o] # Null
               PROVE  /\ deliveries[o].attempts = Cardinality(Dispatches(o))
                      /\ deliveries[o].attempts <= MaxAttempts
                      /\ CASE deliveries[o].state \in {"assigned", "en_route"} ->
                                orders[o].status
                                  \in {"open", "partially_paid", "paid"}
                           [] deliveries[o].state = "settled" ->
                                \/ orders[o].status = "paid"
                                \/ /\ orders[o].status = "cancelled"
                                   /\ cancellations[o].refund = "pending"
                           [] OTHER -> TRUE
    BY DEF DeliveryAgrees
  <2>1. TripOf(o)
    BY DEF DeliveriesOK
  <2> QED BY <2>1 DEF TripOf, TripState
<1> QED BY <1>1, <1>2, <1>3, RowsKeepTheirShape, PTL DEF Spec

-----------------------------------------------------------------------------
(***************************************************************************)
(* What the kitchen is told.                                               *)
(***************************************************************************)

\* The events that tell of a line begin with it pending, go on as its life
\* cycle does and end where it is; a line that was never sent may go down with
\* its order unannounced.
Story(log, told, now, status) ==
  /\ \E first \in told : /\ \A i \in told : first <= i
                         /\ log[first].status = "pending"
  /\ \A i, j \in told :
       i < j /\ (\A k \in told : k <= i \/ j <= k)
         => log[j].status \in LineTransitions[log[i].status]
  /\ \E last \in told :
       /\ \A i \in told : i <= last
       /\ \/ log[last].status = now
          \/ /\ log[last].status = "pending"
             /\ now = "cancelled" /\ status = "cancelled"

\* Every line of an order has its story, and only lines that are there have
\* one.
StoriesOf(o) ==
  LET row == orders[o]
  IN \A l \in Nat :
       IF row # Null /\ l \in DOMAIN row.lines
       THEN Story(kds, Tells(o, l), row.lines[l], row.status)
       ELSE Tells(o, l) = {}

KitchenOK == \A o \in Orders : StoriesOf(o)

\* A line the kitchen is not told about again keeps its story: it stays where
\* it is, or goes down with its order before it was ever sent.
LEMMA StoryStays ==
  ASSUME NEW log, NEW longer, NEW told, NEW now, NEW status,
         NEW now2, NEW status2,
         Story(log, told, now, status),
         \A i \in told : longer[i] = log[i],
         \/ now2 = now /\ (status = "cancelled" => status2 = "cancelled")
         \/ /\ now = "pending" /\ status # "cancelled"
            /\ now2 = "cancelled" /\ status2 = "cancelled"
  PROVE  Story(longer, told, now2, status2)
BY DEF Story

\* An event that tells of a line's next move takes its story on.
LEMMA StoryGoesOn ==
  ASSUME NEW log, NEW longer, NEW told \in SUBSET Nat, NEW now, NEW status,
         NEW x \in Nat, NEW status2,
         Story(log, told, now, status), status # "cancelled",
         \A i \in told : i < x /\ longer[i] = log[i],
         longer[x].status \in LineTransitions[now]
  PROVE  Story(longer, told \union {x}, longer[x].status, status2)
<1> DEFINE now2 == longer[x].status
           more == told \union {x}
<1>1. PICK first \in told : /\ \A i \in told : first <= i
                            /\ log[first].status = "pending"
  BY DEF Story
<1>2. PICK last \in told : (\A i \in told : i <= last) /\ log[last].status = now
  BY DEF Story
<1>3. /\ first \in more /\ longer[first].status = "pending"
      /\ \A i \in more : first <= i
  BY <1>1
<1>4. x \in more /\ \A i \in more : i <= x
  OBVIOUS
<1>5. ASSUME NEW i \in more, NEW j \in more, i < j,
             \A k \in more : k <= i \/ j <= k
      PROVE  longer[j].status \in LineTransitions[longer[i].status]
  <2>1. i \in told /\ i \in Nat
    BY <1>4, <1>5
  <2>2. CASE j = x
    <3>1. i = last
      BY <1>2, <1>5, <2>1, <2>2
    <3> QED BY <1>2, <2>2, <3>1
  <2>3. CASE j # x
    <3>1. j \in told /\ \A k \in told : k <= i \/ j <= k
      BY <1>5, <2>3
    <3>2. log[j].status \in LineTransitions[log[i].status]
      BY <1>5, <2>1, <3>1 DEF Story
    <3> QED BY <2>1, <3>1, <3>2
  <2> QED BY <2>2, <2>3
<1> HIDE DEF more, now2
<1>6. /\ \A i \in more : i <= x
      /\ longer[x].status = now2
  BY <1>4 DEF now2
<1> QED BY <1>3, <1>4, <1>5, <1>6 DEF Story, more, now2

\* The first event of a new line says that it is pending.
LEMMA StoryStarts ==
  ASSUME NEW log, NEW x \in Nat, NEW status, log[x].status = "pending"
  PROVE  Story(log, {x}, "pending", status)
BY DEF Story

\* What a command does to the lines it touches, and to the others: what it
\* touches makes a move or is new, what it does not touch stays, but for the
\* pending lines of an order it cancels.
LEMMA LinesGoOn ==
  ASSUME NEW order \in Aggregates, NEW command, CommandOK(command),
         command.kind \in ReadingKinds, Allowed(order, command), Whole(order)
  PROVE  LET after == Resulting(order, command)
             touched == Touched(order, command)
         IN /\ DOMAIN order.lines \subseteq DOMAIN after.lines
            /\ \A l \in DOMAIN after.lines \ DOMAIN order.lines :
                 l \in touched /\ after.lines[l] = "pending"
            /\ \A l \in DOMAIN order.lines :
                 IF l \in touched
                 THEN /\ order.status # "cancelled"
                      /\ after.lines[l] \in LineTransitions[order.lines[l]]
                 ELSE \/ after.lines[l] = order.lines[l]
                      \/ /\ order.lines[l] = "pending"
                         /\ order.status # "cancelled"
                         /\ after.lines[l] = "cancelled"
                         /\ after.status = "cancelled"
<1> DEFINE after == Resulting(order, command)
           touched == Touched(order, command)
<1>1. /\ order.lines \in Seq(LineStates)
      /\ Len(order.lines) \in Nat /\ DOMAIN order.lines = 1 .. Len(order.lines)
      /\ \A l \in DOMAIN order.lines : order.lines[l] \in LineStates
  BY LenProperties, ElementOfSeq DEF Aggregates
<1>2. CASE command.kind = "add"
  <2> DEFINE lines == Append(order.lines, "pending")
  <2>1. touched = {Len(order.lines) + 1} /\ after.lines = lines
    BY <1>2 DEF Touched, Resulting, AddLine, Aggregates
  <2>2. /\ DOMAIN lines = 1 .. Len(order.lines) + 1
        /\ lines[Len(order.lines) + 1] = "pending"
        /\ \A l \in 1 .. Len(order.lines) : lines[l] = order.lines[l]
    <3>1. "pending" \in LineStates
      BY DEF LineStates
    <3>2. lines \in Seq(LineStates) /\ Len(lines) = Len(order.lines) + 1
      BY <1>1, <3>1, AppendProperties
    <3> QED BY <1>1, <3>1, <3>2, AppendProperties, LenProperties
  <2> HIDE DEF lines, after, touched
  <2> QED BY <1>1, <2>1, <2>2 DEF after, touched
<1>3. CASE command.kind = "open"
  <2>1. touched = {} /\ after.lines = order.lines
    BY <1>3 DEF Touched, Resulting, SetStatus, Aggregates
  <2> QED BY <2>1
<1>4. CASE command.kind \in {"advance", "cancel_line"}
  <2> DEFINE to == IF command.kind = "advance" THEN command.to ELSE "cancelled"
  <2>1. /\ touched = {command.line} /\ to \in LineStates
        /\ after = SetLines(order, {command.line}, to)
        /\ CanMoveLine(order, command.line, to)
    BY <1>4 DEF Touched, Resulting, MoveLine, Allowed, CommandOK, Has,
                LineStates
  <2> HIDE DEF to
  <2>2. /\ DOMAIN after.lines = DOMAIN order.lines
        /\ \A l \in DOMAIN order.lines :
             after.lines[l] = IF l \in {command.line} THEN to
                              ELSE order.lines[l]
    BY <2>1, LinesSet
  <2> HIDE DEF after, touched
  <2> QED BY <2>1, <2>2 DEF CanMoveLine, after, touched
<1>5. CASE command.kind = "send"
  <2> DEFINE opened == Opened(order)
  <2>1. /\ after = SetLines(opened, command.lines, "sent")
        /\ touched = command.lines
        /\ command.lines \subseteq Pending(order) /\ command.lines # {}
    BY <1>5 DEF Resulting, Touched, Allowed, CommandOK, Has
  <2>2. opened \in Aggregates /\ opened.lines = order.lines
    BY DEF Opened, SetStatus, Aggregates, OrderStates
  <2> HIDE DEF opened, after, touched
  <2>3. /\ DOMAIN after.lines = DOMAIN order.lines
        /\ \A l \in DOMAIN order.lines :
             after.lines[l] = IF l \in command.lines THEN "sent"
                              ELSE order.lines[l]
    <3>1. "sent" \in LineStates
      BY DEF LineStates
    <3>2. /\ DOMAIN after.lines = DOMAIN opened.lines
          /\ \A l \in DOMAIN opened.lines :
               after.lines[l] = IF l \in command.lines THEN "sent"
                                ELSE opened.lines[l]
      BY <2>1, <2>2, <3>1, LinesSet
    <3> QED BY <2>2, <3>2
  <2>4. /\ \A l \in command.lines : order.lines[l] = "pending"
        /\ order.status # "cancelled"
    BY <2>1 DEF Pending, Whole, LiveLines
  <2>5. "sent" \in LineTransitions["pending"]
    BY DEF LineTransitions
  <2> QED BY <2>1, <2>3, <2>4, <2>5 DEF after, touched
<1>6. CASE command.kind = "cancel"
  <2> DEFINE down == InKitchen(order) \union Pending(order)
             emptied == SetLines(order, down, "cancelled")
  <2>1. /\ after = SetStatus(emptied, "cancelled")
        /\ touched = InKitchen(order)
        /\ order.status # "cancelled"
    BY <1>6 DEF Resulting, Touched, Allowed, CancelWhole, Cancellable
  <2>2. /\ emptied \in Aggregates
        /\ DOMAIN emptied.lines = DOMAIN order.lines
        /\ \A l \in DOMAIN order.lines :
             emptied.lines[l] = IF l \in down THEN "cancelled"
                                ELSE order.lines[l]
    BY LinesSet DEF LineStates
  <2> HIDE DEF emptied, after, touched, down
  <2>3. after.status = "cancelled" /\ after.lines = emptied.lines
    BY <2>1, <2>2 DEF SetStatus, Aggregates
  <2>4. ASSUME NEW l \in DOMAIN order.lines
        PROVE  /\ l \in touched => l \in down
                    /\ "cancelled" \in LineTransitions[order.lines[l]]
               /\ l \in down /\ l \notin touched => order.lines[l] = "pending"
    BY <2>1 DEF down, InKitchen, Pending, LineTransitions
  <2> QED BY <2>1, <2>2, <2>3, <2>4 DEF after, touched
<1> QED BY <1>2, <1>3, <1>4, <1>5, <1>6 DEF ReadingKinds

\* The new events come after those that were there, one for each touched line
\* of one order, and say where the line is then.
Follows(p, touched, after) ==
  /\ \A i \in DOMAIN kds : kds'[i] = kds[i]
  /\ \A o, l : Tells(o, l) \in SUBSET Nat
  /\ \A o, l : o # p \/ l \notin touched => Tells(o, l)' = Tells(o, l)
  /\ \A l \in touched :
       \E x \in Nat : /\ Tells(p, l)' = Tells(p, l) \union {x}
                      /\ \A i \in Tells(p, l) : i < x
                      /\ kds'[x].status = after.lines[l]

\* The events a command adds are such events.
LEMMA EventsFollow ==
  ASSUME kds \in Seq(KdsEvents), NEW p \in Orders, NEW order \in Aggregates,
         NEW command, CommandOK(command), command.kind \in ReadingKinds,
         Allowed(order, command), Whole(order),
         kds' = kds \o Events(p, order, command)
  PROVE  Follows(p, Touched(order, command), Resulting(order, command))
<1> DEFINE events == Events(p, order, command)
           touched == Touched(order, command)
           after == Resulting(order, command)
           n == Len(kds)
           m == Len(events)
<1>1. /\ events \in Seq(KdsEvents)
      /\ \A i \in DOMAIN events :
           /\ events[i].order = p
           /\ events[i].line \in touched
           /\ events[i].status = after.lines[events[i].line]
      /\ \A i, j \in DOMAIN events : events[i].line = events[j].line => i = j
      /\ \A l \in touched : \E i \in DOMAIN events : events[i].line = l
  BY EventsTell
<1> HIDE DEF events, touched, after
<1>2. /\ n \in Nat /\ m \in Nat
      /\ DOMAIN kds = 1 .. n /\ DOMAIN events = 1 .. m
  BY <1>1, LenProperties
<1>3. /\ DOMAIN kds' = 1 .. n + m
      /\ \A i \in 1 .. n + m :
           kds'[i] = IF i <= n THEN kds[i] ELSE events[i - n]
  <2>1. kds' = kds \o events
    BY DEF events
  <2>2. /\ kds \o events \in Seq(KdsEvents)
        /\ Len(kds \o events) = n + m
        /\ \A i \in 1 .. n + m : (kds \o events)[i] =
                                   IF i <= n THEN kds[i] ELSE events[i - n]
    BY <1>1, ConcatProperties
  <2> QED BY <2>1, <2>2, LenProperties
<1> HIDE DEF n, m
<1>4. \A i \in DOMAIN kds : i \in DOMAIN kds' /\ kds'[i] = kds[i]
  BY <1>2, <1>3
<1>5. \A o, l : Tells(o, l) \in SUBSET Nat
  BY <1>2 DEF Tells
<1>6. \A i \in DOMAIN kds' \ DOMAIN kds :
        /\ i - n \in DOMAIN events /\ i \in Nat
        /\ kds'[i] = events[i - n]
  BY <1>2, <1>3
<1>7. ASSUME NEW o, NEW l, o # p \/ l \notin touched
      PROVE  Tells(o, l)' = Tells(o, l)
  BY <1>1, <1>4, <1>6, <1>7 DEF Tells
<1>8. ASSUME NEW l \in touched
      PROVE  \E x \in Nat : /\ Tells(p, l)' = Tells(p, l) \union {x}
                            /\ \A i \in Tells(p, l) : i < x
                            /\ kds'[x].status = after.lines[l]
  <2>1. PICK j \in DOMAIN events : events[j].line = l
    BY <1>1
  <2> DEFINE x == n + j
  <2>2. /\ x \in Nat /\ x \in DOMAIN kds' /\ x \notin DOMAIN kds
        /\ x - n = j /\ \A i \in DOMAIN kds : i < x
    BY <1>2, <1>3
  <2> HIDE DEF x
  <2>3. /\ kds'[x] = events[j] /\ kds'[x].order = p /\ kds'[x].line = l
        /\ kds'[x].status = after.lines[l]
    <3>1. kds'[x] = events[j]
      BY <1>6, <2>2
    <3>2. /\ events[j].order = p /\ events[j].line = l
          /\ events[j].status = after.lines[l]
      BY <1>1, <2>1
    <3> QED BY <3>1, <3>2
  <2>4. \A i \in DOMAIN kds' \ DOMAIN kds : kds'[i].line = l => i = x
    <3> SUFFICES ASSUME NEW i \in DOMAIN kds' \ DOMAIN kds, kds'[i].line = l
                 PROVE  i = x
      OBVIOUS
    <3>1. i - n = j
      BY <1>1, <1>6, <2>1
    <3> QED BY <1>2, <1>6, <2>2, <3>1
  <2>5. Tells(p, l)' = Tells(p, l) \union {x}
    BY <1>4, <2>2, <2>3, <2>4 DEF Tells
  <2>6. \A i \in Tells(p, l) : i < x
    BY <2>2 DEF Tells
  <2> QED BY <2>2, <2>3, <2>5, <2>6
<1> QED BY <1>4, <1>5, <1>7, <1>8 DEF Follows, touched, after

\* An order whose lines and cancellation stand keeps its stories.
LEMMA StoriesStay ==
  ASSUME NEW o, StoriesOf(o), \A l : Tells(o, l)' = Tells(o, l),
         \A i \in DOMAIN kds : kds'[i] = kds[i],
         \/ orders'[o] = orders[o]
         \/ /\ orders[o] = Null
            /\ orders'[o] # Null /\ orders'[o].lines = <<>>
         \/ /\ orders[o] # Null /\ orders'[o] # Null
            /\ orders'[o].lines = orders[o].lines
            /\ orders[o].status = "cancelled" => orders'[o].status = "cancelled"
  PROVE  StoriesOf(o)'
<1>1. ASSUME NEW l PROVE \A i \in Tells(o, l) : kds'[i] = kds[i]
  BY DEF Tells
<1>2. CASE orders'[o] = orders[o]
  <2>1. ASSUME NEW l, NEW now, NEW status,
               Story(kds, Tells(o, l), now, status)
        PROVE  Story(kds', Tells(o, l), now, status)
    BY <1>1, <2>1, StoryStays
  <2> QED BY <1>2, <2>1 DEF StoriesOf
<1>3. CASE orders[o] = Null /\ orders'[o] # Null /\ orders'[o].lines = <<>>
  <2>1. DOMAIN <<>> = {}
    <3>1. \A S : Len(<<>>) = 0 /\ DOMAIN <<>> = 1 .. 0
      BY EmptySeq
    <3> QED BY <3>1
  <2> QED BY <1>3, <2>1 DEF StoriesOf
<1>4. CASE /\ orders[o] # Null /\ orders'[o] # Null
           /\ orders'[o].lines = orders[o].lines
           /\ orders[o].status = "cancelled" => orders'[o].status = "cancelled"
  <2>1. ASSUME NEW l, NEW now, Story(kds, Tells(o, l), now, orders[o].status)
        PROVE  Story(kds', Tells(o, l), now, orders'[o].status)
    BY <1>1, <1>4, <2>1, StoryStays
  <2> QED BY <1>4, <2>1 DEF StoriesOf
<1> QED BY <1>2, <1>3, <1>4

\* An order's command goes on with the stories of the lines it touches.
LEMMA OrderStories ==
  ASSUME Types, KitchenOK, NEW command \in Heard, NEW row,
         OrderWritten(command, row)
  PROVE  KitchenOK'
<1> DEFINE p == command.order
           old == orders[p]
<1>1. /\ p \in Orders /\ CommandOK(command)
      /\ orders'[p] = row /\ row \in OrderRows
      /\ \A x \in Orders : x # p => orders'[x] = orders[x]
  BY OrderRowsAfter
<1>2. row # Null
  BY <1>1, RowsAndAggregates
<1>3. \A o \in Orders : StoriesOf(o)
  BY DEF KitchenOK
<1>4. CASE command.kind \notin ReadingKinds
  <2>1. /\ kds' = kds /\ command.kind \in {"create", "label"}
        /\ IF command.kind = "create"
           THEN old = Null /\ row.lines = <<>>
           ELSE /\ old # Null /\ MovedOn(old, row)
                /\ row.lines = old.lines
    BY <1>4 DEF OrderWritten, OrderKinds, ReadingKinds
  <2>2. \A o, l : Tells(o, l)' = Tells(o, l)
    BY <2>1 DEF Tells
  <2>3. MovedOn(old, row) /\ old.status = "cancelled"
          => row.status = "cancelled"
    BY DEF MovedOn, OrderTransitions
  <2>4. ASSUME NEW o \in Orders PROVE StoriesOf(o)'
    <3>1. \/ orders'[o] = orders[o]
          \/ /\ orders[o] = Null
             /\ orders'[o] # Null /\ orders'[o].lines = <<>>
          \/ /\ orders[o] # Null /\ orders'[o] # Null
             /\ orders'[o].lines = orders[o].lines
             /\ orders[o].status = "cancelled"
                  => orders'[o].status = "cancelled"
      BY <1>1, <1>2, <2>1, <2>3
    <3> QED BY <1>3, <2>1, <2>2, <3>1, StoriesStay
  <2> QED BY <2>4 DEF KitchenOK
<1>5. CASE command.kind \in ReadingKinds
  <2> DEFINE read == Aggregate(old)
             after == Resulting(read, command)
             touched == Touched(read, command)
  <2>1. /\ old # Null /\ Allowed(read, command)
        /\ row.status = after.status /\ row.lines = after.lines
        /\ kds' = kds \o Events(p, read, command)
    BY <1>5 DEF OrderWritten, ReadingKinds
  <2>2. /\ read \in Aggregates /\ Whole(read)
        /\ read.status = old.status /\ read.lines = old.lines
    BY <1>1, <2>1, OrderKnown, RowsAndAggregates
  <2>3. MovedOn(read, after) /\ after \in Aggregates
    BY <1>1, <1>5, <2>1, <2>2, DomainMoves
  <2>4. Follows(p, touched, after)
    <3>1. kds \in Seq(KdsEvents)
      BY DEF Types, RowsOK
    <3>2. Touched(read, command) = touched /\ Resulting(read, command) = after
      OBVIOUS
    <3> HIDE DEF read, touched, after, p
    <3>3. /\ p \in Orders /\ read \in Aggregates /\ CommandOK(command)
          /\ command.kind \in ReadingKinds /\ Allowed(read, command)
          /\ Whole(read) /\ kds' = kds \o Events(p, read, command)
      BY <1>1, <1>5, <2>1, <2>2
    <3>4. Follows(p, Touched(read, command), Resulting(read, command))
      BY <3>1, <3>3, EventsFollow
    <3> QED BY <3>2, <3>4
  <2>5. /\ DOMAIN read.lines \subseteq DOMAIN after.lines
        /\ \A l \in DOMAIN after.lines \ DOMAIN read.lines :
             l \in touched /\ after.lines[l] = "pending"
        /\ \A l \in DOMAIN read.lines :
             IF l \in touched
             THEN /\ read.status # "cancelled"
                  /\ after.lines[l] \in LineTransitions[read.lines[l]]
             ELSE \/ after.lines[l] = read.lines[l]
                  \/ /\ read.lines[l] = "pending"
                     /\ read.status # "cancelled"
                     /\ after.lines[l] = "cancelled"
                     /\ after.status = "cancelled"
    BY <1>1, <1>5, <2>1, <2>2, LinesGoOn
  <2>6. touched \subseteq DOMAIN after.lines
    BY <1>1, <1>5, <2>1, <2>2, TouchedLines
  <2>7. read.status = "cancelled" => after.status = "cancelled"
    BY <2>3 DEF MovedOn, OrderTransitions
  <2> HIDE DEF read, after, touched, old
  <2>8. ASSUME NEW o \in Orders, o # p PROVE StoriesOf(o)'
    BY <1>1, <1>3, <2>4, <2>8, StoriesStay DEF Follows
  <2>9. ASSUME NEW l \in Nat
        PROVE  IF l \in DOMAIN after.lines
               THEN Story(kds', Tells(p, l)', after.lines[l], after.status)
               ELSE Tells(p, l)' = {}
    <3>1. IF l \in DOMAIN read.lines
          THEN Story(kds, Tells(p, l), read.lines[l], read.status)
          ELSE Tells(p, l) = {}
      BY <1>1, <1>3, <2>1, <2>2 DEF StoriesOf, old
    <3>2. \A i \in Tells(p, l) : kds'[i] = kds[i]
      BY <2>4 DEF Follows, Tells
    <3>3. CASE l \in touched
      <4>1. PICK x \in Nat : /\ Tells(p, l)' = Tells(p, l) \union {x}
                             /\ \A i \in Tells(p, l) : i < x
                             /\ kds'[x].status = after.lines[l]
        BY <2>4, <3>3 DEF Follows
      <4>2. CASE l \in DOMAIN read.lines
        <5> DEFINE told == Tells(p, l)
                   longer == kds'
                   now == read.lines[l]
                   status == read.status
                   status2 == after.status
        <5>1. /\ told \in SUBSET Nat /\ Story(kds, told, now, status)
              /\ status # "cancelled"
              /\ \A i \in told : i < x /\ longer[i] = kds[i]
              /\ longer[x].status \in LineTransitions[now]
          BY <2>4, <2>5, <3>1, <3>2, <3>3, <4>1, <4>2 DEF Follows
        <5> HIDE DEF told, longer, now, status, status2
        <5>2. Story(longer, told \union {x}, longer[x].status, status2)
          BY <5>1, StoryGoesOn
        <5> QED BY <2>6, <3>3, <4>1, <5>2 DEF told, longer, status2
      <4>3. CASE l \notin DOMAIN read.lines
        <5>1. Tells(p, l)' = {x} /\ after.lines[l] = "pending"
          BY <2>5, <2>6, <3>1, <3>3, <4>1, <4>3
        <5> DEFINE longer == kds'
                   status2 == after.status
        <5>2. longer[x].status = "pending"
          BY <4>1, <5>1
        <5> HIDE DEF longer, status2
        <5>3. Story(longer, {x}, "pending", status2)
          BY <5>2, StoryStarts
        <5> QED BY <2>6, <3>3, <5>1, <5>3 DEF longer, status2
      <4> QED BY <4>2, <4>3
    <3>4. CASE l \notin touched
      <4>1. Tells(p, l)' = Tells(p, l)
        BY <2>4, <3>4 DEF Follows
      <4>2. CASE l \in DOMAIN read.lines
        <5> DEFINE told == Tells(p, l)
                   longer == kds'
                   now == read.lines[l]
                   status == read.status
                   now2 == after.lines[l]
                   status2 == after.status
        <5>1. /\ Story(kds, told, now, status)
              /\ \A i \in told : longer[i] = kds[i]
              /\ \/ now2 = now /\ (status = "cancelled" => status2 = "cancelled")
                 \/ /\ now = "pending" /\ status # "cancelled"
                    /\ now2 = "cancelled" /\ status2 = "cancelled"
          BY <2>5, <2>7, <3>1, <3>2, <3>4, <4>2
        <5> HIDE DEF told, longer, now, status, now2, status2
        <5>2. Story(longer, told, now2, status2)
          BY <5>1, StoryStays
        <5> QED BY <2>5, <4>1, <4>2, <5>2 DEF told, longer, now2, status2
      <4>3. CASE l \notin DOMAIN read.lines
        BY <2>5, <3>1, <3>4, <4>1, <4>3
      <4> QED BY <4>2, <4>3
    <3> QED BY <3>3, <3>4
  <2>10. StoriesOf(p)'
    BY <1>1, <1>2, <2>1, <2>9 DEF StoriesOf
  <2> QED BY <2>8, <2>10 DEF KitchenOK
<1> QED BY <1>4, <1>5

\* The kitchen is told the history of every line, none of its moves left out
\* or told twice, whatever commands interleave, are repeated or are refused.
THEOREM TheKitchenIsTold == Spec => []KitchenTold
<1>1. Init => KitchenOK
  <2> SUFFICES ASSUME Init PROVE KitchenOK
    OBVIOUS
  <2>1. DOMAIN kds = {}
    <3>1. \A S : Len(<<>>) = 0 /\ DOMAIN <<>> = 1 .. 0
      BY EmptySeq
    <3> QED BY <3>1 DEF Init
  <2> QED BY <2>1 DEF Init, KitchenOK, StoriesOf, Tells
<1>2. Types /\ KitchenOK /\ [Next]_vars => KitchenOK'
  <2> SUFFICES ASSUME Types, KitchenOK, [Next]_vars PROVE KitchenOK'
    OBVIOUS
  <2>1. ASSUME UNCHANGED <<orders, kds>>
        PROVE  KitchenOK'
    BY <2>1 DEF KitchenOK, StoriesOf, Tells
  <2>2. CASE Quiet
    BY <2>1, <2>2 DEF Quiet, orderTables
  <2>3. ASSUME NEW command \in Heard, Moves(command) PROVE KitchenOK'
    <3>1. ASSUME NEW due, command.kind \in {"collect", "settle"},
                 PaymentTaken(command, due)
          PROVE  KitchenOK'
      <4> DEFINE p == command.order
      <4>1. /\ \A x \in Orders : x # p => orders'[x] = orders[x]
            /\ orders[p] \in OrderRows /\ Payable(orders[p])
            /\ orders'[p] \in OrderRows
            /\ orders'[p].lines = orders[p].lines
        BY <3>1, PaymentRows
      <4>2. orders[p] # Null /\ orders'[p] # Null
        BY <4>1, RowsAndAggregates
      <4>3. orders[p].status # "cancelled" /\ kds' = kds
        BY <3>1, <4>1 DEF Payable, PaymentTaken, PaymentWritten
      <4>4. \A o, l : Tells(o, l)' = Tells(o, l)
        BY <4>3 DEF Tells
      <4>5. ASSUME NEW o \in Orders PROVE StoriesOf(o)'
        <5>1. StoriesOf(o)
          BY DEF KitchenOK
        <5> QED BY <4>1, <4>2, <4>3, <4>4, <5>1, StoriesStay
      <4> QED BY <4>5 DEF KitchenOK
    <3>2. CASE \/ SessionOpened(command) \/ SessionClosed(command)
               \/ TripMoved(command) \/ TripPrepaid(command)
      BY <2>1, <3>2 DEF SessionOpened, SessionClosed, TripMoved, TripPrepaid,
                        orderTables
    <3> QED BY <2>3, <3>1, <3>2, OrderStories DEF Moves
  <2> QED BY <2>2, <2>3, StepsMove
<1>3. Types /\ KitchenOK => KitchenTold
  <2> SUFFICES ASSUME Types, KitchenOK, NEW o \in Created,
                      NEW l \in DOMAIN orders[o].lines
               PROVE  LET told == Tells(o, l)
                          now == orders[o].lines[l]
                      IN Story(kds, told, now, orders[o].status)
    BY DEF KitchenTold, Story
  <2>1. orders[o] # Null /\ o \in Orders
    BY DEF Created
  <2>2. orders[o].lines \in Seq(LineStates)
    BY <2>1, OrderKnown, RowsAndAggregates
  <2>3. l \in Nat
    BY <2>2, LenProperties
  <2> QED BY <2>1, <2>3 DEF KitchenOK, StoriesOf
<1> QED BY <1>1, <1>2, <1>3, RowsKeepTheirShape, PTL DEF Spec

-----------------------------------------------------------------------------
(***************************************************************************)
(* The ledger.  Each move is one entry of the abstract Ledger, or leaves   *)
(* its books alone: what is to be shown of it is that the rows it writes   *)
(* are, together, the entry's bill, till and key.                          *)
(***************************************************************************)

\* The books are what their rows say.
LEMMA BooksOfRows ==
  /\ \A o \in Orders :
       BillsOfOrders[o] = BillOf(orders[o], cancellations[o], Captured(o))
  /\ \A s \in Sessions : TillsOfSessions[s] = TillOf(sessions[s])
BY DEF BillsOfOrders, TillsOfSessions

\* Rows that stand still leave the books alone.
LEMMA BooksStand ==
  /\ payments' = payments => KeysCharged' = KeysCharged
  /\ sessions' = sessions => TillsOfSessions' = TillsOfSessions
  /\ UNCHANGED <<orders, cancellations, payments>>
       => BillsOfOrders' = BillsOfOrders
<1>1. payments' = payments => KeysCharged' = KeysCharged
  BY DEF KeysCharged
<1>2. sessions' = sessions => TillsOfSessions' = TillsOfSessions
  BY DEF TillsOfSessions
<1>3. ASSUME UNCHANGED <<orders, cancellations, payments>>
      PROVE  BillsOfOrders' = BillsOfOrders
  <2>1. \A o : Captured(o)' = Captured(o)
    BY <1>3, MoneyUnchanged
  <2> QED BY <1>3, <2>1 DEF BillsOfOrders
<1> QED BY <1>1, <1>2, <1>3

\* A step that leaves the other orders' rows alone writes one bill.
LEMMA OneBill ==
  ASSUME NEW p \in Orders,
         \A x \in Orders : x # p => /\ orders'[x] = orders[x]
                                    /\ cancellations'[x] = cancellations[x]
                                    /\ Captured(x)' = Captured(x)
  PROVE  BillsOfOrders' = [BillsOfOrders EXCEPT ![p] =
           BillOf(orders'[p], cancellations'[p], Captured(p)')]
<1> DEFINE bill == BillOf(orders'[p], cancellations'[p], Captured(p)')
<1>1. BillsOfOrders'
        = [x \in Orders |-> BillOf(orders'[x], cancellations'[x], Captured(x)')]
  BY DEF BillsOfOrders, BillOf
<1>2. \A x \in Orders : x # p =>
        BillOf(orders'[x], cancellations'[x], Captured(x)')
          = BillOf(orders[x], cancellations[x], Captured(x))
  OBVIOUS
<1> HIDE DEF bill
<1>3. ASSUME NEW x \in Orders
      PROVE  BillsOfOrders'[x] = [BillsOfOrders EXCEPT ![p] = bill][x]
  <2>1. CASE x = p
    BY <1>1, <2>1 DEF BillsOfOrders, bill
  <2>2. CASE x # p
    BY <1>1, <1>2, <2>2 DEF BillsOfOrders
  <2> QED BY <2>1, <2>2
<1>4. [BillsOfOrders EXCEPT ![p] = bill] = [x \in Orders |-> [BillsOfOrders EXCEPT ![p] = bill][x]]
  BY DEF BillsOfOrders
<1> QED BY <1>1, <1>3, <1>4 DEF bill

\* An order's command opens, adjusts or voids its bill, or leaves it alone.
LEMMA OrderIsBilled ==
  ASSUME Types, MoneyOK, MoneyOK', NEW command \in Heard, NEW row,
         OrderWritten(command, row)
  PROVE  [Books!Next]_<<BillsOfOrders, TillsOfSessions, KeysCharged>>
<1> DEFINE p == command.order
           old == orders[p]
           captured == Captured(p)
           before == BillOf(old, cancellations[p], captured)
           after == BillOf(row, cancellations'[p], captured)
<1>1. /\ p \in Orders
      /\ orders'[p] = row /\ row \in OrderRows /\ row # Null
      /\ \A x \in Orders : x # p => orders'[x] = orders[x]
      /\ \A x \in Orders : x # p => cancellations'[x] = cancellations[x]
      /\ command.kind # "cancel" => cancellations'[p] = cancellations[p]
  BY OrderRowsAfter, RowsAndAggregates
<1>2. payments' = payments /\ sessions' = sessions
  BY DEF OrderWritten, cashTables
<1>3. \A x : Captured(x)' = Captured(x)
  BY <1>2, MoneyUnchanged
<1>4. UNCHANGED <<TillsOfSessions, KeysCharged>>
  BY <1>2, BooksStand
<1>5. /\ BillsOfOrders' = [BillsOfOrders EXCEPT ![p] = after]
      /\ BillsOfOrders[p] = before /\ BillsOfOrders'[p] = after
  <2>1. BillsOfOrders' = [BillsOfOrders EXCEPT ![p] =
          BillOf(orders'[p], cancellations'[p], Captured(p)')]
    BY <1>1, <1>3, OneBill
  <2>2. BillOf(orders'[p], cancellations'[p], Captured(p)') = after
    BY <1>1, <1>3
  <2> HIDE DEF after
  <2> QED BY <1>1, <2>1, <2>2, BooksOfRows DEF BillsOfOrders
<1>6. /\ captured \in Nat /\ Total(row) \in Nat
      /\ MoneyOf(old, cancellations[p], captured)
      /\ MoneyOf(row, cancellations'[p], captured)
  <2>1. Captured(p) \in Nat
    BY MoneyIsNat DEF Types, RowsOK
  <2>2. MoneyOf(orders'[p], cancellations'[p], Captured(p)')
    BY <1>1 DEF MoneyOK
  <2> QED BY <1>1, <1>3, <2>1, <2>2, CostIsNat DEF MoneyOK
<1>7. CASE command.kind = "create"
  <2>1. old = Null /\ row.status = "draft"
    BY <1>7 DEF OrderWritten
  <2>2. captured = 0 /\ cancellations[p] = Null /\ cancellations'[p] = Null
    BY <1>1, <1>6, <1>7, <2>1 DEF MoneyOf
  <2> HIDE DEF captured, old, p
  <2>3. /\ before.stage = "none"
        /\ after = [stage |-> "unpaid", due |-> Total(row), paid |-> 0,
                    owed |-> 0]
    BY <1>1, <2>1, <2>2 DEF BillOf, Stage, Owed
  <2> HIDE DEF before, after
  <2>4. /\ after.due = Total(row) /\ Total(row) >= 0
        /\ after = [stage |-> "unpaid", due |-> after.due, paid |-> 0,
                    owed |-> 0]
    BY <1>6, <2>3
  <2>5. Books!Bill(p)
    BY <1>4, <1>5, <2>3, <2>4 DEF Books!Bill
  <2> QED BY <1>1, <2>5 DEF Books!Next, p
<1>8. CASE command.kind = "cancel"
  <2>1. /\ old # Null /\ row.status = "cancelled"
        /\ old.status # "cancelled"
    BY <1>8 DEF OrderWritten
  <2>2. old.status \in OrderStates
    BY <1>1, <2>1, OrderKnown, RowsAndAggregates
  <2> HIDE DEF captured, old, p
  <2>3. Owed(cancellations'[p]) = captured
    BY <1>1, <1>6, <2>1 DEF MoneyOf, Owed
  <2>4. /\ before.stage \in {"unpaid", "partial", "paid"}
        /\ before.paid = captured
        /\ after = [stage |-> "void", due |-> 0, paid |-> captured,
                    owed |-> captured]
    BY <1>1, <2>1, <2>2, <2>3 DEF BillOf, Stage, OrderStates
  <2> HIDE DEF before, after
  <2>5. Books!Void(p)
    BY <1>4, <1>5, <2>4 DEF Books!Void
  <2> QED BY <1>1, <2>5 DEF Books!Next, p
<1>9. CASE command.kind \notin {"create", "cancel"}
  <2>1. /\ old # Null /\ MoneyStands(old, row)
        /\ cancellations'[p] = cancellations[p]
    BY <1>1, <1>9 DEF OrderWritten
  <2>2. /\ old.status \in OrderStates /\ row.status \in OrderStates
        /\ Total(old) \in Nat
    BY <1>1, <2>1, OrderKnown, RowsAndAggregates, CostIsNat
  <2> HIDE DEF captured, old, p
  <2>3. CASE row.status = "paid"
    <3>1. old.status = "paid" /\ Total(old) = Total(row)
      BY <2>1, <2>3 DEF MoneyStands
    <3>2. after = before
      BY <1>1, <2>1, <2>3, <3>1 DEF BillOf
    <3> HIDE DEF before, after
    <3>3. BillsOfOrders' = BillsOfOrders
      BY <1>1, <1>5, <3>2 DEF BillsOfOrders, p
    <3> QED BY <1>4, <3>3
  <2>4. CASE row.status # "paid"
    <3>1. /\ Stage(old.status) = Stage(row.status)
          /\ Stage(row.status) \in {"unpaid", "partial"}
          /\ row.status # "cancelled" /\ old.status # "cancelled"
      BY <2>1, <2>2, <2>4 DEF MoneyStands, Stage, OrderStates
    <3>2. /\ before = [stage |-> Stage(old.status), due |-> Total(old),
                       paid |-> captured, owed |-> Owed(cancellations[p])]
          /\ after = [stage |-> Stage(old.status), due |-> Total(row),
                      paid |-> captured, owed |-> Owed(cancellations[p])]
      BY <1>1, <2>1, <3>1 DEF BillOf
    <3>3. /\ before.stage \in {"unpaid", "partial"}
          /\ after.due = Total(row) /\ Total(row) >= 0
      BY <1>6, <3>1, <3>2
    <3>4. after = [before EXCEPT !.due = after.due]
      <4> DEFINE stage == Stage(old.status)
                 owed == Owed(cancellations[p])
      <4>1. /\ before = [stage |-> stage, due |-> Total(old),
                         paid |-> captured, owed |-> owed]
            /\ after = [stage |-> stage, due |-> Total(row),
                        paid |-> captured, owed |-> owed]
        BY <3>2
      <4> HIDE DEF before, after, stage, owed
      <4> QED BY <4>1
    <3>5. Books!Sound(after)
      <4>1. /\ after.stage = Stage(row.status) /\ after.paid = captured
            /\ after.due = Total(row)
        BY <3>1, <3>2
      <4>2. /\ Stage(row.status) = "unpaid" => captured = 0
            /\ Stage(row.status) = "partial"
                 => 0 < captured /\ captured < Total(row)
        BY <1>1, <1>6, <2>2, <3>1 DEF MoneyOf, Stage, OrderStates
      <4> HIDE DEF after
      <4> QED BY <3>1, <4>1, <4>2 DEF Books!Sound
    <3> HIDE DEF before, after
    <3>6. Books!Adjust(p)
      BY <1>4, <1>5, <3>3, <3>4, <3>5 DEF Books!Adjust
    <3> QED BY <1>1, <3>6 DEF Books!Next, p
  <2> QED BY <2>3, <2>4
<1> QED BY <1>7, <1>8, <1>9

\* A payment's key was not charged before, and is now.
LEMMA KeyIsNew ==
  ASSUME Types, ChargedOnce, NEW command \in Heard,
         command.kind \in {"collect", "settle"},
         NEW due, PaymentTaken(command, due)
  PROVE  /\ command.key \notin KeysCharged
         /\ KeysCharged' = KeysCharged \union {command.key}
<1> DEFINE x == <<"finance", command.key>>
           p == PaymentRow(command, due)
<1>1. /\ payments' = Append(payments, p) /\ p.key = command.key
      /\ payments \in Seq(Payments) /\ p \in Payments
  BY PaymentRows DEF Types, RowsOK
<1>2. x \notin DOMAIN journal
  <2>1. PaymentFiled(command, due)
    BY PaymentIsFiled
  <2>2. CASE Filed(command, "finance", Outcome(command, due))
    BY <2>2 DEF Filed
  <2>3. CASE ~Filed(command, "finance", Outcome(command, due))
    BY <2>1, <2>3 DEF PaymentFiled
  <2> QED BY <2>2, <2>3
<1>3. command.key \notin KeysCharged
  BY <1>2 DEF ChargedOnce, KeysCharged
<1> HIDE DEF p
<1>4. /\ Len(payments) \in Nat /\ DOMAIN payments = 1 .. Len(payments)
      /\ DOMAIN payments' = 1 .. (Len(payments) + 1)
      /\ payments'[Len(payments) + 1] = p
      /\ \A i \in 1 .. Len(payments) : payments'[i] = payments[i]
  <2>1. Len(payments) \in Nat /\ DOMAIN payments = 1 .. Len(payments)
    BY <1>1, LenProperties
  <2>2. /\ Len(payments') = Len(payments) + 1
        /\ payments'[Len(payments) + 1] = p
        /\ \A i \in 1 .. Len(payments) : payments'[i] = payments[i]
        /\ payments' \in Seq(Payments)
    BY <1>1, AppendProperties
  <2> QED BY <2>1, <2>2, LenProperties
<1>5. KeysCharged' = KeysCharged \union {command.key}
  <2>1. \A i \in DOMAIN payments' : \/ i \in DOMAIN payments
                                    \/ i = Len(payments) + 1
    BY <1>4
  <2>2. \A i \in DOMAIN payments : /\ i \in DOMAIN payments'
                                   /\ payments'[i] = payments[i]
    BY <1>4
  <2>3. Len(payments) + 1 \in DOMAIN payments'
    BY <1>4
  <2> QED BY <1>1, <1>4, <2>1, <2>2, <2>3 DEF KeysCharged
<1> QED BY <1>3, <1>5

\* A payment is a charge: of its order's bill, into its session's till, under
\* its key.
LEMMA PaymentIsCharged ==
  ASSUME Types, MoneyOK, ChargedOnce, NEW command \in Heard,
         command.kind \in {"collect", "settle"},
         NEW due, PaymentTaken(command, due)
  PROVE  Books!Next
<1> DEFINE o == command.order
           s == command.session
           payment == PaymentRow(command, due)
           into == IntoDrawer(command, due)
           left == Left(o)
           captured == Captured(o)
           bill == BillOf(orders[o], cancellations[o], captured)
           till == TillOf(sessions[s])
<1>1. /\ o \in Orders /\ s \in Sessions /\ payment \in Payments
      /\ payments' = Append(payments, payment)
      /\ payment.order = o /\ payment.amount = due
      /\ payment.tip = Tip(command)
      /\ \A x \in Orders : x # o => orders'[x] = orders[x]
      /\ \A x \in Sessions : x # s => sessions'[x] = sessions[x]
      /\ orders[o] \in OrderRows /\ Payable(orders[o])
      /\ orders'[o] \in OrderRows
      /\ orders'[o].status = IF due = left THEN "paid" ELSE "partially_paid"
      /\ Total(orders'[o]) = Total(orders[o])
      /\ sessions[s] \in SessionRows /\ sessions[s].status = "open"
      /\ sessions'[s] \in SessionRows
  BY PaymentRows
<1>2. /\ cancellations' = cancellations
      /\ due \in Nat \ {0} /\ due <= left
      /\ sessions' = [sessions EXCEPT ![s] =
           [sessions[s] EXCEPT !.version = @ + 1, !.drawer = @ + into]]
  BY DEF PaymentTaken, PaymentWritten, Awaits
<1>3. \A x : Captured(x)' = Captured(x) + (IF o = x THEN due ELSE 0)
  <2>1. payments \in Seq(Payments)
    BY DEF Types, RowsOK
  <2> HIDE DEF payment, o
  <2> QED BY <1>1, <2>1, MoneyAdds
<1>4. \A x : Captured(x) \in Nat
  BY MoneyIsNat DEF Types, RowsOK
<1>5. left = Total(orders[o]) - captured /\ Total(orders[o]) \in Nat
  BY <1>1, CostIsNat DEF Left
<1>6. /\ BillsOfOrders' = [BillsOfOrders EXCEPT ![o] =
           BillOf(orders'[o], cancellations[o], captured + due)]
      /\ BillsOfOrders[o] = bill
  <2>1. BillsOfOrders' = [BillsOfOrders EXCEPT ![o] =
          BillOf(orders'[o], cancellations'[o], Captured(o)')]
    BY <1>1, <1>2, <1>3, <1>4, OneBill
  <2> QED BY <1>1, <1>2, <1>3, <2>1, BooksOfRows
<1>7. /\ bill = [stage |-> Stage(orders[o].status), due |-> Total(orders[o]),
                 paid |-> captured, owed |-> Owed(cancellations[o])]
      /\ BillOf(orders'[o], cancellations[o], captured + due)
           = [stage |-> IF due = left THEN "paid" ELSE "partial",
              due |-> Total(orders[o]), paid |-> captured + due,
              owed |-> 0]
      /\ Stage(orders[o].status) \in {"unpaid", "partial"}
  <2>1. orders[o] # Null /\ orders'[o] # Null
    BY <1>1, RowsAndAggregates
  <2>2. cancellations[o] = Null
    BY <1>1, <2>1 DEF MoneyOK, MoneyOf, Payable
  <2> HIDE DEF captured, left, o
  <2> QED BY <1>1, <2>1, <2>2 DEF BillOf, Stage, Payable, Owed
<1>8. /\ TillsOfSessions' = [TillsOfSessions EXCEPT ![s].cash = @ + into]
      /\ TillsOfSessions'[s].cash - TillsOfSessions[s].cash = into
      /\ TillsOfSessions[s].state = "open"
      /\ into = 0 \/ into >= due
  <2>1. /\ sessions[s].drawer \in Nat /\ sessions[s].version \in Nat
        /\ sessions[s] # Null
    BY <1>1, RowAssumption DEF SessionRows
  <2>2. into \in Nat /\ (into = 0 \/ into >= due)
    <3>1. Tip(command) \in Nat
      BY <1>1 DEF Payments
    <3> QED BY <1>2, <3>1 DEF IntoDrawer
  <2> DEFINE new == [sessions[s] EXCEPT !.version = @ + 1, !.drawer = @ + into]
  <2>3. sessions'[s] = new /\ sessions'[s] # Null
    <3>1. sessions \in [Sessions -> SessionRows \union {Null}]
      BY DEF Types, RowsOK
    <3> HIDE DEF s
    <3> QED BY <1>1, <1>2, <3>1, RowAssumption
  <2> DEFINE after == TillOf(sessions'[s])
  <2>4. /\ till = [state |-> "open", cash |-> sessions[s].drawer,
                   counted |-> IF sessions[s].expected = Null THEN 0
                               ELSE sessions[s].expected]
        /\ after = [state |-> "open", cash |-> sessions[s].drawer + into,
                    counted |-> IF sessions[s].expected = Null THEN 0
                                ELSE sessions[s].expected]
    BY <1>1, <2>1, <2>3 DEF TillOf, SessionRows
  <2>5. /\ after = [till EXCEPT !.cash = @ + into]
        /\ till.cash = sessions[s].drawer /\ till.state = "open"
        /\ after.cash = sessions[s].drawer + into
    BY <2>4
  <2>6. /\ TillsOfSessions[s] = till /\ TillsOfSessions'[s] = after
        /\ \A x \in Sessions : x # s => TillsOfSessions'[x] = TillsOfSessions[x]
    BY <1>1 DEF TillsOfSessions
  <2> HIDE DEF till, after, into
  <2>7. TillsOfSessions' = [TillsOfSessions EXCEPT ![s] = after]
    BY <2>6 DEF TillsOfSessions
  <2> QED BY <2>1, <2>2, <2>5, <2>6, <2>7
<1>9. \E key \in KeysCharged' \ KeysCharged :
        KeysCharged' = KeysCharged \union {key}
  BY KeyIsNew
<1>10. Books!Charge(o, s)
  <2> DEFINE bills == BillsOfOrders
  <2>1. /\ bills[o].due - bills[o].paid = left
        /\ bills[o].stage \in {"unpaid", "partial"}
        /\ bills[o].paid = captured
    BY <1>5, <1>6, <1>7
  <2>2. due \in 1 .. left
    BY <1>2, <1>4, <1>5
  <2>3. bills' = [bills EXCEPT ![o] =
          [stage |-> IF due = left THEN "paid" ELSE "partial",
           due |-> bills[o].due, paid |-> bills[o].paid + due, owed |-> 0]]
    <3>1. bill.due = Total(orders[o]) /\ bill.paid = captured
      BY <1>7
    <3> HIDE DEF bill, left, captured, o
    <3> QED BY <1>6, <1>7, <3>1
  <2> HIDE DEF bills, left, into, o, s
  <2> QED BY <1>8, <1>9, <2>1, <2>2, <2>3 DEF Books!Charge, bills
<1> QED BY <1>1, <1>10 DEF Books!Next

\* A session is opened and closed as its till is.
LEMMA SessionIsTilled ==
  ASSUME Types, NEW command \in Heard,
         SessionOpened(command) \/ SessionClosed(command)
  PROVE  Books!Next
<1> DEFINE s == command.session
           till == TillOf(sessions[s])
           after == TillOf(sessions'[s])
<1>1. /\ s \in Sessions
      /\ sessions \in [Sessions -> SessionRows \union {Null}]
      /\ \A x \in Sessions : x # s => sessions'[x] = sessions[x]
      /\ sessions'[s] \in SessionRows /\ sessions'[s] # Null
  BY SessionAfter, RowAssumption DEF Types, RowsOK
<1>2. UNCHANGED <<BillsOfOrders, KeysCharged>>
  BY BooksStand DEF SessionOpened, SessionClosed, orderTables
<1>3. /\ TillsOfSessions' = [TillsOfSessions EXCEPT ![s] = after]
      /\ TillsOfSessions[s] = till
  BY <1>1 DEF TillsOfSessions
<1>4. CASE SessionOpened(command)
  <2>1. /\ sessions[s] = Null
        /\ \A x \in Sessions : sessions[x] # Null => sessions[x].status = "closed"
        /\ sessions'[s] = [status |-> "open", drawer |-> Float, version |-> 1,
                           expected |-> Null]
    BY <1>1, <1>4 DEF SessionOpened, MayOpen
  <2>2. /\ till = Books!NoTill
        /\ after = [state |-> "open", cash |-> Float, counted |-> 0]
    BY <1>1, <2>1 DEF TillOf, Books!NoTill
  <2>3. \A x \in Sessions : TillsOfSessions[x].state # "open"
    BY <2>1 DEF TillsOfSessions, TillOf
  <2> HIDE DEF till, after
  <2>4. Books!OpenTill(s)
    BY <1>2, <1>3, <2>2, <2>3 DEF Books!OpenTill
  <2> QED BY <1>1, <2>4 DEF Books!Next
<1>5. CASE SessionClosed(command)
  <2> DEFINE session == sessions[s]
             held == Movements(s)
  <2>1. /\ session # Null /\ session.status = "open" /\ session \in SessionRows
        /\ session.drawer = held
        /\ sessions'[s] = [session EXCEPT !.status = "closed",
                                          !.version = @ + 1, !.expected = held]
    BY <1>1, <1>5 DEF SessionClosed
  <2>2. held \in Nat /\ held # Null
    BY MoneyIsNat, StoreAssumption DEF Types, RowsOK
  <2> HIDE DEF held
  <2>3. /\ till.state = "open" /\ till.cash = held
        /\ after = [state |-> "closed", cash |-> held, counted |-> held]
    BY <1>1, <2>1, <2>2 DEF TillOf, SessionRows
  <2> HIDE DEF till, after
  <2>4. Books!CloseTill(s)
    BY <1>2, <1>3, <2>3 DEF Books!CloseTill
  <2> QED BY <1>1, <2>4 DEF Books!Next
<1> QED BY <1>4, <1>5

\* Every step of the services is an entry of the ledger, or none.
LEMMA StepsAreEntries ==
  ASSUME Types, MoneyOK, MoneyOK', ChargedOnce, [Next]_vars
  PROVE  [Books!Next]_<<BillsOfOrders, TillsOfSessions, KeysCharged>>
<1>1. ASSUME UNCHANGED <<orders, cancellations, payments, sessions>>
      PROVE  UNCHANGED <<BillsOfOrders, TillsOfSessions, KeysCharged>>
  BY <1>1, BooksStand
<1>2. CASE Quiet
  BY <1>1, <1>2 DEF Quiet, orderTables, cashTables
<1>3. ASSUME NEW command \in Heard, Moves(command)
      PROVE  [Books!Next]_<<BillsOfOrders, TillsOfSessions, KeysCharged>>
  <2>1. CASE TripMoved(command) \/ TripPrepaid(command)
    BY <1>1, <2>1 DEF TripMoved, TripPrepaid, orderTables, cashTables
  <2> QED BY <1>3, <2>1, OrderIsBilled, PaymentIsCharged, SessionIsTilled
          DEF Moves
<1> QED BY <1>2, <1>3, StepsMove

\* The books are empty at first.
LEMMA BooksInit == ASSUME Init PROVE Books!Init
<1>1. \A o : Captured(o) = 0
  BY EmptySeq, MoneyIsNat DEF Init
<1>2. KeysCharged = {}
  <2>1. DOMAIN <<>> = {}
    BY EmptySeq
  <2> QED BY <2>1 DEF Init, KeysCharged
<1>3. BillsOfOrders = [o \in Orders |-> Books!NoBill]
  BY <1>1 DEF Init, BillsOfOrders, BillOf, Owed, Books!NoBill
<1>4. TillsOfSessions = [s \in Sessions |-> Books!NoTill]
  BY DEF Init, TillsOfSessions, TillOf, Books!NoTill
<1> QED BY <1>2, <1>3, <1>4 DEF Books!Init

\* The services over one database implement the ledger: whatever interleaves,
\* repeats or is lost, their payments, orders, cancellations and sessions are
\* at every moment the books of a point of sale that takes one entry at a time.
THEOREM LedgerIsKept == Spec => Books!Spec /\ KeepsLedger
<1>1. Init => Books!Init
  BY BooksInit
<1>2. /\ Types /\ MoneyOK /\ (MoneyOK)' /\ ChargedOnce /\ [Next]_vars
      => [Books!Next]_<<BillsOfOrders, TillsOfSessions, KeysCharged>>
  BY StepsAreEntries
<1>3. [Books!Next]_<<BillsOfOrders, TillsOfSessions, KeysCharged>>
        => [\/ UNCHANGED <<orders, cancellations, payments, sessions>>
            \/ Books!Next]_<<BillsOfOrders, TillsOfSessions, KeysCharged>>
  OBVIOUS
<1> QED BY <1>1, <1>2, <1>3, MoneyStaysOK, EveryKeyIsChargedOnce, PTL
        DEF Spec, Books!Spec, Books!books, KeepsLedger
=============================================================================
