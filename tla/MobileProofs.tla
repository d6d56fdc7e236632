---------------------------- MODULE MobileProofs ----------------------------
(***************************************************************************)
(* Proofs about the waiter's phone.                                        *)
(*   MobileOrdering: plans of any length, any number of plans, attempts,   *)
(*     late calls and changes by others.                                   *)
(*   MobileAuthGate: any operators, any number of generations, sign-ins,   *)
(*     renewals and reads.                                                 *)
(***************************************************************************)
EXTENDS DeviceProperties, SequenceTheorems, WellFoundedInduction, TLAPS

(***************************************************************************)
(* Handing an order over.                                                  *)
(***************************************************************************)

\* What the server, an attempt and a request hold.
Begun == {"draft", "open"}
Past == {"open", "paid", "cancelled"}

Additions == [line : OrderLines, version : Nat]

MobileOrders ==
  [status : {"none"} \union Begun \union Past, version : Nat,
   added : Seq(Additions), gone : SUBSET OrderLines, opened : Nat,
   writers : Seq(Nat)]

Causes == {"none", "moved", "menu", "shift"}

Replies ==
  {Rejected, Waiting, [kind |-> "missing"]}
    \union [kind : {"conflict"}, why : Causes]
    \union [kind : {"summary"}, version : Nat, status : Begun,
            replayed : BOOLEAN]
    \union [kind : {"order"}, version : Nat, status : Begun,
            lines : SUBSET OrderLines]

UnderWay == {"create", "read", "add", "open"}

MobileAttempts ==
  [plan : 1 .. Plans, step : UnderWay \union {"sent", "conflict", "unavailable"},
   version : Nat, status : Begun, todo : SUBSET OrderLines, asked : Nat,
   reply : Replies, why : Causes]

\* How an attempt ends that may have left a request behind.
GivenUp == {"sent", "unavailable"}

MobileCalls ==
  [attempt : Nat, id : Nat, plan : 1 .. Plans, step : UnderWay, line : Nat,
   version : Nat, status : Begun, checked : BOOLEAN]

MobileTypeOK ==
  /\ orders \in [1 .. Plans -> MobileOrders]
  /\ attempts \in Seq(MobileAttempts)
  /\ calls \subseteq MobileCalls
  /\ phone.plan \in Nat \ {0}

-----------------------------------------------------------------------------

\* The additions an order has had.
Added(order) == {order.added[k] : k \in DOMAIN order.added}

\* What the history of an order implies of it: who can have written it (the
\* members, or an attempt up to most), what its statuses need, and that it was
\* opened with every line on it.  A version adds one line at most.
OrderSound(order, most) ==
  /\ Len(order.writers) = order.version
  /\ \A v \in 1 .. order.version : order.writers[v] \in 0 .. most
  /\ order # NoOrder => order.version >= 1 /\ order.status # "none"
  /\ order.status \in {"paid", "cancelled"} =>
       \E v \in 2 .. order.version : order.writers[v] = Members
  /\ order.opened # 0 =>
       OrderLines \subseteq OnOrder(order) /\ order.status \in Past
  /\ \A addition \in Added(order) : addition.version <= order.version
  /\ \A one, other \in Added(order) :
       one.version = other.version => one = other

\* An attempt has not written the order since a version.
Since(i, order, version) ==
  /\ version \in 1 .. order.version
  /\ \A v \in version + 1 .. order.version : order.writers[v] # i

\* Somebody else has written it since the version the attempt knows.
Moved(i, attempt, order) ==
  \E v \in attempt.version + 1 .. order.version : order.writers[v] # i

\* It has not written the order.
Untouched(i, order) == \A v \in 1 .. order.version : order.writers[v] # i

\* What a conflict says to the attempt that is told of it.
Told(why, i, attempt, order) ==
  /\ why = "moved" => Moved(i, attempt, order)
  /\ why = "shift" => Untouched(i, order)

\* Each version since is one that added a line of the plan, and those lines.
OnlyAdded(order, version) ==
  \A v \in version + 1 .. order.version :
    \E addition \in Added(order) : addition.version = v

AddedSince(order, version) ==
  {addition.line :
     addition \in {a \in Added(order) : a.version > version}}

\* What an attempt knows of an order at a version: the lines it does not miss
\* are on it for good, and if nothing but lines of the plan were added since
\* (by calls that an earlier attempt gave up), it is just as it was but for
\* those.
Knows(i, order, version, status, missing) ==
  /\ Since(i, order, version)
  /\ OrderLines \ missing \subseteq OnOrder(order)
  /\ status = "open" => order.status \in Past
  /\ OnlyAdded(order, version) =>
       /\ order.status = status
       /\ OnOrder(order) \intersect missing \subseteq AddedSince(order, version)

CreateSound(i, attempt, order) ==
  LET reply == attempt.reply
  IN \/ reply = Waiting /\ Untouched(i, order)
     \/ reply.kind = "conflict"
     \/ /\ reply.kind = "summary" /\ reply.version = 1
        /\ reply.status = "draft"
        /\ IF reply.replayed THEN Since(i, order, 1)
           ELSE Knows(i, order, 1, "draft", OrderLines)

ReadSound(i, attempt, order) ==
  LET reply == attempt.reply
  IN /\ attempt.version = 1 /\ attempt.status = "draft"
     /\ Since(i, order, 1)
     /\ \/ reply = Waiting
        \/ /\ reply.kind = "order"
           /\ Knows(i, order, reply.version, reply.status,
                    OrderLines \ reply.lines)
        \/ /\ reply.kind = "missing"
           /\ \E v \in 2 .. order.version : order.writers[v] = Members

AddSound(i, attempt, order) ==
  LET reply == attempt.reply
  IN /\ attempt.todo # {}
     /\ \/ /\ reply = Waiting
           /\ Knows(i, order, attempt.version, attempt.status, attempt.todo)
        \/ /\ reply.kind = "summary"
           /\ Knows(i, order, reply.version, reply.status,
                    Without(attempt.todo))
        \/ reply.kind \in {"conflict", "rejected"}

OpenSound(i, attempt, order) ==
  LET reply == attempt.reply
  IN /\ attempt.todo = {} /\ attempt.status = "draft"
     /\ \/ reply = Waiting /\ Knows(i, order, attempt.version, "draft", {})
        \/ reply.kind = "summary" /\ order.opened # 0
        \/ reply.kind \in {"conflict", "rejected"}

\* What an attempt knows, at each of its steps.
AttemptSound(i, attempt, order) ==
  /\ attempt.step = "create" => CreateSound(i, attempt, order)
  /\ attempt.step = "read" => ReadSound(i, attempt, order)
  /\ attempt.step = "add" => AddSound(i, attempt, order)
  /\ attempt.step = "open" => OpenSound(i, attempt, order)
  /\ attempt.step = "sent" =>
       OrderLines \subseteq OnOrder(order) /\ order.status \in Past
  /\ attempt.step = "conflict" => Told(attempt.why, i, attempt, order)
  /\ attempt.reply.kind = "conflict" =>
       Told(attempt.reply.why, i, attempt, order)
  /\ attempt.step \notin UnderWay => attempt.reply = Waiting

\* A request the attempt waits for says what the attempt knows; one it gave up
\* on may still be executed, and asks for nothing its plan does not hold.  An
\* attempt that was told of a conflict left none.
CallSound(call, attempt, order) ==
  /\ call.plan = attempt.plan /\ call.id <= attempt.asked
  /\ attempt.step \in UnderWay => call.id = attempt.asked
  /\ attempt.step # "conflict"
  /\ call.id = attempt.asked =>
       /\ call.step = attempt.step /\ attempt.reply = Waiting
       /\ call.step \in {"add", "open"} =>
            call.version = attempt.version /\ call.status = attempt.status
       /\ call.step = "add" => call.line = NextLine(attempt.todo)
  /\ call.step = "add" => call.line \in OrderLines
  /\ call.step = "open" => OrderLines \subseteq OnOrder(order)
  /\ call.step \in {"add", "open"} => call.version >= 1

\* The inductive invariant of the orders, the attempts and the requests.
MobileInv ==
  /\ MobileTypeOK
  /\ \A p \in 1 .. Plans : OrderSound(orders[p], Len(attempts))
  /\ \A i \in DOMAIN attempts :
       AttemptSound(i, attempts[i], orders[attempts[i].plan])
  /\ \A call \in calls :
       /\ call.attempt \in DOMAIN attempts
       /\ CallSound(call, attempts[call.attempt], orders[call.plan])
  /\ \A call, other \in calls :
       call.attempt = other.attempt /\ call.id = other.id => call = other

-----------------------------------------------------------------------------
(***************************************************************************)
(* What a write does to an order, whoever makes it.                        *)
(***************************************************************************)

\* An order is written once: a version and its writer more, no line less, and
\* a line more only where nothing else changes.
Grows(order, next, by) ==
  /\ next.version = order.version + 1
  /\ next.writers = Append(order.writers, by)
  /\ OnOrder(order) \subseteq OnOrder(next)
  /\ order.status \in Past => next.status \in Past
  /\ order.opened # 0 => next.opened # 0
  /\ Added(order) \subseteq Added(next)
  /\ \A addition \in Added(next) \ Added(order) :
       /\ addition.version = next.version
       /\ next.status = order.status
       /\ OnOrder(next) = OnOrder(order) \union {addition.line}

\* The lines on an order are those of its additions, all of the plan.
LEMMA LinesOfAdditions ==
  ASSUME NEW order \in MobileOrders
  PROVE  /\ OnOrder(order) \subseteq OrderLines
         /\ OnOrder(order) = {a.line : a \in Added(order)}
         /\ Added(order) \subseteq Additions
<1>1. order.added \in Seq(Additions)
  BY DEF MobileOrders
<1>2. \A k \in DOMAIN order.added : order.added[k] \in Additions
  BY <1>1, ElementOfSeq, LenProperties
<1> QED BY <1>2 DEF OnOrder, Added, Additions

\* An addition put after the others is the only one more.
LEMMA OneMoreAddition ==
  ASSUME NEW order \in MobileOrders, NEW next, NEW a \in Additions,
         next.added = Append(order.added, a)
  PROVE  /\ Added(next) = Added(order) \union {a}
         /\ OnOrder(next) = OnOrder(order) \union {a.line}
<1>1. order.added \in Seq(Additions)
  BY DEF MobileOrders
<1>2. /\ Len(next.added) = Len(order.added) + 1
      /\ next.added \in Seq(Additions)
      /\ \A k \in 1 .. Len(order.added) : next.added[k] = order.added[k]
      /\ next.added[Len(order.added) + 1] = a
  BY <1>1, AppendProperties
<1>3. /\ Len(order.added) \in Nat
      /\ DOMAIN order.added = 1 .. Len(order.added)
      /\ DOMAIN next.added = 1 .. Len(order.added) + 1
  BY <1>1, <1>2, LenProperties
<1>4. DOMAIN next.added = DOMAIN order.added \union {Len(order.added) + 1}
  BY <1>3
<1> HIDE DEF Additions
<1>5. Added(next) = Added(order) \union {a}
  <2>1. \A k \in DOMAIN next.added :
          IF k \in DOMAIN order.added THEN next.added[k] = order.added[k]
          ELSE next.added[k] = a
    BY <1>2, <1>3, <1>4
  <2>2. Added(next) \subseteq Added(order) \union {a}
    BY <2>1 DEF Added
  <2>3. Added(order) \subseteq Added(next)
    BY <2>1, <1>4 DEF Added
  <2>4. a \in Added(next)
    BY <1>2, <1>4 DEF Added
  <2> QED BY <2>2, <2>3, <2>4
<1>6. /\ OnOrder(next) = {x.line : x \in Added(next)}
      /\ OnOrder(order) = {x.line : x \in Added(order)}
  BY DEF OnOrder, Added
<1>7. OnOrder(next) = OnOrder(order) \union {a.line}
  BY <1>5, <1>6
<1> QED BY <1>5, <1>7

\* The versions an order had keep their writers, and the new one has its own.
LEMMA WritersStay ==
  ASSUME NEW order \in MobileOrders, NEW most, OrderSound(order, most),
         NEW by \in Nat, NEW next, Grows(order, next, by)
  PROVE  /\ Len(next.writers) = next.version
         /\ \A v \in 1 .. order.version : next.writers[v] = order.writers[v]
         /\ next.writers[order.version + 1] = by
         /\ order.version \in Nat
<1>1. order.writers \in Seq(Nat) /\ order.version \in Nat
  BY DEF MobileOrders
<1>2. Len(order.writers) = order.version
  BY DEF OrderSound
<1> QED BY <1>1, <1>2, AppendProperties DEF Grows

\* What an attempt knows of an order outlives a write of somebody else.
LEMMA KnowsStays ==
  ASSUME NEW order \in MobileOrders, NEW most, OrderSound(order, most),
         NEW by \in Nat, NEW next, Grows(order, next, by),
         NEW i, i # by
  PROVE  /\ \A version \in Nat :
              Since(i, order, version) => Since(i, next, version)
         /\ \A version \in Nat : \A status, missing :
              Knows(i, order, version, status, missing)
                => Knows(i, next, version, status, missing)
<1>1. /\ \A v \in 1 .. order.version : next.writers[v] = order.writers[v]
      /\ next.writers[order.version + 1] = by
      /\ next.version = order.version + 1
      /\ order.version \in Nat
  BY WritersStay DEF Grows
<1>2. ASSUME NEW version \in Nat, Since(i, order, version)
      PROVE  Since(i, next, version)
  BY <1>1, <1>2 DEF Since
<1>3. ASSUME NEW version \in Nat, NEW status, NEW missing,
             Knows(i, order, version, status, missing)
      PROVE  Knows(i, next, version, status, missing)
  <2>1. Since(i, order, version) /\ Since(i, next, version)
    BY <1>2, <1>3 DEF Knows
  <2>2. version <= order.version
    BY <1>1, <2>1 DEF Since
  <2>3. ASSUME OnlyAdded(next, version)
        PROVE  /\ next.status = status
               /\ OnOrder(next) \intersect missing
                    \subseteq AddedSince(next, version)
    <3>1. PICK new \in Added(next) : new.version = next.version
      BY <1>1, <2>2, <2>3 DEF OnlyAdded
    <3>2. new \notin Added(order)
      BY <1>1, <3>1 DEF OrderSound
    <3>3. /\ next.status = order.status
          /\ OnOrder(next) = OnOrder(order) \union {new.line}
          /\ Added(order) \subseteq Added(next)
      BY <3>1, <3>2 DEF Grows
    <3>4. OnlyAdded(order, version)
      <4> SUFFICES ASSUME NEW v \in version + 1 .. order.version
                   PROVE  \E a \in Added(order) : a.version = v
        BY DEF OnlyAdded
      <4>1. PICK a \in Added(next) : a.version = v
        BY <1>1, <2>3 DEF OnlyAdded
      <4>2. a.version # next.version
        BY <1>1, <4>1
      <4> QED BY <4>1, <4>2 DEF Grows
    <3>5. /\ order.status = status
          /\ OnOrder(order) \intersect missing
               \subseteq AddedSince(order, version)
      BY <1>3, <3>4 DEF Knows
    <3>6. AddedSince(order, version) \union {new.line}
             \subseteq AddedSince(next, version)
      BY <1>1, <2>2, <3>1, <3>3 DEF AddedSince
    <3> QED BY <3>3, <3>5, <3>6
  <2> QED BY <1>3, <2>1, <2>3 DEF Knows, Grows
<1> QED BY <1>2, <1>3

\* At the version an attempt knows, the order is as the attempt knows it, and
\* the other way round.
LEMMA KnowsNow ==
  ASSUME NEW order \in MobileOrders, NEW most, OrderSound(order, most),
         NEW version, order.version = version
  PROVE  \A i, status, missing :
           Knows(i, order, version, status, missing)
             <=> /\ Since(i, order, version)
                 /\ OrderLines \ missing \subseteq OnOrder(order)
                 /\ order.status = status
                 /\ OnOrder(order) \intersect missing = {}
<1>1. order.version \in Nat
  BY DEF MobileOrders
<1>2. \A a \in Added(order) : a.version \in Nat /\ a.version <= order.version
  BY LinesOfAdditions DEF OrderSound, Additions
<1>3. OnlyAdded(order, version)
  BY <1>1 DEF OnlyAdded
<1>4. AddedSince(order, version) = {}
  BY <1>1, <1>2 DEF AddedSince
<1> QED BY <1>3, <1>4 DEF Knows, Past

\* The members' write, and a conflict, stay in the history.
LEMMA MovedStays ==
  ASSUME NEW order \in MobileOrders, NEW most, OrderSound(order, most),
         NEW by \in Nat, NEW next, Grows(order, next, by),
         NEW i, NEW attempt \in MobileAttempts
  PROVE  /\ i # by => \A why :
              Told(why, i, attempt, order) => Told(why, i, attempt, next)
         /\ (\E v \in 2 .. order.version : order.writers[v] = Members)
              => \E v \in 2 .. next.version : next.writers[v] = Members
<1>1. /\ \A v \in 1 .. order.version : next.writers[v] = order.writers[v]
      /\ next.version = order.version + 1
      /\ order.version \in Nat
      /\ next.writers[order.version + 1] = by
      /\ attempt.version \in Nat
  BY WritersStay DEF Grows, MobileAttempts
<1>2. Moved(i, attempt, order) => Moved(i, attempt, next)
  BY <1>1 DEF Moved
<1>3. i # by /\ Untouched(i, order) => Untouched(i, next)
  BY <1>1 DEF Untouched
<1> QED BY <1>1, <1>2, <1>3 DEF Told

\* The line an attempt waits for is one it misses, and of the plan.
LEMMA NextLineIsOne ==
  ASSUME NEW todo \in SUBSET OrderLines, todo # {}
  PROVE  NextLine(todo) \in todo /\ NextLine(todo) \in OrderLines
<1> DEFINE less == {ss \in Nat \X Nat : ss[1] < ss[2]}
<1>1. OpToRel(<, Nat) = less
  BY DEF OpToRel
<1>2. IsWellFoundedOn(less, Nat)
  BY <1>1, NatLessThanWellFounded
<1>3. todo \subseteq Nat
  BY DEF OrderLines
<1>4. PICK l \in todo : \A k \in todo : ~(<<k, l>> \in less)
  BY <1>2, <1>3, WFMin
<1>5. ASSUME NEW k \in todo PROVE l <= k
  <2>1. l \in Nat /\ k \in Nat
    BY <1>3
  <2>2. k < l => <<k, l>> \in less
    BY <2>1
  <2> QED BY <1>4, <2>1, <2>2
<1> QED BY <1>5 DEF NextLine

\* What an attempt knows at its step, and what it was told, outlives a write of
\* somebody else; its success outlives any.
LEMMA AttemptStays ==
  ASSUME NEW order \in MobileOrders, NEW most, OrderSound(order, most),
         NEW by \in Nat, NEW next, Grows(order, next, by),
         NEW i, NEW attempt \in MobileAttempts,
         AttemptSound(i, attempt, order),
         i # by \/ attempt.step \in GivenUp
  PROVE  AttemptSound(i, attempt, next)
<1> DEFINE reply == attempt.reply
<1>1. /\ \A k \in 1 .. order.version : next.writers[k] = order.writers[k]
      /\ next.writers[order.version + 1] = by
      /\ next.version = order.version + 1
      /\ order.version \in Nat
  BY WritersStay DEF Grows
<1>0. attempt.version \in Nat
  BY DEF MobileAttempts
<1>2. /\ i # by => \A why :
           Told(why, i, attempt, order) => Told(why, i, attempt, next)
      /\ (\E v \in 2 .. order.version : order.writers[v] = Members)
           => \E v \in 2 .. next.version : next.writers[v] = Members
  BY MovedStays
<1>3. /\ reply.kind = "summary" => reply.version \in Nat
      /\ reply.kind = "order" => reply.version \in Nat
  BY DEF MobileAttempts, Replies, Rejected, Waiting
<1>4. CASE attempt.step \in GivenUp
  <2>1. /\ attempt.step \notin {"create", "read", "add", "open", "conflict"}
        /\ attempt.reply.kind # "conflict"
    BY <1>4 DEF UnderWay, GivenUp, AttemptSound, Waiting
  <2> QED BY <2>1 DEF AttemptSound, Grows
<1>5. CASE i # by
  <2>1. /\ \A version \in Nat :
              Since(i, order, version) => Since(i, next, version)
        /\ \A version \in Nat : \A status, missing :
              Knows(i, order, version, status, missing)
                => Knows(i, next, version, status, missing)
    BY <1>5, KnowsStays
  <2>2. CreateSound(i, attempt, order) => CreateSound(i, attempt, next)
    BY <1>0, <1>1, <1>3, <1>5, <2>1 DEF CreateSound, Untouched
  <2>3. ReadSound(i, attempt, order) => ReadSound(i, attempt, next)
    BY <1>0, <1>1, <1>2, <1>3, <2>1 DEF ReadSound
  <2>4. AddSound(i, attempt, order) => AddSound(i, attempt, next)
    BY <1>0, <1>1, <1>2, <1>3, <2>1 DEF AddSound
  <2>5. OpenSound(i, attempt, order) => OpenSound(i, attempt, next)
    BY <1>0, <1>1, <1>2, <1>3, <2>1 DEF OpenSound, Grows
  <2> QED BY <2>2, <2>3, <2>4, <2>5, <1>2, <1>5 DEF AttemptSound, Grows
<1> QED BY <1>4, <1>5

\* A write leaves the requests as sound as they were.
LEMMA CallStays ==
  ASSUME NEW order, NEW by, NEW next, Grows(order, next, by),
         NEW call, NEW attempt, CallSound(call, attempt, order)
  PROVE  CallSound(call, attempt, next)
BY DEF CallSound, Grows

\* What the writes of the members with a screen leave is an order.
LEMMA StaffWrites ==
  ASSUME NEW order \in MobileOrders, NEW most \in Nat,
         OrderSound(order, most), order.status \in Active,
         NEW next,
         \/ next = Write(order, Members)
         \/ next = [Write(order, Members) EXCEPT !.status = "cancelled"]
         \/ \E l \in OnOrder(order) :
              next = [Write(order, Members) EXCEPT !.gone = @ \union {l}]
         \/ \E s \in IF order.status = "draft" THEN {"open"} ELSE {"paid"} :
              next = [Write(order, Members) EXCEPT !.status = s]
  PROVE  /\ next \in MobileOrders
         /\ Grows(order, next, Members)
         /\ OrderSound(next, most)
<1> DEFINE written == Write(order, Members)
<1>1. /\ order.version \in Nat /\ order.version + 1 \in Nat
      /\ order.writers \in Seq(Nat) /\ order.gone \subseteq OrderLines
      /\ order.opened \in Nat /\ order.added \in Seq(Additions)
      /\ OnOrder(order) \subseteq OrderLines
  BY LinesOfAdditions DEF MobileOrders
<1>2. /\ Append(order.writers, Members) \in Seq(Nat)
      /\ Len(Append(order.writers, Members)) = order.version + 1
      /\ \A v \in 1 .. order.version :
           Append(order.writers, Members)[v] = order.writers[v]
      /\ Append(order.writers, Members)[order.version + 1] = 0
  BY <1>1, AppendProperties DEF Members, OrderSound
<1>3. /\ written = [order EXCEPT !.version = order.version + 1,
                                 !.writers = Append(order.writers, Members)]
  BY DEF Write
<1>4. /\ written \in MobileOrders
      /\ written.version = order.version + 1
      /\ written.writers = Append(order.writers, Members)
      /\ written.added = order.added /\ written.opened = order.opened
      /\ written.status = order.status /\ written.gone = order.gone
  BY <1>1, <1>2, <1>3 DEF MobileOrders
<1> HIDE DEF written
<1>5. /\ next \in MobileOrders
      /\ next.version = order.version + 1
      /\ next.writers = Append(order.writers, Members)
      /\ next.added = order.added /\ next.opened = order.opened
      /\ \/ next.status = order.status
         \/ next.status = "cancelled"
         \/ order.status = "draft" /\ next.status = "open"
         \/ order.status = "open" /\ next.status = "paid"
  <2>1. CASE next = written
    BY <1>4, <2>1
  <2>2. CASE next = [written EXCEPT !.status = "cancelled"]
    BY <1>4, <2>2 DEF MobileOrders, Past
  <2>3. CASE \E l \in OnOrder(order) :
               next = [written EXCEPT !.gone = @ \union {l}]
    <3>1. PICK l \in OnOrder(order) :
                 next = [written EXCEPT !.gone = @ \union {l}]
      BY <2>3
    <3> QED BY <1>1, <1>4, <3>1 DEF MobileOrders
  <2>4. CASE \E s \in IF order.status = "draft" THEN {"open"} ELSE {"paid"} :
               next = [written EXCEPT !.status = s]
    <3>1. PICK s \in IF order.status = "draft" THEN {"open"} ELSE {"paid"} :
                 next = [written EXCEPT !.status = s]
      BY <2>4
    <3> QED BY <1>4, <3>1 DEF MobileOrders, Past, Active
  <2> QED BY <2>1, <2>2, <2>3, <2>4 DEF written
<1>6. Added(next) = Added(order) /\ OnOrder(next) = OnOrder(order)
  BY <1>5 DEF Added, OnOrder
<1>7. Grows(order, next, Members)
  BY <1>5, <1>6 DEF Grows, Past, Active
<1>8. order # NoOrder /\ order.version >= 1 /\ order.status \notin {"none", "paid", "cancelled"}
  BY DEF Active, NoOrder, OrderSound
<1>9. OrderSound(next, most)
  <2>1. \A v \in 1 .. next.version : next.writers[v] \in 0 .. most
    <3> SUFFICES ASSUME NEW v \in 1 .. next.version
                 PROVE  next.writers[v] \in 0 .. most
      OBVIOUS
    <3>1. v \in 1 .. order.version \/ v = order.version + 1
      BY <1>1, <1>5
    <3> QED BY <1>2, <1>5, <3>1 DEF OrderSound
  <2>2. next.status # "none" /\ next.version >= 1
    BY <1>1, <1>5, <1>8
  <2>3. \E v \in 2 .. next.version : next.writers[v] = Members
    <3>1. order.version + 1 \in 2 .. next.version
      BY <1>1, <1>5, <1>8
    <3> QED BY <1>2, <1>5, <3>1 DEF Members
  <2>4. next.opened # 0 =>
          OrderLines \subseteq OnOrder(next) /\ next.status \in Past
    BY <1>5, <1>6 DEF OrderSound, Past, Active
  <2>5. \A addition \in Added(next) : addition.version <= next.version
    <3>1. \A addition \in Added(order) : addition.version \in Nat
      BY LinesOfAdditions DEF Additions
    <3> QED BY <1>1, <1>5, <1>6, <3>1 DEF OrderSound
  <2>6. Len(next.writers) = next.version
    BY <1>2, <1>5
  <2> QED BY <1>6, <2>1, <2>2, <2>3, <2>4, <2>5, <2>6 DEF OrderSound
<1> QED BY <1>5, <1>7, <1>9

\* What an attempt writes: the order it creates, a line of the plan, the
\* opening of an order that has them all.
LEMMA AttemptWrites ==
  ASSUME NEW order \in MobileOrders, NEW most \in Nat,
         OrderSound(order, most), NEW by \in 1 .. most, NEW next,
         \/ /\ order = NoOrder
            /\ next = Write([NoOrder EXCEPT !.status = "draft"], by)
         \/ /\ order # NoOrder
            /\ \E call \in MobileCalls :
                 /\ call.attempt = by /\ next = Mutated(order, call)
                 /\ \/ call.step = "add" /\ call.line \in OrderLines
                    \/ call.step = "open" /\ OrderLines \subseteq OnOrder(order)
  PROVE  /\ next \in MobileOrders
         /\ Grows(order, next, by)
         /\ OrderSound(next, most)
<1>1. /\ order.version \in Nat /\ order.version + 1 \in Nat
      /\ order.writers \in Seq(Nat) /\ by \in Nat
      /\ order.opened \in Nat /\ order.added \in Seq(Additions)
  BY DEF MobileOrders
<1>2. /\ Append(order.writers, by) \in Seq(Nat)
      /\ Len(Append(order.writers, by)) = order.version + 1
      /\ \A v \in 1 .. order.version :
           Append(order.writers, by)[v] = order.writers[v]
      /\ Append(order.writers, by)[order.version + 1] = by
  BY <1>1, AppendProperties DEF OrderSound
<1> DEFINE a(l) == [line |-> l, version |-> order.version + 1]
<1>3. /\ next \in MobileOrders
      /\ next.version = order.version + 1
      /\ next.writers = Append(order.writers, by)
      /\ \/ /\ next.status = order.status /\ next.opened = order.opened
            /\ order # NoOrder
            /\ \E l \in OrderLines : next.added = Append(order.added, a(l))
         \/ /\ next.status = "open" /\ next.opened # 0
            /\ next.added = order.added /\ OrderLines \subseteq OnOrder(order)
         \/ /\ order = NoOrder /\ next.status = "draft" /\ next.opened = 0
            /\ next.added = order.added
  <2>1. CASE order = NoOrder
    <3>1. next = [NoOrder EXCEPT !.status = "draft", !.version = 1,
                                 !.writers = Append(<<>>, by)]
      BY <2>1 DEF Write, NoOrder
    <3>2. NoOrder = order /\ order.version = 0 /\ order.writers = <<>>
          /\ order.opened = 0
      BY <2>1 DEF NoOrder
    <3>3. next \in MobileOrders
      BY <1>1, <1>2, <3>1, <3>2 DEF MobileOrders, Begun
    <3> QED BY <2>1, <3>1, <3>2, <3>3 DEF NoOrder
  <2>2. CASE order # NoOrder
    <3>1. PICK call \in MobileCalls :
                 /\ call.attempt = by /\ next = Mutated(order, call)
                 /\ \/ call.step = "add" /\ call.line \in OrderLines
                    \/ call.step = "open" /\ OrderLines \subseteq OnOrder(order)
      BY <2>2
    <3> DEFINE written == Write(order, by)
    <3>2. written = [order EXCEPT !.version = order.version + 1,
                                  !.writers = Append(order.writers, by)]
      BY DEF Write
    <3>3. /\ written \in MobileOrders
          /\ written.version = order.version + 1
          /\ written.writers = Append(order.writers, by)
          /\ written.added = order.added /\ written.opened = order.opened
          /\ written.status = order.status
      BY <1>1, <1>2, <3>2 DEF MobileOrders
    <3> HIDE DEF written
    <3>4. CASE call.step = "add" /\ call.line \in OrderLines
      <4>1. next = [written EXCEPT !.added =
                      Append(order.added, a(call.line))]
        BY <3>1, <3>3, <3>4 DEF Mutated, written
      <4>2. a(call.line) \in Additions
        BY <1>1, <3>4 DEF Additions
      <4>3. Append(order.added, a(call.line)) \in Seq(Additions)
        BY <1>1, <4>2, AppendProperties
      <4> HIDE DEF a
      <4>4. next \in MobileOrders
        BY <3>3, <4>1, <4>3 DEF MobileOrders
      <4>5. next.added = Append(order.added, a(call.line))
        BY <3>3, <4>1 DEF MobileOrders
      <4> QED BY <2>2, <3>3, <3>4, <4>1, <4>4, <4>5
    <3>5. CASE call.step = "open" /\ OrderLines \subseteq OnOrder(order)
      <4>1. next = [written EXCEPT !.status = "open",
                                   !.opened = order.version + 1]
        BY <3>1, <3>3, <3>5 DEF Mutated, written
      <4>2. next \in MobileOrders
        BY <1>1, <3>3, <4>1 DEF MobileOrders, Begun
      <4> QED BY <1>1, <3>3, <3>5, <4>1, <4>2
    <3> QED BY <3>1, <3>4, <3>5
  <2> QED BY <2>1, <2>2
<1>4. \/ Added(next) = Added(order) /\ OnOrder(next) = OnOrder(order)
      \/ /\ next.status = order.status
         /\ \E l \in OrderLines :
              /\ Added(next) = Added(order) \union {a(l)}
              /\ OnOrder(next) = OnOrder(order) \union {l}
  <2>1. CASE next.added = order.added
    BY <2>1 DEF Added, OnOrder
  <2>2. CASE /\ next.status = order.status
             /\ \E l \in OrderLines : next.added = Append(order.added, a(l))
    <3>1. PICK l \in OrderLines : next.added = Append(order.added, a(l))
      BY <2>2
    <3>2. a(l) \in Additions /\ a(l).line = l
      BY <1>1 DEF Additions
    <3> HIDE DEF a
    <3> QED BY <2>2, <3>1, <3>2, OneMoreAddition
  <2> QED BY <1>3, <2>1, <2>2
<1>5. \A l : a(l).version = order.version + 1 /\ a(l).line = l
  OBVIOUS
<1> HIDE DEF a
<1>6. Grows(order, next, by)
  <2>1. order.status \in Past => next.status \in Past
    BY <1>3 DEF Past, NoOrder
  <2>2. order.opened # 0 => next.opened # 0
    BY <1>3 DEF NoOrder
  <2> QED BY <1>3, <1>4, <1>5, <2>1, <2>2 DEF Grows
<1>7. OrderSound(next, most)
  <2>1. \A v \in 1 .. next.version : next.writers[v] \in 0 .. most
    <3> SUFFICES ASSUME NEW v \in 1 .. next.version
                 PROVE  next.writers[v] \in 0 .. most
      OBVIOUS
    <3>1. v \in 1 .. order.version \/ v = order.version + 1
      BY <1>1, <1>3
    <3> QED BY <1>2, <1>3, <3>1 DEF OrderSound
  <2>2. next.status # "none" /\ next.version >= 1
    BY <1>1, <1>3 DEF OrderSound
  <2>3. next.status \in {"paid", "cancelled"} =>
          \E v \in 2 .. next.version : next.writers[v] = Members
    <3> SUFFICES ASSUME next.status \in {"paid", "cancelled"}
                 PROVE  \E v \in 2 .. next.version : next.writers[v] = Members
      OBVIOUS
    <3>1. order.status = next.status
      BY <1>3
    <3>2. PICK v \in 2 .. order.version : order.writers[v] = Members
      BY <3>1 DEF OrderSound
    <3>3. v \in 1 .. order.version /\ v \in 2 .. next.version
      BY <1>1, <1>3
    <3>4. next.writers[v] = order.writers[v]
      BY <1>2, <1>3, <3>3
    <3> QED BY <3>2, <3>3, <3>4
  <2>4. next.opened # 0 =>
          OrderLines \subseteq OnOrder(next) /\ next.status \in Past
    BY <1>3, <1>4 DEF OrderSound, Past
  <2>5. \A addition \in Added(next) : addition.version <= next.version
    <3>1. \A addition \in Added(order) :
             addition.version \in Nat /\ addition.version <= order.version
      BY LinesOfAdditions DEF Additions, OrderSound
    <3> QED BY <1>1, <1>3, <1>4, <1>5, <3>1
  <2>6. Len(next.writers) = next.version
    BY <1>2, <1>3
  <2>7. \A one, other \in Added(next) :
          one.version = other.version => one = other
    <3>1. \A x \in Added(order) :
             x.version \in Nat /\ x.version # order.version + 1
      BY <1>1, LinesOfAdditions DEF Additions, OrderSound
    <3> QED BY <1>4, <1>5, <3>1 DEF OrderSound
  <2> QED BY <2>1, <2>2, <2>3, <2>4, <2>5, <2>6, <2>7 DEF OrderSound
<1> QED BY <1>3, <1>6, <1>7

-----------------------------------------------------------------------------
(***************************************************************************)
(* The server's steps: what each leaves of the invariant.                  *)
(***************************************************************************)

\* What the invariant says of one attempt and of one request.
LEMMA MobileParts ==
  ASSUME MobileInv
  PROVE  /\ Len(attempts) \in Nat /\ DOMAIN attempts = 1 .. Len(attempts)
         /\ \A i \in DOMAIN attempts :
              /\ attempts[i] \in MobileAttempts
              /\ attempts[i].plan \in 1 .. Plans
              /\ AttemptSound(i, attempts[i], orders[attempts[i].plan])
         /\ \A p \in 1 .. Plans :
              /\ orders[p] \in MobileOrders
              /\ OrderSound(orders[p], Len(attempts))
         /\ \A call \in calls :
              /\ call \in MobileCalls /\ call.attempt \in DOMAIN attempts
              /\ call.plan \in 1 .. Plans
              /\ CallSound(call, attempts[call.attempt], orders[call.plan])
<1>1. /\ attempts \in Seq(MobileAttempts) /\ calls \subseteq MobileCalls
      /\ orders \in [1 .. Plans -> MobileOrders]
  BY DEF MobileInv, MobileTypeOK
<1>2. Len(attempts) \in Nat /\ DOMAIN attempts = 1 .. Len(attempts)
  BY <1>1, LenProperties
<1>3. \A i \in DOMAIN attempts : attempts[i] \in MobileAttempts
  BY <1>1, <1>2, ElementOfSeq
<1>4. \A i \in DOMAIN attempts : attempts[i].plan \in 1 .. Plans
  BY <1>3 DEF MobileAttempts
<1>5. \A call \in calls : call \in MobileCalls /\ call.plan \in 1 .. Plans
  BY <1>1 DEF MobileCalls
<1> QED BY <1>1, <1>2, <1>3, <1>4, <1>5 DEF MobileInv

\* An order that is written stays sound, and so do the attempts that did not
\* write it and every request.
LEMMA OrderWritten ==
  ASSUME MobileInv, NEW p \in 1 .. Plans, NEW next \in MobileOrders,
         NEW by \in Nat, Grows(orders[p], next, by),
         OrderSound(next, Len(attempts)),
         orders' = [orders EXCEPT ![p] = next]
  PROVE  /\ orders' \in [1 .. Plans -> MobileOrders]
         /\ \A q \in 1 .. Plans : OrderSound(orders'[q], Len(attempts))
         /\ \A i \in DOMAIN attempts :
              \/ i # by \/ attempts[i].step \in GivenUp
              \/ attempts[i].plan # p
              => AttemptSound(i, attempts[i], orders'[attempts[i].plan])
         /\ \A call \in calls :
              CallSound(call, attempts[call.attempt], orders'[call.plan])
<1>1. orders \in [1 .. Plans -> MobileOrders]
  BY DEF MobileInv, MobileTypeOK
<1>2. orders'[p] = next /\ \A q \in 1 .. Plans \ {p} : orders'[q] = orders[q]
  BY <1>1
<1>3. orders' \in [1 .. Plans -> MobileOrders]
  BY <1>1
<1>4. \A q \in 1 .. Plans : OrderSound(orders'[q], Len(attempts))
  BY <1>2, MobileParts
<1>5. ASSUME NEW i \in DOMAIN attempts,
             \/ i # by \/ attempts[i].step \in GivenUp
             \/ attempts[i].plan # p
      PROVE  AttemptSound(i, attempts[i], orders'[attempts[i].plan])
  <2>1. /\ attempts[i] \in MobileAttempts /\ attempts[i].plan \in 1 .. Plans
        /\ AttemptSound(i, attempts[i], orders[attempts[i].plan])
    BY MobileParts
  <2>2. CASE attempts[i].plan # p
    BY <1>2, <2>1, <2>2
  <2>3. CASE attempts[i].plan = p
    <3>1. orders[p] \in MobileOrders /\ OrderSound(orders[p], Len(attempts))
      BY MobileParts
    <3>2. AttemptSound(i, attempts[i], next)
      BY <1>5, <2>1, <2>3, <3>1, AttemptStays
    <3> QED BY <1>2, <2>3, <3>2
  <2> QED BY <2>2, <2>3
<1>6. ASSUME NEW call \in calls
      PROVE  CallSound(call, attempts[call.attempt], orders'[call.plan])
  <2>1. /\ call.plan \in 1 .. Plans
        /\ CallSound(call, attempts[call.attempt], orders[call.plan])
    BY MobileParts
  <2>2. CASE call.plan # p
    BY <1>2, <2>1, <2>2
  <2>3. CASE call.plan = p
    BY <1>2, <2>1, <2>3, CallStays
  <2> QED BY <2>2, <2>3
<1> QED BY <1>3, <1>4, <1>5, <1>6

\* An answer that suits the attempt that waits for it keeps the invariant; one
\* nobody waits for any more changes no attempt.
LEMMA AnswerKeeps ==
  ASSUME MobileInv, NEW call \in calls, NEW reply \in Replies,
         reply # Waiting, Answer(call, reply),
         orders' \in [1 .. Plans -> MobileOrders],
         \A q \in 1 .. Plans : OrderSound(orders'[q], Len(attempts)),
         \A i \in DOMAIN attempts :
           i # call.attempt \/ attempts[i].asked # call.id
             => AttemptSound(i, attempts[i], orders'[attempts[i].plan]),
         attempts[call.attempt].asked = call.id =>
           AttemptSound(call.attempt,
                        [attempts[call.attempt] EXCEPT !.reply = reply],
                        orders'[attempts[call.attempt].plan]),
         \A other \in calls :
           CallSound(other, attempts[other.attempt], orders'[other.plan])
  PROVE  MobileInv'
<1> DEFINE i == call.attempt
           answered == [attempts[i] EXCEPT !.reply = reply]
<1>1. /\ attempts \in Seq(MobileAttempts) /\ calls \subseteq MobileCalls
      /\ phone.plan \in Nat \ {0} /\ phone' = phone
  BY DEF MobileInv, MobileTypeOK, Answer
<1>2. /\ call \in MobileCalls /\ i \in DOMAIN attempts
      /\ CallSound(call, attempts[i], orders[call.plan])
      /\ \A j \in DOMAIN attempts : attempts[j] \in MobileAttempts
  BY MobileParts
<1>3. calls' = calls \ {call}
  BY DEF Answer
<1>4. /\ answered \in MobileAttempts
      /\ answered.plan = attempts[i].plan /\ answered.asked = attempts[i].asked
      /\ answered.step = attempts[i].step
      /\ answered.version = attempts[i].version
      /\ answered.status = attempts[i].status /\ answered.todo = attempts[i].todo
      /\ answered.reply = reply
  BY <1>2 DEF MobileAttempts
<1> HIDE DEF answered
<1>5. CASE attempts[i].asked # call.id
  <2>1. attempts' = attempts
    BY <1>5 DEF Answer
  <2>2. MobileTypeOK'
    BY <1>1, <1>3, <2>1 DEF MobileTypeOK
  <2> QED BY <1>2, <1>3, <1>5, <2>1, <2>2 DEF MobileInv
<1>6. CASE attempts[i].asked = call.id
  <2>1. attempts' = [attempts EXCEPT ![i] = answered]
    BY <1>6 DEF Answer, answered
  <2>2. /\ attempts' \in Seq(MobileAttempts)
        /\ DOMAIN attempts' = DOMAIN attempts /\ Len(attempts') = Len(attempts)
        /\ attempts'[i] = answered
        /\ \A j \in DOMAIN attempts \ {i} : attempts'[j] = attempts[j]
    BY <1>1, <1>2, <1>4, <2>1, ExceptSeq
  <2>3. MobileTypeOK'
    BY <1>1, <1>3, <2>2 DEF MobileTypeOK
  <2>4. \A j \in DOMAIN attempts' :
          AttemptSound(j, attempts'[j], orders'[attempts'[j].plan])
    <3>1. AttemptSound(i, answered, orders'[answered.plan])
      BY <1>4, <1>6 DEF answered
    <3> QED BY <2>2, <3>1
  <2>5. ASSUME NEW other \in calls'
        PROVE  /\ other.attempt \in DOMAIN attempts'
               /\ CallSound(other, attempts'[other.attempt],
                            orders'[other.plan])
    <3>1. /\ other \in calls /\ other # call
          /\ other.attempt \in DOMAIN attempts
          /\ CallSound(other, attempts[other.attempt], orders'[other.plan])
      BY <1>3, MobileParts
    <3>2. CASE other.attempt # i
      BY <2>2, <3>1, <3>2
    <3>3. CASE other.attempt = i
      <4>1. other.id # call.id
        BY <3>1, <3>3 DEF MobileInv
      <4> QED BY <1>4, <1>6, <2>2, <3>1, <3>3, <4>1 DEF CallSound
    <3> QED BY <3>2, <3>3
  <2>6. \A one, other \in calls' :
          one.attempt = other.attempt /\ one.id = other.id => one = other
    BY <1>3 DEF MobileInv
  <2> QED BY <2>2, <2>3, <2>4, <2>5, <2>6 DEF MobileInv
<1> QED BY <1>5, <1>6

\* A request that is answered as the order is, with nothing written.
LEMMA AnswerReads ==
  ASSUME MobileInv, NEW call \in calls, NEW reply \in Replies,
         reply # Waiting, Answer(call, reply), orders' = orders,
         attempts[call.attempt].asked = call.id =>
           AttemptSound(call.attempt,
                        [attempts[call.attempt] EXCEPT !.reply = reply],
                        orders[attempts[call.attempt].plan])
  PROVE  MobileInv'
<1>1. orders' \in [1 .. Plans -> MobileOrders]
  BY DEF MobileInv, MobileTypeOK
<1> QED BY <1>1, MobileParts, AnswerKeeps

\* An attempt a request is for: the one that waits for it has no answer yet and
\* is at the step that asked; one that gave it up is at its end.
LEMMA WhoWaits ==
  ASSUME MobileInv, NEW call \in calls
  PROVE  /\ call \in MobileCalls /\ call.attempt \in 1 .. Len(attempts)
         /\ Len(attempts) \in Nat
         /\ attempts[call.attempt] \in MobileAttempts
         /\ call.plan = attempts[call.attempt].plan
         /\ call.plan \in 1 .. Plans
         /\ AttemptSound(call.attempt, attempts[call.attempt],
                         orders[call.plan])
         /\ OrderSound(orders[call.plan], Len(attempts))
         /\ orders[call.plan] \in MobileOrders
         /\ CallSound(call, attempts[call.attempt], orders[call.plan])
         /\ attempts[call.attempt].asked # call.id =>
              attempts[call.attempt].step \in GivenUp
         /\ attempts[call.attempt].asked = call.id =>
              /\ attempts[call.attempt].step = call.step
              /\ attempts[call.attempt].reply = Waiting
<1>1. /\ call \in MobileCalls /\ call.attempt \in DOMAIN attempts
      /\ CallSound(call, attempts[call.attempt], orders[call.plan])
      /\ attempts[call.attempt] \in MobileAttempts
  BY MobileParts
<1>2. attempts[call.attempt].asked # call.id =>
        attempts[call.attempt].step \in GivenUp
  BY <1>1 DEF CallSound, MobileAttempts, GivenUp
<1> QED BY <1>1, <1>2, MobileParts DEF CallSound

\* The members with a screen write an order.
LEMMA StaffKeeps ==
  ASSUME MobileInv, NEW p \in 1 .. Plans, Staff(p)
  PROVE  MobileInv'
<1> DEFINE order == orders[p]
           written == Write(order, Members)
<1>1. /\ order.status \in Active
      /\ UNCHANGED <<attempts, calls, phone>>
  BY DEF Staff
<1>2. PICK next :
        /\ orders' = [orders EXCEPT ![p] = next]
        /\ \/ next = written
           \/ next = [written EXCEPT !.status = "cancelled"]
           \/ \E l \in OnOrder(order) :
                next = [written EXCEPT !.gone = @ \union {l}]
           \/ \E s \in IF order.status = "draft" THEN {"open"} ELSE {"paid"} :
                next = [written EXCEPT !.status = s]
  BY Zenon DEF Staff
<1>3. order \in MobileOrders /\ OrderSound(order, Len(attempts))
      /\ Len(attempts) \in Nat
  BY MobileParts
<1> HIDE DEF order
<1>4. /\ next \in MobileOrders /\ Grows(order, next, Members)
      /\ OrderSound(next, Len(attempts))
  BY <1>1, <1>2, <1>3, StaffWrites
<1>5. /\ orders' \in [1 .. Plans -> MobileOrders]
      /\ \A q \in 1 .. Plans : OrderSound(orders'[q], Len(attempts))
      /\ \A i \in DOMAIN attempts :
           i # Members => AttemptSound(i, attempts[i], orders'[attempts[i].plan])
      /\ \A call \in calls :
           CallSound(call, attempts[call.attempt], orders'[call.plan])
  BY <1>2, <1>4, OrderWritten DEF order, Members
<1>6. \A i \in DOMAIN attempts : i # Members
  BY MobileParts DEF Members
<1> QED BY <1>1, <1>5, <1>6 DEF MobileInv, MobileTypeOK

\* A summary is an answer, and not the waiting for one.
LEMMA SummaryIsReply ==
  ASSUME NEW version \in Nat, NEW status \in Begun, NEW replayed \in BOOLEAN
  PROVE  LET reply == Summary(version, status, replayed)
         IN /\ reply \in Replies /\ reply # Waiting
            /\ reply.kind = "summary" /\ reply.version = version
            /\ reply.status = status /\ reply.replayed = replayed
BY DEF Summary, Replies, Waiting

\* So is a conflict.
LEMMA ConflictIsReply ==
  ASSUME NEW why \in Causes
  PROVE  /\ Conflict(why) \in Replies /\ Conflict(why) # Waiting
         /\ Conflict(why).kind = "conflict" /\ Conflict(why).why = why
BY DEF Conflict, Replies, Waiting

\* An attempt once answered has the answer, and is otherwise as it was.
LEMMA AnsweredFields ==
  ASSUME NEW attempt \in MobileAttempts, NEW reply
  PROVE  LET answered == [attempt EXCEPT !.reply = reply]
         IN /\ answered.reply = reply
            /\ answered.plan = attempt.plan /\ answered.step = attempt.step
            /\ answered.version = attempt.version
            /\ answered.status = attempt.status
            /\ answered.todo = attempt.todo /\ answered.asked = attempt.asked
            /\ answered.why = attempt.why
BY DEF MobileAttempts

\* A request that goes on to its transaction is the request it was.
LEMMA CheckedKeeps ==
  ASSUME MobileInv, NEW call \in calls, Checked(call), orders' = orders
  PROVE  MobileInv'
<1> DEFINE i == call.attempt
           checked == [call EXCEPT !.checked = TRUE]
<1>1. /\ calls' = (calls \ {call}) \union {checked}
      /\ attempts' = attempts /\ phone' = phone
  BY DEF Checked
<1>2. /\ call \in MobileCalls /\ i \in DOMAIN attempts
      /\ CallSound(call, attempts[i], orders[call.plan])
  BY MobileParts
<1>3. /\ checked \in MobileCalls
      /\ checked.attempt = i /\ checked.id = call.id
      /\ checked.plan = call.plan /\ checked.step = call.step
      /\ checked.line = call.line /\ checked.version = call.version
      /\ checked.status = call.status
  BY <1>2 DEF MobileCalls
<1> HIDE DEF checked
<1>4. CallSound(checked, attempts[i], orders[call.plan])
  BY <1>2, <1>3 DEF CallSound
<1>5. MobileTypeOK'
  BY <1>1, <1>3 DEF MobileInv, MobileTypeOK
<1>6. \A other \in calls' :
        /\ other.attempt \in DOMAIN attempts
        /\ CallSound(other, attempts[other.attempt], orders[other.plan])
  BY <1>1, <1>2, <1>3, <1>4, MobileParts
<1>7. ASSUME NEW one \in calls', NEW other \in calls',
             one.attempt = other.attempt, one.id = other.id
      PROVE  one = other
  BY <1>1, <1>3, <1>7 DEF MobileInv
<1> QED BY <1>1, <1>5, <1>6, <1>7 DEF MobileInv

\* The server has the order already.
LEMMA ReplayKeeps ==
  ASSUME MobileInv, NEW call \in calls, call.step = "create",
         orders[call.plan] # NoOrder, orders' = orders,
         Answer(call, Summary(1, "draft", TRUE))
  PROVE  MobileInv'
<1> DEFINE i == call.attempt
           order == orders[call.plan]
           reply == Summary(1, "draft", TRUE)
           answered == [attempts[i] EXCEPT !.reply = reply]
<1>1. /\ i \in 1 .. Len(attempts) /\ attempts[i] \in MobileAttempts
      /\ call.plan = attempts[i].plan
      /\ AttemptSound(i, attempts[i], order)
      /\ OrderSound(order, Len(attempts)) /\ order \in MobileOrders
      /\ attempts[i].asked = call.id =>
           attempts[i].step = call.step /\ attempts[i].reply = Waiting
  BY WhoWaits
<1>2. /\ reply \in Replies /\ reply # Waiting /\ reply.kind = "summary"
      /\ reply.version = 1 /\ reply.status = "draft" /\ reply.replayed = TRUE
  BY DEF Summary, Replies, Waiting, Begun
<1>3. /\ answered.reply = reply /\ answered.step = attempts[i].step
      /\ answered.plan = attempts[i].plan
  BY <1>1, AnsweredFields
<1>4. attempts[i].asked = call.id => Untouched(i, order)
  BY <1>1 DEF AttemptSound, CreateSound, Waiting
<1>5. order.version \in Nat /\ order.version >= 1
  BY <1>1 DEF MobileOrders, OrderSound
<1> HIDE DEF i, order, reply, answered
<1>6. ASSUME attempts[i].asked = call.id
      PROVE  AttemptSound(i, answered, order)
  <2>1. Since(i, order, 1)
    BY <1>4, <1>5, <1>6 DEF Since, Untouched
  <2>2. answered.step = "create"
    BY <1>1, <1>3, <1>6
  <2> QED BY <1>2, <1>3, <2>1, <2>2 DEF AttemptSound, CreateSound, UnderWay
<1> QED BY <1>1, <1>2, <1>6, AnswerReads DEF i, order, reply, answered

\* What the attempt that waits for an addition or an opening knows of the order.
LEMMA WaitsToWrite ==
  ASSUME MobileInv, NEW call \in calls, call.step \in {"add", "open"},
         attempts[call.attempt].asked = call.id
  PROVE  LET attempt == attempts[call.attempt]
             order == orders[call.plan]
         IN /\ call.version = attempt.version /\ call.status = attempt.status
            /\ Knows(call.attempt, order, attempt.version, attempt.status,
                     attempt.todo)
            /\ call.step = "add" =>
                 attempt.todo # {} /\ call.line = NextLine(attempt.todo)
            /\ call.step = "open" =>
                 attempt.todo = {} /\ attempt.status = "draft"
<1> DEFINE attempt == attempts[call.attempt]
           order == orders[call.plan]
<1>1. /\ attempt.step = call.step /\ attempt.reply = Waiting
      /\ attempt.asked = call.id
      /\ AttemptSound(call.attempt, attempt, order)
      /\ CallSound(call, attempt, order)
  BY WhoWaits
<1>2. Waiting.kind = "waiting"
  BY DEF Waiting
<1> HIDE DEF attempt, order
<1>3. /\ call.version = attempt.version /\ call.status = attempt.status
      /\ call.step = "add" => call.line = NextLine(attempt.todo)
  BY <1>1 DEF CallSound
<1>4. CASE call.step = "add"
  <2>1. AddSound(call.attempt, attempt, order)
    BY <1>1, <1>4 DEF AttemptSound
  <2> QED BY <1>1, <1>2, <1>3, <1>4, <2>1 DEF AddSound, attempt, order
<1>5. CASE call.step = "open"
  <2>1. OpenSound(call.attempt, attempt, order)
    BY <1>1, <1>5 DEF AttemptSound
  <2> QED BY <1>1, <1>2, <1>3, <1>5, <2>1 DEF OpenSound, attempt, order
<1> QED BY <1>4, <1>5

\* If the order is not at the version the attempt sent, somebody else wrote it.
LEMMA VersionMoved ==
  ASSUME MobileInv, NEW call \in calls, call.step \in {"add", "open"},
         attempts[call.attempt].asked = call.id,
         orders[call.plan].version # call.version
  PROVE  Told("moved", call.attempt, attempts[call.attempt],
              orders[call.plan])
<1> DEFINE attempt == attempts[call.attempt]
           order == orders[call.plan]
<1>1. attempt \in MobileAttempts /\ order \in MobileOrders
  BY WhoWaits
<1>2. order.version \in Nat /\ attempt.version \in Nat
  BY <1>1 DEF MobileOrders, MobileAttempts
<1>3. Since(call.attempt, order, attempt.version)
      /\ order.version # attempt.version
  BY WaitsToWrite DEF Knows
<1> HIDE DEF attempt, order
<1>4. attempt.version + 1 \in attempt.version + 1 .. order.version
  BY <1>2, <1>3 DEF Since
<1>5. Told("moved", call.attempt, attempt, order)
  BY <1>3, <1>4 DEF Told, Moved, Since
<1> QED BY <1>5 DEF attempt, order

\* A refusal that tells the attempt the truth.
LEMMA RefusalKeeps ==
  ASSUME MobileInv, NEW call \in calls,
         call.step \in {"create", "add", "open"},
         NEW reply \in Replies, Answer(call, reply), orders' = orders,
         \/ reply.kind = "conflict"
         \/ reply.kind = "rejected" /\ call.step # "create",
         reply.kind = "conflict" =>
           \/ attempts[call.attempt].asked # call.id
           \/ Told(reply.why, call.attempt, attempts[call.attempt],
                   orders[call.plan])
  PROVE  MobileInv'
<1> DEFINE i == call.attempt
           order == orders[call.plan]
           answered == [attempts[i] EXCEPT !.reply = reply]
<1>1. /\ i \in 1 .. Len(attempts) /\ attempts[i] \in MobileAttempts
      /\ call.plan = attempts[i].plan /\ order \in MobileOrders
      /\ attempts[i].asked = call.id => attempts[i].step = call.step
  BY WhoWaits
<1>2. reply # Waiting
  BY DEF Waiting
<1>3. /\ answered.reply = reply /\ answered.step = attempts[i].step
      /\ answered.version = attempts[i].version
      /\ answered.status = attempts[i].status
      /\ answered.todo = attempts[i].todo
  BY <1>1, AnsweredFields
<1>4. attempts[i].asked = call.id =>
        /\ call.step = "add" => attempts[i].todo # {}
        /\ call.step = "open" =>
             attempts[i].todo = {} /\ attempts[i].status = "draft"
  BY WaitsToWrite
<1>5. attempts[i].asked = call.id /\ reply.kind = "conflict" =>
        Told(reply.why, i, attempts[i], order)
  OBVIOUS
<1> HIDE DEF i, order, answered
<1>6. ASSUME attempts[i].asked = call.id
      PROVE  AttemptSound(i, answered, order)
  <2>1. answered.step = call.step
    BY <1>1, <1>3, <1>6
  <2>2. reply.kind = "conflict" => Told(reply.why, i, answered, order)
    BY <1>3, <1>5, <1>6 DEF Told, Moved
  <2> QED BY <1>3, <1>4, <1>6, <2>1, <2>2
          DEF AttemptSound, CreateSound, AddSound, OpenSound, UnderWay
<1> QED BY <1>1, <1>2, <1>6, AnswerReads DEF i, order, answered

\* The server looks a new order up: it has it, or goes on to look for the shift.
LEMMA LookUpKeeps ==
  ASSUME MobileInv, NEW call \in calls, LookUp(call)
  PROVE  MobileInv'
BY ReplayKeeps, CheckedKeeps DEF LookUp

\* The server creates an order, has it already, or has no open shift.
LEMMA ServeCreateKeeps ==
  ASSUME MobileInv, NEW call \in calls, ServeCreate(call)
  PROVE  MobileInv'
<1> DEFINE i == call.attempt
           p == call.plan
           order == orders[p]
           replayed == order # NoOrder
           reply == Summary(1, "draft", replayed)
           answered == [attempts[i] EXCEPT !.reply = reply]
<1>1. /\ call.step = "create"
      /\ \/ Answer(call, Conflict("shift")) /\ orders' = orders
         \/ /\ Answer(call, reply)
            /\ orders' = IF replayed THEN orders
                         ELSE [orders EXCEPT ![p] =
                                 Write([NoOrder EXCEPT !.status = "draft"], i)]
  BY DEF ServeCreate
<1>2. /\ i \in 1 .. Len(attempts) /\ Len(attempts) \in Nat
      /\ attempts[i] \in MobileAttempts
      /\ p = attempts[i].plan /\ p \in 1 .. Plans
      /\ AttemptSound(i, attempts[i], order)
      /\ OrderSound(order, Len(attempts)) /\ order \in MobileOrders
      /\ attempts[i].asked # call.id => attempts[i].step \in GivenUp
      /\ attempts[i].asked = call.id =>
           attempts[i].step = call.step /\ attempts[i].reply = Waiting
  BY WhoWaits
<1>3. /\ reply \in Replies /\ reply # Waiting /\ reply.kind = "summary"
      /\ reply.version = 1 /\ reply.status = "draft"
      /\ reply.replayed = replayed
  <2>1. "draft" \in Begun /\ 1 \in Nat /\ replayed \in BOOLEAN
    BY DEF Begun
  <2> HIDE DEF replayed
  <2> QED BY <2>1, SummaryIsReply
<1>4. /\ answered.reply = reply /\ answered.step = attempts[i].step
      /\ answered.plan = attempts[i].plan
  BY <1>2, AnsweredFields
<1>5. attempts[i].asked = call.id => Untouched(i, order)
  BY <1>1, <1>2 DEF AttemptSound, CreateSound, Waiting
<1>6. CASE Answer(call, Conflict("shift")) /\ orders' = orders
  <2>1. Told("shift", i, attempts[i], order) \/ attempts[i].asked # call.id
    BY <1>5 DEF Told
  <2>2. /\ Conflict("shift") \in Replies
        /\ Conflict("shift").kind = "conflict"
        /\ Conflict("shift").why = "shift"
    BY ConflictIsReply DEF Causes
  <2> QED BY <1>1, <1>6, <2>1, <2>2, RefusalKeeps
<1>7. CASE Answer(call, reply) /\ orders' = orders /\ replayed
  <2>1. reply = Summary(1, "draft", TRUE)
    BY <1>7 DEF Summary
  <2> QED BY <1>1, <1>7, <2>1, ReplayKeeps
<1> HIDE DEF i, p, order, replayed, reply, answered
<1>8. CASE ~ replayed /\ Answer(call, reply)
           /\ ~ (Answer(call, Conflict("shift")) /\ orders' = orders)
  <2> DEFINE next == Write([NoOrder EXCEPT !.status = "draft"], i)
  <2>1. order = NoOrder /\ orders' = [orders EXCEPT ![p] = next]
    BY <1>1, <1>8 DEF replayed
  <2>2. /\ next.version = 1 /\ next.status = "draft" /\ next.added = <<>>
    BY DEF Write, NoOrder
  <2> HIDE DEF next
  <2>3. /\ next \in MobileOrders /\ Grows(order, next, i)
        /\ OrderSound(next, Len(attempts))
    BY <1>2, <2>1, AttemptWrites DEF next
  <2>4. ASSUME attempts[i].asked = call.id
        PROVE  AttemptSound(i, answered, next)
    <3>1. OnOrder(next) = {}
      BY <2>2 DEF OnOrder
    <3>2. Since(i, next, next.version)
      BY <2>2 DEF Since
    <3>3. Knows(i, next, 1, "draft", OrderLines)
      <4>1. \A j, s, lacks :
             Knows(j, next, 1, s, lacks)
             <=> /\ Since(j, next, 1)
                 /\ OrderLines \ lacks \subseteq OnOrder(next)
                 /\ next.status = s
                 /\ OnOrder(next) \intersect lacks = {}
        BY <2>2, <2>3, KnowsNow
      <4> QED BY <2>2, <3>1, <3>2, <4>1
    <3>4. answered.step = "create"
      BY <1>1, <1>2, <1>4, <2>4
    <3> QED BY <1>3, <1>4, <1>8, <3>3, <3>4
            DEF AttemptSound, CreateSound, UnderWay
  <2>5. i \in Nat
    BY <1>2
  <2>6. /\ orders' \in [1 .. Plans -> MobileOrders]
        /\ \A q \in 1 .. Plans : OrderSound(orders'[q], Len(attempts))
        /\ \A j \in DOMAIN attempts :
              j # i \/ attempts[j].step \in GivenUp
                => AttemptSound(j, attempts[j], orders'[attempts[j].plan])
        /\ \A other \in calls :
              CallSound(other, attempts[other.attempt], orders'[other.plan])
    BY <1>2, <2>1, <2>3, <2>5, OrderWritten DEF order
  <2>7. orders'[p] = next
    BY <1>2, <2>1 DEF MobileInv, MobileTypeOK
  <2> QED BY <1>2, <1>3, <1>8, <2>4, <2>6, <2>7, AnswerKeeps
          DEF i, p, answered
<1> QED BY <1>1, <1>6, <1>7, <1>8 DEF replayed

\* The server lists the order if it is active.
LEMMA ServeReadKeeps ==
  ASSUME MobileInv, NEW call \in calls, ServeRead(call)
  PROVE  MobileInv'
<1> DEFINE i == call.attempt
           order == orders[call.plan]
           listed == [kind |-> "order", version |-> order.version,
                      status |-> order.status, lines |-> OnOrder(order)]
           missing == [kind |-> "missing"]
           reply == IF order.status \in Active THEN listed ELSE missing
           answered == [attempts[i] EXCEPT !.reply = reply]
<1>1. call.step = "read" /\ Answer(call, reply) /\ orders' = orders
  BY DEF ServeRead
<1>2. /\ i \in 1 .. Len(attempts) /\ attempts[i] \in MobileAttempts
      /\ call.plan = attempts[i].plan
      /\ AttemptSound(i, attempts[i], order)
      /\ OrderSound(order, Len(attempts)) /\ order \in MobileOrders
      /\ attempts[i].asked = call.id =>
           attempts[i].step = call.step /\ attempts[i].reply = Waiting
  BY WhoWaits
<1>3. order.version \in Nat /\ OnOrder(order) \subseteq OrderLines
  BY <1>2, LinesOfAdditions DEF MobileOrders
<1>4. missing \in Replies /\ missing # Waiting /\ missing.kind = "missing"
  BY DEF Replies, Waiting
<1>5. order.status \in Active =>
        /\ listed \in Replies /\ listed # Waiting /\ listed.kind = "order"
        /\ listed.version = order.version /\ listed.status = order.status
        /\ listed.lines = OnOrder(order)
  BY <1>3 DEF Replies, Waiting, Active, Begun
<1>6. reply \in Replies /\ reply # Waiting
  BY <1>4, <1>5
<1>7. /\ answered.reply = reply /\ answered.step = attempts[i].step
      /\ answered.version = attempts[i].version
      /\ answered.status = attempts[i].status
  BY <1>2, AnsweredFields
<1> HIDE DEF i, order, listed, missing, answered
<1>8. ASSUME attempts[i].asked = call.id
      PROVE  AttemptSound(i, answered, order)
  <2>1. answered.step = "read"
    BY <1>1, <1>2, <1>7, <1>8
  <2>2. /\ answered.version = 1 /\ answered.status = "draft"
        /\ Since(i, order, 1)
    BY <1>1, <1>2, <1>7, <1>8 DEF AttemptSound, ReadSound
  <2>3. CASE order.status \in Active
    <3>1. Since(i, order, order.version)
      BY <1>3, <2>2 DEF Since
    <3>2. Knows(i, order, order.version, order.status,
                OrderLines \ OnOrder(order))
      <4>1. \A j, s, lacks :
             Knows(j, order, order.version, s, lacks)
               <=> /\ Since(j, order, order.version)
                   /\ OrderLines \ lacks \subseteq OnOrder(order)
                   /\ order.status = s
                   /\ OnOrder(order) \intersect lacks = {}
        BY <1>2, KnowsNow
      <4> QED BY <1>3, <3>1, <4>1
    <3>3. ReadSound(i, answered, order)
      BY <1>5, <1>7, <2>2, <2>3, <3>2 DEF ReadSound
    <3> QED BY <1>5, <1>7, <2>1, <2>3, <3>3
            DEF AttemptSound, UnderWay, reply
  <2>4. CASE order.status \notin Active
    <3>1. order.version >= 1
      BY <1>3, <2>2 DEF Since
    <3>2. order # NoOrder
      BY <3>1 DEF NoOrder
    <3>3. order.status \in {"paid", "cancelled"}
      BY <1>2, <2>4, <3>2 DEF OrderSound, MobileOrders, Begun, Past, Active
    <3>4. \E v \in 2 .. order.version : order.writers[v] = Members
      BY <1>2, <3>3 DEF OrderSound
    <3>5. ReadSound(i, answered, order)
      BY <1>4, <1>7, <2>2, <2>4, <3>4 DEF ReadSound
    <3> QED BY <1>4, <1>7, <2>1, <2>4, <3>5
            DEF AttemptSound, UnderWay, reply
  <2> QED BY <2>3, <2>4
<1> QED BY <1>1, <1>2, <1>6, <1>8, AnswerReads DEF i, order, answered

\* The server reads the order an attempt means to write, and the domain allows
\* it or not.
LEMMA CheckKeeps ==
  ASSUME MobileInv, NEW call \in calls, Check(call)
  PROVE  MobileInv'
<1> DEFINE order == orders[call.plan]
<1>1. /\ call.step \in {"add", "open"} /\ orders' = orders
      /\ IF order.version # call.version THEN Answer(call, Conflict("moved"))
         ELSE Checked(call) \/ Answer(call, Conflict("menu"))
                \/ Answer(call, Rejected)
  BY DEF Check
<1>2. CASE order.version # call.version
  <2>1. /\ Conflict("moved") \in Replies
        /\ Conflict("moved").kind = "conflict"
        /\ Conflict("moved").why = "moved"
    BY ConflictIsReply DEF Causes
  <2> QED BY <1>1, <1>2, <2>1, VersionMoved, RefusalKeeps
<1>3. CASE Checked(call)
  BY <1>1, <1>3, CheckedKeeps
<1>4. CASE Answer(call, Conflict("menu"))
  <2>1. /\ Conflict("menu") \in Replies
        /\ Conflict("menu").kind = "conflict"
        /\ Conflict("menu").why = "menu"
    BY ConflictIsReply DEF Causes
  <2>2. Told("menu", call.attempt, attempts[call.attempt], order)
    BY DEF Told
  <2> QED BY <1>1, <1>4, <2>1, <2>2, RefusalKeeps
<1>5. CASE Answer(call, Rejected)
  <2>1. Rejected \in Replies /\ Rejected.kind = "rejected"
    BY DEF Replies, Rejected
  <2> QED BY <1>1, <1>5, <2>1, RefusalKeeps
<1> QED BY <1>1, <1>2, <1>3, <1>4, <1>5

\* What the answer to a write says to the attempt that waits: the line is on
\* the order for good, or the order was opened.
LEMMA SavedIsSound ==
  ASSUME NEW i, NEW attempt \in MobileAttempts, NEW order \in MobileOrders,
         attempt.step \in {"add", "open"},
         NEW reply, reply.kind = "summary",
         attempt.step = "add" =>
           /\ attempt.todo # {} /\ reply.status = attempt.status
           /\ Knows(i, order, reply.version, attempt.status,
                    Without(attempt.todo)),
         attempt.step = "open" =>
           /\ attempt.todo = {} /\ attempt.status = "draft"
           /\ order.opened # 0
  PROVE  AttemptSound(i, [attempt EXCEPT !.reply = reply], order)
<1> DEFINE answered == [attempt EXCEPT !.reply = reply]
<1>1. /\ answered.reply = reply /\ answered.step = attempt.step
      /\ answered.version = attempt.version
      /\ answered.status = attempt.status
      /\ answered.todo = attempt.todo
  BY AnsweredFields
<1> HIDE DEF answered
<1>2. AttemptSound(i, answered, order)
  BY <1>1 DEF AttemptSound, AddSound, OpenSound, UnderWay
<1> QED BY <1>2 DEF answered

\* The server stores a mutation, answers one it stored before as it did, or
\* refuses it.
LEMMA PersistKeeps ==
  ASSUME MobileInv, NEW call \in calls, Persist(call)
  PROVE  MobileInv'
<1> DEFINE i == call.attempt
           attempt == attempts[i]
           order == orders[call.plan]
           status == IF call.step = "open" THEN "open" ELSE call.status
           reply(replayed) == Summary(call.version + 1, status, replayed)
           current == attempt.asked = call.id
<1>1. call.step \in {"add", "open"}
  BY DEF Persist
<1>2. /\ i \in 1 .. Len(attempts) /\ Len(attempts) \in Nat
      /\ call \in MobileCalls /\ attempt \in MobileAttempts
      /\ call.plan = attempt.plan /\ call.plan \in 1 .. Plans
      /\ order \in MobileOrders /\ OrderSound(order, Len(attempts))
      /\ CallSound(call, attempt, order)
      /\ ~ current => attempt.step \in GivenUp
      /\ current => attempt.step = call.step /\ attempt.reply = Waiting
  BY WhoWaits
<1>3. current =>
        /\ call.version = attempt.version /\ call.status = attempt.status
        /\ Knows(i, order, attempt.version, attempt.status, attempt.todo)
        /\ call.step = "add" =>
             attempt.todo # {} /\ call.line = NextLine(attempt.todo)
        /\ call.step = "open" => attempt.todo = {} /\ attempt.status = "draft"
  BY <1>1, WaitsToWrite
<1>4. /\ call.version \in Nat /\ call.version + 1 \in Nat
      /\ order.version \in Nat /\ status \in Begun
      /\ attempt.todo \in SUBSET OrderLines
      /\ call.version >= 1
      /\ call.step = "add" => call.line \in OrderLines
      /\ call.step = "open" => OrderLines \subseteq OnOrder(order)
  <2>1. /\ call.version \in Nat /\ call.version + 1 \in Nat
        /\ status \in Begun
    BY <1>2 DEF MobileCalls, Begun
  <2>2. order.version \in Nat /\ attempt.todo \in SUBSET OrderLines
    BY <1>2 DEF MobileOrders, MobileAttempts
  <2>3. /\ call.version >= 1
        /\ call.step = "add" => call.line \in OrderLines
        /\ call.step = "open" => OrderLines \subseteq OnOrder(order)
    BY <1>1, <1>2 DEF CallSound
  <2> QED BY <2>1, <2>2, <2>3
<1>5. \A replayed \in BOOLEAN :
        /\ reply(replayed) \in Replies /\ reply(replayed) # Waiting
        /\ reply(replayed).kind = "summary"
        /\ reply(replayed).version = call.version + 1
        /\ reply(replayed).status = status
  BY <1>4, SummaryIsReply
<1>9. /\ Conflict("moved") \in Replies
      /\ Conflict("moved").kind = "conflict"
      /\ Conflict("moved").why = "moved"
  BY ConflictIsReply DEF Causes
<1> HIDE DEF reply
<1>10. CASE /\ Done(order, call) /\ call.step = "add"
            /\ Answer(call, Conflict("moved")) /\ orders' = orders
  <2>1. order.version # call.version
    <3> HIDE DEF order
    <3>1. PICK a \in Added(order) : a.version = call.version + 1
      BY <1>10 DEF Done, Added
    <3> QED BY <1>2, <1>4, <3>1 DEF OrderSound
  <2> QED BY <1>1, <1>9, <1>10, <2>1, VersionMoved, RefusalKeeps
<1>6. CASE /\ Done(order, call)
           /\ Answer(call, reply(TRUE)) /\ orders' = orders
  <2>1. Answer(call, reply(TRUE)) /\ orders' = orders
    BY <1>6
  <2>2. ASSUME current, call.step = "add"
        PROVE  Knows(i, order, call.version + 1, attempt.status,
                     Without(attempt.todo))
    <3> HIDE DEF order, attempt, i
    <3> DEFINE a == [line |-> NextLine(attempt.todo),
                     version |-> attempt.version + 1]
               v == attempt.version
               l == NextLine(attempt.todo)
    <3>1. a \in Added(order) /\ a.line = l /\ a.version = v + 1
      BY <1>3, <1>6, <2>2 DEF Done, Added
    <3> HIDE DEF a
    <3>2. v + 1 <= order.version /\ v \in Nat
      BY <1>2, <1>3, <1>4, <2>2, <3>1 DEF OrderSound
    <3> HIDE DEF v, l
    <3>3. l \in OnOrder(order)
      BY <1>2, <3>1, LinesOfAdditions
    <3>4. Knows(i, order, v, attempt.status, attempt.todo)
      BY <1>3, <2>2 DEF v
    <3>5. Since(i, order, v + 1)
      BY <1>4, <3>2, <3>4 DEF Knows, Since
    <3>6. OrderLines \ Without(attempt.todo) \subseteq OnOrder(order)
      BY <3>3, <3>4 DEF Knows, Without, l
    <3>7. ASSUME OnlyAdded(order, v + 1)
          PROVE  /\ order.status = attempt.status
                 /\ OnOrder(order) \intersect Without(attempt.todo)
                      \subseteq AddedSince(order, v + 1)
      <4>1. OnlyAdded(order, v)
        <5> SUFFICES ASSUME NEW w \in v + 1 .. order.version
                     PROVE  \E x \in Added(order) : x.version = w
          BY DEF OnlyAdded
        <5>1. w = v + 1 \/ w \in v + 2 .. order.version
          BY <1>4, <3>2
        <5> QED BY <3>1, <3>2, <3>7, <5>1 DEF OnlyAdded
      <4>2. /\ order.status = attempt.status
            /\ OnOrder(order) \intersect attempt.todo
                 \subseteq AddedSince(order, v)
        BY <3>4, <4>1 DEF Knows
      <4>3. AddedSince(order, v) \subseteq AddedSince(order, v + 1) \union {l}
        <5> SUFFICES ASSUME NEW x \in Added(order), x.version > v, x.line # l
                     PROVE  x.version > v + 1
          BY DEF AddedSince
        <5>1. x.version \in Nat
          BY <1>2, LinesOfAdditions DEF Additions
        <5>2. x.version # v + 1
          BY <1>2, <3>1 DEF OrderSound
        <5> QED BY <3>2, <5>1, <5>2
      <4> QED BY <4>2, <4>3 DEF Without, l
    <3>8. attempt.status = "open" => order.status \in Past
      BY <3>4 DEF Knows
    <3>9. call.version = v
      BY <1>3, <2>2 DEF v
    <3> QED BY <3>5, <3>6, <3>7, <3>8, <3>9 DEF Knows
  <2>3. ASSUME current
        PROVE  AttemptSound(i, [attempt EXCEPT !.reply = reply(TRUE)], order)
    <3>1. call.step = "open" => order.opened # 0
      BY <1>4, <1>6 DEF Done
    <3> HIDE DEF order, attempt, i
    <3> QED BY <1>1, <1>2, <1>3, <1>5, <2>2, <2>3, <3>1, SavedIsSound
  <2> QED BY <1>2, <1>5, <2>1, <2>3, AnswerReads
<1>7. CASE ~ Done(order, call) /\ order.version = call.version
  <2> DEFINE next == Mutated(order, call)
  <2>1. /\ Answer(call, reply(FALSE))
        /\ orders' = [orders EXCEPT ![call.plan] = next]
    BY <1>7 DEF Persist, reply
  <2>2. order # NoOrder
    <3>1. NoOrder.version = 0
      BY DEF NoOrder
    <3> HIDE DEF order
    <3> QED BY <1>4, <1>7, <3>1
  <2>3. /\ next \in MobileOrders /\ Grows(order, next, i)
        /\ OrderSound(next, Len(attempts))
    <3>1. /\ call.attempt = i /\ next = Mutated(order, call)
          /\ \/ call.step = "add" /\ call.line \in OrderLines
             \/ call.step = "open" /\ OrderLines \subseteq OnOrder(order)
      <4> HIDE DEF order
      <4> QED BY <1>1, <1>4
    <3> HIDE DEF order, attempt, next, i
    <3>2. \E c \in MobileCalls :
            /\ c.attempt = i /\ next = Mutated(order, c)
            /\ \/ c.step = "add" /\ c.line \in OrderLines
               \/ c.step = "open" /\ OrderLines \subseteq OnOrder(order)
      BY <1>2, <3>1
    <3> QED BY <1>2, <2>2, <3>2, AttemptWrites
  <2>4. i \in Nat
    BY <1>2
  <2>5. /\ orders' \in [1 .. Plans -> MobileOrders]
        /\ \A q \in 1 .. Plans : OrderSound(orders'[q], Len(attempts))
        /\ \A j \in DOMAIN attempts :
              j # i \/ attempts[j].step \in GivenUp
                => AttemptSound(j, attempts[j], orders'[attempts[j].plan])
        /\ \A other \in calls :
              CallSound(other, attempts[other.attempt], orders'[other.plan])
    <3> HIDE DEF next
    <3> QED BY <1>2, <2>1, <2>3, <2>4, OrderWritten
  <2>6. /\ next.status = (IF call.step = "open" THEN "open" ELSE order.status)
        /\ call.step = "open" => next.opened = order.version + 1
        /\ call.step = "add" =>
             next.added = Append(order.added, [line |-> call.line,
                                               version |-> order.version + 1])
    <3> HIDE DEF order
    <3> DEFINE written == Write(order, call.attempt)
    <3>1. written.version = order.version + 1 /\ written.status = order.status
          /\ written.added = order.added
          /\ DOMAIN written = DOMAIN order
      BY <1>2 DEF Write, MobileOrders
    <3>2. DOMAIN order = {"status", "version", "added", "gone", "opened",
                          "writers"}
      BY <1>2 DEF MobileOrders
    <3> HIDE DEF written
    <3>3. next = IF call.step = "open"
                 THEN [written EXCEPT !.status = "open",
                                      !.opened = written.version]
                 ELSE [written EXCEPT !.added =
                         Append(@, [line |-> call.line,
                                    version |-> written.version])]
      BY DEF Mutated, written
    <3> QED BY <1>1, <3>1, <3>2, <3>3
  <2>7. ASSUME current, call.step = "add"
        PROVE  Knows(i, next, call.version + 1, attempt.status,
                     Without(attempt.todo))
    <3> DEFINE a == [line |-> call.line, version |-> order.version + 1]
    <3>1. a \in Additions /\ a.line = call.line
      <4> HIDE DEF order
      <4> QED BY <1>4, <2>7 DEF Additions
    <3>2. OnOrder(next) = OnOrder(order) \union {call.line}
      <4> HIDE DEF order, next
      <4> QED BY <1>2, <2>6, <2>7, <3>1, OneMoreAddition
    <3> HIDE DEF order, next, attempt, i, a
    <3>3. /\ order.status = attempt.status
          /\ OnOrder(order) \intersect attempt.todo = {}
          /\ OrderLines \ attempt.todo \subseteq OnOrder(order)
      <4>1. \A j, s, lacks :
             Knows(j, order, call.version, s, lacks)
               <=> /\ Since(j, order, call.version)
                   /\ OrderLines \ lacks \subseteq OnOrder(order)
                   /\ order.status = s
                   /\ OnOrder(order) \intersect lacks = {}
        BY <1>2, <1>7, KnowsNow
      <4> QED BY <1>3, <2>7, <4>1
    <3>4. next.version = call.version + 1
      BY <1>7, <2>3 DEF Grows
    <3>5. Since(i, next, next.version)
      BY <1>4, <3>4 DEF Since
    <3>6. next.status = attempt.status
      BY <2>6, <2>7, <3>3
    <3>7. attempt.status = "open" => next.status \in Past
      BY <3>6 DEF Past
    <3>8. OrderLines \ Without(attempt.todo) \subseteq OnOrder(next)
      BY <1>3, <2>7, <3>2, <3>3 DEF Without
    <3>9. OnOrder(next) \intersect Without(attempt.todo) = {}
      BY <1>3, <2>7, <3>2, <3>3 DEF Without
    <3> QED
      <4>1. \A j, s, lacks :
             Knows(j, next, next.version, s, lacks)
               <=> /\ Since(j, next, next.version)
                   /\ OrderLines \ lacks \subseteq OnOrder(next)
                   /\ next.status = s
                   /\ OnOrder(next) \intersect lacks = {}
        BY <2>3, KnowsNow
      <4> QED BY <3>4, <3>5, <3>6, <3>7, <3>8, <3>9, <4>1
  <2>8. ASSUME current
        PROVE  AttemptSound(i, [attempt EXCEPT !.reply = reply(FALSE)], next)
    <3>1. call.step = "open" => next.opened # 0
      BY <1>4, <2>6
    <3> HIDE DEF next, order, attempt, i
    <3> QED BY <1>1, <1>2, <1>3, <1>5, <2>3, <2>7, <2>8, <3>1, SavedIsSound
  <2>9. orders'[call.plan] = next
    BY <1>2, <2>1 DEF MobileInv, MobileTypeOK
  <2> HIDE DEF next
  <2> QED BY <1>2, <1>5, <2>1, <2>5, <2>8, <2>9, AnswerKeeps
<1>8. CASE ~ Done(order, call) /\ order.version # call.version
  <2>1. Answer(call, Conflict("moved")) /\ orders' = orders
    BY <1>8 DEF Persist
  <2> QED BY <1>1, <1>8, <1>9, <2>1, VersionMoved, RefusalKeeps
<1>11. CASE Done(order, call)
  <2>1. /\ orders' = orders
        /\ \/ Answer(call, reply(TRUE))
           \/ call.step = "add" /\ Answer(call, Conflict("moved"))
    BY <1>11 DEF Persist, reply
  <2> QED BY <1>6, <1>10, <1>11, <2>1
<1> QED BY <1>7, <1>8, <1>11

-----------------------------------------------------------------------------
(***************************************************************************)
(* The steps of an attempt.                                                *)
(***************************************************************************)

\* An attempt that takes its next step keeps its plan.
LEMMA SteppedFields ==
  ASSUME NEW attempt \in MobileAttempts,
         NEW step \in UnderWay \union {"sent", "conflict", "unavailable"}
  PROVE  LET id == attempt.asked + 1
             next == [attempt EXCEPT !.step = step, !.asked = id,
                                     !.reply = Waiting]
         IN /\ next \in MobileAttempts
            /\ id \in Nat /\ attempt.asked \in Nat
            /\ next.plan = attempt.plan /\ next.step = step
            /\ next.asked = id /\ next.reply = Waiting
            /\ next.version = attempt.version /\ next.status = attempt.status
            /\ next.todo = attempt.todo /\ next.why = attempt.why
<1>1. attempt.asked \in Nat /\ attempt.asked + 1 \in Nat
  BY DEF MobileAttempts
<1>2. Waiting \in Replies
  BY DEF Replies
<1> QED BY <1>1, <1>2 DEF MobileAttempts

\* An attempt that has its answer asks for the next thing.
LEMMA AskKeeps ==
  ASSUME MobileInv, NEW i \in DOMAIN attempts,
         attempts[i].step \in UnderWay, attempts[i].reply # Waiting,
         NEW attempt \in MobileAttempts,
         attempt.plan = attempts[i].plan, attempt.asked = attempts[i].asked,
         NEW step \in UnderWay, NEW line \in Nat,
         step = "add" => line = NextLine(attempt.todo) /\ line \in OrderLines,
         step = "open" => OrderLines \subseteq OnOrder(orders[attempt.plan]),
         step \in {"add", "open"} => attempt.version >= 1,
         AttemptSound(i, [attempt EXCEPT !.step = step,
                                         !.asked = attempt.asked + 1,
                                         !.reply = Waiting],
                      orders[attempt.plan]),
         Ask(i, attempt, step, line)
  PROVE  MobileInv'
<1> DEFINE id == attempt.asked + 1
           next == [attempt EXCEPT !.step = step, !.asked = id,
                                   !.reply = Waiting]
           call == [attempt |-> i, id |-> id, plan |-> attempt.plan,
                    step |-> step, line |-> line, version |-> attempt.version,
                    status |-> attempt.status, checked |-> FALSE]
<1>1. /\ attempts' = [attempts EXCEPT ![i] = next]
      /\ calls' = calls \union {call}
      /\ orders' = orders /\ phone' = phone
  BY Zenon DEF Ask
<1>2. /\ next \in MobileAttempts /\ id \in Nat /\ attempt.asked \in Nat
      /\ next.plan = attempt.plan /\ next.step = step /\ next.asked = id
      /\ next.reply = Waiting /\ next.version = attempt.version
      /\ next.status = attempt.status /\ next.todo = attempt.todo
  BY SteppedFields
<1>3. AttemptSound(i, next, orders[next.plan])
  BY <1>2
<1>4. /\ attempts \in Seq(MobileAttempts) /\ calls \subseteq MobileCalls
      /\ orders \in [1 .. Plans -> MobileOrders] /\ phone.plan \in Nat \ {0}
      /\ DOMAIN attempts = 1 .. Len(attempts) /\ i \in Nat
      /\ attempt.plan \in 1 .. Plans /\ attempt.version \in Nat
      /\ attempt.status \in Begun
  <2>1. /\ attempt.plan \in 1 .. Plans /\ attempt.version \in Nat
        /\ attempt.status \in Begun
    BY DEF MobileAttempts
  <2>2. DOMAIN attempts = 1 .. Len(attempts) /\ Len(attempts) \in Nat
    BY MobileParts
  <2> QED BY <2>1, <2>2 DEF MobileInv, MobileTypeOK
<1>5. /\ call \in MobileCalls
      /\ call.attempt = i /\ call.id = id /\ call.plan = attempt.plan
      /\ call.step = step /\ call.line = line
      /\ call.version = attempt.version /\ call.status = attempt.status
  BY <1>2, <1>4 DEF MobileCalls
<1> HIDE DEF next, call, id
<1>6. /\ attempts' \in Seq(MobileAttempts)
      /\ DOMAIN attempts' = DOMAIN attempts /\ Len(attempts') = Len(attempts)
      /\ attempts'[i] = next
      /\ \A j \in DOMAIN attempts \ {i} : attempts'[j] = attempts[j]
  BY <1>1, <1>2, <1>4, ExceptSeq
<1>7. \A other \in calls : other.attempt # i
  <2> SUFFICES ASSUME NEW other \in calls, other.attempt = i PROVE FALSE
    OBVIOUS
  <2> QED BY MobileParts DEF CallSound
<1>8. MobileTypeOK'
  BY <1>1, <1>4, <1>5, <1>6 DEF MobileTypeOK
<1>9. \A j \in DOMAIN attempts' :
        AttemptSound(j, attempts'[j], orders'[attempts'[j].plan])
  BY <1>1, <1>3, <1>6, MobileParts
<1>10. CallSound(call, next, orders[call.plan])
  BY <1>2, <1>5 DEF CallSound, UnderWay
<1>11. \A other \in calls' :
         /\ other.attempt \in DOMAIN attempts'
         /\ CallSound(other, attempts'[other.attempt], orders'[other.plan])
  BY <1>1, <1>5, <1>6, <1>7, <1>10, MobileParts
<1>12. \A one, other \in calls' :
         one.attempt = other.attempt /\ one.id = other.id => one = other
  BY <1>1, <1>5, <1>7 DEF MobileInv
<1> QED BY <1>1, <1>6, <1>8, <1>9, <1>11, <1>12 DEF MobileInv

\* An attempt ends, with what it says of its order true of it for good.
LEMMA FinishKeeps ==
  ASSUME MobileInv, NEW i \in DOMAIN attempts,
         NEW attempt \in MobileAttempts,
         attempt.plan = attempts[i].plan, attempt.asked = attempts[i].asked,
         NEW outcome \in {"sent", "conflict", "unavailable"},
         outcome = "sent" =>
           /\ OrderLines \subseteq OnOrder(orders[attempt.plan])
           /\ orders[attempt.plan].status \in Past,
         outcome = "conflict" =>
           /\ attempts[i].step \in UnderWay /\ attempts[i].reply # Waiting
           /\ Told(attempt.why, i, attempt, orders[attempt.plan]),
         Finish(i, attempt, outcome)
  PROVE  MobileInv'
<1> DEFINE next == [attempt EXCEPT !.step = outcome,
                                   !.asked = attempt.asked + 1,
                                   !.reply = Waiting]
<1>1. /\ attempts' = [attempts EXCEPT ![i] = next]
      /\ calls' = calls /\ orders' = orders
      /\ phone' = Settled(phone, i, outcome)
  <2>1. [attempt EXCEPT !.step = outcome, !.asked = @ + 1,
                        !.reply = Waiting] = next
    BY DEF MobileAttempts
  <2> QED BY <2>1 DEF Finish
<1>2. /\ next \in MobileAttempts /\ attempt.asked \in Nat
      /\ next.plan = attempt.plan /\ next.step = outcome
      /\ next.asked = attempt.asked + 1
      /\ next.reply = Waiting /\ next.version = attempt.version
      /\ next.why = attempt.why
  BY SteppedFields
<1> HIDE DEF next
<1>3. /\ attempts \in Seq(MobileAttempts) /\ calls \subseteq MobileCalls
      /\ orders \in [1 .. Plans -> MobileOrders] /\ phone.plan \in Nat \ {0}
      /\ DOMAIN attempts = 1 .. Len(attempts)
  BY MobileParts DEF MobileInv, MobileTypeOK
<1>4. /\ attempts' \in Seq(MobileAttempts)
      /\ DOMAIN attempts' = DOMAIN attempts /\ Len(attempts') = Len(attempts)
      /\ attempts'[i] = next
      /\ \A j \in DOMAIN attempts \ {i} : attempts'[j] = attempts[j]
  BY <1>1, <1>2, <1>3, ExceptSeq
<1>5. phone'.plan \in Nat \ {0}
  <2> DEFINE plan == IF outcome = "sent" THEN phone.plan + 1 ELSE phone.plan
  <2>1. plan \in Nat \ {0}
    BY <1>3
  <2>2. phone'.plan \in {phone.plan, plan}
    <3>1. CASE "plan" \in DOMAIN phone
      BY <1>1, <3>1 DEF Settled
    <3>2. CASE "plan" \notin DOMAIN phone
      BY <1>1, <3>2 DEF Settled
    <3> QED BY <3>1, <3>2
  <2> QED BY <1>3, <2>1, <2>2
<1>6. MobileTypeOK'
  BY <1>1, <1>3, <1>4, <1>5 DEF MobileTypeOK
<1>7. AttemptSound(i, next, orders[next.plan])
  <2>1. Told(attempt.why, i, attempt, orders[attempt.plan])
          => Told(next.why, i, next, orders[next.plan])
    BY <1>2 DEF Told, Moved
  <2> QED BY <1>2, <2>1 DEF AttemptSound, Waiting
<1>8. \A j \in DOMAIN attempts' :
        AttemptSound(j, attempts'[j], orders'[attempts'[j].plan])
  BY <1>1, <1>4, <1>7, MobileParts
<1>9. ASSUME NEW call \in calls
      PROVE  /\ call.attempt \in DOMAIN attempts'
             /\ CallSound(call, attempts'[call.attempt], orders'[call.plan])
  <2>1. /\ call.attempt \in DOMAIN attempts /\ call \in MobileCalls
        /\ CallSound(call, attempts[call.attempt], orders[call.plan])
    BY MobileParts
  <2>2. CASE call.attempt # i
    BY <1>1, <1>4, <2>1, <2>2
  <2>3. CASE call.attempt = i
    <3>1. call.id \in Nat /\ call.id <= attempt.asked
      BY <2>1, <2>3 DEF CallSound, MobileCalls
    <3>2. call.id # next.asked /\ call.id <= next.asked
      BY <1>2, <3>1
    <3>3. next.step \notin UnderWay
      BY <1>2 DEF UnderWay
    <3>4. next.step # "conflict"
      BY <1>2, <2>1, <2>3 DEF CallSound
    <3> QED BY <1>1, <1>2, <1>4, <2>1, <2>3, <3>2, <3>3, <3>4 DEF CallSound
  <2> QED BY <2>2, <2>3
<1> QED BY <1>1, <1>4, <1>6, <1>8, <1>9 DEF MobileInv

\* An attempt that knows the order goes on: the next missing line, the opening,
\* or the end.
LEMMA OnwardsKeeps ==
  ASSUME MobileInv, NEW i \in DOMAIN attempts,
         attempts[i].step \in UnderWay, attempts[i].reply # Waiting,
         NEW attempt \in MobileAttempts,
         attempt.plan = attempts[i].plan, attempt.asked = attempts[i].asked,
         Knows(i, orders[attempt.plan], attempt.version, attempt.status,
               attempt.todo),
         Onwards(i, attempt)
  PROVE  MobileInv'
<1> DEFINE order == orders[attempt.plan]
           stepped(step) == [attempt EXCEPT !.step = step,
                                            !.asked = attempt.asked + 1,
                                            !.reply = Waiting]
<1>1. /\ attempt.todo \in SUBSET OrderLines /\ attempt.status \in Begun
      /\ attempt.version \in Nat
  BY DEF MobileAttempts
<1>2. attempt.version >= 1
  BY <1>1 DEF Knows, Since
<1>3. \A step \in UnderWay :
        /\ stepped(step).step = step /\ stepped(step).reply = Waiting
        /\ stepped(step).version = attempt.version
        /\ stepped(step).status = attempt.status
        /\ stepped(step).todo = attempt.todo
  BY SteppedFields
<1> HIDE DEF order, stepped
<1>4. CASE attempt.todo # {}
  <2> DEFINE line == NextLine(attempt.todo)
  <2>1. Ask(i, attempt, "add", line)
    BY <1>4 DEF Onwards
  <2>2. line \in OrderLines /\ line \in Nat
    BY <1>1, <1>4, NextLineIsOne DEF OrderLines
  <2>3. AttemptSound(i, stepped("add"), order)
    BY <1>3, <1>4 DEF AttemptSound, AddSound, UnderWay, Waiting, order
  <2> HIDE DEF line
  <2>4. "add" \in UnderWay
    BY DEF UnderWay
  <2> QED BY <1>2, <2>1, <2>2, <2>3, <2>4, AskKeeps DEF line, order, stepped
<1>5. CASE attempt.todo = {} /\ attempt.status \notin AlreadyOpen
  <2>1. Ask(i, attempt, "open", 0)
    BY <1>5 DEF Onwards
  <2>2. attempt.status = "draft"
    BY <1>1, <1>5 DEF Begun, AlreadyOpen
  <2>3. AttemptSound(i, stepped("open"), order)
    BY <1>3, <1>5, <2>2
       DEF AttemptSound, OpenSound, UnderWay, Waiting, order
  <2>4. OrderLines \subseteq OnOrder(order)
    BY <1>5 DEF Knows, order
  <2>5. "open" \in UnderWay
    BY DEF UnderWay
  <2> QED BY <1>2, <2>1, <2>3, <2>4, <2>5, AskKeeps DEF order, stepped
<1>6. CASE attempt.todo = {} /\ attempt.status \in AlreadyOpen
  <2>1. Finish(i, attempt, "sent")
    BY <1>6 DEF Onwards
  <2>2. attempt.status = "open"
    BY <1>1, <1>6 DEF Begun, AlreadyOpen
  <2>3. OrderLines \subseteq OnOrder(order) /\ order.status \in Past
    BY <1>6, <2>2 DEF Knows, order
  <2> QED BY <2>1, <2>3, FinishKeeps DEF order
<1> QED BY <1>4, <1>5, <1>6

\* The answer an attempt has says which fields it has.
LEMMA ReplyFields ==
  ASSUME NEW attempt \in MobileAttempts
  PROVE  LET reply == attempt.reply
         IN /\ reply.kind = "summary" =>
                 /\ reply.version \in Nat /\ reply.status \in Begun
            /\ reply.kind = "order" =>
                 /\ reply.version \in Nat /\ reply.status \in Begun
                 /\ reply.lines \in SUBSET OrderLines
            /\ reply.kind = "conflict" => reply.why \in Causes
            /\ reply.kind \in {"summary", "order", "missing", "conflict"} =>
                 reply # Waiting
            /\ Waiting.kind = "waiting"
<1>1. attempt.reply \in Replies
  BY DEF MobileAttempts
<1> QED BY <1>1 DEF Replies, Waiting, Rejected

\* An attempt whose order was answered has its version and status.
LEMMA UpdatedFields ==
  ASSUME NEW attempt \in MobileAttempts, NEW todo \in SUBSET OrderLines,
         attempt.reply.kind \in {"summary", "order"}
  PROVE  LET updated == Updated(attempt, attempt.reply)
             next == [updated EXCEPT !.todo = todo]
         IN /\ updated \in MobileAttempts /\ next \in MobileAttempts
            /\ updated.plan = attempt.plan /\ updated.asked = attempt.asked
            /\ updated.version = attempt.reply.version
            /\ updated.status = attempt.reply.status
            /\ updated.todo = attempt.todo
            /\ next.plan = attempt.plan /\ next.asked = attempt.asked
            /\ next.version = attempt.reply.version
            /\ next.status = attempt.reply.status /\ next.todo = todo
<1>1. attempt.reply.version \in Nat /\ attempt.reply.status \in Begun
  BY ReplyFields
<1> DEFINE updated == Updated(attempt, attempt.reply)
<1>2. /\ updated \in MobileAttempts
      /\ updated.plan = attempt.plan /\ updated.asked = attempt.asked
      /\ updated.version = attempt.reply.version
      /\ updated.status = attempt.reply.status
      /\ updated.todo = attempt.todo
  BY <1>1 DEF Updated, MobileAttempts
<1> HIDE DEF updated
<1>3. LET next == [updated EXCEPT !.todo = todo]
      IN /\ next \in MobileAttempts
         /\ next.plan = attempt.plan /\ next.asked = attempt.asked
         /\ next.version = attempt.reply.version
         /\ next.status = attempt.reply.status /\ next.todo = todo
  BY <1>2 DEF MobileAttempts
<1> QED BY <1>2, <1>3 DEF updated

\* create is answered.
LEMMA CreatedKeeps ==
  ASSUME MobileInv, NEW i \in DOMAIN attempts, Created(i)
  PROVE  MobileInv'
<1> DEFINE attempt == attempts[i]
           order == orders[attempt.plan]
           next == Updated(attempt, attempt.reply)
           fresh == [next EXCEPT !.todo = Pending({})]
<1>1. /\ attempt.step = "create" /\ attempt.reply.kind = "summary"
      /\ IF attempt.reply.replayed THEN Ask(i, next, "read", 0)
         ELSE Onwards(i, fresh)
  BY DEF Created
<1>2. attempt \in MobileAttempts /\ AttemptSound(i, attempt, order)
  BY MobileParts
<1>3. Pending({}) \in SUBSET OrderLines /\ Pending({}) = OrderLines
  BY DEF Pending
<1>4. /\ next \in MobileAttempts
      /\ next.plan = attempt.plan /\ next.asked = attempt.asked
      /\ next.version = attempt.reply.version
      /\ next.status = attempt.reply.status
      /\ fresh \in MobileAttempts
      /\ fresh.plan = attempt.plan /\ fresh.asked = attempt.asked
      /\ fresh.version = attempt.reply.version
      /\ fresh.status = attempt.reply.status /\ fresh.todo = OrderLines
  BY <1>1, <1>2, <1>3, UpdatedFields
<1>5. attempt.reply # Waiting
  BY <1>1, <1>2, ReplyFields
<1> HIDE DEF attempt, order, next, fresh
<1>6. /\ attempt.reply.version = 1 /\ attempt.reply.status = "draft"
      /\ IF attempt.reply.replayed THEN Since(i, order, 1)
         ELSE Knows(i, order, 1, "draft", OrderLines)
  BY <1>1, <1>2, <1>5 DEF AttemptSound, CreateSound
<1>7. "create" \in UnderWay /\ "read" \in UnderWay
  BY DEF UnderWay
<1>8. CASE attempt.reply.replayed
  <2> DEFINE reads == [next EXCEPT !.step = "read", !.asked = next.asked + 1,
                                   !.reply = Waiting]
  <2>1. /\ reads.step = "read" /\ reads.reply = Waiting
        /\ reads.version = next.version /\ reads.status = next.status
    <3>1. "read" \in UnderWay \union {"sent", "conflict", "unavailable"}
      BY <1>7
    <3>2. next \in MobileAttempts
      BY <1>4
    <3> QED BY <3>1, <3>2, SteppedFields
  <2> HIDE DEF reads
  <2>2. AttemptSound(i, reads, order)
    BY <1>4, <1>6, <1>7, <1>8, <2>1 DEF AttemptSound, ReadSound, Waiting
  <2>3. Ask(i, next, "read", 0)
    BY <1>1, <1>8
  <2> QED BY <1>1, <1>4, <1>5, <1>7, <2>2, <2>3, AskKeeps
          DEF reads, order, attempt
<1>9. CASE ~ attempt.reply.replayed
  <2>1. Knows(i, order, fresh.version, fresh.status, fresh.todo)
    BY <1>4, <1>6, <1>9
  <2> QED BY <1>1, <1>4, <1>5, <1>7, <1>9, <2>1, OnwardsKeeps
          DEF order, attempt
<1> QED BY <1>8, <1>9

\* The order was looked up again: how far an earlier attempt got.
LEMMA ResumedKeeps ==
  ASSUME MobileInv, NEW i \in DOMAIN attempts, Resumed(i)
  PROVE  MobileInv'
<1> DEFINE attempt == attempts[i]
           order == orders[attempt.plan]
           lacks == Pending(attempt.reply.lines)
           next == [Updated(attempt, attempt.reply) EXCEPT !.todo = lacks]
           ended == [attempt EXCEPT !.why = "moved"]
<1>1. /\ attempt.step = "read" /\ attempt.reply.kind \in {"order", "missing"}
      /\ IF attempt.reply.kind = "missing"
         THEN Finish(i, ended, Unlisted(attempt.status))
         ELSE Onwards(i, next)
  BY DEF Resumed
<1>2. attempt \in MobileAttempts /\ AttemptSound(i, attempt, order)
  BY MobileParts
<1>3. lacks \in SUBSET OrderLines /\ lacks = OrderLines \ attempt.reply.lines
  BY DEF Pending
<1>4. attempt.reply.kind = "order" =>
        /\ next \in MobileAttempts
        /\ next.plan = attempt.plan /\ next.asked = attempt.asked
        /\ next.version = attempt.reply.version
        /\ next.status = attempt.reply.status /\ next.todo = lacks
  <2> HIDE DEF lacks
  <2> QED BY <1>2, <1>3, UpdatedFields
<1>5. attempt.reply # Waiting
  BY <1>1, <1>2, ReplyFields
<1>9. /\ ended \in MobileAttempts /\ ended.why = "moved"
      /\ ended.plan = attempt.plan /\ ended.asked = attempt.asked
      /\ ended.version = attempt.version
  BY <1>2 DEF MobileAttempts, Causes
<1> HIDE DEF attempt, order, next, lacks, ended
<1>6. /\ attempt.version = 1 /\ attempt.status = "draft"
      /\ \/ /\ attempt.reply.kind = "order"
            /\ Knows(i, order, attempt.reply.version, attempt.reply.status,
                     lacks)
         \/ /\ attempt.reply.kind = "missing"
            /\ \E v \in 2 .. order.version : order.writers[v] = Members
  BY <1>1, <1>2, <1>3, <1>5 DEF AttemptSound, ReadSound
<1>7. CASE attempt.reply.kind = "missing"
  <2>1. Finish(i, ended, "conflict")
    BY <1>1, <1>6, <1>7 DEF Unlisted, AlreadyOpen
  <2>2. i # Members
    BY MobileParts DEF Members
  <2>3. Told(ended.why, i, ended, order)
    BY <1>6, <1>7, <1>9, <2>2 DEF Told, Moved
  <2>4. attempt.step \in UnderWay
    BY <1>1 DEF UnderWay
  <2> QED BY <1>5, <1>9, <2>1, <2>3, <2>4, FinishKeeps DEF order, attempt
<1>8. CASE attempt.reply.kind = "order"
  <2>1. Knows(i, order, next.version, next.status, next.todo)
    BY <1>4, <1>6, <1>8
  <2>2. Onwards(i, next) /\ attempt.step \in UnderWay
    BY <1>1, <1>8 DEF UnderWay
  <2> QED BY <1>4, <1>5, <1>8, <2>1, <2>2, OnwardsKeeps DEF order, attempt
<1> QED BY <1>1, <1>7, <1>8

\* A line was added.
LEMMA LineAddedKeeps ==
  ASSUME MobileInv, NEW i \in DOMAIN attempts, LineAdded(i)
  PROVE  MobileInv'
<1> DEFINE attempt == attempts[i]
           order == orders[attempt.plan]
           next == AfterLine(attempt)
<1>1. /\ attempt.step = "add" /\ attempt.reply.kind = "summary"
      /\ Onwards(i, next)
  BY DEF LineAdded
<1>2. attempt \in MobileAttempts /\ AttemptSound(i, attempt, order)
  BY MobileParts
<1>3. Without(attempt.todo) \in SUBSET OrderLines
  BY <1>2 DEF Without, MobileAttempts
<1>4. next = [Updated(attempt, attempt.reply)
                EXCEPT !.todo = Without(attempt.todo)]
  <2> DEFINE updated == Updated(attempt, attempt.reply)
  <2>1. updated.todo = attempt.todo
    BY <1>1, <1>2, <1>3, UpdatedFields
  <2>2. next = [updated EXCEPT !.todo = Without(@)]
    BY DEF AfterLine
  <2> HIDE DEF updated, next
  <2>3. [updated EXCEPT !.todo = Without(@)]
          = [updated EXCEPT !.todo = Without(updated.todo)]
    OBVIOUS
  <2> QED BY <2>1, <2>2, <2>3 DEF updated
<1>5. /\ next \in MobileAttempts
      /\ next.plan = attempt.plan /\ next.asked = attempt.asked
      /\ next.version = attempt.reply.version
      /\ next.status = attempt.reply.status
      /\ next.todo = Without(attempt.todo)
  <2> HIDE DEF next
  <2> QED BY <1>1, <1>2, <1>3, <1>4, UpdatedFields
<1>6. attempt.reply # Waiting
  BY <1>1, <1>2, ReplyFields
<1> HIDE DEF attempt, order, next
<1>7. Knows(i, order, next.version, next.status, next.todo)
  BY <1>1, <1>2, <1>5, <1>6 DEF AttemptSound, AddSound
<1>8. attempt.step \in UnderWay
  BY <1>1 DEF UnderWay
<1> QED BY <1>1, <1>5, <1>6, <1>7, <1>8, OnwardsKeeps DEF order, attempt

\* The order was opened.
LEMMA OpenedKeeps ==
  ASSUME MobileInv, NEW i \in DOMAIN attempts, Opened(i)
  PROVE  MobileInv'
<1> DEFINE attempt == attempts[i]
           order == orders[attempt.plan]
<1>1. /\ attempt.step = "open" /\ attempt.reply.kind = "summary"
      /\ Finish(i, attempt, "sent")
  BY DEF Opened
<1>2. /\ attempt \in MobileAttempts /\ attempt.plan \in 1 .. Plans
      /\ AttemptSound(i, attempt, order)
  BY MobileParts
<1>3. attempt.reply # Waiting
  BY <1>1, <1>2, ReplyFields
<1>4. OrderSound(order, Len(attempts))
  BY <1>2, MobileParts
<1> HIDE DEF attempt, order
<1>5. order.opened # 0
  BY <1>1, <1>2, <1>3 DEF AttemptSound, OpenSound
<1>6. OrderLines \subseteq OnOrder(order) /\ order.status \in Past
  BY <1>4, <1>5 DEF OrderSound
<1> QED BY <1>1, <1>2, <1>6, FinishKeeps DEF order, attempt

\* A step fails, or its answer is lost, and the attempt ends.
LEMMA FailsKeeps ==
  ASSUME MobileInv, NEW i \in DOMAIN attempts, Fails(i)
  PROVE  MobileInv'
<1> DEFINE attempt == attempts[i]
           order == orders[attempt.plan]
           told == [attempt EXCEPT !.why = attempt.reply.why]
<1>1. /\ attempt.step \in UnderWay
      /\ IF attempt.reply.kind = "conflict" THEN Finish(i, told, "conflict")
         ELSE Finish(i, attempt, "unavailable")
  BY DEF Fails, Stops, UnderWay
<1>2. attempt \in MobileAttempts /\ AttemptSound(i, attempt, order)
  BY MobileParts
<1>3. CASE attempt.reply.kind = "conflict"
  <2>1. attempt.reply.why \in Causes /\ attempt.reply # Waiting
    BY <1>2, <1>3, ReplyFields
  <2>2. /\ told \in MobileAttempts /\ told.why = attempt.reply.why
        /\ told.plan = attempt.plan /\ told.asked = attempt.asked
        /\ told.version = attempt.version
    BY <1>2, <2>1 DEF MobileAttempts
  <2> HIDE DEF attempt, order, told
  <2>3. Told(told.why, i, told, order)
    BY <1>2, <1>3, <2>2 DEF AttemptSound, Told, Moved
  <2> QED BY <1>1, <1>3, <2>1, <2>2, <2>3, FinishKeeps DEF order, attempt
<1>4. CASE attempt.reply.kind # "conflict"
  <2> QED BY <1>1, <1>2, <1>4, FinishKeeps
<1> QED BY <1>3, <1>4

-----------------------------------------------------------------------------
(***************************************************************************)
(* The phone's steps, and the theorems.                                    *)
(***************************************************************************)

\* The draft is handed over: a new attempt, which has written nothing.
LEMMA SubmitKeeps ==
  ASSUME MobileInv, Submit
  PROVE  MobileInv'
<1> DEFINE i == Len(attempts) + 1
           p == phone.plan
           start == [plan |-> p, step |-> "create", version |-> 0,
                     status |-> "draft", todo |-> {}, asked |-> 1,
                     reply |-> Waiting, why |-> "none"]
           call == [attempt |-> i, id |-> 1, plan |-> p, step |-> "create",
                    line |-> 0, version |-> 0, status |-> "draft",
                    checked |-> FALSE]
<1>1. /\ p <= Plans /\ orders' = orders
      /\ attempts' = Append(attempts, start)
      /\ calls' = calls \union {call}
      /\ phone' = [phone EXCEPT !.current = i, !.says = "sending", !.by = i]
  BY Zenon DEF Submit
<1>2. /\ attempts \in Seq(MobileAttempts) /\ calls \subseteq MobileCalls
      /\ orders \in [1 .. Plans -> MobileOrders] /\ p \in Nat \ {0}
      /\ DOMAIN attempts = 1 .. Len(attempts) /\ Len(attempts) \in Nat
      /\ i \in Nat
  BY MobileParts DEF MobileInv, MobileTypeOK
<1>3. Plans \in Nat
  BY MobileAssumption
<1>4. p \in 1 .. Plans
  BY <1>1, <1>2, <1>3
<1>5. start \in MobileAttempts
  <2>1. /\ "create" \in UnderWay /\ "draft" \in Begun /\ "none" \in Causes
        /\ Waiting \in Replies
    BY DEF UnderWay, Begun, Replies, Causes
  <2> HIDE DEF p
  <2> QED BY <1>4, <2>1 DEF MobileAttempts
<1>6. /\ start.plan = p /\ start.step = "create" /\ start.asked = 1
      /\ start.reply = Waiting
  OBVIOUS
<1>7. call \in MobileCalls
  <2>1. "create" \in UnderWay /\ "draft" \in Begun
    BY DEF UnderWay, Begun
  <2> HIDE DEF p, i
  <2> QED BY <1>2, <1>4, <2>1 DEF MobileCalls
<1>8. call.attempt = i /\ call.id = 1 /\ call.plan = p /\ call.step = "create"
  OBVIOUS
<1>9. phone'.plan = p
  BY <1>1
<1> HIDE DEF start, call, p
<1>10. /\ attempts' \in Seq(MobileAttempts) /\ Len(attempts') = i
       /\ attempts'[i] = start
       /\ \A j \in DOMAIN attempts : attempts'[j] = attempts[j]
       /\ DOMAIN attempts' = DOMAIN attempts \union {i}
       /\ i \notin DOMAIN attempts
  <2>1. /\ attempts' \in Seq(MobileAttempts) /\ Len(attempts') = i
        /\ attempts'[i] = start
        /\ \A j \in 1 .. Len(attempts) : attempts'[j] = attempts[j]
    BY <1>1, <1>2, <1>5, AppendProperties
  <2>2. DOMAIN attempts' = 1 .. i
    BY <2>1, LenProperties
  <2> QED BY <1>2, <2>1, <2>2
<1> HIDE DEF i
<1>11. MobileTypeOK'
  <2>1. phone'.plan \in Nat \ {0}
    BY <1>2, <1>9
  <2> QED BY <1>1, <1>2, <1>7, <1>10, <2>1 DEF MobileTypeOK
<1>12. \A q \in 1 .. Plans : OrderSound(orders'[q], Len(attempts'))
  <2> SUFFICES ASSUME NEW q \in 1 .. Plans
               PROVE  OrderSound(orders[q], i)
    BY <1>1, <1>10
  <2>1. OrderSound(orders[q], Len(attempts))
    BY MobileParts
  <2>2. \A w \in 0 .. Len(attempts) : w \in 0 .. i
    BY <1>2 DEF i
  <2> QED BY <2>1, <2>2 DEF OrderSound
<1>13. AttemptSound(i, start, orders[p])
  <2>1. Untouched(i, orders[p])
    <3>1. OrderSound(orders[p], Len(attempts))
      BY <1>4, MobileParts
    <3>2. i \notin 0 .. Len(attempts)
      BY <1>2 DEF i
    <3> QED BY <3>1, <3>2 DEF OrderSound, Untouched
  <2> QED BY <1>6, <2>1 DEF AttemptSound, CreateSound, UnderWay, Waiting
<1>14. \A j \in DOMAIN attempts' :
         AttemptSound(j, attempts'[j], orders'[attempts'[j].plan])
  BY <1>1, <1>6, <1>10, <1>13, MobileParts
<1>15. \A other \in calls : other.attempt # i
  BY <1>10, MobileParts
<1>16. CallSound(call, start, orders[p])
  BY <1>6, <1>8 DEF CallSound
<1>17. \A other \in calls' :
         /\ other.attempt \in DOMAIN attempts'
         /\ CallSound(other, attempts'[other.attempt], orders'[other.plan])
  BY <1>1, <1>8, <1>10, <1>16, MobileParts
<1>18. \A one, other \in calls' :
         one.attempt = other.attempt /\ one.id = other.id => one = other
  BY <1>1, <1>8, <1>15 DEF MobileInv
<1> QED BY <1>11, <1>12, <1>14, <1>17, <1>18 DEF MobileInv

\* A plan is dropped.
LEMMA DropKeeps ==
  ASSUME MobileInv, Edit \/ Abandon
  PROVE  MobileInv'
<1>1. orders' = orders /\ attempts' = attempts /\ calls' = calls
  BY DEF Edit, Abandon
<1>2. phone.plan \in Nat \ {0} /\ phone.plan + 1 \in Nat \ {0}
  BY DEF MobileInv, MobileTypeOK
<1>3. phone'.plan \in Nat \ {0}
  <2>1. CASE Abandon
    BY <1>2, <2>1 DEF Abandon
  <2>2. CASE Edit
    <3>1. phone' = [phone EXCEPT !.plan = phone.plan + 1, !.says = "none",
                                 !.by = 0]
      BY <2>2 DEF Edit
    <3>2. phone'.plan \in {phone.plan, phone.plan + 1}
      <4>1. CASE "plan" \in DOMAIN phone
        BY <3>1, <4>1
      <4>2. CASE "plan" \notin DOMAIN phone
        BY <3>1, <4>2
      <4> QED BY <4>1, <4>2
    <3> QED BY <1>2, <3>2
  <2> QED BY <2>1, <2>2
<1> QED BY <1>1, <1>3 DEF MobileInv, MobileTypeOK

\* Before anybody ordered there is nothing to know.
LEMMA MobileStarts ==
  ASSUME MobileInit
  PROVE  MobileInv
<1>1. NoOrder \in MobileOrders
  <2>1. <<>> \in Seq(Additions) /\ <<>> \in Seq(Nat)
    BY EmptySeq
  <2> QED BY <2>1 DEF NoOrder, MobileOrders
<1>2. OrderSound(NoOrder, 0)
  BY DEF OrderSound, NoOrder, Added
<1>3. /\ attempts = <<>> /\ calls = {} /\ phone.plan = 1
      /\ orders = [p \in 1 .. Plans |-> NoOrder]
  BY DEF MobileInit
<1>4. attempts \in Seq(MobileAttempts) /\ Len(attempts) = 0
      /\ DOMAIN attempts = {}
  BY <1>3, EmptySeq
<1> QED BY <1>1, <1>2, <1>3, <1>4 DEF MobileInv, MobileTypeOK

\* Every step keeps the invariant.
LEMMA MobileSteps ==
  ASSUME MobileInv, [MobileNext]_mobileVars
  PROVE  MobileInv'
<1>1. CASE UNCHANGED mobileVars
  BY <1>1 DEF mobileVars, MobileInv, MobileTypeOK
<1>2. CASE \E p \in 1 .. Plans : Staff(p)
  BY <1>2, StaffKeeps
<1>3. CASE \E call \in calls : LookUp(call) \/ ServeCreate(call)
                 \/ ServeRead(call) \/ Check(call) \/ Persist(call)
  BY <1>3, LookUpKeeps, ServeCreateKeeps, ServeReadKeeps, CheckKeeps,
     PersistKeeps
<1>4. CASE \E i \in DOMAIN attempts : Created(i) \/ Resumed(i) \/ LineAdded(i)
                                        \/ Opened(i) \/ Fails(i)
  BY <1>4, CreatedKeeps, ResumedKeeps, LineAddedKeeps, OpenedKeeps, FailsKeeps
<1>5. CASE Submit \/ Edit \/ Abandon
  BY <1>5, SubmitKeeps, DropKeeps
<1> QED BY <1>1, <1>2, <1>3, <1>4, <1>5 DEF MobileNext

\* The invariant holds always: what an attempt believes of its order is so,
\* whatever calls of earlier attempts are executed late and whoever else writes
\* it.
THEOREM MobileInvariant == MobileSpec => []MobileInv
<1>1. MobileInit => MobileInv
  BY MobileStarts
<1>2. MobileInv /\ [MobileNext]_mobileVars => MobileInv'
  BY MobileSteps
<1> QED BY <1>1, <1>2, PTL DEF MobileSpec

\* An order is opened by a plan, and an attempt says it was sent, only with
\* every line on it, for plans of any length and any number of attempts.
THEOREM WholeOrdersSent == MobileSpec => []SentMeansWhole
<1>1. MobileInv => SentMeansWhole
  <2> SUFFICES ASSUME MobileInv PROVE SentMeansWhole
    OBVIOUS
  <2>1. DOMAIN orders = 1 .. Plans
    BY DEF MobileInv, MobileTypeOK
  <2>2. ASSUME NEW p \in DOMAIN orders, orders[p].opened # 0
        PROVE  OnOrder(orders[p]) = OrderLines
    BY <2>1, <2>2, MobileParts, LinesOfAdditions DEF OrderSound
  <2>3. ASSUME NEW i \in DOMAIN attempts, attempts[i].step = "sent"
        PROVE  /\ OnOrder(orders[attempts[i].plan]) = OrderLines
               /\ orders[attempts[i].plan].status \notin {"none", "draft"}
    <3>1. /\ attempts[i].plan \in 1 .. Plans
          /\ AttemptSound(i, attempts[i], orders[attempts[i].plan])
      BY MobileParts
    <3>2. /\ OrderLines \subseteq OnOrder(orders[attempts[i].plan])
          /\ orders[attempts[i].plan].status \in Past
      BY <2>3, <3>1 DEF AttemptSound
    <3>3. OnOrder(orders[attempts[i].plan]) \subseteq OrderLines
      BY <3>1, MobileParts, LinesOfAdditions
    <3> QED BY <3>2, <3>3 DEF Past
  <2> QED BY <2>2, <2>3 DEF SentMeansWhole
<1> QED BY <1>1, MobileInvariant, PTL

\* An attempt never trips over its own writes, however many lines it has added:
\* told that the order moved, somebody else has written it after the version the
\* attempt knew; told that no shift is open, it wrote nothing.
THEOREM NoOwnConflict == MobileSpec => []NoConflictWithItself
<1>1. MobileInv => NoConflictWithItself
  <2> SUFFICES ASSUME MobileInv, NEW i \in DOMAIN attempts
               PROVE  LET attempt == attempts[i]
                          order == orders[attempt.plan]
                      IN /\ attempt.reply.kind = "conflict" =>
                              Told(attempt.reply.why, i, attempt, order)
                         /\ attempt.step = "conflict" =>
                              Told(attempt.why, i, attempt, order)
    BY DEF NoConflictWithItself, Told, Moved, Untouched
  <2> QED BY MobileParts DEF AttemptSound
<1> QED BY <1>1, MobileInvariant, PTL

-----------------------------------------------------------------------------
(***************************************************************************)
(* The gate of the session.                                                *)
(***************************************************************************)

\* What the gate, the provider and the screen hold.
Anybody == Operators \union {NoOne}

GateReads == [step : {"none", "asked", "read", "branch"}, bound : Nat,
              who : Anybody]

Screens == [who : Anybody, started : BOOLEAN, form : Nat,
            check : GateReads, startUp : GateReads]

GateTypeOK ==
  /\ gate \in [generation : Nat, open : BOOLEAN]
  /\ provider \in [holds : Anybody, renewing : Anybody, leaving : BOOLEAN]
  /\ signIns \subseteq [bound : Nat, who : Operators]
  /\ app \in Screens
  /\ admitted \subseteq Operators
  /\ revived \in BOOLEAN

\* Before the first sign-in nobody is known to anybody, and the session read
\* at start-up was asked for then.
StartUpFindsNobody ==
  /\ app.startUp.bound = 0
  /\ gate.generation = 0 =>
       /\ signIns = {} /\ app.who = NoOne /\ app.startUp.who = NoOne
       /\ provider.holds = NoOne /\ provider.renewing = NoOne

\* A session is checked for somebody who is on the screen.
ChecksOfSomebody ==
  /\ app.check.step # "none" => app.who # NoOne
  /\ app.check.step = "branch" => app.check.who # NoOne

\* A sign-in is under way only on the form that asked for it.
OneSignIn ==
  ~ revived =>
    /\ \A attempt \in signIns : attempt.bound = app.form /\ attempt.bound > 0
    /\ \A attempt, other \in signIns : attempt = other
    /\ signIns # {} => app.who = NoOne

\* Whoever is on the screen, the provider holds or a read found meanwhile was
\* admitted in this generation, which is open.
AdmittedOnly ==
  ~ revived /\ app.who # NoOne =>
    /\ gate.open /\ app.who \in admitted
    /\ provider.holds \in admitted \union {NoOne}
    /\ app.check.step \in {"read", "branch"} =>
         app.check.who \in admitted \union {NoOne}

\* The inductive invariant of the gate.
GateInv ==
  /\ GateTypeOK /\ StartUpFindsNobody /\ ChecksOfSomebody /\ OneSignIn
  /\ AdmittedOnly

-----------------------------------------------------------------------------
(***************************************************************************)
(* What the helpers of the screen and of the gate return.                  *)
(***************************************************************************)

\* No read under way.
LEMMA NoReadType ==
  /\ NoRead \in GateReads /\ NoRead.step = "none" /\ NoRead.bound = 0
  /\ NoRead.who = NoOne
BY DEF NoRead, GateReads, Anybody

\* A blank screen has nothing to check, and the form only while nobody is in.
LEMMA BlankScreen ==
  ASSUME app \in Screens, NEW who \in Anybody
  PROVE  /\ Blank(who) \in Screens
         /\ Blank(who).who = who /\ Blank(who).check = NoRead
         /\ Blank(who).startUp = app.startUp
         /\ who = NoOne => Blank(who).form = app.form
BY NoReadType DEF Blank, Screens

\* Observing who is there already changes no read and no form.
LEMMA ObservedScreen ==
  ASSUME app \in Screens, NEW who \in Anybody
  PROVE  /\ Observed(who) \in Screens
         /\ Observed(who).who = who
         /\ Observed(who).startUp = app.startUp
         /\ app.who = who => /\ Observed(who).check = app.check
                             /\ Observed(who).form = app.form
         /\ app.who # who => Observed(who).check = NoRead
<1>1. CASE app.who = who
  BY <1>1 DEF Observed, Screens
<1>2. CASE app.who # who
  BY <1>2, BlankScreen DEF Observed
<1> QED BY <1>1, <1>2

\* The form that asked is free again; nothing else changes on the screen.
LEMMA IdleScreen ==
  ASSUME app \in Screens, NEW bound \in Nat
  PROVE  /\ Idle(bound) \in Screens
         /\ Idle(bound).who = app.who /\ Idle(bound).check = app.check
         /\ Idle(bound).startUp = app.startUp
<1> DEFINE form == IF app.form = bound THEN 0 ELSE app.form
<1>1. form \in Nat
  BY DEF Screens
<1>2. Idle(bound) = [app EXCEPT !.form = form]
  BY DEF Idle
<1> HIDE DEF form
<1> QED BY <1>1, <1>2 DEF Screens

\* A turn opens or closes a generation that nobody was admitted to yet.
LEMMA TurnedGate ==
  ASSUME GateTypeOK, NEW open \in BOOLEAN, Turn(open)
  PROVE  /\ gate' \in [generation : Nat, open : BOOLEAN]
         /\ gate'.generation = gate.generation + 1
         /\ gate'.generation # 0 /\ gate'.open = open
         /\ admitted' = {}
<1>1. gate.generation \in Nat /\ gate.generation + 1 \in Nat
      /\ gate.generation + 1 # 0
  BY DEF GateTypeOK
<1> QED BY <1>1 DEF Turn

\* Closing turns the generation or finds it closed.
LEMMA ClosedGate ==
  ASSUME GateTypeOK, Close
  PROVE  /\ gate' \in [generation : Nat, open : BOOLEAN]
         /\ admitted' \subseteq Operators
         /\ gate'.generation = 0 => gate.generation = 0
<1>1. CASE gate.open
  BY <1>1, TurnedGate DEF Close
<1>2. CASE ~ gate.open
  BY <1>2 DEF Close, GateTypeOK
<1> QED BY <1>1, <1>2

-----------------------------------------------------------------------------
(***************************************************************************)
(* Every step keeps GateInv.                                               *)
(***************************************************************************)

\* A screen that is left without an operator keeps the invariant, whatever
\* becomes of the gate and of what the provider holds.
LEMMA LeftKeeps ==
  ASSUME GateInv, app' \in Screens, app'.who = NoOne, app'.check = NoRead,
         app'.form = app.form, app'.startUp \in {app.startUp, NoRead},
         UNCHANGED <<signIns, revived>>,
         gate' \in [generation : Nat, open : BOOLEAN],
         admitted' \subseteq Operators,
         gate'.generation = 0 => gate.generation = 0,
         provider' \in [holds : Anybody, renewing : Anybody, leaving : BOOLEAN],
         provider'.holds \in {provider.holds, NoOne},
         provider'.renewing = provider.renewing
  PROVE  GateInv'
<1>1. GateTypeOK'
  BY DEF GateInv, GateTypeOK
<1>2. StartUpFindsNobody'
  BY NoReadType DEF GateInv, StartUpFindsNobody
<1>3. ChecksOfSomebody' /\ AdmittedOnly'
  BY NoReadType DEF ChecksOfSomebody, AdmittedOnly
<1>4. OneSignIn'
  BY DEF GateInv, OneSignIn
<1> QED BY <1>1, <1>2, <1>3, <1>4 DEF GateInv

\* mobile-state.ts and auth-gate.ts: the end of a session, by the operator, by
\* a check that found nobody or by the provider.
LEMMA EndsKeep ==
  ASSUME GateInv, SignOut \/ CheckFails \/ SessionEnds
                    \/ (CheckAnswered /\ Believed(app.check) = NoOne)
  PROVE  GateInv'
<1>1. app \in Screens /\ GateTypeOK
  BY DEF GateInv, GateTypeOK
<1>2. /\ Blank(NoOne) \in Screens
      /\ Blank(NoOne).who = NoOne /\ Blank(NoOne).check = NoRead
      /\ Blank(NoOne).startUp = app.startUp /\ Blank(NoOne).form = app.form
  BY <1>1, BlankScreen DEF Anybody
<1>3. CASE SessionEnds
  <2>1. /\ app' = Blank(NoOne) /\ UNCHANGED <<signIns, revived>>
        /\ provider' = [provider EXCEPT !.holds = NoOne, !.leaving = FALSE]
        /\ Close \/ UNCHANGED <<gate, admitted>>
    BY <1>3 DEF SessionEnds
  <2>2. /\ provider' \in [holds : Anybody, renewing : Anybody,
                          leaving : BOOLEAN]
        /\ provider'.holds = NoOne /\ provider'.renewing = provider.renewing
    BY <1>1, <2>1 DEF GateTypeOK, Anybody
  <2>3. /\ gate' \in [generation : Nat, open : BOOLEAN]
        /\ admitted' \subseteq Operators
        /\ gate'.generation = 0 => gate.generation = 0
    BY <1>1, <2>1, ClosedGate DEF GateTypeOK
  <2> QED BY <1>2, <2>1, <2>2, <2>3, LeftKeeps
<1>4. CASE EndSession(Blank(NoOne))
  <2>1. /\ app' = Blank(NoOne) /\ UNCHANGED <<signIns, revived>>
        /\ provider' = [provider EXCEPT !.leaving = TRUE]
        /\ Close
    BY <1>4 DEF EndSession
  <2>2. /\ provider' \in [holds : Anybody, renewing : Anybody,
                          leaving : BOOLEAN]
        /\ provider'.holds = provider.holds
        /\ provider'.renewing = provider.renewing
    BY <1>1, <2>1 DEF GateTypeOK
  <2>3. /\ gate' \in [generation : Nat, open : BOOLEAN]
        /\ admitted' \subseteq Operators
        /\ gate'.generation = 0 => gate.generation = 0
    BY <1>1, <2>1, ClosedGate
  <2> QED BY <1>2, <2>1, <2>2, <2>3, LeftKeeps
<1> QED BY <1>3, <1>4 DEF SignOut, CheckFails, CheckAnswered

\* The session read at start-up was asked for before anybody signed in: it is
\* believed only while there is nobody to find.
LEMMA StartUpKeeps ==
  ASSUME GateInv, StartUpReads \/ StartUpAnswered
  PROVE  GateInv'
<1>1. app \in Screens /\ GateTypeOK /\ app.startUp \in GateReads
  BY DEF GateInv, GateTypeOK, Screens
<1>2. CASE StartUpReads
  <2> DEFINE read == [app.startUp EXCEPT !.step = "read",
                                         !.who = provider.holds]
  <2>1. read \in GateReads /\ read.bound = app.startUp.bound
        /\ read.who = provider.holds
    BY <1>1 DEF GateReads, GateTypeOK
  <2>2. app' = [app EXCEPT !.startUp = read]
    BY <1>1, <1>2 DEF StartUpReads, Screens, GateReads
  <2> HIDE DEF read
  <2>3. /\ app' \in Screens /\ app'.startUp = read /\ app'.who = app.who
        /\ app'.check = app.check /\ app'.form = app.form
    BY <1>1, <2>1, <2>2 DEF Screens
  <2>4. UNCHANGED <<gate, signIns, admitted, revived, provider>>
    BY <1>2 DEF StartUpReads, ReadBy
  <2> QED BY <2>1, <2>3, <2>4
          DEF GateInv, GateTypeOK, StartUpFindsNobody, ChecksOfSomebody,
              OneSignIn, AdmittedOnly
<1>3. CASE StartUpAnswered
  <2>1. Believed(app.startUp) = NoOne
    BY DEF GateInv, StartUpFindsNobody, Believed
  <2>2. /\ app' = [Blank(NoOne) EXCEPT !.startUp = NoRead]
        /\ UNCHANGED <<gate, signIns, admitted, revived, provider>>
    BY <1>3, <2>1 DEF StartUpAnswered, ReadBy
  <2>3. /\ Blank(NoOne) \in Screens
        /\ Blank(NoOne).who = NoOne /\ Blank(NoOne).check = NoRead
        /\ Blank(NoOne).form = app.form
    BY <1>1, BlankScreen DEF Anybody
  <2>4. /\ app' \in Screens /\ app'.startUp = NoRead /\ app'.who = NoOne
        /\ app'.check = NoRead /\ app'.form = app.form
    BY <2>2, <2>3, NoReadType DEF Screens
  <2> QED BY <2>2, <2>4, LeftKeeps DEF GateInv, GateTypeOK
<1> QED BY <1>2, <1>3

\* A check is asked for and reads what the provider holds.
LEMMA BranchCheckKeeps ==
  ASSUME GateInv, Revalidate \/ CheckReads
                    \/ (CheckAnswered /\ Believed(app.check) # NoOne)
  PROVE  GateInv'
<1>1. app \in Screens /\ GateTypeOK /\ app.check \in GateReads
      /\ gate.generation \in Nat
  BY DEF GateInv, GateTypeOK, Screens
<1>2. PICK read \in GateReads :
        /\ app' = [app EXCEPT !.check = read]
        /\ app.who # NoOne
        /\ read.step = "branch" => read.who # NoOne
        /\ read.step \in {"read", "branch"} =>
             \/ read.who = provider.holds
             \/ read.who = app.check.who /\ app.check.step = "read"
  <2>1. CASE Revalidate
    <3> DEFINE read == [step |-> "asked", bound |-> gate.generation,
                        who |-> NoOne]
    <3>1. read \in GateReads /\ read.step = "asked"
      BY <1>1 DEF GateReads, Anybody
    <3>2. app' = [app EXCEPT !.check = read] /\ app.who # NoOne
      BY <2>1 DEF Revalidate
    <3> HIDE DEF read
    <3> QED BY <3>1, <3>2
  <2>2. CASE CheckReads
    <3> DEFINE read == [app.check EXCEPT !.step = "read",
                                         !.who = provider.holds]
    <3>1. read \in GateReads /\ read.step = "read"
          /\ read.who = provider.holds
      BY <1>1 DEF GateReads, GateTypeOK
    <3>2. app' = [app EXCEPT !.check = read] /\ app.check.step = "asked"
      BY <1>1, <2>2 DEF CheckReads, ReadBy, Screens, GateReads
    <3>3. app.who # NoOne
      BY <3>2 DEF GateInv, ChecksOfSomebody
    <3> HIDE DEF read
    <3> QED BY <3>1, <3>2, <3>3
  <2>3. CASE CheckAnswered /\ Believed(app.check) # NoOne
    <3> DEFINE read == [app.check EXCEPT !.step = "branch"]
    <3>1. read \in GateReads /\ read.step = "branch"
          /\ read.who = app.check.who
      BY <1>1 DEF GateReads
    <3>2. /\ app' = [app EXCEPT !.check = read] /\ app.check.step = "read"
          /\ app.check.who # NoOne
      BY <1>1, <2>3 DEF CheckAnswered, Believed, Screens, GateReads
    <3>3. app.who # NoOne
      BY <3>2 DEF GateInv, ChecksOfSomebody
    <3> HIDE DEF read
    <3> QED BY <3>1, <3>2, <3>3
  <2> QED BY <2>1, <2>2, <2>3
<1>3. UNCHANGED <<gate, provider, signIns, admitted, revived>>
  BY DEF Revalidate, CheckReads, CheckAnswered, ReadBy
<1>4. /\ app' \in Screens /\ app'.check = read /\ app'.who = app.who
      /\ app'.startUp = app.startUp /\ app'.form = app.form
  BY <1>1, <1>2 DEF Screens
<1>5. GateTypeOK' /\ StartUpFindsNobody' /\ ChecksOfSomebody' /\ OneSignIn'
  BY <1>2, <1>3, <1>4
     DEF GateInv, GateTypeOK, StartUpFindsNobody, ChecksOfSomebody, OneSignIn
<1>6. AdmittedOnly'
  BY <1>2, <1>3, <1>4 DEF GateInv, AdmittedOnly
<1> QED BY <1>5, <1>6 DEF GateInv

\* The branch was asked about: the operator the check found is observed.
LEMMA CheckEndsKeeps ==
  ASSUME GateInv, CheckEnds
  PROVE  GateInv'
<1> DEFINE who == app.check.who
           screen == Observed(who)
<1>1. app \in Screens /\ GateTypeOK /\ who \in Anybody /\ who # NoOne
  BY DEF GateInv, GateTypeOK, Screens, GateReads, CheckEnds,
         ChecksOfSomebody
<1>2. app.who # NoOne /\ app.check.step = "branch"
  BY DEF GateInv, ChecksOfSomebody, CheckEnds
<1>3. /\ screen \in Screens /\ screen.who = who
      /\ screen.startUp = app.startUp
  BY <1>1, ObservedScreen
<1>4. /\ app' = [screen EXCEPT !.check = NoRead]
      /\ UNCHANGED <<gate, provider, signIns, admitted, revived>>
  BY DEF CheckEnds
<1> HIDE DEF screen
<1>5. /\ app' \in Screens /\ app'.who = who /\ app'.check = NoRead
      /\ app'.startUp = app.startUp
  BY <1>3, <1>4, NoReadType DEF Screens
<1>6. GateTypeOK' /\ ChecksOfSomebody'
  BY <1>4, <1>5, NoReadType DEF GateInv, GateTypeOK, ChecksOfSomebody
<1>7. StartUpFindsNobody'
  BY <1>2, <1>4, <1>5 DEF GateInv, StartUpFindsNobody
<1>8. OneSignIn'
  BY <1>2, <1>4 DEF GateInv, OneSignIn
<1>9. AdmittedOnly'
  BY <1>1, <1>2, <1>4, <1>5, NoReadType DEF GateInv, AdmittedOnly
<1> QED BY <1>6, <1>7, <1>8, <1>9 DEF GateInv

\* A sign-in opens a generation and takes the form.
LEMMA SignInKeeps ==
  ASSUME GateInv, NEW who \in Operators, SignIn(who)
  PROVE  GateInv'
<1> DEFINE bound == gate.generation + 1
           attempt == [bound |-> bound, who |-> who]
<1>1. app \in Screens /\ GateTypeOK /\ bound \in Nat /\ bound > 0
  BY DEF GateInv, GateTypeOK
<1>2. /\ Turn(TRUE) /\ app.who = NoOne /\ app.form = 0
      /\ signIns' = signIns \union {attempt}
      /\ app' = [app EXCEPT !.form = bound]
      /\ UNCHANGED <<provider, revived>>
  BY DEF SignIn
<1>3. /\ attempt \in [bound : Nat, who : Operators]
      /\ attempt.bound = bound
  BY <1>1
<1> HIDE DEF bound, attempt
<1>4. /\ app' \in Screens /\ app'.form = bound /\ app'.who = NoOne
      /\ app'.check = app.check /\ app'.startUp = app.startUp
  BY <1>1, <1>2 DEF Screens
<1>5. /\ gate' \in [generation : Nat, open : BOOLEAN]
      /\ gate'.generation # 0 /\ admitted' = {}
  BY <1>1, <1>2, TurnedGate
<1>6. GateTypeOK' /\ StartUpFindsNobody' /\ ChecksOfSomebody' /\ AdmittedOnly'
  BY <1>1, <1>2, <1>3, <1>4, <1>5
     DEF GateInv, GateTypeOK, StartUpFindsNobody, ChecksOfSomebody,
         AdmittedOnly
<1>7. OneSignIn'
  <2>1. ~ revived => signIns = {}
    BY <1>2 DEF GateInv, OneSignIn
  <2> QED BY <1>1, <1>2, <1>3, <1>4, <2>1 DEF OneSignIn
<1> QED BY <1>6, <1>7 DEF GateInv

\* The provider answers a sign-in, to a gate that may have moved on.
LEMMA SignedInKeeps ==
  ASSUME GateInv, NEW attempt \in signIns, SignedIn(attempt)
  PROVE  GateInv'
<1> DEFINE who == attempt.who
<1>1. /\ app \in Screens /\ GateTypeOK
      /\ attempt.bound \in Nat /\ who \in Operators /\ who # NoOne
      /\ who \in Anybody
  BY GateAssumption DEF GateInv, GateTypeOK, Anybody
<1>2. /\ signIns' = signIns \ {attempt}
      /\ provider' = [provider EXCEPT !.holds = who]
      /\ app' = IF gate.open THEN Observed(who) ELSE Idle(attempt.bound)
      /\ admitted' = IF gate.open THEN admitted \union {who} ELSE admitted
      /\ UNCHANGED <<gate, revived>>
  BY DEF SignedIn, Announce, Delivered
<1>3. gate.generation # 0
  BY DEF GateInv, StartUpFindsNobody
<1>4. /\ provider' \in [holds : Anybody, renewing : Anybody, leaving : BOOLEAN]
      /\ provider'.holds = who
  BY <1>1, <1>2 DEF GateTypeOK
<1>5. ~ revived => app.who = NoOne /\ signIns' = {}
  BY <1>2 DEF GateInv, OneSignIn
<1>6. OneSignIn'
  BY <1>2, <1>5 DEF OneSignIn
<1>7. CASE gate.open
  <2>1. /\ app' \in Screens /\ app'.who = who
        /\ app'.startUp = app.startUp
        /\ app.who = who => app'.check = app.check
        /\ app.who # who => app'.check = NoRead
    BY <1>1, <1>2, <1>7, ObservedScreen
  <2>2. GateTypeOK' /\ StartUpFindsNobody' /\ ChecksOfSomebody'
    BY <1>1, <1>2, <1>3, <1>4, <1>7, <2>1, NoReadType
       DEF GateInv, GateTypeOK, StartUpFindsNobody, ChecksOfSomebody
  <2>3. AdmittedOnly'
    BY <1>1, <1>2, <1>4, <1>5, <1>7, <2>1, NoReadType DEF AdmittedOnly
  <2> QED BY <1>6, <2>2, <2>3 DEF GateInv
<1>8. CASE ~ gate.open
  <2>1. /\ app' \in Screens /\ app'.who = app.who
        /\ app'.startUp = app.startUp /\ app'.check = app.check
    BY <1>1, <1>2, <1>8, IdleScreen
  <2>2. GateTypeOK' /\ StartUpFindsNobody' /\ ChecksOfSomebody'
    BY <1>1, <1>2, <1>3, <1>4, <1>8, <2>1
       DEF GateInv, GateTypeOK, StartUpFindsNobody, ChecksOfSomebody
  <2>3. AdmittedOnly'
    BY <1>2, <1>5, <2>1 DEF AdmittedOnly
  <2> QED BY <1>6, <2>2, <2>3 DEF GateInv
<1> QED BY <1>7, <1>8

\* A sign-in that fails closes the generation it opened, if it is still that.
LEMMA SignInFailsKeeps ==
  ASSUME GateInv, NEW attempt \in signIns, SignInFails(attempt)
  PROVE  GateInv'
<1>1. app \in Screens /\ GateTypeOK /\ attempt.bound \in Nat
  BY DEF GateInv, GateTypeOK
<1>2. /\ signIns' = signIns \ {attempt}
      /\ app' = Idle(attempt.bound)
      /\ Turn(FALSE) \/ UNCHANGED <<gate, admitted>>
      /\ UNCHANGED <<provider, revived>>
  BY DEF SignInFails
<1>3. gate.generation # 0
  BY DEF GateInv, StartUpFindsNobody
<1>4. /\ app' \in Screens /\ app'.who = app.who
      /\ app'.startUp = app.startUp /\ app'.check = app.check
  BY <1>1, <1>2, IdleScreen
<1>5. /\ gate' \in [generation : Nat, open : BOOLEAN]
      /\ gate'.generation # 0 /\ admitted' \subseteq Operators
  BY <1>1, <1>2, <1>3, TurnedGate DEF GateTypeOK
<1>6. ~ revived => app.who = NoOne /\ signIns' = {}
  BY <1>2 DEF GateInv, OneSignIn
<1>7. GateTypeOK' /\ StartUpFindsNobody' /\ ChecksOfSomebody'
  BY <1>1, <1>2, <1>4, <1>5
     DEF GateInv, GateTypeOK, StartUpFindsNobody, ChecksOfSomebody
<1>8. OneSignIn' /\ AdmittedOnly'
  BY <1>2, <1>4, <1>6 DEF OneSignIn, AdmittedOnly
<1> QED BY <1>7, <1>8 DEF GateInv

\* A renewal of the session the provider holds: one that brings back an
\* operator who was not there is the exception SignedOutStaysOut names.
LEMMA RenewalKeeps ==
  ASSUME GateInv, StartRenewal \/ Renewed \/ RenewalFails \/ SignOutLost
  PROVE  GateInv'
<1>1. app \in Screens /\ GateTypeOK /\ provider.holds \in Anybody
      /\ provider.renewing \in Anybody /\ NoOne \in Anybody
  BY DEF GateInv, GateTypeOK, Anybody
<1>2. CASE StartRenewal \/ RenewalFails \/ SignOutLost
  <2>1. UNCHANGED <<gate, signIns, app, admitted, revived>>
    BY <1>2 DEF StartRenewal, RenewalFails, SignOutLost
  <2>2. /\ provider' \in [holds : Anybody, renewing : Anybody,
                          leaving : BOOLEAN]
        /\ provider'.holds = provider.holds
        /\ gate.generation = 0 => provider'.renewing = NoOne
    BY <1>1, <1>2
       DEF StartRenewal, RenewalFails, SignOutLost, GateTypeOK, GateInv,
           StartUpFindsNobody
  <2> QED BY <2>1, <2>2
          DEF GateInv, GateTypeOK, StartUpFindsNobody, ChecksOfSomebody,
              OneSignIn, AdmittedOnly
<1>3. CASE Renewed
  <2> DEFINE who == provider.renewing
  <2>1. /\ who # NoOne
        /\ provider' = [provider EXCEPT !.holds = who, !.renewing = NoOne]
        /\ app' = IF gate.open THEN Observed(who) ELSE app
        /\ revived' = (revived \/ (gate.open /\ app.who # who))
        /\ UNCHANGED <<gate, signIns, admitted>>
    BY <1>3 DEF Renewed, Announce, Delivered
  <2>2. /\ provider' \in [holds : Anybody, renewing : Anybody,
                          leaving : BOOLEAN]
        /\ provider'.holds = who
    BY <1>1, <2>1 DEF GateTypeOK
  <2>3. gate.generation # 0 /\ revived' \in BOOLEAN
    BY <2>1 DEF GateInv, GateTypeOK, StartUpFindsNobody
  <2>4. CASE gate.open
    <3>1. /\ app' \in Screens /\ app'.who = who
          /\ app'.startUp = app.startUp
          /\ app.who = who => app'.check = app.check /\ app'.form = app.form
          /\ app.who # who => app'.check = NoRead
      BY <1>1, <2>1, <2>4, ObservedScreen
    <3>2. GateTypeOK' /\ StartUpFindsNobody' /\ ChecksOfSomebody'
      BY <1>1, <2>1, <2>2, <2>3, <3>1, NoReadType
         DEF GateInv, GateTypeOK, StartUpFindsNobody, ChecksOfSomebody
    <3>3. OneSignIn' /\ AdmittedOnly'
      <4>1. CASE revived'
        BY <4>1 DEF OneSignIn, AdmittedOnly
      <4>2. CASE ~ revived'
        <5>1. ~ revived /\ app.who = who
          BY <2>1, <2>4, <4>2
        <5> QED BY <2>1, <2>2, <3>1, <5>1 DEF GateInv, OneSignIn, AdmittedOnly
      <4> QED BY <4>1, <4>2
    <3> QED BY <3>2, <3>3 DEF GateInv
  <2>5. CASE ~ gate.open
    <3>1. app' = app /\ (revived' = revived)
      BY <2>1, <2>5 DEF GateInv, GateTypeOK
    <3> QED BY <1>1, <2>1, <2>2, <2>3, <2>5, <3>1
            DEF GateInv, GateTypeOK, StartUpFindsNobody, ChecksOfSomebody,
                OneSignIn, AdmittedOnly
  <2> QED BY <2>4, <2>5
<1> QED BY <1>2, <1>3

-----------------------------------------------------------------------------
(***************************************************************************)
(* What the gate promises.                                                 *)
(***************************************************************************)

\* GateInv holds in every reachable state of the gate.
THEOREM GateInvariant == GateSpec => []GateInv
<1>1. GateInit => GateInv
  <2> SUFFICES ASSUME GateInit PROVE GateInv
    OBVIOUS
  <2> DEFINE read == [NoRead EXCEPT !.step = "asked"]
  <2>1. read \in GateReads /\ read.bound = 0 /\ read.who = NoOne
    BY NoReadType DEF GateReads
  <2>2. app = [who |-> NoOne, started |-> FALSE, form |-> 0,
               check |-> NoRead, startUp |-> read]
    BY DEF GateInit
  <2> HIDE DEF read
  <2>3. /\ app \in Screens /\ app.who = NoOne /\ app.startUp = read
        /\ app.check = NoRead
    BY <2>1, <2>2, NoReadType DEF Screens, Anybody
  <2> QED BY <2>1, <2>3, NoReadType
          DEF GateInit, GateInv, GateTypeOK, Anybody, StartUpFindsNobody,
              ChecksOfSomebody, OneSignIn, AdmittedOnly
<1>2. GateInv /\ [GateNext]_gateVars => GateInv'
  <2> SUFFICES ASSUME GateInv, [GateNext]_gateVars PROVE GateInv'
    OBVIOUS
  <2>1. CASE \E who \in Operators : SignIn(who)
    BY <2>1, SignInKeeps
  <2>2. CASE SignOut \/ CheckFails \/ SessionEnds \/ CheckAnswered
    BY <2>2, EndsKeep, BranchCheckKeeps
  <2>3. CASE StartUpReads \/ StartUpAnswered
    BY <2>3, StartUpKeeps
  <2>4. CASE Revalidate \/ CheckReads \/ CheckEnds
    BY <2>4, BranchCheckKeeps, CheckEndsKeeps
  <2>5. CASE \E attempt \in signIns : SignedIn(attempt) \/ SignInFails(attempt)
    BY <2>5, SignedInKeeps, SignInFailsKeeps
  <2>6. CASE StartRenewal \/ Renewed \/ RenewalFails \/ SignOutLost
    BY <2>6, RenewalKeeps
  <2>7. CASE UNCHANGED gateVars
    BY <2>7 DEF gateVars, GateInv, GateTypeOK, StartUpFindsNobody,
                ChecksOfSomebody, OneSignIn, AdmittedOnly
  <2> QED BY <2>1, <2>2, <2>3, <2>4, <2>5, <2>6, <2>7 DEF GateNext
<1> QED BY <1>1, <1>2, PTL DEF GateSpec

\* Nobody is on the screen who was not admitted in the generation that is open,
\* whatever sign-in, check, renewal or sign-out is answered late; only a
\* renewal announced to somebody else's screen brings an operator back.
THEOREM NobodyComesBack == GateSpec => []SignedOutStaysOut
<1>1. GateInv => SignedOutStaysOut
  BY DEF GateInv, AdmittedOnly, SignedOutStaysOut
<1> QED BY <1>1, GateInvariant, PTL
=============================================================================
