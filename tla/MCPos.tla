-------------------------------- MODULE MCPos --------------------------------
(***************************************************************************)
(* The point of sale, started where the interesting part begins: some      *)
(* orders already taken and opened, one session already open, by commands  *)
(* the journal remembers.                                                  *)
(***************************************************************************)
EXTENDS PosProperties, TLC

CONSTANT Scenes  \* the scenes of a run

VARIABLE scene

SceneKinds ==
  [take     |-> {"create", "add", "open", "send", "cancel"},
   cook     |-> {"send", "advance", "cancel_line", "cancel"},
   money    |-> {"collect", "cancel", "close"},
   register |-> {"collect", "close", "register_open"},
   counter  |-> {"collect", "cancel", "close", "register_open", "add",
                 "cancel_line", "label"},
   settle   |-> {"assign", "dispatch", "complete", "fail", "settle",
                 "collect", "cancel"},
   replay   |-> {"settle"}]

\* Bound: the commands of a scene, with those journaled before it.
Commands ==
  [take |-> 4, cook |-> 6, money |-> 9, register |-> 6, counter |-> 5,
   settle |-> 10, replay |-> 10]

\* The orders taken before, the lines each has, the session that is open and
\* how many moves the first order may have made towards delivery.
Taken(s) ==
  CASE s = "take" -> <<>>
    [] s \in {"cook", "money"} -> SetToSeq(Orders)
    [] OTHER -> SetToSeq(DeliveryOrders)
LinesTaken ==
  [take |-> 0, cook |-> 2, money |-> 1, register |-> 1, counter |-> 1,
   settle |-> 0, replay |-> 0]
OpenSession(s) ==
  IF s \in {"take", "cook"} THEN Null ELSE CHOOSE session \in Sessions : TRUE
Trips ==
  [take |-> {0}, cook |-> {0}, money |-> {0}, register |-> {0},
   counter |-> {0}, settle |-> {4, 5}, replay |-> {6}]

\* A trip that fails once and is made again.
TripsMade(trips) ==
  SubSeq(<<"assign", "dispatch", "fail", "assign", "dispatch", "complete">>,
         1, trips)

Length(lines) == lines + 2   \* commands that took and opened an order

OrderCommand(o, key, i, lines) ==
  IF i = 0 THEN [kind |-> "create", key |-> key, order |-> o]
  ELSE [kind |-> IF i <= lines THEN "add" ELSE "open",
        key |-> key, order |-> o, version |-> i]

OrderEntries(taken, lines) ==
  [x \in {<<"order", k>> : k \in 1 .. Len(taken) * Length(lines)} |->
     LET i == (x[2] - 1) % Length(lines)
         o == taken[(x[2] - 1) \div Length(lines) + 1]
     IN [command |-> OrderCommand(o, x[2], i, lines),
         result |-> Result(i + 1, Null, Null)]]

SessionEntry(session, key) ==
  IF session = Null THEN <<>>
  ELSE <<"finance", key>> :>
         [command |-> [kind |-> "register_open", key |-> key,
                       session |-> session],
          result |-> Result(Null, 1, Null)]

Courier == CHOOSE k \in Couriers : TRUE

TripCommand(o, kind, key, version) ==
  IF kind = "assign"
  THEN [kind |-> kind, key |-> key, order |-> o,
        deliveryVersion |-> version, courier |-> Courier]
  ELSE [kind |-> kind, key |-> key, order |-> o,
        deliveryVersion |-> version]

\* The trip's commands, with the keys after the given one.
TripEntries(o, made, key) ==
  [x \in {<<"delivery", key + i>> : i \in DOMAIN made} |->
     LET i == x[2] - key
     IN [command |-> TripCommand(o, made[i], x[2], i - 1),
         result |-> Result(Null, Null, Null)]]

TripTaken(o, made) ==
  FoldLeft(LAMBDA trip, kind : Moved(trip, TripCommand(o, kind, 0, 0)),
           Unassigned(Courier), made)

TakenOrder(o, lines) ==
  [status |-> "open", lines |-> [l \in 1 .. lines |-> "pending"],
   charge |-> IF o \in DeliveryOrders THEN DeliveryCharge ELSE 0,
   version |-> Length(lines)]

TakenEvents(taken, lines) ==
  [i \in 1 .. Len(taken) * lines |->
     [order |-> taken[(i - 1) \div lines + 1],
      line |-> ((i - 1) % lines) + 1, status |-> "pending"]]

Start(s, trips) ==
  LET made == TripsMade(trips)
      taken == Taken(s)
      lines == LinesTaken[s]
      session == OpenSession(s)
      key == Len(taken) * Length(lines) + 1
  IN /\ scene = s
     /\ orders = [o \in Orders |->
          IF o \in ToSet(taken) THEN TakenOrder(o, lines) ELSE Null]
     /\ cancellations = [o \in Orders |-> Null]
     /\ kds = TakenEvents(taken, lines)
     /\ payments = <<>>
     /\ sessions = [x \in Sessions |->
          IF x = session
          THEN [status |-> "open", drawer |-> Float, version |-> 1,
                expected |-> Null]
          ELSE Null]
     /\ sequences = [d \in Devices |-> 0]
     /\ deliveries = [o \in Orders |->
          IF made # <<>> /\ o = taken[1] THEN TripTaken(o, made) ELSE Null]
     /\ journal = OrderEntries(taken, lines) @@ SessionEntry(session, key)
                     @@ (IF made = <<>> THEN <<>>
                         ELSE TripEntries(taken[1], made, key))
     /\ calls = [c \in Callers |-> Null]

MCInit == \E s \in Scenes : \E trips \in Trips[s] : Start(s, trips)

\* A scene has its own kinds of command, and a bound on those it adds; where
\* the money is about two orders, there is one session.
Issued(c) ==
  \/ calls'[c] \in {calls[c], Null}
  \/ /\ calls'[c].command.kind \in SceneKinds[scene]
     /\ scene = "money" /\ calls'[c].command.kind # "cancel"
          => calls'[c].command.session = OpenSession(scene)
     /\ \/ Cardinality(DOMAIN journal) < Commands[scene]
        \/ calls'[c].command.key \in
             {command.key : command \in Sent \union Known}

MCNext ==
  /\ Next
  /\ UNCHANGED scene
  /\ \A c \in Callers : Issued(c)

MCSpec == MCInit /\ [][MCNext]_<<vars, scene>>

Symmetry == Permutations(Callers) \union Permutations(Devices)
=============================================================================
