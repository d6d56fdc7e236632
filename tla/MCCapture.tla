------------------------------ MODULE MCCapture ------------------------------
(***************************************************************************)
(* Captures started where a scene begins: the first commands of a delivery *)
(* order taken over the phone, or of an order to be picked up, are already *)
(* in the journal.  A scene has its own kinds of command and may journal   *)
(* as many of them as Added says.                                          *)
(***************************************************************************)
EXTENDS CaptureProperties, TLC

CONSTANT Scenes  \* the scenes of a run

VARIABLE scene

SceneKinds ==
  [attention |-> {"claim", "resume", "hold", "prefer", "renew", "transfer",
                  "take_over", "no_sale"},
   sale      |-> {"autosave", "fulfillment", "select", "quote", "intent",
                  "confirm"},
   repeat    |-> {"select", "repeat", "customer", "intent", "confirm"},
   begin     |-> {"create", "customer", "fulfillment", "instructions"}]

\* How many commands were journaled before the scene, and how many it adds.
Before == [attention |-> 2, sale |-> 6, repeat |-> 3, begin |-> 0]
Added == [attention |-> 3, sale |-> 2, repeat |-> 2, begin |-> 3]

\* The scenes in which there is something on the menu to be told apart.
MenuScenes == {"sale", "repeat"}

Channel(s) == IF s = "repeat" THEN "pickup" ELSE "delivery"

Station == CHOOSE m \in Members : m \notin Managers
Caller == CHOOSE u \in Customers : TRUE
Draft == CHOOSE k \in Captures : TRUE
Lines == Max(LineCounts)
Fee == Max(Fees)
Tender == Lines + Fee

\* The commands of an order being taken, in the order they are given.
Story(s) ==
  LET edit(kind, i) ==
        [kind |-> kind, key |-> i, capture |-> Draft, member |-> Station,
         version |-> i - 1, lease |-> 1]
      start == [kind |-> "create", key |-> 1, capture |-> Draft,
                member |-> Station, version |-> 0, channel |-> Channel(s)]
      selection(i) == edit("select", i) @@ [lines |-> Lines, catalog |-> 1]
  IN IF s = "repeat"
     THEN <<start, edit("customer", 2) @@ [customer |-> Caller], selection(3)>>
     ELSE <<start, edit("customer", 2) @@ [customer |-> Caller],
            edit("fulfillment", 3) @@ [party |-> 2, given |-> TRUE],
            selection(4), edit("quote", 5),
            edit("intent", 6) @@ [tender |-> Tender]>>

PlanOf(command) ==
  IF command.kind # "select" THEN Null
  ELSE [kind |-> "selection", lines |-> command.lines, catalog |-> 1,
        customer |-> Null]

TakenPlan(i) ==
  [kind |-> "selection", lines |-> Lines, catalog |-> 1, customer |-> Null,
   applied |-> i]

TakenQuote ==
  [id |-> 5, address |-> 3, covered |-> TRUE, fee |-> Fee, live |-> TRUE,
   applied |-> 5]

TakenIntent ==
  [tender |-> Tender, applied |-> 6,
   basis |-> [catalog |-> 1, lines |-> Lines, fee |-> Fee, quote |-> 5,
              channel |-> "delivery"]]

TakenRow(s, n) ==
  [status |-> "draft", version |-> n, attention |-> "claimed",
   owner |-> Station, lease |-> 1, live |-> TRUE, recoverable |-> TRUE,
   autoRenew |-> FALSE, channel |-> Channel(s), customer |-> Caller,
   party |-> 2, address |-> IF n < 3 \/ s = "repeat" THEN Null ELSE 3]

Only(row) == [k \in Captures |-> IF k = Draft THEN row ELSE Null]

MCInit ==
  \E s \in Scenes :
    LET n == Before[s]
        story == Story(s)
    IN /\ scene = s
       /\ captures = Only(IF n = 0 THEN Null ELSE TakenRow(s, n))
       /\ plans = Only(IF n < 3 THEN Null
                       ELSE TakenPlan(IF s = "repeat" THEN 3 ELSE 4))
       /\ quotes = Only(IF n < 5 THEN Null ELSE TakenQuote)
       /\ intents = Only(IF n < 6 THEN Null ELSE TakenIntent)
       /\ taken = <<>>
       /\ head = 1
       /\ journal = [i \in 1 .. n |->
                       [command |-> story[i], plan |-> PlanOf(story[i]),
                        version |-> i]]
       /\ calls = [c \in Callers |-> Null]

MCNext ==
  /\ Next
  /\ UNCHANGED scene
  /\ \A c \in Callers :
       calls'[c] # Null =>
         /\ calls'[c].command.kind \in SceneKinds[scene]
         /\ calls'[c].command.key - Before[scene] \in 1 .. Added[scene]
  /\ head' # head => scene \in MenuScenes

MCSpec == MCInit /\ [][MCNext]_<<vars, scene>>

Symmetry == Permutations(Callers)
=============================================================================
