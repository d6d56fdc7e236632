---------------------------- MODULE CaptureProofs ----------------------------
(***************************************************************************)
(* What the capture services promise, proved for any number of captures,   *)
(* members, customers and concurrent requests, any lines, fees and cash    *)
(* tendered.                                                               *)
(*                                                                         *)
(* The invariants are proved one after the other, each by induction with   *)
(* those before it.  Types holds the shapes of rows, commands and calls.   *)
(* From it every step is seen to be one of a few moves: the tables stand   *)
(* still, time passes for a lease, a deadline or a quote, a heartbeat      *)
(* renews a lease, the menu is published, or one command writes its        *)
(* capture's next version.  What such a write does to the row, to the      *)
(* tables beside it and to the journal is said once; the other invariants  *)
(* follow from that, whichever function wrote it.                          *)
(***************************************************************************)
EXTENDS CaptureProperties, FiniteSetTheorems, FunctionTheorems,
        WellFoundedInduction, TLAPS

-----------------------------------------------------------------------------
(***************************************************************************)
(* Types.                                                                  *)
(***************************************************************************)
Optional(S) == S \union {Null}

TakingKinds == {"claim", "resume", "take_over"}

EditKinds ==
  {"hold", "prefer", "renew", "transfer", "autosave", "customer",
   "fulfillment", "instructions", "no_sale", "select", "repeat", "quote",
   "intent", "confirm"}

AllKinds == {"create"} \union TakingKinds \union EditKinds

\* A command of these kinds has this field, with a value of this set.
Has(command, kinds, field, values) ==
  command.kind \in kinds => field \in DOMAIN command
                              /\ command[field] \in values

\* What the services rely on of a command.
CommandOK(command) ==
  /\ {"kind", "key", "capture", "member", "version"} \subseteq DOMAIN command
  /\ command.kind \in AllKinds \intersect Kinds
  /\ command.capture \in Captures /\ command.member \in Members
  /\ command.version \in Nat
  /\ command.kind = "create" => command.version = 0
  /\ Has(command, {"create", "autosave"}, "channel", Optional(Channels))
  /\ Has(command, EditKinds, "lease", Optional(Versions))
  /\ Has(command, {"prefer"}, "autoRenew", BOOLEAN)
  /\ Has(command, {"transfer"}, "target", Members)
  /\ Has(command, {"customer", "repeat"}, "customer", Optional(Customers))
  /\ Has(command, {"select", "repeat"}, "lines", Nat)
  /\ Has(command, {"select"}, "catalog", Versions)
  /\ Has(command, {"intent"}, "tender", Optional(Nat))

\* A plan before it is stored with the version that stores it.
Plans ==
  [kind: {"selection", "repeat"}, lines: Nat, catalog: Versions,
   customer: Optional(Customers)]

\* A plan made for a command.
PlannedFor(command, plan) ==
  /\ plan \in Plans /\ plan.lines = command.lines
  /\ command.kind = "select" => /\ plan.kind = "selection"
                                /\ plan.catalog = command.catalog
                                /\ plan.customer = Null
  /\ command.kind = "repeat" => /\ plan.kind = "repeat"
                                /\ plan.customer = command.customer

BuiltOrders ==
  [channel: Channels, lines: Nat, catalog: Optional(Versions),
   charge: Optional(Nat), quote: Optional(Versions)]

CallFields == {"command", "stage", "plan", "quote", "basis", "channel", "order"}

\* What a call has read and computed by the stage it is at.
CallTyped(call) ==
  /\ DOMAIN call = CallFields
  /\ CommandOK(call.command)
  /\ call.stage \in Stages
  /\ call.stage \in {"received", "probed"} =>
       call.plan = Null /\ call.quote = Null /\ call.order = Null
  /\ call.stage = "ready" =>
       /\ call.command.kind \in {"select", "repeat"} =>
            PlannedFor(call.command, call.plan)
       /\ call.command.kind = "quote" => call.quote \in QuoteRows
       /\ call.command.kind = "intent" => call.basis \in Bases
       /\ call.command.kind = "confirm" => call.order \in BuiltOrders
  /\ call.stage \in {"read", "checked"} =>
       /\ call.plan \in Optional(PlanRows) /\ call.channel \in Channels
       /\ call.quote \in Optional(QuoteRows)

CallsOK ==
  /\ DOMAIN calls = Callers
  /\ \A c \in Callers : calls[c] # Null => CallTyped(calls[c])

\* The commands somebody may still send.
Heard == Sent \union Known

HeardOK == \A command \in Heard : CommandOK(command)

\* Exactly a claim has an owner and a lease, the lease is a version the capture
\* had, and a capture that is no draft is nobody's.
ClaimOK(row) ==
  /\ row.attention = "claimed" <=> row.owner # Null
  /\ row.attention = "claimed" <=> row.lease # Null
  /\ row.lease # Null => row.lease <= row.version
  /\ row.live => row.lease # Null
  /\ row.status # "draft" => row.attention = "unclaimed"
  /\ row.party = Null => row.customer = Null /\ row.address = Null

RowsOK ==
  /\ captures \in [Captures -> Optional(CaptureRows)]
  /\ plans \in [Captures -> Optional(PlanRows)]
  /\ quotes \in [Captures -> Optional(QuoteRows)]
  /\ intents \in [Captures -> Optional(IntentRows)]
  /\ \A k \in Captures :
       /\ captures[k] # Null => ClaimOK(captures[k])
       /\ captures[k] = Null \/ captures[k].status # "draft" =>
            plans[k] = Null /\ quotes[k] = Null /\ intents[k] = Null

TakenOK == \A o \in DOMAIN taken : taken[o] \in OrderRows

Types ==
  /\ RowsOK /\ TakenOK /\ HeardOK /\ CallsOK
  /\ head \in 1 .. MaxCatalog

-----------------------------------------------------------------------------
(***************************************************************************)
(* Rows and numbers.                                                       *)
(***************************************************************************)

\* The fields of a record with more.
LEMMA WithFields ==
  ASSUME NEW record, NEW more
  PROVE  /\ DOMAIN With(record, more) = DOMAIN record \union DOMAIN more
         /\ \A field \in DOMAIN record : With(record, more)[field] = record[field]
         /\ \A field \in DOMAIN more :
              field \notin DOMAIN record =>
                With(record, more)[field] = more[field]
BY DEF With

\* No row is the absence of one.
LEMMA RowsAreThere ==
  /\ \A row \in CaptureRows : row # Null
  /\ \A row \in PlanRows : row # Null
  /\ \A row \in QuoteRows : row # Null
  /\ \A row \in IntentRows : row # Null
  /\ \A n \in Nat : n # Null
  /\ \A m \in Members : m # Null
  /\ \A u \in Customers : u # Null
BY CaptureRowAssumption, CaptureAssumption

\* A nonempty set of naturals has a least element.
LEMMA LeastOfMany ==
  ASSUME NEW S \in SUBSET Nat, S # {}
  PROVE  \E least \in S : \A x \in S : least <= x
<1> DEFINE less == {ss \in Nat \X Nat : ss[1] < ss[2]}
<1>1. IsWellFoundedOn(less, Nat)
  BY NatLessThanWellFounded DEF OpToRel
<1>2. PICK least \in S : \A x \in S : ~(<<x, least>> \in less)
  BY <1>1, WFMin
<1>3. ASSUME NEW x \in S PROVE least <= x
  <2>1. least \in Nat /\ x \in Nat
    OBVIOUS
  <2>2. x < least => <<x, least>> \in less
    BY <2>1
  <2> QED BY <1>2, <2>1, <2>2
<1> QED BY <1>3

\* A nonempty set of naturals with a bound has a greatest element.
LEMMA GreatestOfMany ==
  ASSUME NEW S \in SUBSET Nat, S # {}, NEW n \in Nat, \A x \in S : x <= n
  PROVE  Max(S) \in S /\ \A x \in S : x <= Max(S)
<1> DEFINE gaps == {n - x : x \in S}
<1>1. gaps \in SUBSET Nat /\ gaps # {}
  <2>1. \A x \in S : n - x \in Nat
    OBVIOUS
  <2> QED BY <2>1
<1>2. PICK gap \in gaps : \A g \in gaps : gap <= g
  BY <1>1, LeastOfMany
<1>3. PICK greatest \in S : gap = n - greatest
  OBVIOUS
<1>4. ASSUME NEW x \in S PROVE greatest >= x
  <2>1. n - greatest <= n - x /\ x \in Nat /\ greatest \in Nat
    BY <1>2, <1>3
  <2> QED BY <2>1
<1>5. Max(S) \in S /\ \A x \in S : Max(S) >= x
  BY <1>4 DEF Max
<1> QED BY <1>5

-----------------------------------------------------------------------------
(***************************************************************************)
(* The moves.                                                              *)
(***************************************************************************)

\* The database stands still: a read, an answer out of the journal, a refusal.
Quiet == UNCHANGED <<draftTables, taken, head, journal>>

\* The clock changes what it marks on a capture.
Flagged(k) ==
  \E live, recoverable \in BOOLEAN :
    /\ captures[k] # Null /\ (live => captures[k].lease # Null)
    /\ captures' = [captures EXCEPT ![k] =
         [captures[k] EXCEPT !.live = live, !.recoverable = recoverable]]
    /\ UNCHANGED <<plans, quotes, intents, taken, head, journal>>

\* Time passes for a lease or a recovery deadline.
Lapsed(k) == Flagged(k) /\ (captures'[k].live => captures[k].live)

\* A call renews its member's lease.
Renewed(c) ==
  LET command == calls[c].command
  IN /\ command.kind = "renew" /\ Renewable(captures[command.capture], command)
     /\ calls'[c] = Null /\ Flagged(command.capture)

QuoteEnds(k) ==
  /\ quotes[k] # Null
  /\ quotes' = [quotes EXCEPT ![k] = [quotes[k] EXCEPT !.live = FALSE]]
  /\ UNCHANGED <<captures, plans, intents, taken, head, journal>>

Published ==
  /\ head' \in 1 .. MaxCatalog /\ head <= head'
  /\ UNCHANGED <<draftTables, taken, journal>>

\* The kinds that end the claim.
Leaving == {"hold", "no_sale", "confirm"}

\* What becomes of the claim.
ClaimMoves(command, old, new) ==
  /\ command.kind \in EditKinds => Holds(old, command)
  /\ command.kind \in {"claim", "resume"} => Claimable(old, command)
  /\ command.kind \in {"take_over", "transfer"} => command.member \in Managers
  /\ IF command.kind \in Granting
     THEN /\ new.attention = "claimed" /\ new.owner = Granted(command)
          /\ new.lease = command.version + 1
     ELSE IF command.kind \in Leaving THEN new.attention # "claimed"
     ELSE /\ new.attention = old.attention /\ new.owner = old.owner
          /\ new.lease = old.lease /\ new.live = old.live
  /\ new.status = CASE command.kind = "confirm" -> "confirmed"
                    [] command.kind = "no_sale" -> "no_sale"
                    [] OTHER -> "draft"

\* What becomes of the plan: it is replaced, it stays, or it goes.
PlanMoves(call, old, new, plan) ==
  LET command == call.command
  IN IF command.kind \in {"select", "repeat"}
     THEN /\ call.stage = "ready" /\ PlannedFor(command, call.plan)
          /\ IF command.lines = 0 THEN plan = Null
             ELSE /\ plan # Null /\ plan.kind = call.plan.kind
                  /\ plan.lines = command.lines
                  /\ plan.catalog = call.plan.catalog
                  /\ plan.applied = command.version + 1
     ELSE /\ plan \in {Null, old}
          /\ new.status = "draft" /\ old # Null
               => plan = old \/ old.kind = "repeat"

\* What the confirmation asked under the lock, and what it freezes.
Confirms(call, more) ==
  LET command == call.command
      k == command.capture
      order == call.order
  IN /\ call.stage = "ready" /\ order \in BuiltOrders
     /\ command.order \notin DOMAIN taken
     /\ captures[k].channel = order.channel
     /\ PlanAgrees(k, order, command.version) /\ QuoteAgrees(k, order)
     /\ IntentFresh(k)
     /\ order.channel = "delivery" => captures[k].address # Null
     /\ more = Put(taken, command.order, Frozen(k, command, order))

\* What a command may leave behind.
Leaves(call, new, plan, quote, intent, more) ==
  LET command == call.command
      k == command.capture
      old == captures[k]
  IN /\ new \in CaptureRows /\ ClaimOK(new) /\ new.version = command.version + 1
     /\ plan \in Optional(PlanRows) /\ quote \in Optional(QuoteRows)
     /\ intent \in Optional(IntentRows)
     /\ new.status # "draft" => plan = Null /\ quote = Null /\ intent = Null
     /\ IF command.kind = "create" THEN old = Null ELSE Current(old, command)
     /\ ClaimMoves(command, old, new)
     /\ PlanMoves(call, plans[k], new, plan)
     /\ command.kind # "quote" => quote \in {Null, quotes[k]}
     /\ IF command.kind = "intent"
        THEN intent # Null /\ intent.applied = command.version + 1
        ELSE intent \in {Null, intents[k]}
     /\ IF command.kind = "confirm" THEN Confirms(call, more) ELSE more = taken

\* A command writes its capture's next version.
Writes(call) ==
  LET command == call.command
      k == command.capture
  IN \E new, plan, quote, intent, more :
       /\ Leaves(call, new, plan, quote, intent, more)
       /\ ~Journaled(command) /\ command.kind # "renew"
       /\ captures' = [captures EXCEPT ![k] = new]
       /\ plans' = [plans EXCEPT ![k] = plan]
       /\ quotes' = [quotes EXCEPT ![k] = quote]
       /\ intents' = [intents EXCEPT ![k] = intent]
       /\ taken' = more /\ head' = head
       /\ journal' = Put(journal, command.key,
            [command |-> command, version |-> command.version + 1,
             plan |-> IF command.kind \in {"select", "repeat"}
                      THEN call.plan ELSE Null])

\* What becomes of the call: it ends, or goes on with its command.
CallGoesOn(c) ==
  \E call : /\ calls' = [calls EXCEPT ![c] = call]
            /\ call # Null => /\ CallTyped(call)
                              /\ call.command = calls[c].command

Served(c) ==
  /\ CallGoesOn(c)
  /\ Quiet \/ Renewed(c) \/ Writes(calls[c])

-----------------------------------------------------------------------------
(***************************************************************************)
(* Every request is served by moves.                                       *)
(***************************************************************************)

\* What a call that is being served is known to be.
LEMMA CallKnown ==
  ASSUME Types, NEW c \in Callers, calls[c] # Null
  PROVE  /\ CallTyped(calls[c]) /\ CommandOK(calls[c].command)
         /\ calls[c].command \in Heard
         /\ calls[c].command.capture \in Captures
BY DEF Types, CallsOK, CallTyped, CommandOK, Heard, Sent

\* What a capture that is there is known to be.
LEMMA RowKnown ==
  ASSUME Types, NEW k \in Captures, captures[k] # Null
  PROVE  captures[k] \in CaptureRows /\ ClaimOK(captures[k])
BY DEF Types, RowsOK, Optional

\* The tables beside a capture.
LEMMA RowsBeside ==
  ASSUME Types, NEW k \in Captures
  PROVE  /\ plans[k] \in Optional(PlanRows)
         /\ quotes[k] \in Optional(QuoteRows)
         /\ intents[k] \in Optional(IntentRows)
         /\ captures[k] = Null \/ captures[k].status # "draft" =>
              plans[k] = Null /\ quotes[k] = Null /\ intents[k] = Null
BY DEF Types, RowsOK

\* A call that ends has written nothing.
LEMMA EndServes ==
  ASSUME NEW c \in Callers, End(c)
  PROVE  Served(c)
<1>1. calls' = [calls EXCEPT ![c] = Null] /\ Quiet
  BY DEF End, Proceed, Quiet
<1>2. CallGoesOn(c)
  BY <1>1 DEF CallGoesOn
<1> QED BY <1>1, <1>2 DEF Served

\* A call that commits has written what it leaves.
LEMMA CommitServes ==
  ASSUME NEW c \in Callers, NEW row, NEW effects,
         ~Journaled(calls[c].command), Commit(c, row, effects),
         calls[c].command.kind # "renew",
         Leaves(calls[c], [row EXCEPT !.version = calls[c].command.version + 1],
                effects.plan, effects.quote, effects.intent, effects.taken)
  PROVE  Served(c)
<1> DEFINE new == [row EXCEPT !.version = calls[c].command.version + 1]
<1>1. CallGoesOn(c)
  BY DEF Commit, CallGoesOn
<1>2. Writes(calls[c])
  BY DEF Commit, Writes, PlanSent
<1> QED BY <1>1, <1>2 DEF Served

\* The kinds that write nothing beside the capture but what goes with it.
DeskKinds ==
  {"create", "hold", "prefer", "transfer", "autosave", "customer",
   "fulfillment", "instructions", "no_sale"} \union TakingKinds

\* What an update of a capture leaves in the tables beside it.
LEMMA UpdateLeaves ==
  ASSUME Types, NEW k \in Captures, NEW row,
         row.status \in {"draft", "confirmed", "no_sale"}
  PROVE  LET effects == Effects(k, row)
         IN /\ effects.plan \in {Null, plans[k]}
            /\ effects.plan \in Optional(PlanRows)
            /\ row.status = "draft" /\ plans[k] # Null
                 => effects.plan = plans[k] \/ plans[k].kind = "repeat"
            /\ effects.quote \in {Null, quotes[k]}
            /\ effects.quote \in Optional(QuoteRows)
            /\ effects.intent \in {Null, intents[k]}
            /\ effects.intent \in Optional(IntentRows)
            /\ row.status # "draft" => /\ effects.plan = Null
                                       /\ effects.quote = Null
                                       /\ effects.intent = Null
            /\ effects.taken = taken
<1> DEFINE effects == Effects(k, row)
<1>1. /\ effects.plan = PlanKept(captures[k], row, plans[k])
      /\ effects.quote = QuoteKept(captures[k], row, quotes[k])
      /\ effects.intent = IntentKept(row, intents[k])
      /\ effects.taken = taken
  BY DEF Effects
<1>2. /\ plans[k] \in Optional(PlanRows) /\ quotes[k] \in Optional(QuoteRows)
      /\ intents[k] \in Optional(IntentRows)
  BY RowsBeside
<1> HIDE DEF effects
<1>3. /\ effects.plan \in {Null, plans[k]}
      /\ row.status = "draft" /\ plans[k] # Null
           => effects.plan = plans[k] \/ plans[k].kind = "repeat"
      /\ row.status # "draft" => effects.plan = Null
  BY <1>1 DEF PlanKept
<1>4. /\ effects.quote \in {Null, quotes[k]}
      /\ row.status # "draft" => effects.quote = Null
  BY <1>1 DEF QuoteKept
<1>5. /\ effects.intent \in {Null, intents[k]}
      /\ row.status # "draft" => effects.intent = Null
  BY <1>1 DEF IntentKept
<1> QED BY <1>1, <1>2, <1>3, <1>4, <1>5 DEF effects, Optional

\* A desk command that is accepted leaves its row and what goes with it.
LEMMA DeskWrites ==
  ASSUME Types, NEW c \in Callers, calls[c] # Null,
         NEW row, NEW new,
         calls[c].command.kind \in DeskKinds,
         ~Journaled(calls[c].command),
         Commit(c, row, Effects(calls[c].command.capture, row)),
         new = [row EXCEPT !.version = calls[c].command.version + 1],
         new \in CaptureRows, ClaimOK(new), new.status = row.status,
         new.version = calls[c].command.version + 1,
         IF calls[c].command.kind = "create"
         THEN captures[calls[c].command.capture] = Null
         ELSE Current(captures[calls[c].command.capture], calls[c].command),
         ClaimMoves(calls[c].command, captures[calls[c].command.capture], new)
  PROVE  Served(c)
<1> DEFINE k == calls[c].command.capture
           effects == Effects(k, row)
<1>1. k \in Captures
  BY CallKnown
<1>2. row.status \in {"draft", "confirmed", "no_sale"}
  BY DEF CaptureRows
<1>3. /\ effects.plan \in {Null, plans[k]}
      /\ effects.plan \in Optional(PlanRows)
      /\ row.status = "draft" /\ plans[k] # Null
           => effects.plan = plans[k] \/ plans[k].kind = "repeat"
      /\ effects.quote \in {Null, quotes[k]}
      /\ effects.quote \in Optional(QuoteRows)
      /\ effects.intent \in {Null, intents[k]}
      /\ effects.intent \in Optional(IntentRows)
      /\ row.status # "draft" => /\ effects.plan = Null
                                 /\ effects.quote = Null
                                 /\ effects.intent = Null
      /\ effects.taken = taken
  BY <1>1, <1>2, UpdateLeaves
<1> HIDE DEF effects, k
<1>4. calls[c].command.kind \notin {"select", "repeat", "quote", "intent",
                                   "confirm", "renew"}
  BY DEF DeskKinds, TakingKinds
<1>5. Leaves(calls[c], new, effects.plan, effects.quote, effects.intent,
             effects.taken)
  BY <1>3, <1>4 DEF Leaves, PlanMoves, k
<1>6. Commit(c, row, effects)
  BY DEF effects, k
<1> QED BY <1>4, <1>5, <1>6, CommitServes

\* A row in its next version.
LEMMA NextVersion ==
  ASSUME NEW row \in CaptureRows, NEW version \in Nat
  PROVE  LET new == [row EXCEPT !.version = version + 1]
         IN /\ new \in CaptureRows /\ new.version = version + 1
            /\ new.status = row.status /\ new.attention = row.attention
            /\ new.owner = row.owner /\ new.lease = row.lease
            /\ new.live = row.live /\ new.party = row.party
            /\ new.address = row.address /\ new.channel = row.channel
            /\ new.customer = row.customer
<1>1. version + 1 \in Versions
  BY DEF Versions
<1> QED BY <1>1 DEF CaptureRows

\* The row a desk command may leave is sound in its next version.
SoundRow(command, old, row) ==
  /\ row \in CaptureRows
  /\ ClaimOK([row EXCEPT !.version = command.version + 1])
  /\ IF command.kind = "create" THEN old = Null ELSE Current(old, command)
  /\ ClaimMoves(command, old, row)

\* A desk command that leaves a sound row is served by moves.
LEMMA DeskServes ==
  ASSUME Types, NEW c \in Callers, calls[c] # Null,
         calls[c].command.kind \in DeskKinds,
         NEW accepted, NEW row, Serve(c, accepted, row),
         accepted =>
           SoundRow(calls[c].command, captures[calls[c].command.capture], row)
  PROVE  Served(c)
<1> DEFINE command == calls[c].command
           old == captures[command.capture]
           new == [row EXCEPT !.version = command.version + 1]
<1>1. CASE ~Journaled(command) /\ accepted
  <2>1. Commit(c, row, Effects(command.capture, row))
    BY <1>1 DEF Serve, Transaction
  <2>2. SoundRow(command, old, row)
    BY <1>1
  <2>3. command.version \in Nat
    BY CallKnown DEF CommandOK
  <2>4. /\ new \in CaptureRows /\ new.version = command.version + 1
        /\ new.status = row.status /\ new.attention = row.attention
        /\ new.owner = row.owner /\ new.lease = row.lease
        /\ new.live = row.live
    BY <2>2, <2>3, NextVersion DEF SoundRow
  <2>5. ClaimOK(new)
    BY <2>2 DEF SoundRow
  <2>6. new = [row EXCEPT !.version = command.version + 1]
    OBVIOUS
  <2> HIDE DEF new
  <2>7. ClaimMoves(command, old, new)
    BY <2>2, <2>4 DEF SoundRow, ClaimMoves
  <2> QED
    BY <1>1, <2>1, <2>2, <2>4, <2>5, <2>6, <2>7, DeskWrites DEF SoundRow
<1>2. CASE ~(~Journaled(command) /\ accepted)
  BY <1>2, EndServes DEF Serve, Transaction
<1> QED BY <1>1, <1>2

\* What the holder edits.
LEMMA HolderKnown ==
  ASSUME Types, NEW k \in Captures, NEW command, CommandOK(command),
         Holds(captures[k], command)
  PROVE  /\ captures[k] \in CaptureRows /\ ClaimOK(captures[k])
         /\ captures[k].version = command.version
         /\ captures[k].status = "draft" /\ captures[k].attention = "claimed"
         /\ captures[k].owner # Null /\ captures[k].lease # Null
         /\ captures[k].lease \in Versions
         /\ captures[k].lease <= command.version
         /\ captures[k].live /\ command.version \in Nat
         /\ Current(captures[k], command)
<1>1. captures[k] # Null /\ Current(captures[k], command)
  BY DEF Holds, Current
<1>2. captures[k] \in CaptureRows /\ ClaimOK(captures[k])
  BY <1>1, RowKnown
<1>3. command.version \in Nat
  BY DEF CommandOK
<1> QED BY <1>1, <1>2, <1>3 DEF Holds, Current, ClaimOK, CaptureRows

\* A row that keeps who holds it, with what an editing command may change.
LEMMA EditIsSound ==
  ASSUME Types, NEW k \in Captures, NEW command, CommandOK(command),
         Holds(captures[k], command),
         command.kind \in EditKinds \ {"transfer", "hold", "no_sale", "confirm"},
         NEW row \in CaptureRows,
         row.status = "draft", row.attention = "claimed",
         row.owner = captures[k].owner, row.lease = captures[k].lease,
         row.live = captures[k].live,
         row.party = Null => row.customer = Null /\ row.address = Null
  PROVE  SoundRow(command, captures[k], row)
<1> DEFINE old == captures[k]
           new == [row EXCEPT !.version = command.version + 1]
<1>1. /\ old \in CaptureRows /\ old.owner # Null /\ old.lease # Null
      /\ old.lease \in Versions /\ old.lease <= command.version
      /\ old.live /\ command.version \in Nat /\ Current(old, command)
      /\ old.attention = "claimed" /\ old.status = "draft"
  BY HolderKnown
<1>2. /\ new.version = command.version + 1
      /\ new.status = row.status /\ new.attention = row.attention
      /\ new.owner = row.owner /\ new.lease = row.lease
      /\ new.live = row.live /\ new.party = row.party
      /\ new.address = row.address /\ new.customer = row.customer
  BY <1>1, NextVersion
<1> HIDE DEF new, old
<1>3. ClaimOK(new)
  BY <1>1, <1>2 DEF ClaimOK, Versions, old
<1>4. command.kind \notin Granting /\ command.kind \notin Leaving
      /\ command.kind # "create" /\ command.kind \notin {"claim", "resume", "take_over"}
  BY DEF Granting, Leaving, EditKinds, TakingKinds
<1>5. Holds(old, command)
  BY DEF old
<1>6. ClaimMoves(command, old, row)
  BY <1>1, <1>4, <1>5 DEF ClaimMoves, old, Leaving
<1> QED BY <1>1, <1>3, <1>4, <1>6 DEF SoundRow, new, old

\* A draft that ends up with nobody.
LEMMA LeavingIsSound ==
  ASSUME Types, NEW k \in Captures, NEW command, CommandOK(command),
         Holds(captures[k], command), command.kind \in {"hold", "no_sale"},
         NEW row \in CaptureRows,
         row.status = (IF command.kind = "hold" THEN "draft" ELSE "no_sale"),
         row.attention = (IF command.kind = "hold" THEN "held" ELSE "unclaimed"),
         row.owner = Null, row.lease = Null, row.live = FALSE,
         row.party = Null => row.customer = Null /\ row.address = Null
  PROVE  SoundRow(command, captures[k], row)
<1> DEFINE old == captures[k]
           new == [row EXCEPT !.version = command.version + 1]
<1>1. old \in CaptureRows /\ command.version \in Nat /\ Current(old, command)
  BY HolderKnown
<1>2. /\ new.version = command.version + 1
      /\ new.status = row.status /\ new.attention = row.attention
      /\ new.owner = row.owner /\ new.lease = row.lease
      /\ new.live = row.live /\ new.party = row.party
      /\ new.address = row.address /\ new.customer = row.customer
  BY <1>1, NextVersion
<1> HIDE DEF new, old
<1>3. ClaimOK(new)
  BY <1>2 DEF ClaimOK
<1>4. command.kind \notin Granting /\ command.kind \in Leaving
      /\ command.kind # "confirm"
  BY DEF Granting, Leaving
<1>5. ClaimMoves(command, old, row)
  BY <1>4 DEF ClaimMoves, old, TakingKinds
<1> QED BY <1>1, <1>3, <1>4, <1>5 DEF SoundRow, new, old

\* A claim given by a command.
LEMMA GrantIsSound ==
  ASSUME Types, NEW k \in Captures, NEW command, CommandOK(command),
         command.kind \in Granting \ {"create"},
         Current(captures[k], command),
         command.kind = "transfer" => Holds(captures[k], command),
         command.kind \in {"claim", "resume"} => Claimable(captures[k], command),
         command.kind \in {"take_over", "transfer"} => command.member \in Managers,
         NEW row \in CaptureRows,
         row.status = "draft", row.attention = "claimed",
         row.owner = Granted(command), row.lease = command.version + 1,
         row.party = Null => row.customer = Null /\ row.address = Null
  PROVE  SoundRow(command, captures[k], row)
<1> DEFINE old == captures[k]
           new == [row EXCEPT !.version = command.version + 1]
<1>1. command.version \in Nat /\ command.member \in Members
  BY DEF CommandOK
<1>2. /\ new.version = command.version + 1
      /\ new.status = row.status /\ new.attention = row.attention
      /\ new.owner = row.owner /\ new.lease = row.lease
      /\ new.live = row.live /\ new.party = row.party
      /\ new.address = row.address /\ new.customer = row.customer
  BY <1>1, NextVersion
<1>0. Granted(command) \in Members /\ Granted(command) # Null
  BY <1>1, RowsAreThere DEF Granted, CommandOK, Has
<1>6. command.version + 1 # Null
  BY <1>1, RowsAreThere
<1> HIDE DEF new, old
<1>3. ClaimOK(new)
  BY <1>1, <1>0, <1>2, <1>6 DEF ClaimOK
<1>4. command.kind # "create" /\ command.kind \in Granting
      /\ command.kind \notin {"confirm", "no_sale"}
      /\ (command.kind \in EditKinds => command.kind = "transfer")
  BY DEF Granting, EditKinds
<1>5. ClaimMoves(command, old, row)
  BY <1>4 DEF ClaimMoves, old
<1> QED BY <1>3, <1>4, <1>5 DEF SoundRow, new, old

\* A capture begins claimed.
LEMMA CreateServes ==
  ASSUME Types, NEW c \in Callers, Create(c)
  PROVE  Served(c)
<1> DEFINE command == calls[c].command
           row == [status |-> "draft", version |-> 1, attention |-> "claimed",
                   owner |-> command.member, lease |-> 1, live |-> TRUE,
                   recoverable |-> TRUE, autoRenew |-> FALSE,
                   channel |-> command.channel, customer |-> Null,
                   party |-> Null, address |-> Null]
           old == captures[command.capture]
           accepted == old = Null
<1>1. /\ calls[c] # Null /\ command.kind = "create"
      /\ Serve(c, accepted, row)
  BY DEF Create, At
<1>2. /\ command.member \in Members /\ command.version = 0
      /\ command.channel \in Optional(Channels)
  BY <1>1, CallKnown DEF CommandOK, Has
<1>3. row \in CaptureRows
  BY <1>2 DEF CaptureRows, Optional, Versions
<1>4. command.version + 1 = 1
  BY <1>2
<1>5. ClaimOK([row EXCEPT !.version = command.version + 1])
  <2>1. command.member # Null /\ 1 # Null
    BY <1>2, RowsAreThere
  <2> QED BY <1>4, <2>1 DEF ClaimOK
<1>6. ClaimMoves(command, old, row)
  BY <1>1, <1>4 DEF ClaimMoves, Granting, Granted, EditKinds
<1>7. accepted => SoundRow(command, old, row)
  BY <1>1, <1>3, <1>5, <1>6 DEF SoundRow
<1>8. command.kind \in DeskKinds
  BY <1>1 DEF DeskKinds
<1> HIDE DEF row, accepted
<1> QED BY <1>1, <1>7, <1>8, DeskServes

\* What is known of a call that is being served.
LEMMA CommandKnown ==
  ASSUME Types, NEW c \in Callers, calls[c] # Null
  PROVE  /\ CommandOK(calls[c].command)
         /\ calls[c].command.capture \in Captures
         /\ calls[c].command.version \in Nat
         /\ calls[c].command.version + 1 \in Versions
         /\ calls[c].command.member \in Members
BY CallKnown DEF CommandOK, Versions

\* The holder puts the capture aside.
LEMMA HoldServes ==
  ASSUME Types, NEW c \in Callers, Hold(c)
  PROVE  Served(c)
<1> DEFINE command == calls[c].command
           old == captures[command.capture]
           row == Released(old, "held")
           accepted == Holds(old, command)
<1>1. /\ calls[c] # Null /\ command.kind \in {"hold"}
      /\ Serve(c, accepted, row)
  BY DEF Hold, At
<1>2. /\ CommandOK(command) /\ command.capture \in Captures
      /\ command.version + 1 \in Versions /\ command.member \in Members
  BY <1>1, CommandKnown
<1>3. ASSUME accepted PROVE SoundRow(command, old, row)
  <2>1. Holds(old, command)
    BY <1>3
  <2>2. /\ old \in CaptureRows /\ ClaimOK(old) /\ old.status = "draft"
        /\ old.attention = "claimed" /\ old.live
    BY <1>2, <2>1, HolderKnown
  <2>4. row \in CaptureRows
    BY <1>2, <2>2 DEF CaptureRows, Optional, Released
  <2>5. /\ row.status = "draft" /\ row.attention = "held"
        /\ row.owner = Null /\ row.lease = Null /\ row.live = FALSE
        /\ (row.party = Null => row.customer = Null /\ row.address = Null)
    BY <1>2, <2>2 DEF CaptureRows, ClaimOK, Released
  <2>6. command.kind = "hold"
    BY <1>1 DEF EditKinds
  <2> HIDE DEF row
  <2> QED BY <1>1, <1>2, <2>1, <2>4, <2>5, <2>6, LeavingIsSound
<1>4. command.kind \in DeskKinds
  BY <1>1 DEF DeskKinds, TakingKinds
<1> HIDE DEF row, accepted
<1> QED BY <1>1, <1>3, <1>4, DeskServes

\* The holder closes the capture without an order.
LEMMA NoSaleServes ==
  ASSUME Types, NEW c \in Callers, NoSale(c)
  PROVE  Served(c)
<1> DEFINE command == calls[c].command
           old == captures[command.capture]
           row == [Released(old, "unclaimed") EXCEPT !.status = "no_sale"]
           accepted == Holds(old, command)
<1>1. /\ calls[c] # Null /\ command.kind \in {"no_sale"}
      /\ Serve(c, accepted, row)
  BY DEF NoSale, At
<1>2. /\ CommandOK(command) /\ command.capture \in Captures
      /\ command.version + 1 \in Versions /\ command.member \in Members
  BY <1>1, CommandKnown
<1>3. ASSUME accepted PROVE SoundRow(command, old, row)
  <2>1. Holds(old, command)
    BY <1>3
  <2>2. /\ old \in CaptureRows /\ ClaimOK(old) /\ old.status = "draft"
        /\ old.attention = "claimed" /\ old.live
    BY <1>2, <2>1, HolderKnown
  <2>4. row \in CaptureRows
    BY <1>2, <2>2 DEF CaptureRows, Optional, Released
  <2>5. /\ row.status = "no_sale" /\ row.attention = "unclaimed"
        /\ row.owner = Null /\ row.lease = Null /\ row.live = FALSE
        /\ (row.party = Null => row.customer = Null /\ row.address = Null)
    BY <1>2, <2>2 DEF CaptureRows, ClaimOK, Released
  <2>6. command.kind = "no_sale"
    BY <1>1 DEF EditKinds
  <2> HIDE DEF row
  <2> QED BY <1>1, <1>2, <2>1, <2>4, <2>5, <2>6, LeavingIsSound
<1>4. command.kind \in DeskKinds
  BY <1>1 DEF DeskKinds, TakingKinds
<1> HIDE DEF row, accepted
<1> QED BY <1>1, <1>3, <1>4, DeskServes

\* The recovery deadline renews itself or not.
LEMMA PreferServes ==
  ASSUME Types, NEW c \in Callers, Prefer(c)
  PROVE  Served(c)
<1> DEFINE command == calls[c].command
           old == captures[command.capture]
           row == [old EXCEPT !.autoRenew = command.autoRenew]
           accepted == Holds(old, command)
<1>1. /\ calls[c] # Null /\ command.kind \in {"prefer"}
      /\ Serve(c, accepted, row)
  BY DEF Prefer, At
<1>2. /\ CommandOK(command) /\ command.capture \in Captures
      /\ command.version + 1 \in Versions /\ command.member \in Members
  BY <1>1, CommandKnown
<1>3. ASSUME accepted PROVE SoundRow(command, old, row)
  <2>1. Holds(old, command)
    BY <1>3
  <2>2. /\ old \in CaptureRows /\ ClaimOK(old) /\ old.status = "draft"
        /\ old.attention = "claimed" /\ old.live
    BY <1>2, <2>1, HolderKnown
  <2>3. command.autoRenew \in BOOLEAN
    BY <1>1, <1>2, <1>3 DEF CommandOK, Has
  <2>4. row \in CaptureRows
    BY <1>2, <2>2, <2>3 DEF CaptureRows, Optional
  <2>5. /\ row.status = "draft" /\ row.attention = "claimed"
        /\ row.owner = old.owner /\ row.lease = old.lease
        /\ row.live = old.live /\ (row.party = Null => row.customer = Null /\ row.address = Null)
    BY <1>2, <2>2, <2>3 DEF CaptureRows, ClaimOK
  <2>6. command.kind \in EditKinds \ {"transfer", "hold", "no_sale", "confirm"}
    BY <1>1 DEF EditKinds
  <2> HIDE DEF row
  <2> QED BY <1>1, <1>2, <2>1, <2>4, <2>5, <2>6, EditIsSound
<1>4. command.kind \in DeskKinds
  BY <1>1 DEF DeskKinds, TakingKinds
<1> HIDE DEF row, accepted
<1> QED BY <1>1, <1>3, <1>4, DeskServes

\* The channel is saved.
LEMMA AutosaveServes ==
  ASSUME Types, NEW c \in Callers, Autosave(c)
  PROVE  Served(c)
<1> DEFINE command == calls[c].command
           old == captures[command.capture]
           row == [old EXCEPT !.channel = command.channel]
           accepted == /\ command.address # Null =>
                            command.party # Null /\ command.channel = "delivery"
                       /\ Holds(old, command)
                       /\ old.party = command.party
                       /\ old.address = command.address
<1>1. /\ calls[c] # Null /\ command.kind \in {"autosave"}
      /\ Serve(c, accepted, row)
  BY DEF Autosave, At
<1>2. /\ CommandOK(command) /\ command.capture \in Captures
      /\ command.version + 1 \in Versions /\ command.member \in Members
  BY <1>1, CommandKnown
<1>3. ASSUME accepted PROVE SoundRow(command, old, row)
  <2>1. Holds(old, command)
    BY <1>3
  <2>2. /\ old \in CaptureRows /\ ClaimOK(old) /\ old.status = "draft"
        /\ old.attention = "claimed" /\ old.live
    BY <1>2, <2>1, HolderKnown
  <2>3. command.channel \in Optional(Channels)
    BY <1>1, <1>2, <1>3 DEF CommandOK, Has
  <2>4. row \in CaptureRows
    BY <1>2, <2>2, <2>3 DEF CaptureRows, Optional
  <2>5. /\ row.status = "draft" /\ row.attention = "claimed"
        /\ row.owner = old.owner /\ row.lease = old.lease
        /\ row.live = old.live /\ (row.party = Null => row.customer = Null /\ row.address = Null)
    BY <1>2, <2>2, <2>3 DEF CaptureRows, ClaimOK
  <2>6. command.kind \in EditKinds \ {"transfer", "hold", "no_sale", "confirm"}
    BY <1>1 DEF EditKinds
  <2> HIDE DEF row
  <2> QED BY <1>1, <1>2, <2>1, <2>4, <2>5, <2>6, EditIsSound
<1>4. command.kind \in DeskKinds
  BY <1>1 DEF DeskKinds, TakingKinds
<1> HIDE DEF row, accepted
<1> QED BY <1>1, <1>3, <1>4, DeskServes

\* A customer's data is frozen on the capture, or taken off it.
LEMMA SetCustomerServes ==
  ASSUME Types, NEW c \in Callers, SetCustomer(c)
  PROVE  Served(c)
<1> DEFINE command == calls[c].command
           old == captures[command.capture]
           row == [old EXCEPT !.customer = command.customer,
                               !.party = IF command.customer = Null THEN Null
                                         ELSE command.version + 1,
                               !.address = Null]
           accepted == Holds(old, command)
<1>1. /\ calls[c] # Null /\ command.kind \in {"customer"}
      /\ Serve(c, accepted, row)
  BY DEF SetCustomer, At
<1>2. /\ CommandOK(command) /\ command.capture \in Captures
      /\ command.version + 1 \in Versions /\ command.member \in Members
  BY <1>1, CommandKnown
<1>3. ASSUME accepted PROVE SoundRow(command, old, row)
  <2>1. Holds(old, command)
    BY <1>3
  <2>2. /\ old \in CaptureRows /\ ClaimOK(old) /\ old.status = "draft"
        /\ old.attention = "claimed" /\ old.live
    BY <1>2, <2>1, HolderKnown
  <2>3. command.customer \in Optional(Customers)
    BY <1>1, <1>2, <1>3 DEF CommandOK, Has
  <2> DEFINE party == IF command.customer = Null THEN Null
                      ELSE command.version + 1
  <2>7. party \in Optional(Versions) /\ (party = Null => command.customer = Null)
    BY <1>2, RowsAreThere DEF Optional, Versions
  <2>8. row = [old EXCEPT !.customer = command.customer, !.party = party,
                          !.address = Null]
    OBVIOUS
  <2> HIDE DEF party, row
  <2>4. row \in CaptureRows
    BY <1>2, <2>2, <2>3, <2>7, <2>8 DEF CaptureRows, Optional
  <2>5. /\ row.status = "draft" /\ row.attention = "claimed"
        /\ row.owner = old.owner /\ row.lease = old.lease
        /\ row.live = old.live /\ (row.party = Null => row.customer = Null /\ row.address = Null)
    BY <1>2, <2>2, <2>3, <2>7, <2>8 DEF CaptureRows, ClaimOK
  <2>6. command.kind \in EditKinds \ {"transfer", "hold", "no_sale", "confirm"}
    BY <1>1 DEF EditKinds
  <2> QED BY <1>1, <1>2, <2>1, <2>4, <2>5, <2>6, EditIsSound
<1>4. command.kind \in DeskKinds
  BY <1>1 DEF DeskKinds, TakingKinds
<1> HIDE DEF row, accepted
<1> QED BY <1>1, <1>3, <1>4, DeskServes

\* An address is frozen on the capture, or taken off it.
LEMMA SetFulfillmentServes ==
  ASSUME Types, NEW c \in Callers, SetFulfillment(c)
  PROVE  Served(c)
<1> DEFINE command == calls[c].command
           old == captures[command.capture]
           row == [old EXCEPT !.address = IF command.given
                                           THEN command.version + 1 ELSE Null]
           accepted == /\ Holds(old, command)
                       /\ old.customer # Null /\ old.party = command.party
<1>1. /\ calls[c] # Null /\ command.kind \in {"fulfillment"}
      /\ Serve(c, accepted, row)
  BY DEF SetFulfillment, At
<1>2. /\ CommandOK(command) /\ command.capture \in Captures
      /\ command.version + 1 \in Versions /\ command.member \in Members
  BY <1>1, CommandKnown
<1>3. ASSUME accepted PROVE SoundRow(command, old, row)
  <2>1. Holds(old, command)
    BY <1>3
  <2>2. /\ old \in CaptureRows /\ ClaimOK(old) /\ old.status = "draft"
        /\ old.attention = "claimed" /\ old.live
    BY <1>2, <2>1, HolderKnown
  <2>3. old.party # Null
    BY <1>3, <2>2 DEF ClaimOK
  <2>4. row \in CaptureRows
    BY <1>2, <2>2, <2>3 DEF CaptureRows, Optional
  <2>5. /\ row.status = "draft" /\ row.attention = "claimed"
        /\ row.owner = old.owner /\ row.lease = old.lease
        /\ row.live = old.live /\ (row.party = Null => row.customer = Null /\ row.address = Null)
    BY <1>2, <2>2, <2>3 DEF CaptureRows, ClaimOK
  <2>6. command.kind \in EditKinds \ {"transfer", "hold", "no_sale", "confirm"}
    BY <1>1 DEF EditKinds
  <2> HIDE DEF row
  <2> QED BY <1>1, <1>2, <2>1, <2>4, <2>5, <2>6, EditIsSound
<1>4. command.kind \in DeskKinds
  BY <1>1 DEF DeskKinds, TakingKinds
<1> HIDE DEF row, accepted
<1> QED BY <1>1, <1>3, <1>4, DeskServes

\* Words for the courier are kept.
LEMMA SetInstructionsServes ==
  ASSUME Types, NEW c \in Callers, SetInstructions(c)
  PROVE  Served(c)
<1> DEFINE command == calls[c].command
           old == captures[command.capture]
           row == old
           accepted == /\ Holds(old, command)
                       /\ command.given => old.channel = "delivery"
<1>1. /\ calls[c] # Null /\ command.kind \in {"instructions"}
      /\ Serve(c, accepted, row)
  BY DEF SetInstructions, At
<1>2. /\ CommandOK(command) /\ command.capture \in Captures
      /\ command.version + 1 \in Versions /\ command.member \in Members
  BY <1>1, CommandKnown
<1>3. ASSUME accepted PROVE SoundRow(command, old, row)
  <2>1. Holds(old, command)
    BY <1>3
  <2>2. /\ old \in CaptureRows /\ ClaimOK(old) /\ old.status = "draft"
        /\ old.attention = "claimed" /\ old.live
    BY <1>2, <2>1, HolderKnown
  <2>4. row \in CaptureRows
    BY <1>2, <2>2 DEF CaptureRows, Optional
  <2>5. /\ row.status = "draft" /\ row.attention = "claimed"
        /\ row.owner = old.owner /\ row.lease = old.lease
        /\ row.live = old.live /\ (row.party = Null => row.customer = Null /\ row.address = Null)
    BY <1>2, <2>2 DEF CaptureRows, ClaimOK
  <2>6. command.kind \in EditKinds \ {"transfer", "hold", "no_sale", "confirm"}
    BY <1>1 DEF EditKinds
  <2> HIDE DEF row
  <2> QED BY <1>1, <1>2, <2>1, <2>4, <2>5, <2>6, EditIsSound
<1>4. command.kind \in DeskKinds
  BY <1>1 DEF DeskKinds, TakingKinds
<1> HIDE DEF row, accepted
<1> QED BY <1>1, <1>3, <1>4, DeskServes

\* A capture nobody attends is taken.
LEMMA ClaimServes ==
  ASSUME Types, NEW c \in Callers, Claim(c)
  PROVE  Served(c)
<1> DEFINE command == calls[c].command
           old == captures[command.capture]
           row == [Claimed(old, command, command.member)
                    EXCEPT !.recoverable = TRUE]
           accepted == Claimable(old, command)
<1>1. /\ calls[c] # Null /\ command.kind \in {"claim", "resume"}
      /\ Serve(c, accepted, row)
  BY DEF Claim, At
<1>2. /\ CommandOK(command) /\ command.capture \in Captures
      /\ command.version + 1 \in Versions /\ command.member \in Members
  BY <1>1, CommandKnown
<1>3. ASSUME accepted PROVE SoundRow(command, old, row)
  <2>1. Current(old, command)
    BY <1>1, <1>3, <1>2, HolderKnown DEF Claimable
  <2>2. /\ old \in CaptureRows /\ ClaimOK(old) /\ old.status = "draft"
    BY <1>2, <2>1, RowKnown DEF Current
  <2>4. row \in CaptureRows
    BY <1>2, <2>2 DEF CaptureRows, Claimed
  <2>5. /\ row.status = "draft" /\ row.attention = "claimed"
        /\ row.owner = Granted(command) /\ row.lease = command.version + 1
        /\ (row.party = Null => row.customer = Null /\ row.address = Null)
    BY <1>1, <1>2, <2>2 DEF CaptureRows, ClaimOK, Claimed, Granted
  <2>6. /\ command.kind \in Granting \ {"create"}
        /\ (command.kind = "transfer" => Holds(old, command))
        /\ (command.kind \in {"claim", "resume"} => Claimable(old, command))
        /\ (command.kind \in {"take_over", "transfer"} => command.member \in Managers)
    BY <1>1, <1>3 DEF Granting
  <2> HIDE DEF row
  <2> QED BY <1>1, <1>2, <2>1, <2>4, <2>5, <2>6, GrantIsSound
<1>4. command.kind \in DeskKinds
  BY <1>1 DEF DeskKinds, TakingKinds
<1> HIDE DEF row, accepted
<1> QED BY <1>1, <1>3, <1>4, DeskServes

\* A manager gives away what he holds.
LEMMA TransferServes ==
  ASSUME Types, NEW c \in Callers, Transfer(c)
  PROVE  Served(c)
<1> DEFINE command == calls[c].command
           old == captures[command.capture]
           row == Claimed(old, command, command.target)
           accepted == /\ command.member \in Managers
                       /\ command.target # command.member
                       /\ Holds(old, command)
<1>1. /\ calls[c] # Null /\ command.kind \in {"transfer"}
      /\ Serve(c, accepted, row)
  BY DEF Transfer, At
<1>2. /\ CommandOK(command) /\ command.capture \in Captures
      /\ command.version + 1 \in Versions /\ command.member \in Members
  BY <1>1, CommandKnown
<1>3. ASSUME accepted PROVE SoundRow(command, old, row)
  <2>1. Current(old, command)
    BY <1>1, <1>3, <1>2, HolderKnown DEF Claimable
  <2>2. /\ old \in CaptureRows /\ ClaimOK(old) /\ old.status = "draft"
    BY <1>2, <2>1, RowKnown DEF Current
  <2>3. command.target \in Members
    BY <1>1, <1>2 DEF CommandOK, Has
  <2>4. row \in CaptureRows
    BY <1>2, <2>2, <2>3 DEF CaptureRows, Claimed
  <2>5. /\ row.status = "draft" /\ row.attention = "claimed"
        /\ row.owner = Granted(command) /\ row.lease = command.version + 1
        /\ (row.party = Null => row.customer = Null /\ row.address = Null)
    BY <1>1, <1>2, <2>2, <2>3 DEF CaptureRows, ClaimOK, Claimed, Granted
  <2>6. /\ command.kind \in Granting \ {"create"}
        /\ (command.kind = "transfer" => Holds(old, command))
        /\ (command.kind \in {"claim", "resume"} => Claimable(old, command))
        /\ (command.kind \in {"take_over", "transfer"} => command.member \in Managers)
    BY <1>1, <1>3 DEF Granting
  <2> HIDE DEF row
  <2> QED BY <1>1, <1>2, <2>1, <2>4, <2>5, <2>6, GrantIsSound
<1>4. command.kind \in DeskKinds
  BY <1>1 DEF DeskKinds, TakingKinds
<1> HIDE DEF row, accepted
<1> QED BY <1>1, <1>3, <1>4, DeskServes

\* A manager takes what another member attends.
LEMMA TakeOverServes ==
  ASSUME Types, NEW c \in Callers, TakeOver(c)
  PROVE  Served(c)
<1> DEFINE command == calls[c].command
           old == captures[command.capture]
           row == Claimed(old, command, command.member)
           accepted == /\ command.member \in Managers
                       /\ Current(old, command)
                       /\ old.attention = "claimed" /\ old.live
                       /\ old.owner # command.member
<1>1. /\ calls[c] # Null /\ command.kind \in {"take_over"}
      /\ Serve(c, accepted, row)
  BY DEF TakeOver, At
<1>2. /\ CommandOK(command) /\ command.capture \in Captures
      /\ command.version + 1 \in Versions /\ command.member \in Members
  BY <1>1, CommandKnown
<1>3. ASSUME accepted PROVE SoundRow(command, old, row)
  <2>1. Current(old, command)
    BY <1>1, <1>3, <1>2, HolderKnown DEF Claimable
  <2>2. /\ old \in CaptureRows /\ ClaimOK(old) /\ old.status = "draft"
    BY <1>2, <2>1, RowKnown DEF Current
  <2>4. row \in CaptureRows
    BY <1>2, <2>2 DEF CaptureRows, Claimed
  <2>5. /\ row.status = "draft" /\ row.attention = "claimed"
        /\ row.owner = Granted(command) /\ row.lease = command.version + 1
        /\ (row.party = Null => row.customer = Null /\ row.address = Null)
    BY <1>1, <1>2, <2>2 DEF CaptureRows, ClaimOK, Claimed, Granted
  <2>6. /\ command.kind \in Granting \ {"create"}
        /\ (command.kind = "transfer" => Holds(old, command))
        /\ (command.kind \in {"claim", "resume"} => Claimable(old, command))
        /\ (command.kind \in {"take_over", "transfer"} => command.member \in Managers)
    BY <1>1, <1>3 DEF Granting
  <2> HIDE DEF row
  <2> QED BY <1>1, <1>2, <2>1, <2>4, <2>5, <2>6, GrantIsSound
<1>4. command.kind \in DeskKinds
  BY <1>1 DEF DeskKinds, TakingKinds
<1> HIDE DEF row, accepted
<1> QED BY <1>1, <1>3, <1>4, DeskServes

\* The heartbeat renews the lease, or nothing.
LEMMA RenewServes ==
  ASSUME Types, NEW c \in Callers, Renew(c)
  PROVE  Served(c)
<1> DEFINE command == calls[c].command
           k == command.capture
<1>1. /\ calls[c] # Null /\ k \in Captures /\ command.kind = "renew"
      /\ calls' = [calls EXCEPT ![c] = Null] /\ calls'[c] = Null
  BY CallKnown DEF Renew, At, Types, CallsOK
<1>2. CallGoesOn(c)
  BY <1>1 DEF CallGoesOn
<1>3. CASE Renewable(captures[k], command)
  <2>1. captures[k] \in CaptureRows /\ ClaimOK(captures[k])
    BY <1>1, <1>3, RowKnown DEF Renewable
  <2> DEFINE recoverable == captures[k].recoverable
             row == [captures[k] EXCEPT !.live = TRUE]
             same == [captures[k] EXCEPT !.live = TRUE, !.recoverable = recoverable]
  <2>2. row = same
    BY <2>1 DEF CaptureRows
  <2>3. captures' = [captures EXCEPT ![k] = row]
    BY <1>3 DEF Renew
  <2>4. captures[k] # Null /\ captures[k].lease # Null /\ recoverable \in BOOLEAN
    BY <2>1, <1>3 DEF Renewable, ClaimOK, CaptureRows
  <2>5. Flagged(k)
    BY <2>2, <2>3, <2>4 DEF Flagged, Renew
  <2> QED BY <1>1, <1>2, <1>3, <2>5 DEF Served, Renewed
<1>4. CASE ~Renewable(captures[k], command)
  BY <1>2, <1>4 DEF Served, Quiet, Renew, draftTables
<1> QED BY <1>3, <1>4

LEMMA DeskStepServes ==
  ASSUME Types, NEW c \in Callers, DeskStep(c)
  PROVE  Served(c)
BY CreateServes, HoldServes, ClaimServes, PreferServes, RenewServes,
   TransferServes, TakeOverServes, AutosaveServes, SetCustomerServes,
   SetFulfillmentServes, SetInstructionsServes, NoSaleServes DEF DeskStep

\* What the holder leaves of the capture when he writes beside it.
LEMMA SaleLeaves ==
  ASSUME Types, NEW k \in Captures, NEW command, CommandOK(command),
         Holds(captures[k], command),
         command.kind \in {"select", "repeat", "quote", "intent"},
         NEW new, new = [captures[k] EXCEPT !.version = command.version + 1]
  PROVE  /\ new \in CaptureRows /\ ClaimOK(new) /\ new.status = "draft"
         /\ new.version = command.version + 1
         /\ Current(captures[k], command)
         /\ ClaimMoves(command, captures[k], new)
<1> DEFINE old == captures[k]
<1>1. /\ old \in CaptureRows /\ ClaimOK(old) /\ command.version \in Nat
      /\ Current(old, command) /\ old.status = "draft"
      /\ old.attention = "claimed"
  BY HolderKnown
<1>2. SoundRow(command, old, old)
  BY <1>1, EditIsSound DEF ClaimOK, EditKinds
<1>3. /\ new \in CaptureRows /\ new.version = command.version + 1
      /\ new.status = old.status /\ new.attention = old.attention
      /\ new.owner = old.owner /\ new.lease = old.lease
      /\ new.live = old.live
  BY <1>1, NextVersion
<1>4. ClaimOK(new)
  BY <1>2 DEF SoundRow
<1> HIDE DEF old
<1>5. ClaimMoves(command, old, new)
  BY <1>2, <1>3 DEF SoundRow, ClaimMoves
<1> QED BY <1>1, <1>3, <1>4, <1>5 DEF old

\* A call goes on to its next stage, and writes nothing.
LEMMA ProceedServes ==
  ASSUME NEW c \in Callers, NEW call, Proceed(c, call), CallTyped(call),
         call.command = calls[c].command
  PROVE  Served(c)
<1>1. CallGoesOn(c)
  BY DEF Proceed, CallGoesOn
<1>2. Quiet
  BY DEF Proceed, Quiet, draftTables
<1> QED BY <1>1, <1>2 DEF Served

\* The fields of a call.
LEMMA OnwardCall ==
  ASSUME Types, NEW c \in Callers, calls[c] # Null, NEW stage
  PROVE  LET call == Onward(c, stage)
         IN /\ DOMAIN call = CallFields /\ call.command = calls[c].command
            /\ call.stage = stage /\ call.plan = calls[c].plan
            /\ call.quote = calls[c].quote /\ call.basis = calls[c].basis
            /\ call.channel = calls[c].channel /\ call.order = calls[c].order
<1>1. DOMAIN calls[c] = CallFields
  BY CallKnown DEF CallTyped
<1> QED BY <1>1 DEF Onward, CallFields

\* The journal knows the command, or the service goes to work.
LEMMA ProbeServes ==
  ASSUME Types, NEW c \in Callers, Probe(c)
  PROVE  Served(c)
<1> DEFINE call == Onward(c, "probed")
<1>1. calls[c] # Null /\ (End(c) \/ Proceed(c, call))
  BY DEF Probe, At
<1>2. /\ DOMAIN call = CallFields /\ call.command = calls[c].command
      /\ call.stage = "probed" /\ call.plan = calls[c].plan
      /\ call.quote = calls[c].quote /\ call.order = calls[c].order
  BY <1>1, OnwardCall
<1>3. CommandOK(calls[c].command) /\ CallTyped(calls[c])
  BY <1>1, CallKnown
<1>5. calls[c].stage = "received"
  BY DEF Probe, At
<1> HIDE DEF call
<1>4. CallTyped(call)
  BY <1>2, <1>3, <1>5 DEF CallTyped, Stages
<1> QED BY <1>1, <1>2, <1>4, EndServes, ProceedServes

\* The menu of a call stays in its numbers.
LEMMA HeadKnown ==
  ASSUME Types
  PROVE  head \in Versions
BY CaptureAssumption DEF Types, Versions

\* A selection is priced.
LEMMA PriceSelectionServes ==
  ASSUME Types, NEW c \in Callers, PriceSelection(c)
  PROVE  Served(c)
<1> DEFINE command == calls[c].command
           plan == [kind |-> "selection", lines |-> command.lines,
                    catalog |-> command.catalog, customer |-> Null]
           call == [Onward(c, "ready") EXCEPT !.plan = plan]
<1>1. /\ calls[c] # Null /\ command.kind = "select"
      /\ End(c) \/ Proceed(c, call)
  BY DEF PriceSelection, At
<1>2. CommandOK(command)
  BY <1>1, CommandKnown
<1>3. command.lines \in Nat /\ command.catalog \in Versions
  BY <1>1, <1>2 DEF CommandOK, Has
<1>4. PlannedFor(command, plan)
  BY <1>1, <1>3 DEF PlannedFor, Plans, Optional
<1> HIDE DEF plan
<1>5. /\ DOMAIN call = CallFields /\ call.command = command
      /\ call.stage = "ready" /\ call.plan = plan
  BY <1>1, OnwardCall DEF CallFields
<1> HIDE DEF call
<1>6. CallTyped(call)
  BY <1>1, <1>2, <1>4, <1>5 DEF CallTyped, Stages
<1> QED BY <1>1, <1>5, <1>6, EndServes, ProceedServes

\* An earlier order is matched with the menu.
LEMMA PlanRepeatServes ==
  ASSUME Types, NEW c \in Callers, PlanRepeat(c)
  PROVE  Served(c)
<1> DEFINE command == calls[c].command
           plan == [kind |-> "repeat", lines |-> command.lines,
                    catalog |-> head, customer |-> command.customer]
           call == [Onward(c, "ready") EXCEPT !.plan = plan]
<1>1. calls[c] # Null /\ command.kind = "repeat" /\ Proceed(c, call)
  BY DEF PlanRepeat, At
<1>2. CommandOK(command)
  BY <1>1, CommandKnown
<1>3. /\ command.lines \in Nat /\ command.customer \in Optional(Customers)
      /\ head \in Versions
  BY <1>1, <1>2, HeadKnown DEF CommandOK, Has
<1>4. PlannedFor(command, plan)
  BY <1>1, <1>3 DEF PlannedFor, Plans
<1> HIDE DEF plan
<1>5. /\ DOMAIN call = CallFields /\ call.command = command
      /\ call.stage = "ready" /\ call.plan = plan
  BY <1>1, OnwardCall DEF CallFields
<1> HIDE DEF call
<1>6. CallTyped(call)
  BY <1>1, <1>2, <1>4, <1>5 DEF CallTyped, Stages
<1> QED BY <1>1, <1>5, <1>6, ProceedServes

\* A delivery is quoted.
LEMMA ComputeQuoteServes ==
  ASSUME Types, NEW c \in Callers, ComputeQuote(c)
  PROVE  Served(c)
<1> DEFINE command == calls[c].command
           row == captures[command.capture]
           quote(covered, fee) ==
             [id |-> command.version + 1, address |-> row.address,
              covered |-> covered, fee |-> IF covered THEN fee ELSE 0,
              live |-> TRUE, applied |-> command.version + 1]
           call(covered, fee) ==
             [Onward(c, "ready") EXCEPT !.quote = quote(covered, fee)]
<1>1. /\ calls[c] # Null /\ command.kind = "quote"
      /\ \/ End(c)
         \/ /\ row # Null /\ row.address # Null
            /\ \E covered \in BOOLEAN, fee \in Fees : Proceed(c, call(covered, fee))
  BY DEF ComputeQuote, At
<1>2. CASE End(c)
  BY <1>2, EndServes
<1>3. ASSUME row # Null, row.address # Null,
             NEW covered \in BOOLEAN, NEW fee \in Fees,
             Proceed(c, call(covered, fee))
      PROVE  Served(c)
  <2>1. /\ CommandOK(command) /\ command.capture \in Captures
        /\ command.version + 1 \in Versions
    BY <1>1, CommandKnown
  <2>2. row.address \in Versions
    BY <1>3, <2>1, RowKnown DEF CaptureRows
  <2>3. (IF covered THEN fee ELSE 0) \in Nat
    BY CaptureAssumption
  <2>4. quote(covered, fee) \in QuoteRows
    BY <2>1, <2>2, <2>3 DEF QuoteRows
  <2> DEFINE made == quote(covered, fee)
             next == [Onward(c, "ready") EXCEPT !.quote = made]
  <2>5. Proceed(c, next)
    BY <1>3
  <2>6. made \in QuoteRows
    BY <2>4
  <2> HIDE DEF made
  <2>7. /\ DOMAIN next = CallFields /\ next.command = command
        /\ next.stage = "ready" /\ next.quote = made
    BY <1>1, OnwardCall DEF CallFields
  <2> HIDE DEF next
  <2>8. CallTyped(next)
    BY <1>1, <2>1, <2>6, <2>7 DEF CallTyped, Stages
  <2> QED BY <2>5, <2>7, <2>8, ProceedServes
<1> QED BY <1>1, <1>2, <1>3

\* What the total of a capture is derived from.
LEMMA BasisKnown ==
  ASSUME Types, NEW k \in Captures, captures[k] # Null,
         captures[k].channel # Null, plans[k] # Null
  PROVE  Basis(plans[k], captures[k].channel, quotes[k]) \in Bases
<1>1. plans[k] \in PlanRows /\ captures[k].channel \in Channels
  BY RowsBeside, RowKnown DEF Optional, CaptureRows
<1>2. quotes[k] = Null \/ quotes[k] \in QuoteRows
  BY RowsBeside DEF Optional
<1>3. FeeOf(captures[k].channel, quotes[k]) \in Nat
  BY <1>2 DEF FeeOf, QuoteRows
<1>4. QuoteOf(captures[k].channel, quotes[k]) \in Versions \union {Null}
  BY <1>2 DEF QuoteOf, QuoteRows
<1> QED BY <1>1, <1>3, <1>4 DEF Basis, Bases, PlanRows

\* The total an intent is for.
LEMMA PriceIntentServes ==
  ASSUME Types, NEW c \in Callers, PriceIntent(c)
  PROVE  Served(c)
<1> DEFINE command == calls[c].command
           k == command.capture
           basis == Basis(plans[k], captures[k].channel, quotes[k])
           call == [Onward(c, "ready") EXCEPT !.basis = basis]
<1>1. /\ calls[c] # Null /\ command.kind = "intent"
      /\ \/ End(c)
         \/ /\ captures[k] # Null /\ captures[k].channel # Null
            /\ Priceable(plans[k]) /\ Proceed(c, call)
  BY DEF PriceIntent, At
<1>2. CASE End(c)
  BY <1>2, EndServes
<1>3. CASE /\ captures[k] # Null /\ captures[k].channel # Null
           /\ Priceable(plans[k]) /\ Proceed(c, call)
  <2>1. CommandOK(command) /\ k \in Captures
    BY <1>1, CommandKnown
  <2>2. basis \in Bases
    BY <1>3, <2>1, BasisKnown DEF Priceable
  <2> HIDE DEF basis
  <2>3. /\ DOMAIN call = CallFields /\ call.command = command
        /\ call.stage = "ready" /\ call.basis = basis
    BY <1>1, OnwardCall DEF CallFields
  <2>4. Proceed(c, call)
    BY <1>3
  <2> HIDE DEF call
  <2>5. CallTyped(call)
    BY <1>1, <2>1, <2>2, <2>3 DEF CallTyped, Stages
  <2> QED BY <2>3, <2>4, <2>5, ProceedServes
<1> QED BY <1>1, <1>2, <1>3

\* A confirmation reads the capture and its plan.
LEMMA ReadCaptureServes ==
  ASSUME Types, NEW c \in Callers, ReadCapture(c)
  PROVE  Served(c)
<1> DEFINE command == calls[c].command
           k == command.capture
           call == [Onward(c, "read") EXCEPT !.plan = plans[k],
                                             !.channel = captures[k].channel]
<1>1. /\ calls[c] # Null /\ calls[c].stage = "probed"
      /\ \/ End(c)
         \/ /\ captures[k] # Null /\ captures[k].channel # Null
            /\ Proceed(c, call)
  BY DEF ReadCapture, At, Current
<1>2. CASE End(c)
  BY <1>2, EndServes
<1>3. CASE /\ captures[k] # Null /\ captures[k].channel # Null
           /\ Proceed(c, call)
  <2>1. CommandOK(command) /\ CallTyped(calls[c]) /\ k \in Captures
    BY <1>1, CallKnown
  <2>2. /\ captures[k].channel \in Channels /\ calls[c].quote = Null
        /\ plans[k] \in Optional(PlanRows)
    BY <1>1, <1>3, <2>1, RowKnown, RowsBeside DEF CaptureRows, CallTyped
  <2>3. /\ DOMAIN call = CallFields /\ call.command = command
        /\ call.stage = "read" /\ call.plan = plans[k]
        /\ call.channel = captures[k].channel /\ call.quote = calls[c].quote
    BY <1>1, OnwardCall DEF CallFields
  <2>4. Proceed(c, call)
    BY <1>3
  <2> HIDE DEF call
  <2>5. CallTyped(call)
    BY <2>1, <2>2, <2>3 DEF CallTyped, Stages, Optional
  <2> QED BY <2>3, <2>4, <2>5, ProceedServes
<1> QED BY <1>1, <1>2, <1>3

\* It reads the intent and the quote.
LEMMA ReadMoneyServes ==
  ASSUME Types, NEW c \in Callers, ReadMoney(c)
  PROVE  Served(c)
<1> DEFINE command == calls[c].command
           k == command.capture
           call == [Onward(c, "checked") EXCEPT !.quote = quotes[k]]
<1>1. /\ calls[c] # Null /\ calls[c].stage = "read"
      /\ End(c) \/ Proceed(c, call)
  BY DEF ReadMoney, At
<1>2. CommandOK(command) /\ CallTyped(calls[c]) /\ k \in Captures
  BY <1>1, CallKnown
<1>3. quotes[k] \in Optional(QuoteRows)
  BY <1>2, RowsBeside
<1>4. /\ DOMAIN call = CallFields /\ call.command = command
      /\ call.stage = "checked" /\ call.plan = calls[c].plan
      /\ call.channel = calls[c].channel /\ call.quote = quotes[k]
  BY <1>1, OnwardCall DEF CallFields
<1> HIDE DEF call
<1>5. CallTyped(call)
  BY <1>1, <1>2, <1>3, <1>4 DEF CallTyped, Stages
<1> QED BY <1>1, <1>4, <1>5, EndServes, ProceedServes

\* The order a call has built.
LEMMA BuiltKnown ==
  ASSUME Types, NEW call, CallTyped(call), call.stage = "checked"
  PROVE  Built(call) \in BuiltOrders
<1>1. /\ call.plan = Null \/ call.plan \in PlanRows
      /\ call.quote = Null \/ call.quote \in QuoteRows
      /\ call.channel \in Channels
  BY DEF CallTyped, Optional
<1>2. head \in Versions
  BY HeadKnown
<1>3. (IF call.plan = Null THEN 0 ELSE call.plan.lines) \in Nat
  BY <1>1 DEF PlanRows, Versions
<1>4. (IF call.plan = Null THEN Null ELSE head) \in Optional(Versions)
  BY <1>2 DEF Optional
<1>5. (IF call.channel = "delivery" /\ call.quote # Null
       THEN call.quote.fee ELSE Null) \in Optional(Nat)
  BY <1>1 DEF QuoteRows, Optional
<1>6. QuoteOf(call.channel, call.quote) \in Optional(Versions)
  BY <1>1 DEF QuoteRows, QuoteOf, Optional
<1> QED BY <1>1, <1>3, <1>4, <1>5, <1>6 DEF Built, BuiltOrders

\* It builds the order.
LEMMA MaterializeServes ==
  ASSUME Types, NEW c \in Callers, Materialize(c)
  PROVE  Served(c)
<1> DEFINE command == calls[c].command
           order == Built(calls[c])
           call == [NewCall(command) EXCEPT !.stage = "ready", !.order = order]
<1>1. /\ calls[c] # Null /\ calls[c].stage = "checked"
      /\ command.kind = "confirm"
      /\ End(c) \/ Proceed(c, call)
  BY DEF Materialize, At
<1>2. CommandOK(command) /\ CallTyped(calls[c])
  BY <1>1, CallKnown
<1>3. order \in BuiltOrders
  BY <1>1, <1>2, BuiltKnown
<1> HIDE DEF order
<1>4. /\ DOMAIN call = CallFields /\ call.command = command
      /\ call.stage = "ready" /\ call.order = order
  BY DEF CallFields, NewCall
<1> HIDE DEF call
<1>5. CallTyped(call)
  BY <1>1, <1>2, <1>3, <1>4 DEF CallTyped, Stages
<1> QED BY <1>1, <1>4, <1>5, EndServes, ProceedServes

\* The plan a call stores, with the version that stores it.
LEMMA StoredPlanKnown ==
  ASSUME NEW c \in Callers, CommandOK(calls[c].command),
         PlannedFor(calls[c].command, calls[c].plan)
  PROVE  /\ StoredPlan(c) \in Optional(PlanRows)
         /\ IF calls[c].command.lines = 0 THEN StoredPlan(c) = Null
            ELSE /\ StoredPlan(c) # Null
                 /\ StoredPlan(c).kind = calls[c].plan.kind
                 /\ StoredPlan(c).lines = calls[c].command.lines
                 /\ StoredPlan(c).catalog = calls[c].plan.catalog
                 /\ StoredPlan(c).applied = calls[c].command.version + 1
<1> DEFINE plan == calls[c].plan
           version == calls[c].command.version + 1
           stored == With(plan, [applied |-> version])
<1>1. plan \in Plans /\ plan.lines = calls[c].command.lines
  BY DEF PlannedFor
<1>2. version \in Versions
  BY DEF CommandOK, Versions
<1>3. CASE plan.lines = 0
  BY <1>1, <1>3 DEF StoredPlan, Optional
<1>4. CASE plan.lines # 0
  <2> HIDE DEF plan, version
  <2>1. stored = [kind |-> plan.kind, lines |-> plan.lines,
                  catalog |-> plan.catalog, customer |-> plan.customer,
                  applied |-> version]
    BY <1>1 DEF With, Plans
  <2>2. plan.lines \in Versions
    BY <1>1, <1>4 DEF Plans, Versions
  <2>3. stored \in PlanRows
    BY <1>1, <1>2, <2>1, <2>2 DEF Plans, PlanRows, Optional
  <2>4. StoredPlan(c) = stored
    BY <1>4 DEF StoredPlan, plan, version
  <2>5. stored # Null
    BY <2>3, RowsAreThere
  <2>6. stored.kind = plan.kind /\ stored.lines = plan.lines
        /\ stored.catalog = plan.catalog /\ stored.applied = version
    BY <2>1
  <2> QED BY <1>1, <1>4, <2>3, <2>4, <2>5, <2>6 DEF Optional, plan, version
<1> QED BY <1>3, <1>4

\* The plan a call is ready to store.
LEMMA PlanKnown ==
  ASSUME Types, NEW c \in Callers, calls[c] # Null, calls[c].stage = "ready",
         calls[c].command.kind \in {"select", "repeat"}
  PROVE  PlannedFor(calls[c].command, calls[c].plan)
BY CallKnown DEF CallTyped

\* New lines replace the old ones.
LEMMA LinesServe ==
  ASSUME Types, NEW c \in Callers, calls[c] # Null, calls[c].stage = "ready",
         calls[c].command.kind \in {"select", "repeat"},
         NEW accepted, NEW effects,
         accepted => Holds(captures[calls[c].command.capture], calls[c].command),
         effects = [Effects(calls[c].command.capture,
                            captures[calls[c].command.capture])
                      EXCEPT !.plan = StoredPlan(c)],
         Transaction(c, accepted, captures[calls[c].command.capture], effects)
  PROVE  Served(c)
<1> DEFINE command == calls[c].command
           k == command.capture
           old == captures[k]
           new == [old EXCEPT !.version = command.version + 1]
           kept == Effects(k, old)
<1>1. CASE ~Journaled(command) /\ accepted
  <2>1. Commit(c, old, effects) /\ Holds(old, command)
    BY <1>1 DEF Transaction
  <2>2. CommandOK(command) /\ k \in Captures
    BY CommandKnown
  <2>3. /\ new \in CaptureRows /\ ClaimOK(new) /\ new.status = "draft"
        /\ new.version = command.version + 1
        /\ Current(old, command) /\ ClaimMoves(command, old, new)
    BY <2>1, <2>2, SaleLeaves
  <2>4. /\ effects.plan = StoredPlan(c) /\ effects.quote = kept.quote
        /\ effects.intent = kept.intent /\ effects.taken = kept.taken
    BY DEF Effects
  <2>5. old.status = "draft"
    BY <2>3 DEF Current
  <2>6. /\ kept.quote \in {Null, quotes[k]} /\ kept.quote \in Optional(QuoteRows)
        /\ kept.intent \in {Null, intents[k]}
        /\ kept.intent \in Optional(IntentRows)
        /\ kept.taken = taken
    BY <2>2, <2>5, UpdateLeaves
  <2>7. PlannedFor(command, calls[c].plan)
    BY PlanKnown
  <2>8. /\ StoredPlan(c) \in Optional(PlanRows)
        /\ IF command.lines = 0 THEN StoredPlan(c) = Null
           ELSE /\ StoredPlan(c) # Null
                /\ StoredPlan(c).kind = calls[c].plan.kind
                /\ StoredPlan(c).lines = command.lines
                /\ StoredPlan(c).catalog = calls[c].plan.catalog
                /\ StoredPlan(c).applied = command.version + 1
    BY <2>2, <2>7, StoredPlanKnown
  <2> HIDE DEF kept, old, k, new
  <2>9. PlanMoves(calls[c], plans[k], new, StoredPlan(c))
    BY <2>7, <2>8 DEF PlanMoves
  <2>10. Leaves(calls[c], new, effects.plan, effects.quote, effects.intent,
                effects.taken)
    BY <2>3, <2>4, <2>6, <2>8, <2>9 DEF Leaves, k, old
  <2> QED BY <1>1, <2>1, <2>10, CommitServes DEF new, old, k
<1>2. CASE ~(~Journaled(command) /\ accepted)
  BY <1>2, EndServes DEF Transaction
<1> QED BY <1>1, <1>2

LEMMA ReplaceSelectionServes ==
  ASSUME Types, NEW c \in Callers, ReplaceSelection(c)
  PROVE  Served(c)
<1> DEFINE command == calls[c].command
           accepted == /\ Holds(captures[command.capture], command)
                       /\ calls[c].plan.catalog = head
           effects == [Effects(command.capture, captures[command.capture])
                         EXCEPT !.plan = StoredPlan(c)]
<1>1. /\ calls[c] # Null /\ calls[c].stage = "ready" /\ command.kind = "select"
      /\ Transaction(c, accepted, captures[command.capture], effects)
  BY DEF ReplaceSelection, At
<1>2. accepted => Holds(captures[command.capture], command)
  OBVIOUS
<1>3. effects = [Effects(command.capture, captures[command.capture])
                   EXCEPT !.plan = StoredPlan(c)]
  OBVIOUS
<1> HIDE DEF accepted, effects
<1> QED BY <1>1, <1>2, <1>3, LinesServe

LEMMA RepeatOrderServes ==
  ASSUME Types, NEW c \in Callers, RepeatOrder(c)
  PROVE  Served(c)
<1> DEFINE command == calls[c].command
           row == captures[command.capture]
           accepted == /\ Holds(row, command)
                       /\ row.customer = command.customer /\ row.party # Null
                       /\ calls[c].plan.catalog = head
           effects == [Effects(command.capture, captures[command.capture])
                         EXCEPT !.plan = StoredPlan(c)]
<1>1. /\ calls[c] # Null /\ calls[c].stage = "ready" /\ command.kind = "repeat"
      /\ Transaction(c, accepted, captures[command.capture], effects)
  BY DEF RepeatOrder, At
<1>2. accepted => Holds(captures[command.capture], command)
  OBVIOUS
<1>3. effects = [Effects(command.capture, captures[command.capture])
                   EXCEPT !.plan = StoredPlan(c)]
  OBVIOUS
<1> HIDE DEF accepted, effects
<1> QED BY <1>1, <1>2, <1>3, LinesServe

\* What a call writes beside the capture without touching its lines.
LEMMA BesideServes ==
  ASSUME Types, NEW c \in Callers, calls[c] # Null,
         calls[c].command.kind \in {"quote", "intent"},
         NEW accepted, NEW quote, NEW intent, NEW effects,
         accepted => Holds(captures[calls[c].command.capture], calls[c].command),
         effects.plan = Effects(calls[c].command.capture,
                                captures[calls[c].command.capture]).plan,
         effects.quote = quote, effects.intent = intent,
         effects.taken = taken,
         IF calls[c].command.kind = "quote" THEN quote \in QuoteRows
         ELSE quote = Effects(calls[c].command.capture,
                              captures[calls[c].command.capture]).quote,
         IF calls[c].command.kind = "intent"
         THEN intent \in IntentRows
              /\ intent.applied = calls[c].command.version + 1
         ELSE intent = Effects(calls[c].command.capture,
                               captures[calls[c].command.capture]).intent,
         Transaction(c, accepted, captures[calls[c].command.capture], effects)
  PROVE  Served(c)
<1> DEFINE command == calls[c].command
           k == command.capture
           old == captures[k]
           new == [old EXCEPT !.version = command.version + 1]
           kept == Effects(k, old)
<1>1. CASE ~Journaled(command) /\ accepted
  <2>1. Commit(c, old, effects) /\ Holds(old, command)
    BY <1>1 DEF Transaction
  <2>2. CommandOK(command) /\ k \in Captures
    BY CommandKnown
  <2>3. /\ new \in CaptureRows /\ ClaimOK(new) /\ new.status = "draft"
        /\ new.version = command.version + 1
        /\ Current(old, command) /\ ClaimMoves(command, old, new)
    BY <2>1, <2>2, SaleLeaves
  <2>5. old.status = "draft"
    BY <2>3 DEF Current
  <2>6. /\ kept.plan \in {Null, plans[k]} /\ kept.plan \in Optional(PlanRows)
        /\ plans[k] # Null => kept.plan = plans[k] \/ plans[k].kind = "repeat"
        /\ kept.quote \in {Null, quotes[k]} /\ kept.quote \in Optional(QuoteRows)
        /\ kept.intent \in {Null, intents[k]}
        /\ kept.intent \in Optional(IntentRows)
    BY <2>2, <2>5, UpdateLeaves
  <2>7. /\ effects.plan = kept.plan
        /\ command.kind # "quote" => quote = kept.quote
        /\ command.kind # "intent" => intent = kept.intent
    OBVIOUS
  <2>8. quote \in Optional(QuoteRows) /\ intent \in Optional(IntentRows)
    BY <2>6, <2>7 DEF Optional
  <2> HIDE DEF kept, old, k, new
  <2>9. PlanMoves(calls[c], plans[k], new, effects.plan)
    BY <2>6, <2>7 DEF PlanMoves
  <2>10. command.kind = "intent" => intent # Null
    BY RowsAreThere
  <2>11. Leaves(calls[c], new, effects.plan, effects.quote, effects.intent,
                effects.taken)
    BY <2>3, <2>6, <2>7, <2>8, <2>9, <2>10 DEF Leaves, k, old
  <2> QED BY <1>1, <2>1, <2>11, CommitServes DEF new, old, k
<1>2. CASE ~(~Journaled(command) /\ accepted)
  BY <1>2, EndServes DEF Transaction
<1> QED BY <1>1, <1>2

LEMMA SetQuoteServes ==
  ASSUME Types, NEW c \in Callers, SetQuote(c)
  PROVE  Served(c)
<1> DEFINE command == calls[c].command
           k == command.capture
           row == captures[k]
           kept == Effects(k, row)
           accepted == Holds(row, command) /\ row.channel = "delivery"
           effects == [kept EXCEPT !.quote = calls[c].quote]
<1>1. /\ calls[c] # Null /\ calls[c].stage = "ready" /\ command.kind = "quote"
      /\ Transaction(c, accepted, row, effects)
  BY DEF SetQuote, At
<1>2. calls[c].quote \in QuoteRows
  BY <1>1, CallKnown DEF CallTyped
<1>3. /\ effects.plan = kept.plan /\ effects.quote = calls[c].quote
      /\ effects.intent = kept.intent /\ effects.taken = taken
  BY DEF Effects
<1>4. accepted => Holds(row, command)
  OBVIOUS
<1> HIDE DEF accepted, effects
<1> QED BY <1>1, <1>2, <1>3, <1>4, BesideServes

LEMMA SetIntentServes ==
  ASSUME Types, NEW c \in Callers, SetIntent(c)
  PROVE  Served(c)
<1> DEFINE command == calls[c].command
           k == command.capture
           row == captures[k]
           kept == Effects(k, row)
           accepted == Holds(row, command)
           intent == [tender |-> command.tender, basis |-> calls[c].basis,
                      applied |-> command.version + 1]
           effects == [kept EXCEPT !.intent = intent]
<1>1. /\ calls[c] # Null /\ calls[c].stage = "ready" /\ command.kind = "intent"
      /\ Transaction(c, accepted, row, effects)
  BY DEF SetIntent, At
<1>2. calls[c].basis \in Bases /\ CommandOK(command)
  BY <1>1, CallKnown DEF CallTyped
<1>5. command.tender \in Optional(Nat) /\ command.version + 1 \in Versions
  BY <1>1, <1>2, CommandKnown DEF CommandOK, Has
<1>6. intent \in IntentRows /\ intent.applied = command.version + 1
  BY <1>2, <1>5 DEF IntentRows, Optional
<1> HIDE DEF intent
<1>3. /\ effects.plan = kept.plan /\ effects.quote = kept.quote
      /\ effects.intent = intent /\ effects.taken = taken
  BY DEF Effects
<1>4. accepted => Holds(row, command)
  OBVIOUS
<1> HIDE DEF accepted, effects
<1> QED BY <1>1, <1>3, <1>4, <1>6, BesideServes

\* The capture becomes an order.
LEMMA ConfirmServes ==
  ASSUME Types, NEW c \in Callers, Confirm(c)
  PROVE  Served(c)
<1> DEFINE command == calls[c].command
           k == command.capture
           old == captures[k]
           row == [Released(old, "unclaimed") EXCEPT !.status = "confirmed"]
           new == [row EXCEPT !.version = command.version + 1]
           kept == Effects(k, row)
           more == Put(taken, command.order, Frozen(k, command, calls[c].order))
           effects == [kept EXCEPT !.taken = more]
<1>1. /\ calls[c] # Null /\ calls[c].stage = "ready" /\ command.kind = "confirm"
      /\ Transaction(c, Confirmable(c), row, effects)
  BY DEF Confirm, At
<1>2. CASE ~Journaled(command) /\ Confirmable(c)
  <2>1. Commit(c, row, effects)
    BY <1>1, <1>2 DEF Transaction
  <2>2. CommandOK(command) /\ k \in Captures /\ Holds(old, command)
    BY <1>1, <1>2, CommandKnown DEF Confirmable
  <2>3. /\ old \in CaptureRows /\ ClaimOK(old) /\ Current(old, command)
        /\ command.version \in Nat
    BY <2>2, HolderKnown
  <2>4. /\ row \in CaptureRows /\ row.status = "confirmed"
        /\ row.attention = "unclaimed" /\ row.owner = Null /\ row.lease = Null
        /\ row.live = FALSE
        /\ row.party = Null => row.customer = Null /\ row.address = Null
    BY <2>3 DEF CaptureRows, Released, ClaimOK
  <2>5. /\ effects.plan = kept.plan /\ effects.quote = kept.quote
        /\ effects.intent = kept.intent /\ effects.taken = more
    BY DEF Effects
  <2> HIDE DEF row, more
  <2>6. kept.plan = Null /\ kept.quote = Null /\ kept.intent = Null
    BY <2>4 DEF Effects, PlanKept, QuoteKept, IntentKept
  <2> HIDE DEF kept
  <2>7. /\ new \in CaptureRows /\ new.version = command.version + 1
        /\ new.status = "confirmed" /\ new.attention = "unclaimed"
        /\ new.owner = Null /\ new.lease = Null /\ new.live = FALSE
        /\ new.party = Null => new.customer = Null /\ new.address = Null
    BY <2>3, <2>4, NextVersion
  <2> HIDE DEF new
  <2>8. ClaimOK(new)
    BY <2>7 DEF ClaimOK
  <2>9. ClaimMoves(command, old, new)
    BY <1>1, <2>2, <2>7 DEF ClaimMoves, Granting, Leaving
  <2>10. calls[c].order \in BuiltOrders
    BY <1>1, CallKnown DEF CallTyped
  <2>11. Confirms(calls[c], more)
    BY <1>1, <1>2, <2>10 DEF Confirms, Confirmable, more
  <2>12. PlanMoves(calls[c], plans[k], new, effects.plan)
    BY <1>1, <2>5, <2>6, <2>7 DEF PlanMoves
  <2> HIDE DEF effects
  <2>13. Leaves(calls[c], new, effects.plan, effects.quote, effects.intent,
                effects.taken)
    BY <1>1, <2>3, <2>5, <2>6, <2>7, <2>8, <2>9, <2>11, <2>12
    DEF Leaves, Optional
  <2> QED BY <1>1, <1>2, <2>1, <2>13, CommitServes DEF new
<1>3. CASE ~(~Journaled(command) /\ Confirmable(c))
  BY <1>1, <1>3, EndServes DEF Transaction
<1> QED BY <1>2, <1>3

LEMMA SaleStepServes ==
  ASSUME Types, NEW c \in Callers, SaleStep(c)
  PROVE  Served(c)
BY ProbeServes, PriceSelectionServes, ReplaceSelectionServes, PlanRepeatServes,
   RepeatOrderServes, ComputeQuoteServes, SetQuoteServes, PriceIntentServes,
   SetIntentServes, ReadCaptureServes, ReadMoneyServes, MaterializeServes,
   ConfirmServes DEF SaleStep

-----------------------------------------------------------------------------
(***************************************************************************)
(* The commands of the stations.                                           *)
(***************************************************************************)
BaseFields == {"kind", "key", "capture", "member", "version"}

\* What every command of a station carries.
LEMMA BaseKnown ==
  ASSUME Types, NEW k \in Captures, captures[k] # Null, NEW m \in Members,
         NEW kind, NEW key
  PROVE  LET base == Base(kind, key, k, m)
         IN /\ DOMAIN base = BaseFields
            /\ base.kind = kind /\ base.key = key /\ base.capture = k
            /\ base.member = m /\ base.version = captures[k].version
            /\ base.version \in Nat
BY RowKnown DEF Base, BaseFields, CaptureRows, Versions

\* What every edit carries.
LEMMA EditingKnown ==
  ASSUME Types, NEW k \in Captures, captures[k] # Null, NEW m \in Members,
         NEW kind, NEW key
  PROVE  LET edit == Editing(kind, key, k, m)
         IN /\ DOMAIN edit = BaseFields \union {"lease"}
            /\ edit.kind = kind /\ edit.capture = k
            /\ edit.member = m /\ edit.version \in Nat
            /\ edit.lease \in Optional(Versions)
<1> DEFINE base == Base(kind, key, k, m)
           more == [lease |-> captures[k].lease]
<1>1. /\ DOMAIN base = BaseFields
      /\ base.kind = kind /\ base.capture = k /\ base.member = m
      /\ base.version \in Nat
  BY BaseKnown
<1>2. more.lease \in Optional(Versions) /\ DOMAIN more = {"lease"}
  BY RowKnown DEF CaptureRows, Optional
<1> HIDE DEF base, more
<1>3. /\ DOMAIN With(base, more) = DOMAIN base \union DOMAIN more
      /\ \A field \in DOMAIN base : With(base, more)[field] = base[field]
      /\ \A field \in DOMAIN more :
           field \notin DOMAIN base => With(base, more)[field] = more[field]
  BY WithFields
<1>4. /\ With(base, more).kind = base.kind
      /\ With(base, more).capture = base.capture
      /\ With(base, more).member = base.member
      /\ With(base, more).version = base.version
      /\ With(base, more).lease = more.lease
  BY <1>1, <1>2, <1>3 DEF BaseFields
<1>5. Editing(kind, key, k, m) = With(base, more)
  BY DEF Editing, base, more
<1> QED BY <1>1, <1>2, <1>3, <1>4, <1>5

\* An edit with more fields.
LEMMA EditingWithKnown ==
  ASSUME Types, NEW k \in Captures, captures[k] # Null, NEW m \in Members,
         NEW kind, NEW key, NEW more,
         DOMAIN more \intersect (BaseFields \union {"lease"}) = {}
  PROVE  LET edit == With(Editing(kind, key, k, m), more)
         IN /\ BaseFields \union {"lease"} \subseteq DOMAIN edit
            /\ edit.kind = kind /\ edit.capture = k
            /\ edit.member = m /\ edit.version \in Nat
            /\ edit.lease \in Optional(Versions)
            /\ \A field \in DOMAIN more :
                 field \in DOMAIN edit /\ edit[field] = more[field]
<1> DEFINE base == Editing(kind, key, k, m)
<1>1. /\ DOMAIN base = BaseFields \union {"lease"}
      /\ base.kind = kind /\ base.capture = k
      /\ base.member = m /\ base.version \in Nat
      /\ base.lease \in Optional(Versions)
  BY EditingKnown
<1> HIDE DEF base
<1>2. /\ DOMAIN With(base, more) = DOMAIN base \union DOMAIN more
      /\ \A field \in DOMAIN base : With(base, more)[field] = base[field]
      /\ \A field \in DOMAIN more :
           field \notin DOMAIN base => With(base, more)[field] = more[field]
  BY WithFields
<1>3. /\ With(base, more).kind = base.kind
      /\ With(base, more).capture = base.capture
      /\ With(base, more).member = base.member
      /\ With(base, more).version = base.version
      /\ With(base, more).lease = base.lease
  BY <1>1, <1>2 DEF BaseFields
<1>4. \A field \in DOMAIN more :
        field \in DOMAIN With(base, more) /\ With(base, more)[field] = more[field]
  BY <1>1, <1>2
<1>5. BaseFields \union {"lease"} \subseteq DOMAIN With(base, more)
  BY <1>1, <1>2
<1> QED BY <1>1, <1>3, <1>4, <1>5 DEF base

\* An edit with one more field that its kind has.
LEMMA EditOK ==
  ASSUME Types, NEW k \in Captures, captures[k] # Null, NEW m \in Members,
         NEW kind \in EditKinds \intersect Kinds, NEW key, NEW more,
         DOMAIN more \intersect (BaseFields \union {"lease"}) = {},
         kind = "autosave" => "channel" \in DOMAIN more
                              /\ more.channel \in Optional(Channels),
         kind = "prefer" => "autoRenew" \in DOMAIN more
                            /\ more.autoRenew \in BOOLEAN,
         kind = "transfer" => "target" \in DOMAIN more
                              /\ more.target \in Members,
         kind \in {"customer", "repeat"} =>
           "customer" \in DOMAIN more /\ more.customer \in Optional(Customers),
         kind \in {"select", "repeat"} =>
           "lines" \in DOMAIN more /\ more.lines \in Nat,
         kind = "select" => "catalog" \in DOMAIN more
                            /\ more.catalog \in Versions,
         kind = "intent" => "tender" \in DOMAIN more
                            /\ more.tender \in Optional(Nat)
  PROVE  CommandOK(With(Editing(kind, key, k, m), more))
<1> DEFINE edit == With(Editing(kind, key, k, m), more)
<1>1. /\ BaseFields \union {"lease"} \subseteq DOMAIN edit
      /\ edit.kind = kind /\ edit.capture = k
      /\ edit.member = m /\ edit.version \in Nat
      /\ edit.lease \in Optional(Versions)
      /\ \A field \in DOMAIN more :
           field \in DOMAIN edit /\ edit[field] = more[field]
  BY EditingWithKnown
<1> HIDE DEF edit
<1>2. kind # "create" /\ kind \in AllKinds
  BY DEF EditKinds, AllKinds
<1>3. /\ Has(edit, {"create", "autosave"}, "channel", Optional(Channels))
      /\ Has(edit, EditKinds, "lease", Optional(Versions))
      /\ Has(edit, {"prefer"}, "autoRenew", BOOLEAN)
      /\ Has(edit, {"transfer"}, "target", Members)
  BY <1>1, <1>2 DEF Has
<1>4. /\ Has(edit, {"customer", "repeat"}, "customer", Optional(Customers))
      /\ Has(edit, {"select", "repeat"}, "lines", Nat)
      /\ Has(edit, {"select"}, "catalog", Versions)
      /\ Has(edit, {"intent"}, "tender", Optional(Nat))
  BY <1>1, <1>2 DEF Has
<1>5. CommandOK(edit)
  BY <1>1, <1>2, <1>3, <1>4 DEF CommandOK, BaseFields
<1> QED BY <1>5 DEF edit

LEMMA DeskCommandsOK ==
  ASSUME Types, NEW k \in Captures, captures[k] # Null, NEW m \in Members,
         NEW key, NEW command \in DeskCommands(key, k, m),
         command.kind \in Kinds
  PROVE  CommandOK(command)
<1>1. CASE command \in {Base(kind, key, k, m) :
                          kind \in {"claim", "resume", "take_over"}}
  <2>1. PICK kind \in {"claim", "resume", "take_over"} :
               command = Base(kind, key, k, m)
    BY <1>1
  <2>2. /\ DOMAIN command = BaseFields
        /\ command.kind = kind /\ command.capture = k /\ command.member = m
        /\ command.version \in Nat
    BY <2>1, BaseKnown
  <2> QED BY <2>2 DEF CommandOK, BaseFields, Has, AllKinds, TakingKinds, EditKinds
<1>2. CASE command \in {Editing(kind, key, k, m) :
                          kind \in {"hold", "renew", "no_sale"}}
  <2>1. PICK kind \in {"hold", "renew", "no_sale"} :
               command = Editing(kind, key, k, m)
    BY <1>2
  <2>2. /\ DOMAIN command = BaseFields \union {"lease"}
        /\ command.kind = kind /\ command.capture = k /\ command.member = m
        /\ command.version \in Nat /\ command.lease \in Optional(Versions)
    BY <2>1, EditingKnown
  <2> QED BY <2>2 DEF CommandOK, BaseFields, Has, AllKinds, TakingKinds, EditKinds
<1>3. ASSUME NEW kind \in EditKinds, NEW more,
             command = With(Editing(kind, key, k, m), more),
             DOMAIN more \intersect (BaseFields \union {"lease"}) = {}
      PROVE  kind \in Kinds
  BY <1>3, EditingWithKnown
<1>4. CASE \E b \in BOOLEAN :
             command = With(Editing("prefer", key, k, m), [autoRenew |-> b])
  <2>1. PICK b \in BOOLEAN :
               command = With(Editing("prefer", key, k, m), [autoRenew |-> b])
    BY <1>4
  <2>2. "prefer" \in EditKinds \intersect Kinds
    BY <1>3, <2>1 DEF EditKinds, BaseFields
  <2> QED BY <2>1, <2>2, EditOK DEF BaseFields
<1>5. CASE \E t \in Members :
             command = With(Editing("transfer", key, k, m), [target |-> t])
  <2>1. PICK t \in Members :
               command = With(Editing("transfer", key, k, m), [target |-> t])
    BY <1>5
  <2>2. "transfer" \in EditKinds \intersect Kinds
    BY <1>3, <2>1 DEF EditKinds, BaseFields
  <2> QED BY <2>1, <2>2, EditOK DEF BaseFields
<1>6. CASE \E ch \in Channels \union {Null} :
             command = With(Editing("autosave", key, k, m),
               [channel |-> ch, party |-> captures[k].party,
                address |-> captures[k].address])
  <2>1. PICK ch \in Channels \union {Null} :
               command = With(Editing("autosave", key, k, m),
                 [channel |-> ch, party |-> captures[k].party,
                  address |-> captures[k].address])
    BY <1>6
  <2>2. "autosave" \in EditKinds \intersect Kinds
    BY <1>3, <2>1 DEF EditKinds, BaseFields
  <2> QED BY <2>1, <2>2, EditOK DEF BaseFields, Optional
<1>7. CASE \E u \in Customers \union {Null} :
             command = With(Editing("customer", key, k, m), [customer |-> u])
  <2>1. PICK u \in Customers \union {Null} :
               command = With(Editing("customer", key, k, m), [customer |-> u])
    BY <1>7
  <2>2. "customer" \in EditKinds \intersect Kinds
    BY <1>3, <2>1 DEF EditKinds, BaseFields
  <2> QED BY <2>1, <2>2, EditOK DEF BaseFields, Optional
<1>8. CASE \E b \in BOOLEAN :
             command = With(Editing("fulfillment", key, k, m),
               [party |-> captures[k].party, given |-> b])
  <2>1. PICK b \in BOOLEAN :
               command = With(Editing("fulfillment", key, k, m),
                 [party |-> captures[k].party, given |-> b])
    BY <1>8
  <2>2. "fulfillment" \in EditKinds \intersect Kinds
    BY <1>3, <2>1 DEF EditKinds, BaseFields
  <2> QED BY <2>1, <2>2, EditOK DEF BaseFields
<1>9. CASE \E b \in BOOLEAN :
             command = With(Editing("instructions", key, k, m), [given |-> b])
  <2>1. PICK b \in BOOLEAN :
               command = With(Editing("instructions", key, k, m), [given |-> b])
    BY <1>9
  <2>2. "instructions" \in EditKinds \intersect Kinds
    BY <1>3, <2>1 DEF EditKinds, BaseFields
  <2> QED BY <2>1, <2>2, EditOK DEF BaseFields
<1> QED
  BY <1>1, <1>2, <1>4, <1>5, <1>6, <1>7, <1>8, <1>9, Zenon DEF DeskCommands

LEMMA SaleCommandsOK ==
  ASSUME Types, NEW k \in Captures, captures[k] # Null, NEW m \in Members,
         NEW key, NEW command \in SaleCommands(key, k, m),
         command.kind \in Kinds
  PROVE  CommandOK(command)
<1>1. CASE command \in {Editing("quote", key, k, m)}
  <2>1. command = Editing("quote", key, k, m)
    BY <1>1
  <2>2. /\ DOMAIN command = BaseFields \union {"lease"}
        /\ command.kind = "quote" /\ command.capture = k /\ command.member = m
        /\ command.version \in Nat /\ command.lease \in Optional(Versions)
    BY <2>1, EditingKnown
  <2> QED BY <2>2 DEF CommandOK, BaseFields, Has, AllKinds, TakingKinds, EditKinds
<1>3. ASSUME NEW kind \in EditKinds, NEW more,
             command = With(Editing(kind, key, k, m), more),
             DOMAIN more \intersect (BaseFields \union {"lease"}) = {}
      PROVE  kind \in Kinds
  BY <1>3, EditingWithKnown
<1>4. CASE \E n \in LineCounts :
             command = With(Editing("select", key, k, m),
                            [lines |-> n, catalog |-> head])
  <2>1. PICK n \in LineCounts :
               command = With(Editing("select", key, k, m),
                              [lines |-> n, catalog |-> head])
    BY <1>4
  <2>2. "select" \in EditKinds \intersect Kinds
    BY <1>3, <2>1 DEF EditKinds, BaseFields
  <2>3. n \in Nat /\ head \in Versions
    BY CaptureAssumption, HeadKnown
  <2> QED BY <2>1, <2>2, <2>3, EditOK DEF BaseFields
<1>5. CASE \E n \in Repeats :
             command = With(Editing("repeat", key, k, m),
                            [customer |-> captures[k].customer, lines |-> n])
  <2>1. PICK n \in Repeats :
               command = With(Editing("repeat", key, k, m),
                              [customer |-> captures[k].customer, lines |-> n])
    BY <1>5
  <2>2. "repeat" \in EditKinds \intersect Kinds
    BY <1>3, <2>1 DEF EditKinds, BaseFields
  <2>3. n \in Nat /\ captures[k].customer \in Optional(Customers)
    BY RepeatsAssumption, RowKnown DEF CaptureRows, Optional
  <2> QED BY <2>1, <2>2, <2>3, EditOK DEF BaseFields
<1>6. CASE \E t \in Tenders :
             command = With(Editing("intent", key, k, m), [tender |-> t])
  <2>1. PICK t \in Tenders :
               command = With(Editing("intent", key, k, m), [tender |-> t])
    BY <1>6
  <2>2. "intent" \in EditKinds \intersect Kinds
    BY <1>3, <2>1 DEF EditKinds, BaseFields
  <2>3. t \in Optional(Nat)
    BY CaptureAssumption DEF Optional
  <2> QED BY <2>1, <2>2, <2>3, EditOK DEF BaseFields
<1>7. CASE command = With(Editing("confirm", key, k, m), [order |-> key])
  <2>2. "confirm" \in EditKinds \intersect Kinds
    BY <1>3, <1>7 DEF EditKinds, BaseFields
  <2> QED BY <1>7, <2>2, EditOK DEF BaseFields
<1> QED BY <1>1, <1>4, <1>5, <1>6, <1>7, Zenon DEF SaleCommands

LEMMA CreationsOK ==
  ASSUME Types, NEW key, NEW command \in Creations(key), command.kind \in Kinds
  PROVE  CommandOK(command)
<1>1. PICK k \in Captures, m \in Members, ch \in Channels \union {Null} :
        command = [kind |-> "create", key |-> key, capture |-> k, member |-> m,
                   version |-> 0, channel |-> ch]
  BY DEF Creations
<1> QED BY <1>1 DEF CommandOK, Has, AllKinds, TakingKinds, EditKinds, Optional

\* Whatever a station sends is a command the services can rely on.
LEMMA NewCommandsOK ==
  ASSUME Types, NEW command \in NewCommands
  PROVE  CommandOK(command)
<1> DEFINE key == FreshKey
           begun == {k \in Captures : captures[k] # Null}
           of(k, m) == DeskCommands(key, k, m) \union SaleCommands(key, k, m)
           offered == UNION {UNION {of(k, m) : m \in Members} : k \in begun}
<1>1. command.kind \in Kinds /\ command \in Creations(key) \union offered
  BY DEF NewCommands
<1> HIDE DEF key
<1>2. CASE command \in Creations(key)
  BY <1>1, <1>2, CreationsOK
<1>3. CASE command \in offered
  <2>1. PICK k \in begun : command \in UNION {of(k, m) : m \in Members}
    BY <1>3
  <2>2. PICK m \in Members : command \in of(k, m)
    BY <2>1
  <2> QED BY <1>1, <2>2, DeskCommandsOK, SaleCommandsOK
<1> QED BY <1>1, <1>2, <1>3

-----------------------------------------------------------------------------
(***************************************************************************)
(* Every step is a move.                                                   *)
(***************************************************************************)

\* A station asks: a new command, or one that somebody sent before.
Begun(c) ==
  \E command :
    /\ CommandOK(command) /\ calls[c] = Null
    /\ calls' = [calls EXCEPT ![c] = NewCall(command)]
    /\ Quiet

Moves ==
  \/ \E c \in Callers : calls[c] # Null /\ Served(c)
  \/ \E c \in Callers : Begun(c)
  \/ /\ UNCHANGED calls
     /\ Quiet \/ Published \/ \E k \in Captures : Lapsed(k) \/ QuoteEnds(k)

LEMMA IssueBegins ==
  ASSUME Types, NEW c \in Callers, Issue(c)
  PROVE  Begun(c)
<1>1. calls[c] = Null
      /\ \E command \in NewCommands : Proceed(c, NewCall(command))
  BY DEF Issue
<1>2. PICK command \in NewCommands : Proceed(c, NewCall(command))
  BY <1>1
<1>3. CommandOK(command)
  BY NewCommandsOK
<1> QED BY <1>1, <1>2, <1>3 DEF Begun, Proceed, Quiet

LEMMA RetryBegins ==
  ASSUME Types, NEW c \in Callers, Retry(c)
  PROVE  Begun(c)
<1>1. calls[c] = Null
      /\ \E command \in Sent \union Known : Proceed(c, NewCall(command))
  BY DEF Retry
<1>2. PICK command \in Sent \union Known : Proceed(c, NewCall(command))
  BY <1>1
<1>3. CommandOK(command)
  BY DEF Types, HeardOK, Heard
<1> QED BY <1>1, <1>2, <1>3 DEF Begun, Proceed, Quiet

\* The clock.
LEMMA LapseLapses ==
  ASSUME Types, NEW k \in Captures, LeaseLapses(k) \/ RecoveryLapses(k)
  PROVE  Lapsed(k) /\ UNCHANGED calls
<1>1. captures[k] # Null /\ captures[k] \in CaptureRows /\ ClaimOK(captures[k])
  BY RowKnown DEF LeaseLapses, RecoveryLapses
<1> DEFINE live == captures[k].live
           recoverable == captures[k].recoverable
           ended == [captures[k] EXCEPT !.live = FALSE]
           lost == [captures[k] EXCEPT !.recoverable = FALSE]
<1>2. /\ live \in BOOLEAN /\ recoverable \in BOOLEAN
      /\ ended = [captures[k] EXCEPT !.live = FALSE, !.recoverable = recoverable]
      /\ lost = [captures[k] EXCEPT !.live = live, !.recoverable = FALSE]
      /\ live => captures[k].lease # Null
  BY <1>1 DEF CaptureRows, ClaimOK
<1>3. CASE LeaseLapses(k)
  <2>1. captures' = [captures EXCEPT ![k] = ended] /\ ~ended.live
    BY <1>1, <1>3 DEF LeaseLapses, CaptureRows
  <2> HIDE DEF ended, recoverable
  <2>2. Flagged(k)
    BY <1>1, <1>2, <1>3, <2>1 DEF Flagged, LeaseLapses
  <2>3. captures'[k] = ended
    BY <2>1 DEF Types, RowsOK
  <2> QED BY <1>3, <2>1, <2>2, <2>3 DEF Lapsed, LeaseLapses
<1>4. CASE RecoveryLapses(k)
  <2>1. captures' = [captures EXCEPT ![k] = lost] /\ lost.live = live
    BY <1>1, <1>4 DEF RecoveryLapses, CaptureRows
  <2>2. captures[k].live = live
    OBVIOUS
  <2> HIDE DEF lost, live
  <2>3. Flagged(k)
    BY <1>1, <1>2, <1>4, <2>1 DEF Flagged, RecoveryLapses
  <2>4. captures'[k] = lost
    BY <2>1 DEF Types, RowsOK
  <2> QED BY <1>4, <2>1, <2>2, <2>3, <2>4 DEF Lapsed, RecoveryLapses
<1> QED BY <1>3, <1>4

LEMMA QuoteLapseEnds ==
  ASSUME NEW k \in Captures, QuoteLapses(k)
  PROVE  QuoteEnds(k) /\ UNCHANGED calls
BY DEF QuoteLapses, QuoteEnds

LEMMA PublishPublishes ==
  ASSUME Types, Publish
  PROVE  Published /\ UNCHANGED calls
BY CaptureAssumption DEF Types, Publish, Published

LEMMA StepsMove ==
  ASSUME Types, [Next]_vars
  PROVE  Moves
<1>1. CASE UNCHANGED vars
  BY <1>1 DEF vars, Moves, Quiet
<1>2. ASSUME NEW c \in Callers, Issue(c) \/ Retry(c)
      PROVE  Moves
  BY <1>2, IssueBegins, RetryBegins DEF Moves
<1>3. ASSUME NEW c \in Callers, Drop(c)
      PROVE  Moves
  BY <1>3, EndServes DEF Moves, Drop
<1>4. ASSUME NEW c \in Callers, DeskStep(c)
      PROVE  Moves
  <2>1. calls[c] # Null
    BY <1>4 DEF DeskStep, Create, Hold, Claim, Prefer, Renew, Transfer, TakeOver,
       Autosave, SetCustomer, SetFulfillment, SetInstructions, NoSale, At
  <2> QED BY <1>4, <2>1, DeskStepServes DEF Moves
<1>5. ASSUME NEW c \in Callers, SaleStep(c)
      PROVE  Moves
  <2>1. calls[c] # Null
    BY <1>5 DEF SaleStep, Probe, PriceSelection, ReplaceSelection, PlanRepeat,
       RepeatOrder, ComputeQuote, SetQuote, PriceIntent, SetIntent,
       ReadCapture, ReadMoney, Materialize, Confirm, At
  <2> QED BY <1>5, <2>1, SaleStepServes DEF Moves
<1>6. ASSUME NEW k \in Captures,
             LeaseLapses(k) \/ RecoveryLapses(k) \/ QuoteLapses(k)
      PROVE  Moves
  BY <1>6, LapseLapses, QuoteLapseEnds DEF Moves
<1>7. CASE Publish
  BY <1>7, PublishPublishes DEF Moves
<1> QED BY <1>1, <1>2, <1>3, <1>4, <1>5, <1>6, <1>7 DEF Next

-----------------------------------------------------------------------------
(***************************************************************************)
(* Types is an invariant.                                                  *)
(***************************************************************************)

\* A table with one row replaced.
LEMMA RowReplaced ==
  ASSUME NEW S, NEW f \in [Captures -> S], NEW k \in Captures, NEW row \in S,
         NEW g, g = [f EXCEPT ![k] = row]
  PROVE  /\ g \in [Captures -> S] /\ g[k] = row
         /\ \A j \in Captures : j # k => g[j] = f[j]
OBVIOUS

\* What is frozen with an order.
LEMMA FrozenKnown ==
  ASSUME Types, NEW k \in Captures, captures[k] # Null, NEW command,
         captures[k].version = command.version, NEW order \in BuiltOrders
  PROVE  Frozen(k, command, order) \in OrderRows
<1>1. captures[k] \in CaptureRows
  BY RowKnown
<1>2. /\ quotes[k] \in QuoteRows \union {Null}
      /\ intents[k] \in IntentRows \union {Null}
  BY RowsBeside DEF Optional
<1>3. /\ command.version \in Versions
      /\ captures[k].address \in Versions \union {Null}
  BY <1>1 DEF CaptureRows
<1> QED BY <1>2, <1>3 DEF Frozen, OrderRows, BuiltOrders, Optional

LEMMA WritesKeepRows ==
  ASSUME Types, NEW call, CallTyped(call), Writes(call)
  PROVE  RowsOK' /\ TakenOK' /\ (head \in 1 .. MaxCatalog)'
         /\ Known' \subseteq Known \union {call.command}
<1> DEFINE command == call.command
           k == command.capture
<1>1. PICK new, plan, quote, intent, more :
        /\ Leaves(call, new, plan, quote, intent, more)
        /\ captures' = [captures EXCEPT ![k] = new]
        /\ plans' = [plans EXCEPT ![k] = plan]
        /\ quotes' = [quotes EXCEPT ![k] = quote]
        /\ intents' = [intents EXCEPT ![k] = intent]
        /\ taken' = more /\ head' = head
        /\ journal' = Put(journal, command.key,
             [command |-> command, version |-> command.version + 1,
              plan |-> IF command.kind \in {"select", "repeat"}
                       THEN call.plan ELSE Null])
  BY DEF Writes
<1>2. k \in Captures
  BY DEF CallTyped, CommandOK
<1>3. /\ new \in CaptureRows /\ ClaimOK(new)
      /\ plan \in Optional(PlanRows) /\ quote \in Optional(QuoteRows)
      /\ intent \in Optional(IntentRows)
      /\ new.status # "draft" => plan = Null /\ quote = Null /\ intent = Null
  BY <1>1 DEF Leaves
<1>4. new # Null
  BY <1>3, RowsAreThere
<1> HIDE DEF k
<1>5. RowsOK'
  <2>1. /\ captures' \in [Captures -> Optional(CaptureRows)] /\ captures'[k] = new
        /\ \A j \in Captures : j # k => captures'[j] = captures[j]
    BY <1>1, <1>2, <1>3, RowReplaced DEF Types, RowsOK, Optional
  <2>2. /\ plans' \in [Captures -> Optional(PlanRows)] /\ plans'[k] = plan
        /\ \A j \in Captures : j # k => plans'[j] = plans[j]
    BY <1>1, <1>2, <1>3, RowReplaced DEF Types, RowsOK
  <2>3. /\ quotes' \in [Captures -> Optional(QuoteRows)] /\ quotes'[k] = quote
        /\ \A j \in Captures : j # k => quotes'[j] = quotes[j]
    BY <1>1, <1>2, <1>3, RowReplaced DEF Types, RowsOK
  <2>4. /\ intents' \in [Captures -> Optional(IntentRows)] /\ intents'[k] = intent
        /\ \A j \in Captures : j # k => intents'[j] = intents[j]
    BY <1>1, <1>2, <1>3, RowReplaced DEF Types, RowsOK
  <2>5. ASSUME NEW j \in Captures
        PROVE  /\ captures'[j] # Null => ClaimOK(captures'[j])
               /\ captures'[j] = Null \/ captures'[j].status # "draft" =>
                    plans'[j] = Null /\ quotes'[j] = Null /\ intents'[j] = Null
    <3>1. CASE j = k
      BY <1>3, <1>4, <2>1, <2>2, <2>3, <2>4, <3>1
    <3>2. CASE j # k
      <4>1. /\ captures'[j] = captures[j] /\ plans'[j] = plans[j]
            /\ quotes'[j] = quotes[j] /\ intents'[j] = intents[j]
        BY <2>1, <2>2, <2>3, <2>4, <3>2
      <4>2. captures[j] # Null => ClaimOK(captures[j])
        BY RowKnown
      <4>3. captures[j] = Null \/ captures[j].status # "draft" =>
              plans[j] = Null /\ quotes[j] = Null /\ intents[j] = Null
        BY RowsBeside
      <4> QED BY <4>1, <4>2, <4>3
    <3> QED BY <3>1, <3>2
  <2> QED BY <2>1, <2>2, <2>3, <2>4, <2>5 DEF RowsOK, ClaimOK
<1>6. TakenOK'
  <2>1. CASE command.kind = "confirm"
    <3>1. Confirms(call, more) /\ Current(captures[k], command)
      BY <1>1, <2>1 DEF Leaves, k
    <3> DEFINE frozen == Frozen(k, command, call.order)
    <3>2. frozen \in OrderRows
      BY <1>2, <3>1, FrozenKnown DEF Confirms, Current
    <3>3. taken' = Put(taken, command.order, frozen)
      BY <1>1, <3>1 DEF Confirms, k
    <3> HIDE DEF frozen
    <3>4. /\ DOMAIN taken' = DOMAIN taken \union {command.order}
          /\ taken'[command.order] = frozen
          /\ \A o \in DOMAIN taken : o # command.order => taken'[o] = taken[o]
      BY <3>3 DEF Put
    <3> QED BY <3>2, <3>4 DEF Types, TakenOK
  <2>2. CASE command.kind # "confirm"
    <3>1. taken' = taken
      BY <1>1, <2>2 DEF Leaves
    <3> QED BY <3>1 DEF Types, TakenOK
  <2> QED BY <2>1, <2>2
<1>7. Known' \subseteq Known \union {command}
  <2> DEFINE entry == [command |-> command, version |-> command.version + 1,
                       plan |-> IF command.kind \in {"select", "repeat"}
                                THEN call.plan ELSE Null]
  <2>1. entry.command = command
    OBVIOUS
  <2>2. journal' = Put(journal, command.key, entry)
    BY <1>1
  <2> HIDE DEF entry
  <2>3. /\ DOMAIN journal' = DOMAIN journal \union {command.key}
        /\ journal'[command.key] = entry
        /\ \A x \in DOMAIN journal : x # command.key => journal'[x] = journal[x]
    BY <2>2 DEF Put
  <2>4. Known' = {journal'[key].command : key \in DOMAIN journal'}
    BY DEF Known
  <2>5. ASSUME NEW key \in DOMAIN journal'
        PROVE  journal'[key].command \in Known \union {command}
    BY <2>1, <2>3 DEF Known
  <2> QED BY <2>4, <2>5
<1> QED BY <1>1, <1>5, <1>6, <1>7 DEF Types

LEMMA QuietKeepsRows ==
  ASSUME Types, Quiet \/ Published
  PROVE  RowsOK' /\ TakenOK' /\ (head \in 1 .. MaxCatalog)' /\ Known' = Known
<1>1. /\ captures' = captures /\ plans' = plans /\ quotes' = quotes
      /\ intents' = intents /\ taken' = taken /\ journal' = journal
      /\ head' \in 1 .. MaxCatalog
  BY DEF Quiet, Published, draftTables, Types
<1>2. RowsOK'
  BY <1>1 DEF Types, RowsOK
<1>3. TakenOK'
  BY <1>1 DEF Types, TakenOK
<1>4. Known' = Known
  BY <1>1 DEF Known
<1> QED BY <1>1, <1>2, <1>3, <1>4

LEMMA ClockKeepsRows ==
  ASSUME Types, NEW k \in Captures, Flagged(k) \/ QuoteEnds(k)
  PROVE  RowsOK' /\ TakenOK' /\ (head \in 1 .. MaxCatalog)' /\ Known' = Known
<1>1. /\ plans' = plans /\ intents' = intents /\ taken' = taken
      /\ journal' = journal /\ head' = head
  BY DEF Flagged, QuoteEnds
<1>2. TakenOK' /\ Known' = Known /\ (head \in 1 .. MaxCatalog)'
  BY <1>1 DEF Types, TakenOK, Known
<1>3. CASE Flagged(k)
  <2>1. PICK live, recoverable \in BOOLEAN :
          /\ captures[k] # Null /\ (live => captures[k].lease # Null)
          /\ captures' = [captures EXCEPT ![k] =
               [captures[k] EXCEPT !.live = live, !.recoverable = recoverable]]
          /\ quotes' = quotes
    BY <1>3 DEF Flagged
  <2> DEFINE new == [captures[k] EXCEPT !.live = live, !.recoverable = recoverable]
  <2>2. captures[k] \in CaptureRows /\ ClaimOK(captures[k])
    BY <2>1, RowKnown
  <2>3. /\ new \in CaptureRows /\ new.status = captures[k].status
        /\ ClaimOK(new)
    BY <2>1, <2>2 DEF CaptureRows, ClaimOK
  <2>4. captures' = [captures EXCEPT ![k] = new]
    BY <2>1
  <2> HIDE DEF new
  <2>5. /\ captures' \in [Captures -> Optional(CaptureRows)] /\ captures'[k] = new
        /\ \A j \in Captures : j # k => captures'[j] = captures[j]
    BY <2>3, <2>4, RowReplaced DEF Types, RowsOK, Optional
  <2>6. ASSUME NEW j \in Captures
        PROVE  /\ captures'[j] # Null => ClaimOK(captures'[j])
               /\ captures'[j] = Null \/ captures'[j].status # "draft" =>
                    plans'[j] = Null /\ quotes'[j] = Null /\ intents'[j] = Null
    <3>1. captures[j] # Null => ClaimOK(captures[j])
      BY RowKnown
    <3>2. captures[j] = Null \/ captures[j].status # "draft" =>
            plans[j] = Null /\ quotes[j] = Null /\ intents[j] = Null
      BY RowsBeside
    <3>3. new # Null
      BY <2>3, RowsAreThere
    <3> QED BY <1>1, <2>1, <2>3, <2>5, <3>1, <3>2, <3>3
  <2>7. RowsOK'
    BY <1>1, <2>1, <2>5, <2>6 DEF Types, RowsOK, ClaimOK
  <2> QED BY <1>2, <2>7
<1>4. CASE QuoteEnds(k)
  <2> DEFINE new == [quotes[k] EXCEPT !.live = FALSE]
  <2>1. /\ quotes[k] # Null /\ captures' = captures
        /\ quotes' = [quotes EXCEPT ![k] = new]
    BY <1>4 DEF QuoteEnds
  <2>2. quotes[k] \in QuoteRows
    BY <2>1, RowsBeside DEF Optional
  <2>3. new \in QuoteRows
    BY <2>2 DEF QuoteRows
  <2> HIDE DEF new
  <2>5. /\ quotes' \in [Captures -> Optional(QuoteRows)] /\ quotes'[k] = new
        /\ \A j \in Captures : j # k => quotes'[j] = quotes[j]
    BY <2>1, <2>3, RowReplaced DEF Types, RowsOK, Optional
  <2>6. RowsOK'
    BY <1>1, <2>1, <2>5 DEF Types, RowsOK, ClaimOK
  <2> QED BY <1>2, <2>6
<1> QED BY <1>3, <1>4

\* What is being served, when one request begins, goes on or ends.
LEMMA CallsKept ==
  ASSUME Types, NEW c \in Callers, NEW call,
         calls' = [calls EXCEPT ![c] = call],
         call # Null => CallTyped(call)
  PROVE  CallsOK' /\ \A command \in Sent' : command \in Sent \/
                       (call # Null /\ command = call.command)
<1>1. /\ DOMAIN calls' = Callers /\ calls'[c] = call
      /\ \A d \in Callers : d # c => calls'[d] = calls[d]
  BY DEF Types, CallsOK
<1>2. \A d \in Callers : calls'[d] # Null => CallTyped(calls'[d])
  BY <1>1 DEF Types, CallsOK
<1>3. CallsOK'
  BY <1>1, <1>2 DEF CallsOK, CallTyped, CommandOK, PlannedFor
<1>4. ASSUME NEW d \in Callers, calls'[d] # Null
      PROVE  calls'[d].command \in Sent
             \/ (call # Null /\ calls'[d].command = call.command)
  BY <1>1, <1>4 DEF Sent
<1>5. Sent' = {calls'[d].command : d \in {e \in Callers : calls'[e] # Null}}
  BY DEF Sent
<1> QED BY <1>3, <1>4, <1>5

\* What was heard stays sound when only commands that are sound are added.
LEMMA HeardKept ==
  ASSUME Types,
         \A command \in Sent' \union Known' :
           command \in Heard \/ CommandOK(command)
  PROVE  HeardOK'
<1>1. \A command \in Heard : CommandOK(command)
  BY DEF Types, HeardOK
<1>2. \A command \in Heard' : CommandOK(command)
  BY <1>1 DEF Heard
<1> QED BY <1>2 DEF HeardOK, CommandOK

\* Whatever request is served.
LEMMA ServedKeepsTypes ==
  ASSUME Types, NEW c \in Callers, calls[c] # Null, Served(c)
  PROVE  Types'
<1>1. PICK call : /\ calls' = [calls EXCEPT ![c] = call]
                  /\ call # Null => /\ CallTyped(call)
                                    /\ call.command = calls[c].command
  BY DEF Served, CallGoesOn
<1>2. /\ CallTyped(calls[c]) /\ CommandOK(calls[c].command)
      /\ calls[c].command \in Heard /\ calls[c].command.capture \in Captures
  BY CallKnown
<1>3. /\ RowsOK' /\ TakenOK' /\ (head \in 1 .. MaxCatalog)'
      /\ Known' \subseteq Known \union {calls[c].command}
  BY <1>2, QuietKeepsRows, ClockKeepsRows, WritesKeepRows
  DEF Served, Renewed
<1>4. /\ CallsOK'
      /\ \A command \in Sent' : command \in Sent
                                \/ (call # Null /\ command = call.command)
  BY <1>1, CallsKept
<1>5. \A command \in Sent' \union Known' : command \in Heard \/ CommandOK(command)
  BY <1>1, <1>2, <1>3, <1>4 DEF Heard
<1>6. HeardOK'
  BY <1>5, HeardKept
<1> QED BY <1>3, <1>4, <1>6 DEF Types

\* A request that begins.
LEMMA BegunKeepsTypes ==
  ASSUME Types, NEW c \in Callers, Begun(c)
  PROVE  Types'
<1>1. PICK command : /\ CommandOK(command) /\ Quiet
                     /\ calls' = [calls EXCEPT ![c] = NewCall(command)]
  BY DEF Begun
<1> DEFINE call == NewCall(command)
<1>2. CallTyped(call) /\ call.command = command
  BY <1>1 DEF NewCall, CallTyped, CallFields, Stages
<1>3. calls' = [calls EXCEPT ![c] = call]
  BY <1>1
<1> HIDE DEF call
<1>4. /\ RowsOK' /\ TakenOK' /\ (head \in 1 .. MaxCatalog)' /\ Known' = Known
  BY <1>1, QuietKeepsRows
<1>5. /\ CallsOK'
      /\ \A x \in Sent' : x \in Sent \/ (call # Null /\ x = call.command)
  BY <1>2, <1>3, CallsKept
<1>6. \A x \in Sent' \union Known' : x \in Heard \/ CommandOK(x)
  BY <1>1, <1>2, <1>4, <1>5 DEF Heard
<1>7. HeardOK'
  BY <1>6, HeardKept
<1> QED BY <1>4, <1>5, <1>7 DEF Types

\* A step of the clock or of the menu.
LEMMA TimeKeepsTypes ==
  ASSUME Types, UNCHANGED calls,
         Quiet \/ Published \/ \E k \in Captures : Lapsed(k) \/ QuoteEnds(k)
  PROVE  Types'
<1>1. /\ RowsOK' /\ TakenOK' /\ (head \in 1 .. MaxCatalog)' /\ Known' = Known
  BY QuietKeepsRows, ClockKeepsRows DEF Lapsed
<1>2. Sent' = Sent
  BY DEF Sent
<1>3. CallsOK'
  BY DEF Types, CallsOK, CallTyped, CommandOK, PlannedFor
<1>4. \A x \in Sent' \union Known' : x \in Heard \/ CommandOK(x)
  BY <1>1, <1>2 DEF Heard
<1>5. HeardOK'
  BY <1>4, HeardKept
<1> QED BY <1>1, <1>3, <1>5 DEF Types

LEMMA TypesStep ==
  ASSUME Types, [Next]_vars
  PROVE  Types'
BY StepsMove, ServedKeepsTypes, BegunKeepsTypes, TimeKeepsTypes DEF Moves

LEMMA TypesInit ==
  ASSUME Init
  PROVE  Types
<1>1. RowsOK
  BY DEF Init, RowsOK, Optional
<1>2. TakenOK
  BY DEF Init, TakenOK
<1>3. CallsOK
  BY DEF Init, CallsOK
<1>4. Sent = {} /\ Known = {}
  BY DEF Init, Sent, Known
<1>5. HeardOK
  BY <1>4 DEF HeardOK, Heard
<1>6. head \in 1 .. MaxCatalog
  BY CaptureAssumption DEF Init
<1> QED BY <1>1, <1>2, <1>3, <1>5, <1>6 DEF Types

LEMMA TypesAlways == Spec => []Types
BY TypesInit, TypesStep, PTL DEF Spec

\* The tables hold rows of their types however requests and clock interleave:
\* a capture has an owner and a lease exactly while it is claimed, nothing is
\* kept beside a capture that is no draft.
THEOREM CapturesKeepTheirTypes == Spec => []CaptureTypeOK
<1>1. ASSUME Types PROVE CaptureTypeOK
  <2>1. ASSUME NEW k \in Captures
        PROVE  /\ plans[k] = Null \/ plans[k] \in PlanRows
               /\ quotes[k] = Null \/ quotes[k] \in QuoteRows
               /\ intents[k] = Null \/ intents[k] \in IntentRows
               /\ captures[k] = Null \/
                    /\ captures[k] \in CaptureRows
                    /\ captures[k].attention = "claimed" <=> captures[k].owner # Null
                    /\ captures[k].attention = "claimed" <=> captures[k].lease # Null
                    /\ captures[k].party = Null => captures[k].address = Null
               /\ captures[k] = Null \/ captures[k].status # "draft" =>
                    plans[k] = Null /\ quotes[k] = Null /\ intents[k] = Null
    BY <1>1, RowsBeside, RowKnown DEF Optional, ClaimOK
  <2>2. ASSUME NEW c \in Callers, calls[c] # Null
        PROVE  CallOK(calls[c])
    BY <1>1, <2>2, CallKnown DEF CallTyped, CommandOK, CallOK
  <2> QED BY <1>1, <2>1, <2>2 DEF CaptureTypeOK, Types, TakenOK
<1> QED BY <1>1, TypesAlways, PTL

-----------------------------------------------------------------------------
(***************************************************************************)
(* Every version has one command behind it.                                *)
(***************************************************************************)

\* The version a capture is at.
Latest(k) == IF captures[k] = Null THEN 0 ELSE captures[k].version

\* What an entry of the journal keeps of its command.
EntryOK(key, entry) ==
  /\ entry.command.key = key /\ entry.version = entry.command.version + 1
  /\ entry.command.kind # "renew"
  /\ IF entry.command.kind \in {"select", "repeat"}
     THEN PlannedFor(entry.command, entry.plan) ELSE entry.plan = Null

\* One command for every version, in a history of as many.
HistoryOK(k) ==
  /\ IsFiniteSet(History(k)) /\ Cardinality(History(k)) = Latest(k)
  /\ \A key \in History(k) : journal[key].version \in 1 .. Latest(k)
  /\ \A v \in 1 .. Latest(k) : \E key \in History(k) : journal[key].version = v
  /\ \A one, other \in History(k) :
       journal[one].version = journal[other].version => one = other

VersionsOK ==
  /\ \A key \in DOMAIN journal : EntryOK(key, journal[key])
  /\ \A k \in Captures : HistoryOK(k)

LEMMA LatestKnown ==
  ASSUME Types, NEW k \in Captures
  PROVE  Latest(k) \in Nat /\ (captures[k] # Null => Latest(k) \in Versions)
BY RowKnown DEF Latest, CaptureRows, Versions

\* The entry of a version is the one its writer is read from.
LEMMA WriterKnown ==
  ASSUME VersionsOK, NEW k \in Captures, NEW key \in History(k)
  PROVE  Writer(k, journal[key].version) = journal[key].command
<1> DEFINE chosen == CHOOSE x \in History(k) :
                       journal[x].version = journal[key].version
<1>1. chosen \in History(k) /\ journal[chosen].version = journal[key].version
  OBVIOUS
<1> HIDE DEF chosen
<1>2. chosen = key
  BY <1>1 DEF VersionsOK, HistoryOK
<1> QED BY <1>2 DEF Writer, chosen

\* Who wrote a version.
LEMMA VersionWritten ==
  ASSUME Types, VersionsOK, NEW k \in Captures, NEW v \in 1 .. Latest(k)
  PROVE  \E key \in History(k) :
           /\ journal[key].version = v /\ Writer(k, v) = journal[key].command
           /\ CommandOK(Writer(k, v)) /\ Writer(k, v).version + 1 = v
           /\ Writer(k, v).capture = k /\ Writer(k, v).kind # "renew"
           /\ Writer(k, v).key = key
<1>1. PICK key \in History(k) : journal[key].version = v
  BY DEF VersionsOK, HistoryOK
<1>2. Writer(k, v) = journal[key].command
  BY <1>1, WriterKnown
<1>3. key \in DOMAIN journal /\ journal[key].command.capture = k
  BY DEF History
<1>4. CommandOK(journal[key].command)
  BY <1>3 DEF Types, HeardOK, Heard, Known
<1>5. EntryOK(key, journal[key])
  BY <1>3 DEF VersionsOK
<1> QED BY <1>1, <1>2, <1>3, <1>4, <1>5 DEF EntryOK

\* What the journal and the captures are after a write.
Recorded(command) ==
  LET k == command.capture
  IN /\ k \in Captures
     /\ Latest(k) = command.version /\ Latest(k)' = command.version + 1
     /\ \A j \in Captures : j # k => Latest(j)' = Latest(j)
     /\ \A j \in Captures : \A v \in 1 .. Latest(j) : Writer(j, v)' = Writer(j, v)
     /\ Writer(k, command.version + 1)' = command

\* A write records itself, and leaves the earlier versions as they were.
LEMMA WritesRecord ==
  ASSUME Types, VersionsOK, NEW call, CallTyped(call), call.stage \in Stages,
         Writes(call),
         call.command.kind \in {"select", "repeat"} =>
           PlannedFor(call.command, call.plan)
  PROVE  VersionsOK' /\ Recorded(call.command)
<1> DEFINE command == call.command
           k == command.capture
           version == command.version + 1
           entry == [command |-> command, version |-> version,
                     plan |-> IF command.kind \in {"select", "repeat"}
                              THEN call.plan ELSE Null]
<1>1. PICK new, plan, quote, intent, more :
        /\ Leaves(call, new, plan, quote, intent, more)
        /\ captures' = [captures EXCEPT ![k] = new]
        /\ journal' = Put(journal, command.key, entry)
        /\ ~Journaled(command) /\ command.kind # "renew"
  BY DEF Writes
<1>2. k \in Captures /\ CommandOK(command) /\ command.version \in Nat
  BY DEF CallTyped, CommandOK
<1>3. /\ new \in CaptureRows /\ new.version = version
      /\ IF command.kind = "create" THEN captures[k] = Null
         ELSE Current(captures[k], command)
  BY <1>1 DEF Leaves
<1>4. Latest(k) = command.version
  BY <1>2, <1>3 DEF Latest, Current, CommandOK
<1>5. entry.command = command /\ entry.version = version
      /\ EntryOK(command.key, entry)
  BY <1>1 DEF EntryOK
<1> HIDE DEF entry, k
<1>6. new # Null
  BY <1>3, RowsAreThere
<1>7. /\ captures'[k] = new
      /\ \A j \in Captures : j # k => captures'[j] = captures[j]
  BY <1>1, <1>2 DEF Types, RowsOK
<1>8. Latest(k)' = version /\ \A j \in Captures : j # k => Latest(j)' = Latest(j)
  BY <1>3, <1>6, <1>7, <1>2 DEF Latest
<1>9. /\ DOMAIN journal' = DOMAIN journal \union {command.key}
      /\ journal'[command.key] = entry /\ command.key \notin DOMAIN journal
      /\ \A x \in DOMAIN journal : journal'[x] = journal[x]
  BY <1>1 DEF Put, Journaled
<1>10. History(k)' = History(k) \union {command.key}
  BY <1>5, <1>9 DEF History, k
<1>11. ASSUME NEW j \in Captures, j # k PROVE History(j)' = History(j)
  BY <1>5, <1>9, <1>11 DEF History, k
<1>12. \A j \in Captures : \A x \in History(j) :
         x \in DOMAIN journal /\ journal'[x] = journal[x] /\ x # command.key
  BY <1>9 DEF History
<1>13. HistoryOK(k)'
  <2>1. HistoryOK(k)
    BY <1>2 DEF VersionsOK
  <2>2. IsFiniteSet(History(k)') /\ Cardinality(History(k)') = version
    <3>1. IsFiniteSet(History(k)) /\ Cardinality(History(k)) = command.version
      BY <1>4, <2>1 DEF HistoryOK
    <3>2. command.key \notin History(k)
      BY <1>2, <1>12
    <3> DEFINE grown == History(k) \union {command.key}
    <3>3. IsFiniteSet(grown) /\ Cardinality(grown) = Cardinality(History(k)) + 1
      BY <3>1, <3>2, FS_AddElement
    <3> QED BY <1>10, <3>1, <3>3
  <2>3. \A key \in History(k)' : journal'[key].version \in 1 .. version
    BY <1>2, <1>4, <1>5, <1>9, <1>10, <1>12, <2>1 DEF HistoryOK
  <2>4. ASSUME NEW v \in 1 .. version
        PROVE  \E key \in History(k)' : journal'[key].version = v
    <3>1. CASE v = version
      BY <1>5, <1>9, <1>10, <3>1
    <3>2. CASE v # version
      <4>1. v \in 1 .. Latest(k)
        BY <1>2, <1>4, <3>2
      <4>2. PICK key \in History(k) : journal[key].version = v
        BY <2>1, <4>1 DEF HistoryOK
      <4> QED BY <1>2, <1>10, <1>12, <4>2
    <3> QED BY <3>1, <3>2
  <2>5. ASSUME NEW one \in History(k)', NEW other \in History(k)',
               journal'[one].version = journal'[other].version
        PROVE  one = other
    <3>1. \A key \in History(k) : journal'[key].version \in 1 .. command.version
      BY <1>2, <1>4, <1>12, <2>1 DEF HistoryOK
    <3>2. version \notin 1 .. command.version
      BY <1>2
    <3>3. CASE one \in History(k) /\ other \in History(k)
      BY <1>2, <1>12, <2>1, <2>5, <3>3 DEF HistoryOK
    <3> QED BY <1>5, <1>9, <1>10, <2>5, <3>1, <3>2, <3>3
  <2> QED BY <1>8, <2>2, <2>3, <2>4, <2>5 DEF HistoryOK
<1>14. ASSUME NEW j \in Captures, j # k PROVE HistoryOK(j)'
  <2>1. HistoryOK(j) /\ Latest(j)' = Latest(j) /\ History(j)' = History(j)
    BY <1>8, <1>11, <1>14 DEF VersionsOK
  <2>2. \A x \in History(j) : journal'[x] = journal[x]
    BY <1>12
  <2> QED BY <2>1, <2>2 DEF HistoryOK
<1>15. \A key \in DOMAIN journal' : EntryOK(key, journal'[key])
  BY <1>5, <1>9 DEF VersionsOK
<1>16. VersionsOK'
  BY <1>13, <1>14, <1>15 DEF VersionsOK, EntryOK, PlannedFor
<1>17. ASSUME NEW j \in Captures, NEW v \in 1 .. Latest(j)
       PROVE  Writer(j, v)' = Writer(j, v)
  <2>1. PICK key \in History(j) :
          journal[key].version = v /\ Writer(j, v) = journal[key].command
    BY VersionWritten
  <2>2. key \in History(j)' /\ journal'[key] = journal[key]
    BY <1>10, <1>11, <1>12
  <2>3. Writer(j, v)' = journal'[key].command
    <3> DEFINE chosen == CHOOSE x \in History(j)' : journal'[x].version = v
    <3>1. chosen \in History(j)' /\ journal'[chosen].version = v
      BY <2>1, <2>2
    <3> HIDE DEF chosen
    <3>2. chosen = key
      BY <1>16, <2>1, <2>2, <3>1 DEF VersionsOK, HistoryOK
    <3> QED BY <3>2 DEF Writer, chosen
  <2> QED BY <2>1, <2>2, <2>3
<1>18. Writer(k, version)' = command
  <2> DEFINE chosen == CHOOSE x \in History(k)' : journal'[x].version = version
  <2>1. command.key \in History(k)' /\ journal'[command.key].version = version
    BY <1>5, <1>9, <1>10
  <2>2. chosen \in History(k)' /\ journal'[chosen].version = version
    BY <2>1
  <2> HIDE DEF chosen
  <2>3. chosen = command.key
    BY <1>2, <1>16, <2>1, <2>2 DEF VersionsOK, HistoryOK
  <2> QED BY <1>5, <1>9, <2>3 DEF Writer, chosen
<1> QED BY <1>2, <1>4, <1>8, <1>16, <1>17, <1>18 DEF Recorded, k

\* A row or a quote that is the same but for what the clock changes.
SameRow(old, new) ==
  /\ old = Null <=> new = Null
  /\ old # Null =>
       /\ new.status = old.status /\ new.version = old.version
       /\ new.attention = old.attention /\ new.owner = old.owner
       /\ new.lease = old.lease /\ new.channel = old.channel
       /\ new.address = old.address

SameQuote(old, new) ==
  /\ old = Null <=> new = Null
  /\ old # Null => /\ new.id = old.id /\ new.fee = old.fee
                   /\ new.applied = old.applied

\* What every step leaves that writes no version.
Untouched ==
  /\ UNCHANGED <<plans, intents, taken, journal>> /\ head <= head'
  /\ \A k \in Captures : /\ SameRow(captures[k], captures'[k])
                         /\ SameQuote(quotes[k], quotes'[k])
                         /\ Latest(k)' = Latest(k)
                         /\ \A v : Writer(k, v)' = Writer(k, v)

\* What is served writes a version, or leaves the tables untouched.
Wrote(call) == CallTyped(call) /\ Writes(call) /\ Recorded(call.command)

\* A call that is being served writes a version.
Written ==
  \E c \in Callers : \E call : call = calls[c] /\ call # Null /\ Wrote(call)

LEMMA QuietTouchesNothing ==
  ASSUME Types, Quiet \/ Published
  PROVE  Untouched
<1>1. /\ captures' = captures /\ plans' = plans /\ quotes' = quotes
      /\ intents' = intents /\ taken' = taken /\ journal' = journal
      /\ head <= head'
  BY DEF Quiet, Published, draftTables, Types
<1> QED BY <1>1 DEF Untouched, SameRow, SameQuote, Latest, Writer, History

LEMMA ClockTouchesNothing ==
  ASSUME Types, NEW k \in Captures, Flagged(k) \/ QuoteEnds(k)
  PROVE  Untouched
<1>1. /\ plans' = plans /\ intents' = intents /\ taken' = taken
      /\ journal' = journal /\ head' = head
  BY DEF Flagged, QuoteEnds
<1>0. head <= head'
  BY <1>1, HeadKnown DEF Versions
<1>2. ASSUME NEW j \in Captures PROVE \A v : Writer(j, v)' = Writer(j, v)
  BY <1>1 DEF Writer, History
<1>3. CASE Flagged(k)
  <2>1. PICK live, recoverable \in BOOLEAN :
          /\ captures[k] # Null
          /\ captures' = [captures EXCEPT ![k] =
               [captures[k] EXCEPT !.live = live, !.recoverable = recoverable]]
          /\ quotes' = quotes
    BY <1>3 DEF Flagged
  <2> DEFINE new == [captures[k] EXCEPT !.live = live, !.recoverable = recoverable]
  <2>2. captures[k] \in CaptureRows
    BY <2>1, RowKnown
  <2>3. new \in CaptureRows
    BY <2>2 DEF CaptureRows
  <2>4. /\ new.status = captures[k].status /\ new.version = captures[k].version
        /\ new.attention = captures[k].attention
        /\ new.owner = captures[k].owner /\ new.lease = captures[k].lease
        /\ new.channel = captures[k].channel /\ new.address = captures[k].address
    BY <2>2 DEF CaptureRows
  <2>5. captures' = [captures EXCEPT ![k] = new]
    BY <2>1
  <2> HIDE DEF new
  <2>6. /\ captures'[k] = new /\ new # Null
        /\ \A j \in Captures : j # k => captures'[j] = captures[j]
    BY <2>3, <2>5, RowsAreThere DEF Types, RowsOK
  <2>7. ASSUME NEW j \in Captures
        PROVE  /\ SameRow(captures[j], captures'[j])
               /\ SameQuote(quotes[j], quotes'[j]) /\ Latest(j)' = Latest(j)
    <3>1. SameRow(captures[j], captures'[j]) /\ SameQuote(quotes[j], quotes'[j])
      BY <2>1, <2>4, <2>6 DEF SameRow, SameQuote
    <3> QED BY <3>1 DEF SameRow, Latest
  <2> QED BY <1>0, <1>1, <1>2, <2>7 DEF Untouched
<1>4. CASE QuoteEnds(k)
  <2> DEFINE new == [quotes[k] EXCEPT !.live = FALSE]
  <2>1. /\ quotes[k] # Null /\ captures' = captures
        /\ quotes' = [quotes EXCEPT ![k] = new]
    BY <1>4 DEF QuoteEnds
  <2>2. quotes[k] \in QuoteRows
    BY <2>1, RowsBeside DEF Optional
  <2>3. /\ new \in QuoteRows /\ new.id = quotes[k].id /\ new.fee = quotes[k].fee
        /\ new.applied = quotes[k].applied
    BY <2>2 DEF QuoteRows
  <2> HIDE DEF new
  <2>4. /\ quotes'[k] = new /\ new # Null
        /\ \A j \in Captures : j # k => quotes'[j] = quotes[j]
    BY <2>1, <2>3, RowsAreThere DEF Types, RowsOK
  <2>7. ASSUME NEW j \in Captures
        PROVE  /\ SameRow(captures[j], captures'[j])
               /\ SameQuote(quotes[j], quotes'[j]) /\ Latest(j)' = Latest(j)
    BY <2>1, <2>3, <2>4 DEF SameRow, SameQuote, Latest
  <2> QED BY <1>0, <1>1, <1>2, <2>7 DEF Untouched
<1> QED BY <1>3, <1>4

LEMMA UntouchedKeepsVersions ==
  ASSUME Types, VersionsOK, Untouched
  PROVE  VersionsOK'
<1>1. journal' = journal
  BY DEF Untouched
<1>2. ASSUME NEW k \in Captures PROVE HistoryOK(k)'
  <2>1. HistoryOK(k) /\ Latest(k)' = Latest(k) /\ History(k)' = History(k)
    BY <1>1 DEF VersionsOK, Untouched, History
  <2> QED BY <1>1, <2>1 DEF HistoryOK
<1> QED BY <1>1, <1>2 DEF VersionsOK, EntryOK, PlannedFor

\* Every step writes one version or none.
LEMMA StepsWrite ==
  ASSUME Types, VersionsOK, [Next]_vars
  PROVE  VersionsOK' /\ (Untouched \/ Written)
<1>1. Moves
  BY StepsMove
<1>2. ASSUME NEW c \in Callers, calls[c] # Null, Writes(calls[c])
      PROVE  VersionsOK' /\ Written
  <2>0. PICK call : call = calls[c]
    OBVIOUS
  <2>1. CallTyped(call) /\ Writes(call)
    BY <1>2, <2>0, CallKnown
  <2>2. call.stage \in Stages
    BY <2>1 DEF CallTyped
  <2>3. call.command.kind \in {"select", "repeat"} =>
          PlannedFor(call.command, call.plan)
    BY <2>1 DEF Writes, Leaves, PlanMoves
  <2>4. VersionsOK' /\ Recorded(call.command)
    BY <2>1, <2>2, <2>3, WritesRecord
  <2> QED BY <1>2, <2>0, <2>1, <2>4 DEF Wrote, Written
<1>3. ASSUME NEW c \in Callers, calls[c] # Null,
             Quiet \/ Renewed(c)
      PROVE  Untouched
  BY <1>3, QuietTouchesNothing, ClockTouchesNothing, CallKnown DEF Renewed
<1>4. CASE Untouched
  BY <1>4, UntouchedKeepsVersions
<1>5. CASE \E c \in Callers : calls[c] # Null /\ Served(c)
  BY <1>2, <1>3, <1>4, <1>5 DEF Served
<1>6. CASE \/ \E c \in Callers : Begun(c)
           \/ /\ UNCHANGED calls
              /\ Quiet \/ Published \/ \E k \in Captures : Lapsed(k) \/ QuoteEnds(k)
  BY <1>4, <1>6, QuietTouchesNothing, ClockTouchesNothing DEF Begun, Lapsed
<1> QED BY <1>1, <1>5, <1>6 DEF Moves

LEMMA VersionsInit ==
  ASSUME Init
  PROVE  VersionsOK
<1>1. journal = <<>> /\ DOMAIN journal = {}
  BY DEF Init
<1>2. ASSUME NEW k \in Captures PROVE HistoryOK(k)
  <2>1. History(k) = {} /\ Latest(k) = 0
    BY <1>1 DEF History, Latest, Init
  <2> QED BY <2>1, FS_EmptySet DEF HistoryOK
<1> QED BY <1>1, <1>2 DEF VersionsOK

\* Behind every version of a capture there is one journaled command.
LEMMA VersionsAlways == Spec => [](Types /\ VersionsOK)
<1>1. Init => Types /\ VersionsOK
  BY TypesInit, VersionsInit
<1>2. Types /\ VersionsOK /\ [Next]_vars => (Types /\ VersionsOK)'
  BY TypesStep, StepsWrite
<1> QED BY <1>1, <1>2, PTL DEF Spec

-----------------------------------------------------------------------------
(***************************************************************************)
(* Only the holder writes.                                                 *)
(***************************************************************************)

\* The version that gave a capture to who has it: nothing written since gave
\* it to somebody else or let it go.
ClaimTraced(k) ==
  captures[k] # Null /\ captures[k].attention = "claimed" =>
    LET lease == captures[k].lease
    IN /\ lease \in 1 .. Latest(k) /\ Writer(k, lease).kind \in Granting
       /\ captures[k].owner = Granted(Writer(k, lease))
       /\ \A v \in lease + 1 .. Latest(k) :
            Writer(k, v).kind \notin Granting \union Leaving

\* The version was written by who had been given the capture.
EntitledWrite(k, v) ==
  LET command == Writer(k, v)
      earlier == {u \in 1 .. v - 1 : Writer(k, u).kind \in Granting}
      granted == Max(earlier)
  IN command.kind \notin Granting \ {"transfer"} =>
       /\ granted \in earlier /\ command.lease = granted
       /\ command.member = Granted(Writer(k, granted))
       /\ \A u \in granted + 1 .. v - 1 : Writer(k, u).kind # "hold"

HoldersOK ==
  \A k \in Captures :
    ClaimTraced(k) /\ \A v \in 1 .. Latest(k) : EntitledWrite(k, v)

\* The last of the versions that gave the capture to somebody.
LEMMA LastGrant ==
  ASSUME Types, VersionsOK, NEW k \in Captures, ClaimTraced(k),
         captures[k] # Null, captures[k].attention = "claimed"
  PROVE  Max({u \in 1 .. Latest(k) : Writer(k, u).kind \in Granting})
           = captures[k].lease
<1> DEFINE lease == captures[k].lease
           S == {u \in 1 .. Latest(k) : Writer(k, u).kind \in Granting}
<1>1. Latest(k) \in Nat
  BY LatestKnown
<1>2. /\ lease \in S
      /\ \A v \in lease + 1 .. Latest(k) : v \notin S
  BY DEF ClaimTraced
<1>3. S \in SUBSET Nat /\ \A x \in S : x <= Latest(k)
  BY <1>1
<1>4. Max(S) \in S /\ \A x \in S : x <= Max(S)
  BY <1>1, <1>2, <1>3, GreatestOfMany
<1>5. lease \in Nat /\ Max(S) \in Nat /\ Max(S) <= Latest(k) /\ lease <= Max(S)
  BY <1>2, <1>3, <1>4
<1>6. ~(lease < Max(S))
  BY <1>1, <1>2, <1>4, <1>5
<1> QED BY <1>5, <1>6

\* What is known of a write of a version, whoever made it.
LEMMA WroteKnown ==
  ASSUME Types, NEW call, Wrote(call)
  PROVE  LET command == call.command
             k == command.capture
         IN /\ CommandOK(command) /\ k \in Captures /\ command.version \in Nat
            /\ Latest(k) = command.version /\ Latest(k)' = command.version + 1
            /\ command.kind # "renew" /\ captures'[k] # Null
            /\ captures'[k] \in CaptureRows /\ ClaimOK(captures'[k])
            /\ captures'[k].version = command.version + 1
            /\ IF command.kind = "create" THEN captures[k] = Null
               ELSE Current(captures[k], command)
            /\ ClaimMoves(command, captures[k], captures'[k])
            /\ \A j \in Captures : j # k =>
                 /\ captures'[j] = captures[j] /\ plans'[j] = plans[j]
                 /\ quotes'[j] = quotes[j] /\ intents'[j] = intents[j]
            /\ head' = head /\ Writer(k, command.version + 1)' = command
            /\ \A j \in Captures :
                 /\ j # k => Latest(j)' = Latest(j)
                 /\ \A v \in 1 .. Latest(j) : Writer(j, v)' = Writer(j, v)
<1> DEFINE command == call.command
           k == command.capture
<1>1. PICK new, plan, quote, intent, more :
        /\ Leaves(call, new, plan, quote, intent, more)
        /\ captures' = [captures EXCEPT ![k] = new]
        /\ plans' = [plans EXCEPT ![k] = plan]
        /\ quotes' = [quotes EXCEPT ![k] = quote]
        /\ intents' = [intents EXCEPT ![k] = intent]
        /\ head' = head /\ command.kind # "renew"
  BY DEF Wrote, Writes
<1>2. CommandOK(command) /\ k \in Captures /\ command.version \in Nat
  BY DEF Wrote, CallTyped, CommandOK
<1>3. /\ new \in CaptureRows /\ new.version = command.version + 1
      /\ IF command.kind = "create" THEN captures[k] = Null
         ELSE Current(captures[k], command)
      /\ ClaimMoves(command, captures[k], new) /\ ClaimOK(new)
  BY <1>1 DEF Leaves
<1>4. captures'[k] = new /\ new # Null
  BY <1>1, <1>2, <1>3, RowsAreThere DEF Types, RowsOK
<1>5. \A j \in Captures : j # k =>
        /\ captures'[j] = captures[j] /\ plans'[j] = plans[j]
        /\ quotes'[j] = quotes[j] /\ intents'[j] = intents[j]
  BY <1>1, <1>2 DEF Types, RowsOK
<1>6. /\ Latest(k) = command.version /\ Latest(k)' = command.version + 1
      /\ Writer(k, command.version + 1)' = command
      /\ \A j \in Captures :
           /\ j # k => Latest(j)' = Latest(j)
           /\ \A v \in 1 .. Latest(j) : Writer(j, v)' = Writer(j, v)
  BY DEF Wrote, Recorded
<1> QED BY <1>1, <1>2, <1>3, <1>4, <1>5, <1>6

\* An edit is made by who was given the capture last.
LEMMA EditEntitled ==
  ASSUME Types, VersionsOK, HoldersOK, NEW call, Wrote(call)
  PROVE  LET command == call.command
             k == command.capture
         IN EntitledWrite(k, command.version + 1)'
<1> DEFINE command == call.command
           k == command.capture
           v == command.version + 1
           earlier == {u \in 1 .. Latest(k) : Writer(k, u).kind \in Granting}
<1>1. /\ CommandOK(command) /\ k \in Captures /\ command.version \in Nat
      /\ Latest(k) = command.version
      /\ ClaimMoves(command, captures[k], captures'[k])
  BY WroteKnown
<1>2. /\ Writer(k, v)' = command
      /\ \A u \in 1 .. Latest(k) : Writer(k, u)' = Writer(k, u)
  BY <1>1, WroteKnown
<1>3. SUFFICES ASSUME command.kind \notin Granting \ {"transfer"}
               PROVE  EntitledWrite(k, v)'
  BY <1>2 DEF EntitledWrite
<1>4. command.kind \in EditKinds
  BY <1>1, <1>3 DEF CommandOK, AllKinds, EditKinds, TakingKinds, Granting
<1>5. Holds(captures[k], command) /\ captures[k] # Null
      /\ captures[k].attention = "claimed"
  BY <1>1, <1>4 DEF ClaimMoves, Holds, Current
<1>6. ClaimTraced(k)
  BY <1>1 DEF HoldersOK
<1>14. PICK lease : lease = captures[k].lease
  OBVIOUS
<1>7. Max(earlier) = lease
  BY <1>1, <1>5, <1>6, <1>14, LastGrant
<1>8. /\ lease \in 1 .. Latest(k) /\ lease \in earlier
      /\ captures[k].owner = Granted(Writer(k, lease))
      /\ \A u \in lease + 1 .. Latest(k) : Writer(k, u).kind # "hold"
  BY <1>5, <1>6, <1>14 DEF ClaimTraced, Leaving
<1>9. v - 1 = Latest(k) /\ Latest(k) \in Nat
  BY <1>1
<1>10. {u \in 1 .. v - 1 : Writer(k, u)'.kind \in Granting} = earlier
  BY <1>2, <1>9
<1>11. command.lease = lease /\ command.member = captures[k].owner
  BY <1>5, <1>14 DEF Holds
<1>12. \A u \in lease + 1 .. v - 1 : u \in 1 .. Latest(k)
  BY <1>8, <1>9
<1> HIDE DEF v, earlier, k, command
<1>13. /\ command.lease = lease
       /\ command.member = Granted(Writer(k, lease)')
       /\ \A u \in lease + 1 .. v - 1 : Writer(k, u)'.kind # "hold"
  BY <1>2, <1>8, <1>9, <1>11, <1>12
<1> QED BY <1>2, <1>7, <1>8, <1>10, <1>13 DEF EntitledWrite, Granted

\* A claim can be traced to the version that gave it.
LEMMA ClaimStaysTraced ==
  ASSUME Types, VersionsOK, HoldersOK, NEW call, Wrote(call)
  PROVE  ClaimTraced(call.command.capture)'
<1> DEFINE command == call.command
           k == command.capture
           v == command.version + 1
<1>0. PICK new : new = captures'[k]
  OBVIOUS
<1>1. /\ CommandOK(command) /\ k \in Captures /\ command.version \in Nat
      /\ Latest(k) = command.version /\ Latest(k)' = v
      /\ ClaimMoves(command, captures[k], new)
      /\ IF command.kind = "create" THEN captures[k] = Null
         ELSE Current(captures[k], command)
      /\ new # Null
  BY <1>0, WroteKnown
<1>2. /\ Writer(k, v)' = command
      /\ \A u \in 1 .. Latest(k) : Writer(k, u)' = Writer(k, u)
  BY <1>1, WroteKnown
<1>3. SUFFICES ASSUME new.attention = "claimed"
               PROVE  /\ new.lease \in 1 .. v
                      /\ Writer(k, new.lease)'.kind \in Granting
                      /\ new.owner = Granted(Writer(k, new.lease)')
                      /\ \A u \in new.lease + 1 .. v :
                           Writer(k, u)'.kind \notin Granting \union Leaving
  BY <1>0, <1>1 DEF ClaimTraced, Granted
<1>4. CASE command.kind \in Granting
  <2>1. new.lease = v /\ new.owner = Granted(command)
    BY <1>1, <1>4 DEF ClaimMoves
  <2>2. v \in 1 .. v /\ v + 1 .. v = {}
    BY <1>1
  <2> HIDE DEF v
  <2> QED BY <1>2, <1>4, <2>1, <2>2
<1>5. CASE command.kind \notin Granting
  <2>1. /\ command.kind \notin Leaving
        /\ new.attention = captures[k].attention
        /\ new.owner = captures[k].owner /\ new.lease = captures[k].lease
    BY <1>1, <1>3, <1>5 DEF ClaimMoves
  <2>2. command.kind # "create"
    BY <1>5 DEF Granting
  <2>3. captures[k] # Null
    BY <1>1, <2>2 DEF Current
  <2>4. /\ new.lease \in 1 .. Latest(k)
        /\ Writer(k, new.lease).kind \in Granting
        /\ new.owner = Granted(Writer(k, new.lease))
        /\ \A u \in new.lease + 1 .. Latest(k) :
             Writer(k, u).kind \notin Granting \union Leaving
    BY <1>1, <1>3, <2>1, <2>3 DEF HoldersOK, ClaimTraced
  <2>5. \A u \in new.lease + 1 .. v :
          u = v \/ (u \in new.lease + 1 .. Latest(k) /\ u \in 1 .. Latest(k))
    BY <1>1, <2>4
  <2>6. new.lease \in 1 .. v
    BY <1>1, <2>4
  <2> HIDE DEF v
  <2> QED BY <1>2, <1>5, <2>1, <2>4, <2>5, <2>6
<1> QED BY <1>4, <1>5

LEMMA HoldersStep ==
  ASSUME Types, VersionsOK, HoldersOK, [Next]_vars
  PROVE  HoldersOK'
<1>1. CASE Untouched
  <2>1. ASSUME NEW k \in Captures
        PROVE  ClaimTraced(k)' /\ \A v \in 1 .. Latest(k)' : EntitledWrite(k, v)'
    <3>1. /\ Latest(k)' = Latest(k) /\ \A v : Writer(k, v)' = Writer(k, v)
          /\ SameRow(captures[k], captures'[k])
      BY <1>1 DEF Untouched
    <3>2. ClaimTraced(k)'
      BY <3>1 DEF HoldersOK, ClaimTraced, SameRow, Granted
    <3>3. ASSUME NEW v \in 1 .. Latest(k) PROVE EntitledWrite(k, v)'
      <4>1. EntitledWrite(k, v)
        BY DEF HoldersOK
      <4>2. {u \in 1 .. v - 1 : Writer(k, u)'.kind \in Granting}
              = {u \in 1 .. v - 1 : Writer(k, u).kind \in Granting}
        BY <3>1
      <4> QED BY <3>1, <4>1, <4>2 DEF EntitledWrite, Granted
    <3> QED BY <3>1, <3>2, <3>3
  <2> QED BY <2>1 DEF HoldersOK
<1>2. ASSUME NEW call, Wrote(call) PROVE HoldersOK'
  <2> DEFINE command == call.command
             k == command.capture
  <2>1. /\ k \in Captures /\ command.version \in Nat
        /\ Latest(k) = command.version /\ Latest(k)' = command.version + 1
        /\ \A j \in Captures : j # k => captures'[j] = captures[j]
    BY <1>2, WroteKnown
  <2>2. /\ \A j \in Captures : j # k => Latest(j)' = Latest(j)
        /\ \A j \in Captures : \A v \in 1 .. Latest(j) : Writer(j, v)' = Writer(j, v)
    BY <1>2, WroteKnown
  <2>3. ASSUME NEW j \in Captures, NEW v \in 1 .. Latest(j)
        PROVE  EntitledWrite(j, v)'
    <3>0. Latest(j) \in Nat
      BY LatestKnown
    <3>1. EntitledWrite(j, v)
      BY DEF HoldersOK
    <3>2. /\ \A u \in 1 .. v - 1 : Writer(j, u)' = Writer(j, u)
          /\ Writer(j, v)' = Writer(j, v)
      BY <2>2, <3>0
    <3> DEFINE S == {u \in 1 .. v - 1 : Writer(j, u).kind \in Granting}
    <3>3. {u \in 1 .. v - 1 : Writer(j, u)'.kind \in Granting} = S
      BY <3>2
    <3>4. CASE Writer(j, v).kind \in Granting \ {"transfer"}
      BY <3>2, <3>4 DEF EntitledWrite
    <3>5. CASE Writer(j, v).kind \notin Granting \ {"transfer"}
      <4>0. PICK granted : granted = Max(S)
        OBVIOUS
      <4>1. /\ granted \in S /\ Writer(j, v).lease = granted
            /\ Writer(j, v).member = Granted(Writer(j, granted))
            /\ \A u \in granted + 1 .. v - 1 : Writer(j, u).kind # "hold"
        BY <3>1, <3>5, <4>0 DEF EntitledWrite
      <4>2. \A u \in granted + 1 .. v - 1 : u \in 1 .. v - 1
        BY <3>0, <4>1
      <4> HIDE DEF S
      <4>3. granted \in 1 .. v - 1
        BY <4>1 DEF S
      <4> QED BY <3>2, <3>3, <4>0, <4>1, <4>2, <4>3 DEF EntitledWrite, Granted
    <3> QED BY <3>4, <3>5
  <2>4. ASSUME NEW j \in Captures, j # k PROVE ClaimTraced(j)'
    <3>0. Latest(j) \in Nat
      BY LatestKnown
    <3>1. /\ Latest(j)' = Latest(j) /\ captures'[j] = captures[j] /\ ClaimTraced(j)
          /\ \A v \in 1 .. Latest(j) : Writer(j, v)' = Writer(j, v)
      BY <2>1, <2>2, <2>4 DEF HoldersOK
    <3> QED BY <3>0, <3>1 DEF ClaimTraced, Granted
  <2>5. ClaimTraced(k)' /\ EntitledWrite(k, command.version + 1)'
    BY <1>2, ClaimStaysTraced, EditEntitled
  <2>6. ASSUME NEW j \in Captures, NEW v \in 1 .. Latest(j)'
        PROVE  EntitledWrite(j, v)'
    <3>1. v \in 1 .. Latest(j) \/ (j = k /\ v = command.version + 1)
      BY <2>1, <2>2
    <3> QED BY <2>3, <2>5, <3>1
  <2> QED BY <2>4, <2>5, <2>6 DEF HoldersOK
<1> QED BY <1>1, <1>2, StepsWrite DEF Written

LEMMA HoldersInit ==
  ASSUME Init
  PROVE  HoldersOK
BY DEF Init, HoldersOK, ClaimTraced, Latest

LEMMA HoldersAlways == Spec => [](Types /\ VersionsOK /\ HoldersOK)
<1>1. Init => Types /\ VersionsOK /\ HoldersOK
  BY TypesInit, VersionsInit, HoldersInit
<1>2. Types /\ VersionsOK /\ HoldersOK /\ [Next]_vars
        => (Types /\ VersionsOK /\ HoldersOK)'
  BY TypesStep, StepsWrite, HoldersStep
<1> QED BY <1>1, <1>2, PTL DEF Spec

\* However the stations raced, repeated themselves or lost their answers,
\* behind every version of a capture there is one journaled command, and an
\* edit was written by the member who had been given the capture last, under
\* the lease that came with it, and not after he had put it aside.
THEOREM HoldersWriteAlone == Spec => []OnlyTheHolderWrites
<1>1. ASSUME Types, VersionsOK, HoldersOK PROVE OnlyTheHolderWrites
  <2>1. ASSUME NEW k \in Captures
        PROVE  /\ {journal[key].version : key \in History(k)} = 1 .. Latest(k)
               /\ Cardinality(History(k)) = Latest(k)
    BY <1>1 DEF VersionsOK, HistoryOK
  <2>2. VersionsJournaled
    BY <2>1 DEF VersionsJournaled, Latest
  <2>3. ASSUME NEW k \in Captures, NEW key \in History(k),
               journal[key].command.kind \notin Granting \ {"transfer"}
        PROVE  LET command == journal[key].command
                   earlier == {v \in 1 .. journal[key].version - 1 :
                                 Writer(k, v).kind \in Granting}
                   granted == Max(earlier)
               IN /\ command.lease = granted
                  /\ command.member = Granted(Writer(k, granted))
                  /\ \A v \in granted + 1 .. journal[key].version - 1 :
                       Writer(k, v).kind # "hold"
    <3>1. Writer(k, journal[key].version) = journal[key].command
      BY <1>1, WriterKnown
    <3>2. journal[key].version \in 1 .. Latest(k)
      BY <1>1 DEF VersionsOK, HistoryOK
    <3>3. EntitledWrite(k, journal[key].version)
      BY <1>1, <3>2 DEF HoldersOK
    <3> QED BY <2>3, <3>1, <3>3 DEF EntitledWrite
  <2> QED BY <2>2, <2>3 DEF OnlyTheHolderWrites
<1> QED BY <1>1, HoldersAlways, PTL

-----------------------------------------------------------------------------
(***************************************************************************)
(* A capture becomes at most one order.                                    *)
(***************************************************************************)

\* A capture that was confirmed is an order, by its last version; no other is.
OrderedOnce(k) ==
  IF captures[k] # Null /\ captures[k].status = "confirmed"
  THEN /\ \E o \in DOMAIN taken :
            OrdersOf(k) = {o} /\ taken[o].version = Latest(k) - 1
       /\ Latest(k) > 0 /\ Writer(k, Latest(k)).kind = "confirm"
  ELSE OrdersOf(k) = {}

OrdersOK == \A k \in Captures : OrderedOnce(k)

\* What a write does to the orders.
LEMMA OrdersWritten ==
  ASSUME Types, NEW call, Wrote(call)
  PROVE  LET command == call.command
             k == command.capture
         IN IF command.kind = "confirm"
            THEN /\ call.stage = "ready" /\ call.order \in BuiltOrders
                 /\ command.order \notin DOMAIN taken
                 /\ captures[k].channel = call.order.channel
                 /\ PlanAgrees(k, call.order, command.version)
                 /\ QuoteAgrees(k, call.order) /\ IntentFresh(k)
                 /\ call.order.channel = "delivery" => captures[k].address # Null
                 /\ DOMAIN taken' = DOMAIN taken \union {command.order}
                 /\ taken'[command.order] = Frozen(k, command, call.order)
                 /\ \A o \in DOMAIN taken : taken'[o] = taken[o]
            ELSE taken' = taken
<1> DEFINE command == call.command
           k == command.capture
<1>1. PICK new, plan, quote, intent, more :
        Leaves(call, new, plan, quote, intent, more) /\ taken' = more
  BY DEF Wrote, Writes
<1>2. CASE command.kind # "confirm"
  BY <1>1, <1>2 DEF Leaves
<1>3. CASE command.kind = "confirm"
  <2>1. Confirms(call, more)
    BY <1>1, <1>3 DEF Leaves
  <2> DEFINE frozen == Frozen(k, command, call.order)
  <2>2. /\ taken' = Put(taken, command.order, frozen)
        /\ command.order \notin DOMAIN taken
    BY <1>1, <2>1 DEF Confirms
  <2> HIDE DEF frozen
  <2>3. /\ DOMAIN taken' = DOMAIN taken \union {command.order}
        /\ taken'[command.order] = frozen
        /\ \A o \in DOMAIN taken : taken'[o] = taken[o]
    BY <2>2 DEF Put
  <2> QED BY <1>3, <2>1, <2>3 DEF Confirms, frozen
<1> QED BY <1>2, <1>3

LEMMA OrdersStep ==
  ASSUME Types, VersionsOK, OrdersOK, [Next]_vars
  PROVE  OrdersOK'
<1>1. CASE Untouched
  <2>1. ASSUME NEW k \in Captures PROVE OrderedOnce(k)'
    <3>1. /\ Latest(k)' = Latest(k) /\ \A v : Writer(k, v)' = Writer(k, v)
          /\ SameRow(captures[k], captures'[k]) /\ taken' = taken
      BY <1>1 DEF Untouched
    <3>2. OrdersOf(k)' = OrdersOf(k)
      BY <3>1 DEF OrdersOf
    <3> QED BY <3>1, <3>2 DEF OrdersOK, OrderedOnce, SameRow
  <2> QED BY <2>1 DEF OrdersOK
<1>2. ASSUME NEW call, Wrote(call) PROVE OrdersOK'
  <2> DEFINE command == call.command
             k == command.capture
  <2>1. /\ k \in Captures /\ command.version \in Nat
        /\ Latest(k) = command.version /\ Latest(k)' = command.version + 1
        /\ Writer(k, command.version + 1)' = command
        /\ captures'[k] # Null
        /\ IF command.kind = "create" THEN captures[k] = Null
           ELSE Current(captures[k], command)
        /\ ClaimMoves(command, captures[k], captures'[k])
        /\ \A j \in Captures :
             /\ j # k => captures'[j] = captures[j] /\ Latest(j)' = Latest(j)
             /\ \A v \in 1 .. Latest(j) : Writer(j, v)' = Writer(j, v)
    BY <1>2, WroteKnown
  <2>2. OrdersOf(k) = {}
    BY <2>1 DEF OrdersOK, OrderedOnce, Current
  <2>3. CASE command.kind = "confirm"
    <3>1. /\ command.order \notin DOMAIN taken
          /\ DOMAIN taken' = DOMAIN taken \union {command.order}
          /\ taken'[command.order] = Frozen(k, command, call.order)
          /\ \A o \in DOMAIN taken : taken'[o] = taken[o]
      BY <1>2, <2>3, OrdersWritten
    <3>2. /\ Frozen(k, command, call.order).capture = k
          /\ Frozen(k, command, call.order).version = command.version
      BY DEF Frozen
    <3>3. captures'[k].status = "confirmed"
      BY <2>1, <2>3 DEF ClaimMoves
    <3>4. OrdersOf(k)' = {command.order}
      BY <2>2, <3>1, <3>2 DEF OrdersOf
    <3>5. OrderedOnce(k)'
      BY <2>1, <2>3, <3>1, <3>2, <3>3, <3>4 DEF OrderedOnce
    <3>6. ASSUME NEW j \in Captures, j # k PROVE OrderedOnce(j)'
      <4>1. OrdersOf(j)' = OrdersOf(j)
        BY <3>1, <3>2, <3>6 DEF OrdersOf
      <4>2. OrderedOnce(j) /\ Latest(j) \in Nat
        BY LatestKnown DEF OrdersOK
      <4>3. \A o \in OrdersOf(j) : o \in DOMAIN taken /\ o \in DOMAIN taken'
                                   /\ taken'[o] = taken[o]
        BY <3>1 DEF OrdersOf
      <4>4. Latest(j) > 0 => Writer(j, Latest(j))' = Writer(j, Latest(j))
        <5>1. PICK last : last = Latest(j)
          OBVIOUS
        <5>2. last > 0 => Writer(j, last)' = Writer(j, last)
          BY <2>1, <4>2, <5>1
        <5>3. Latest(j)' = last
          BY <2>1, <3>6, <5>1
        <5> QED BY <5>1, <5>2, <5>3
      <4> QED BY <2>1, <3>6, <4>1, <4>2, <4>3, <4>4 DEF OrderedOnce
    <3> QED BY <3>5, <3>6 DEF OrdersOK
  <2>4. CASE command.kind # "confirm"
    <3>1. taken' = taken
      BY <1>2, <2>4, OrdersWritten
    <3>2. \A j \in Captures : OrdersOf(j)' = OrdersOf(j)
      BY <3>1 DEF OrdersOf
    <3>3. captures'[k].status # "confirmed"
      BY <2>1, <2>4 DEF ClaimMoves
    <3>4. OrderedOnce(k)'
      BY <2>1, <2>2, <3>2, <3>3 DEF OrderedOnce
    <3>5. ASSUME NEW j \in Captures, j # k PROVE OrderedOnce(j)'
      <4>1. PICK last : last = Latest(j)
        OBVIOUS
      <4>2. /\ OrderedOnce(j) /\ last \in Nat /\ Latest(j)' = last
            /\ captures'[j] = captures[j]
            /\ last > 0 => Writer(j, last)' = Writer(j, last)
        BY <2>1, <3>5, <4>1, LatestKnown DEF OrdersOK
      <4> QED BY <3>1, <3>2, <4>1, <4>2 DEF OrderedOnce
    <3> QED BY <3>4, <3>5 DEF OrdersOK
  <2> QED BY <2>3, <2>4
<1> QED BY <1>1, <1>2, StepsWrite DEF Written

LEMMA OrdersInit ==
  ASSUME Init
  PROVE  OrdersOK
BY DEF Init, OrdersOK, OrderedOnce, OrdersOf

LEMMA OrdersAlways == Spec => [](Types /\ VersionsOK /\ OrdersOK)
<1>1. Init => Types /\ VersionsOK /\ OrdersOK
  BY TypesInit, VersionsInit, OrdersInit
<1>2. Types /\ VersionsOK /\ OrdersOK /\ [Next]_vars
        => (Types /\ VersionsOK /\ OrdersOK)'
  BY TypesStep, StepsWrite, OrdersStep
<1> QED BY <1>1, <1>2, PTL DEF Spec

\* A capture becomes at most one order, by its last write, and one that was
\* closed without a sale, or is still a draft, has none.
THEOREM CapturesSellOnce == Spec => []OneOrderPerCapture
<1>1. ASSUME Types, OrdersOK PROVE OneOrderPerCapture
  BY <1>1 DEF OrdersOK, OrderedOnce, OneOrderPerCapture, Latest
<1> QED BY <1>1, OrdersAlways, PTL

-----------------------------------------------------------------------------
(***************************************************************************)
(* The lines a capture was last given.                                     *)
(***************************************************************************)
PlanKinds == {"select", "repeat"}

\* The last version that gave the capture lines; zero if none did.
LinesGiven(k, last) ==
  /\ last \in 0 .. Latest(k)
  /\ last # 0 => Writer(k, last).kind \in PlanKinds
  /\ \A v \in last + 1 .. Latest(k) : Writer(k, v).kind \notin PlanKinds

\* What is stored of the lines given by a version: a selection stays, whatever
\* was done since; a repeated order may go with its customer.
StoredSince(k, last) ==
  LET plan == plans[k]
      giver == Writer(k, last)
  IN IF last = 0 THEN plan = Null
     ELSE /\ plan # Null => /\ plan.kind = (IF giver.kind = "select"
                                            THEN "selection" ELSE "repeat")
                            /\ plan.lines = giver.lines /\ giver.lines # 0
                            /\ plan.applied = last
          /\ plan = Null /\ (giver.kind = "select" \/ last = Latest(k))
               => giver.lines = 0

PlansOK ==
  \A k \in Captures :
    captures[k] # Null /\ captures[k].status = "draft" =>
      \E last \in Nat : LinesGiven(k, last) /\ StoredSince(k, last)

\* An intent is stored by the version it says.
IntentTraced(k) ==
  intents[k] # Null =>
    /\ intents[k].applied \in 1 .. Latest(k)
    /\ Writer(k, intents[k].applied).kind = "intent"

IntentsOK == \A k \in Captures : IntentTraced(k)

\* What a write leaves beside the capture.
LEMMA BesideWritten ==
  ASSUME Types, NEW call, Wrote(call)
  PROVE  LET command == call.command
             k == command.capture
         IN /\ PlanMoves(call, plans[k], captures'[k], plans'[k])
            /\ captures'[k].status # "draft" => plans'[k] = Null
                                                /\ intents'[k] = Null
            /\ IF command.kind = "intent"
               THEN intents'[k] # Null
                    /\ intents'[k].applied = command.version + 1
               ELSE intents'[k] \in {Null, intents[k]}
<1> DEFINE command == call.command
           k == command.capture
<1>1. PICK new, plan, quote, intent, more :
        /\ Leaves(call, new, plan, quote, intent, more)
        /\ captures' = [captures EXCEPT ![k] = new]
        /\ plans' = [plans EXCEPT ![k] = plan]
        /\ quotes' = [quotes EXCEPT ![k] = quote]
        /\ intents' = [intents EXCEPT ![k] = intent]
        /\ head' = head /\ command.kind # "renew"
  BY DEF Wrote, Writes
<1>2. k \in Captures
  BY DEF Wrote, CallTyped, CommandOK
<1>3. captures'[k] = new /\ plans'[k] = plan /\ intents'[k] = intent
  BY <1>1, <1>2 DEF Types, RowsOK
<1> QED BY <1>1, <1>3 DEF Leaves

LEMMA IntentsStep ==
  ASSUME Types, VersionsOK, IntentsOK, [Next]_vars
  PROVE  IntentsOK'
<1>1. CASE Untouched
  BY <1>1 DEF Untouched, IntentsOK, IntentTraced
<1>2. ASSUME NEW call, Wrote(call) PROVE IntentsOK'
  <2> DEFINE command == call.command
             k == command.capture
  <2>1. /\ k \in Captures /\ command.version \in Nat
        /\ Latest(k) = command.version /\ Latest(k)' = command.version + 1
        /\ Writer(k, command.version + 1)' = command
        /\ \A j \in Captures :
             /\ j # k => intents'[j] = intents[j] /\ Latest(j)' = Latest(j)
             /\ \A v \in 1 .. Latest(j) : Writer(j, v)' = Writer(j, v)
    BY <1>2, WroteKnown
  <2>2. IF command.kind = "intent"
        THEN intents'[k] # Null /\ intents'[k].applied = command.version + 1
        ELSE intents'[k] \in {Null, intents[k]}
    BY <1>2, BesideWritten
  <2>3. ASSUME NEW j \in Captures, intents'[j] = intents[j],
               Latest(j)' = Latest(j) \/ Latest(j)' = Latest(j) + 1
        PROVE  IntentTraced(j)'
    <3>1. PICK intent : intent = intents[j]
      OBVIOUS
    <3>2. intent # Null => /\ intent.applied \in 1 .. Latest(j)
                           /\ Writer(j, intent.applied).kind = "intent"
      BY <3>1 DEF IntentsOK, IntentTraced
    <3>3. Latest(j) \in Nat
      BY LatestKnown
    <3>4. intent # Null => /\ intent.applied \in 1 .. Latest(j)'
                           /\ Writer(j, intent.applied)'.kind = "intent"
      BY <2>1, <2>3, <3>2, <3>3
    <3> QED BY <2>3, <3>1, <3>4 DEF IntentTraced
  <2>4. IntentTraced(k)'
    <3>1. CASE command.kind = "intent"
      <4>1. command.version + 1 \in 1 .. command.version + 1
        BY <2>1
      <4> QED BY <2>1, <2>2, <3>1, <4>1 DEF IntentTraced
    <3>2. CASE intents'[k] = Null
      BY <3>2 DEF IntentTraced
    <3>3. CASE intents'[k] = intents[k]
      BY <2>1, <2>3, <3>3
    <3> QED BY <2>2, <3>1, <3>2, <3>3
  <2>5. \A j \in Captures : j # k => IntentTraced(j)'
    BY <2>1, <2>3
  <2> QED BY <2>4, <2>5 DEF IntentsOK
<1> QED BY <1>1, <1>2, StepsWrite DEF Written

LEMMA PlansStep ==
  ASSUME Types, VersionsOK, PlansOK, [Next]_vars
  PROVE  PlansOK'
<1>1. CASE Untouched
  <2>1. ASSUME NEW k \in Captures, (captures[k] # Null)',
               (captures[k].status = "draft")'
        PROVE  \E last \in Nat : LinesGiven(k, last)' /\ StoredSince(k, last)'
    <3>1. /\ Latest(k)' = Latest(k) /\ \A v : Writer(k, v)' = Writer(k, v)
          /\ SameRow(captures[k], captures'[k]) /\ plans' = plans
      BY <1>1 DEF Untouched
    <3>2. PICK last \in Nat : LinesGiven(k, last) /\ StoredSince(k, last)
      BY <2>1, <3>1 DEF PlansOK, SameRow
    <3>3. LinesGiven(k, last)' /\ StoredSince(k, last)'
      BY <3>1, <3>2 DEF LinesGiven, StoredSince
    <3> QED BY <3>3
  <2> QED BY <2>1 DEF PlansOK
<1>2. ASSUME NEW call, Wrote(call) PROVE PlansOK'
  <2> DEFINE command == call.command
             k == command.capture
             now == command.version + 1
  <2>1. /\ k \in Captures /\ command.version \in Nat /\ CommandOK(command)
        /\ Latest(k) = command.version /\ Latest(k)' = now
        /\ Writer(k, now)' = command
        /\ IF command.kind = "create" THEN captures[k] = Null
           ELSE Current(captures[k], command)
        /\ \A j \in Captures :
             /\ j # k => /\ captures'[j] = captures[j] /\ plans'[j] = plans[j]
                         /\ Latest(j)' = Latest(j)
             /\ \A v \in 1 .. Latest(j) : Writer(j, v)' = Writer(j, v)
    BY <1>2, WroteKnown
  <2>2. ASSUME NEW j \in Captures, j # k, (captures[j] # Null)',
               (captures[j].status = "draft")'
        PROVE  \E last \in Nat : LinesGiven(j, last)' /\ StoredSince(j, last)'
    <3>0. Latest(j) \in Nat
      BY LatestKnown
    <3>1. PICK last \in Nat : LinesGiven(j, last) /\ StoredSince(j, last)
      BY <2>1, <2>2 DEF PlansOK
    <3>2. /\ Latest(j)' = Latest(j) /\ plans'[j] = plans[j]
          /\ \A v \in 1 .. Latest(j) : Writer(j, v)' = Writer(j, v)
      BY <2>1, <2>2
    <3>3. /\ last \in 0 .. Latest(j)
          /\ last # 0 => Writer(j, last)' = Writer(j, last)
          /\ \A v \in last + 1 .. Latest(j) : Writer(j, v)' = Writer(j, v)
      BY <3>0, <3>1, <3>2 DEF LinesGiven
    <3>4. LinesGiven(j, last)' /\ StoredSince(j, last)'
      BY <3>1, <3>2, <3>3 DEF LinesGiven, StoredSince
    <3> QED BY <3>4
  <2>3. ASSUME (captures[k].status = "draft")'
        PROVE  \E last \in Nat : LinesGiven(k, last)' /\ StoredSince(k, last)'
    <3> DEFINE plan == plans'[k]
    <3>1. PlanMoves(call, plans[k], captures'[k], plan)
      BY <1>2, BesideWritten
    <3>2. CASE command.kind \in PlanKinds
      <4>1. /\ PlannedFor(command, call.plan)
            /\ IF command.lines = 0 THEN plan = Null
               ELSE /\ plan # Null /\ plan.kind = call.plan.kind
                    /\ plan.lines = command.lines /\ plan.applied = now
        BY <3>1, <3>2 DEF PlanMoves, PlanKinds
      <4>2. call.plan.kind = (IF command.kind = "select"
                              THEN "selection" ELSE "repeat")
        BY <3>2, <4>1 DEF PlannedFor, PlanKinds
      <4>3. now \in 0 .. now /\ now # 0 /\ now + 1 .. now = {} /\ now \in Nat
        BY <2>1
      <4> HIDE DEF now, plan
      <4>4. LinesGiven(k, now)'
        BY <2>1, <3>2, <4>3 DEF LinesGiven
      <4>5. StoredSince(k, now)'
        BY <2>1, <4>1, <4>2, <4>3 DEF StoredSince, plan
      <4> QED BY <4>3, <4>4, <4>5
    <3>3. CASE command.kind \notin PlanKinds
      <4>1. \E last \in Nat : LinesGiven(k, last) /\ StoredSince(k, last)
        <5>1. CASE command.kind = "create"
          <6>1. captures[k] = Null /\ Latest(k) = 0 /\ plans[k] = Null
            BY <2>1, <5>1, RowsBeside DEF Latest
          <6>2. LinesGiven(k, 0) /\ StoredSince(k, 0)
            BY <6>1 DEF LinesGiven, StoredSince
          <6> QED BY <6>2
        <5>2. CASE command.kind # "create"
          BY <2>1, <5>2 DEF PlansOK, Current
        <5> QED BY <5>1, <5>2
      <4>2. PICK last \in Nat : LinesGiven(k, last) /\ StoredSince(k, last)
        BY <4>1
      <4>3. /\ plan \in {Null, plans[k]}
            /\ plans[k] # Null => plan = plans[k] \/ plans[k].kind = "repeat"
        BY <2>3, <3>1, <3>3 DEF PlanMoves, PlanKinds
      <4>4. /\ last \in 0 .. Latest(k) /\ last \in 0 .. now /\ last # now
            /\ last # 0 => Writer(k, last)' = Writer(k, last)
            /\ \A v \in last + 1 .. now : Writer(k, v)'.kind \notin PlanKinds
        <5>1. last \in 0 .. Latest(k) /\ last \in 0 .. now /\ last # now
          BY <2>1, <4>2 DEF LinesGiven
        <5>2. last # 0 => Writer(k, last)' = Writer(k, last)
          BY <2>1, <5>1
        <5>3. ASSUME NEW v \in last + 1 .. now
              PROVE  Writer(k, v)'.kind \notin PlanKinds
          <6>1. v = now \/ (v \in last + 1 .. Latest(k) /\ v \in 1 .. Latest(k))
            BY <2>1, <5>1
          <6> QED BY <2>1, <3>3, <4>2, <6>1 DEF LinesGiven
        <5> QED BY <5>1, <5>2, <5>3
      <4> HIDE DEF now
      <4>5. LinesGiven(k, last)'
        BY <2>1, <4>2, <4>4 DEF LinesGiven
      <4>6. StoredSince(k, last)'
        <5>1. CASE last = 0
          BY <4>2, <4>3, <5>1 DEF StoredSince
        <5>2. CASE last # 0
          <6>1. PICK giver : giver = Writer(k, last) /\ Writer(k, last)' = giver
            BY <4>4, <5>2
          <6>2. /\ plans[k] # Null =>
                     /\ plans[k].kind = (IF giver.kind = "select"
                                         THEN "selection" ELSE "repeat")
                     /\ plans[k].lines = giver.lines /\ giver.lines # 0
                     /\ plans[k].applied = last
                /\ plans[k] = Null /\ giver.kind = "select" => giver.lines = 0
            BY <4>2, <5>2, <6>1 DEF StoredSince
          <6>3. plan = Null /\ giver.kind = "select" => plans[k] = Null
            BY <4>3, <6>2
          <6>4. last # Latest(k)'
            BY <2>1, <4>4
          <6> QED BY <4>3, <5>2, <6>1, <6>2, <6>3, <6>4 DEF StoredSince
        <5> QED BY <5>1, <5>2
      <4> QED BY <4>5, <4>6
    <3> QED BY <3>2, <3>3
  <2> QED BY <2>2, <2>3 DEF PlansOK
<1> QED BY <1>1, <1>2, StepsWrite DEF Written

LEMMA PlansInit ==
  ASSUME Init
  PROVE  PlansOK /\ IntentsOK
BY DEF Init, PlansOK, IntentsOK, IntentTraced

-----------------------------------------------------------------------------
(***************************************************************************)
(* What a call computes before it writes.                                  *)
(***************************************************************************)
Computes(c) ==
  \/ PriceSelection(c) \/ PlanRepeat(c) \/ ComputeQuote(c) \/ PriceIntent(c)
  \/ ReadCapture(c) \/ ReadMoney(c) \/ Materialize(c)

\* A call that ends, or that goes on.
LEMMA CallEnds ==
  ASSUME Types, NEW d \in Callers, NEW accepted, NEW row, NEW effects,
         Transaction(d, accepted, row, effects)
  PROVE  /\ calls'[d] = Null
         /\ \A c \in Callers : c # d => calls'[c] = calls[c]
BY DEF Transaction, Commit, End, Proceed, Types, CallsOK

LEMMA CallGoes ==
  ASSUME Types, NEW d \in Callers, NEW call, Proceed(d, call)
  PROVE  /\ calls'[d] = call
         /\ \A c \in Callers : c # d => calls'[c] = calls[c]
BY DEF Proceed, Types, CallsOK

\* The requests one step does not serve stay as they are, and one that is
\* still served after its step has begun, was looked up in the journal, or has
\* computed something.
LEMMA CallsChange ==
  ASSUME Types, [Next]_vars, NEW c \in Callers, calls'[c] # Null
  PROVE  \/ calls'[c] = calls[c]
         \/ calls'[c].stage \in {"received", "probed"}
         \/ Computes(c) /\ Quiet
<1>1. CASE UNCHANGED calls
  BY <1>1
<1>2. ASSUME NEW d \in Callers, Issue(d) \/ Retry(d)
      PROVE  calls'[c] = calls[c] \/ calls'[c].stage = "received"
  <2>1. PICK command : Proceed(d, NewCall(command))
    BY <1>2 DEF Issue, Retry
  <2>2. NewCall(command).stage = "received"
    BY DEF NewCall
  <2> QED BY <2>1, <2>2, CallGoes
<1>3. ASSUME NEW d \in Callers, Drop(d) PROVE calls'[c] = calls[c]
  BY <1>3, CallGoes DEF Drop, End
<1>4. ASSUME NEW d \in Callers, DeskStep(d) PROVE calls'[c] = calls[c]
  <2>1. CASE Renew(d)
    BY <2>1 DEF Renew, Types, CallsOK
  <2>2. CASE ~Renew(d)
    <3>1. \E accepted, row, effects : Transaction(d, accepted, row, effects)
      BY <1>4, <2>2 DEF DeskStep, Create, Hold, Claim, Prefer, Transfer, TakeOver,
         Autosave, SetCustomer, SetFulfillment, SetInstructions, NoSale, Serve
    <3> QED BY <3>1, CallEnds
  <2> QED BY <2>1, <2>2
<1>5. ASSUME NEW d \in Callers, SaleStep(d)
      PROVE  \/ calls'[c] = calls[c] \/ calls'[c].stage = "probed"
             \/ Computes(c) /\ Quiet
  <2>1. CASE Probe(d)
    <3>1. calls[d] # Null /\ (End(d) \/ Proceed(d, Onward(d, "probed")))
      BY <2>1 DEF Probe, At
    <3>2. Onward(d, "probed").stage = "probed"
      BY <3>1, OnwardCall
    <3> QED BY <3>1, <3>2, CallGoes DEF End
  <2>2. CASE Computes(d)
    <3>1. \E call : Proceed(d, call)
      BY <2>2 DEF Computes, PriceSelection, PlanRepeat, ComputeQuote, PriceIntent,
         ReadCapture, ReadMoney, Materialize, End
    <3>2. Quiet
      BY <3>1 DEF Proceed, Quiet
    <3>3. c # d => calls'[c] = calls[c]
      BY <3>1, CallGoes
    <3> QED BY <2>2, <3>2, <3>3
  <2>3. CASE ReplaceSelection(d) \/ RepeatOrder(d) \/ SetQuote(d) \/ SetIntent(d)
             \/ Confirm(d)
    <3>1. \E accepted, row, effects : Transaction(d, accepted, row, effects)
      BY <2>3 DEF ReplaceSelection, RepeatOrder, SetQuote, SetIntent, Confirm
    <3> QED BY <3>1, CallEnds
  <2> QED BY <1>5, <2>1, <2>2, <2>3 DEF SaleStep, Computes
<1>6. ASSUME NEW k \in Captures,
             LeaseLapses(k) \/ RecoveryLapses(k) \/ QuoteLapses(k)
      PROVE  UNCHANGED calls
  BY <1>6 DEF LeaseLapses, RecoveryLapses, QuoteLapses
<1>7. ASSUME Publish PROVE UNCHANGED calls
  BY <1>7 DEF Publish
<1>8. ASSUME UNCHANGED vars PROVE UNCHANGED calls
  BY <1>8 DEF vars
<1> QED BY <1>1, <1>2, <1>3, <1>4, <1>5, <1>6, <1>7, <1>8 DEF Next

\* The capture is still what the call's station saw.
StillSeen(call) ==
  LET row == captures[call.command.capture]
  IN /\ row # Null /\ row.status = "draft"
     /\ row.version = call.command.version

\* The intent is for what is stored beside it, and covers it.
AgreedOn(k) ==
  intents[k] # Null =>
    /\ plans[k] # Null
    /\ intents[k].basis = Basis(plans[k], captures[k].channel, quotes[k])
    /\ Covers(intents[k].tender, TotalOf(intents[k].basis))

\* What a confirmation has read still holds while nobody wrote the capture; and
\* lines are matched with a menu that was published.
CallSound(call) ==
  LET k == call.command.capture
  IN /\ call.command.kind = "confirm"
        /\ call.stage \in {"read", "checked", "ready"} =>
          /\ call.command.version <= Latest(k)
          /\ StillSeen(call) =>
               /\ call.stage # "ready" => call.plan = plans[k]
               /\ call.stage # "read" => AgreedOn(k)
               /\ call.stage = "ready" /\ plans[k] # Null
                  /\ plans[k].kind = "selection" =>
                    call.order.catalog = plans[k].catalog
     /\ call.command.kind \in PlanKinds /\ call.stage = "ready" =>
          call.plan.catalog <= head

CallsSound == \A c \in Callers : calls[c] # Null => CallSound(calls[c])

\* Nothing it rests on changes under a call while others are served.
LEMMA CallStaysSound ==
  ASSUME Types, VersionsOK, NEW call, CallTyped(call), CallSound(call),
         Untouched \/ Written, head' \in Nat
  PROVE  CallSound(call)'
<1> DEFINE command == call.command
           k == command.capture
<1>1. /\ k \in Captures /\ command.version \in Nat /\ Latest(k) \in Nat
      /\ head \in Nat
  BY LatestKnown, HeadKnown DEF CallTyped, CommandOK, Versions
<1>2. command.kind \in PlanKinds /\ call.stage = "ready" =>
        call.plan.catalog \in Nat
  BY DEF CallTyped, PlanKinds, PlannedFor, Plans, Versions
<1>3. CASE Untouched
  <2>1. /\ Latest(k)' = Latest(k) /\ SameRow(captures[k], captures'[k])
        /\ SameQuote(quotes[k], quotes'[k]) /\ plans' = plans
        /\ intents' = intents /\ head <= head' /\ head' \in Nat
    BY <1>1, <1>3 DEF Untouched
  <2>2. StillSeen(call)' <=> StillSeen(call)
    BY <2>1 DEF StillSeen, SameRow
  <2>3. Basis(plans[k], captures[k].channel, quotes[k])'
          = Basis(plans[k], captures[k].channel, quotes[k])
        \/ captures[k] = Null
    BY <2>1 DEF Basis, FeeOf, QuoteOf, SameRow, SameQuote
  <2>4. captures[k] # Null /\ AgreedOn(k) => AgreedOn(k)'
    BY <2>1, <2>3 DEF AgreedOn, Covers, TotalOf, Priced
  <2>5. call.command.kind \in PlanKinds /\ call.stage = "ready" =>
          call.plan.catalog <= head'
    BY <1>1, <1>2, <2>1 DEF CallSound
  <2> QED BY <2>1, <2>2, <2>4, <2>5 DEF CallSound, StillSeen
<1>4. CASE Written
  <2>1. PICK other : Wrote(other)
    BY <1>4 DEF Written
  <2>2. head' = head
    BY <2>1, WroteKnown
  <2>3. CASE other.command.capture = k
    <3>1. /\ Latest(k)' = Latest(k) + 1 /\ captures'[k] # Null
          /\ captures'[k].version = Latest(k) + 1
      BY <2>1, <2>3, WroteKnown
    <3> HIDE DEF k
    <3>2. call.command.kind = "confirm"
          /\ call.stage \in {"read", "checked", "ready"} =>
            call.command.version <= Latest(k)' /\ ~StillSeen(call)'
      BY <1>1, <3>1 DEF CallSound, StillSeen, k
    <3> QED BY <2>2, <3>2 DEF CallSound, k
  <2>4. CASE other.command.capture # k
    <3>1. /\ captures'[k] = captures[k] /\ plans'[k] = plans[k]
          /\ quotes'[k] = quotes[k] /\ intents'[k] = intents[k]
          /\ Latest(k)' = Latest(k)
      BY <1>1, <2>1, <2>4, WroteKnown
    <3>2. (StillSeen(call)' <=> StillSeen(call)) /\ (AgreedOn(k)' <=> AgreedOn(k))
      BY <3>1 DEF StillSeen, AgreedOn, Basis, Covers, TotalOf, Priced, FeeOf, QuoteOf
    <3> QED BY <2>2, <3>1, <3>2 DEF CallSound
  <2> QED BY <2>3, <2>4
<1> QED BY <1>3, <1>4

\* Reading and building, what a call computes holds at that moment.
LEMMA ComputedSound ==
  ASSUME Types, VersionsOK, CallsSound, NEW c \in Callers,
         Computes(c), Quiet, NEW call, call = calls'[c], call # Null
  PROVE  CallSound(call)'
<1> DEFINE before == calls[c]
           command == before.command
           k == command.capture
<1>0. /\ captures' = captures /\ plans' = plans /\ quotes' = quotes
      /\ intents' = intents /\ head' = head /\ head \in Nat
  BY HeadKnown DEF Quiet, draftTables, Versions
<1>1. /\ before # Null /\ CallSound(before) /\ CallTyped(before)
      /\ k \in Captures /\ command.version \in Nat /\ Latest(k) \in Nat
  <2>1. before # Null
    BY DEF Computes, PriceSelection, PlanRepeat, ComputeQuote, PriceIntent,
       ReadCapture, ReadMoney, Materialize, At
  <2> QED BY <2>1, CommandKnown, CallKnown, LatestKnown DEF CallsSound
<1>2. SUFFICES CallSound(call)
  BY <1>0 DEF CallSound, StillSeen, AgreedOn, Basis, Covers, TotalOf, Priced,
     FeeOf, QuoteOf, Latest
<1>3. CASE PriceSelection(c)
  <2>1. /\ command.kind = "select" /\ command.catalog = head
        /\ Proceed(c, [Onward(c, "ready") EXCEPT !.plan =
             [kind |-> "selection", lines |-> command.lines,
              catalog |-> command.catalog, customer |-> Null]])
    BY <1>3, CallGoes DEF PriceSelection, At, End
  <2>2. call.command.kind = "select" /\ call.plan.catalog = head
    BY <1>1, <2>1, CallGoes, OnwardCall DEF CallFields
  <2> QED BY <1>0, <2>2 DEF CallSound
<1>4. CASE PlanRepeat(c)
  <2>1. /\ command.kind = "repeat"
        /\ Proceed(c, [Onward(c, "ready") EXCEPT !.plan =
             [kind |-> "repeat", lines |-> command.lines, catalog |-> head,
              customer |-> command.customer]])
    BY <1>4 DEF PlanRepeat, At
  <2>2. call.command.kind = "repeat" /\ call.plan.catalog = head
    BY <1>1, <2>1, CallGoes, OnwardCall DEF CallFields
  <2> QED BY <1>0, <2>2 DEF CallSound
<1>5. CASE ComputeQuote(c) \/ PriceIntent(c)
  <2>1. call.command.kind \in {"quote", "intent"}
    <3>1. command.kind \in {"quote", "intent"} /\ (End(c) \/
            \E x : Proceed(c, [Onward(c, "ready") EXCEPT !.quote = x])
                   \/ Proceed(c, [Onward(c, "ready") EXCEPT !.basis = x]))
      BY <1>5 DEF ComputeQuote, PriceIntent, At
    <3>2. PICK x : \/ Proceed(c, [Onward(c, "ready") EXCEPT !.quote = x])
                   \/ Proceed(c, [Onward(c, "ready") EXCEPT !.basis = x])
      BY <3>1, CallGoes DEF End
    <3>3. /\ [Onward(c, "ready") EXCEPT !.quote = x].command = command
          /\ [Onward(c, "ready") EXCEPT !.basis = x].command = command
      BY <1>1, OnwardCall DEF CallFields
    <3> QED BY <3>1, <3>2, <3>3, CallGoes
  <2> QED BY <2>1 DEF CallSound, PlanKinds
<1>6. CASE ReadCapture(c)
  <2> DEFINE next == [Onward(c, "read") EXCEPT !.plan = plans[k],
                                               !.channel = captures[k].channel]
  <2>1. Current(captures[k], command) /\ Proceed(c, next)
    BY <1>6, CallGoes DEF ReadCapture, End
  <2>2. /\ next.command = command /\ next.stage = "read" /\ next.plan = plans[k]
    BY <1>1, OnwardCall DEF CallFields
  <2>3. call = next
    BY <2>1, CallGoes
  <2>4. command.version = Latest(k)
    BY <2>1 DEF Current, Latest
  <2>5. command.kind = "confirm"
    BY <1>6 DEF ReadCapture, At
  <2> HIDE DEF next
  <2> QED BY <1>1, <2>2, <2>3, <2>4, <2>5 DEF CallSound, PlanKinds
<1>7. CASE ReadMoney(c)
  <2> DEFINE next == [Onward(c, "checked") EXCEPT !.quote = quotes[k]]
  <2>1. IntentGood(k) /\ Proceed(c, next)
    BY <1>7, CallGoes DEF ReadMoney, End
  <2>2. /\ next.command = command /\ next.stage = "checked"
        /\ next.plan = before.plan
    BY <1>1, OnwardCall DEF CallFields
  <2>3. call = next
    BY <2>1, CallGoes
  <2>4. before.stage = "read" /\ command.kind = "confirm"
    BY <1>7 DEF ReadMoney, At
  <2>5. AgreedOn(k)
    BY <2>1 DEF IntentGood, AgreedOn, Priceable
  <2> HIDE DEF next
  <2>6. StillSeen(call) <=> StillSeen(before)
    BY <2>2, <2>3 DEF StillSeen
  <2> QED BY <1>1, <2>2, <2>3, <2>4, <2>5, <2>6 DEF CallSound, PlanKinds
<1>8. CASE Materialize(c)
  <2> DEFINE order == Built(before)
             next == [NewCall(command) EXCEPT !.stage = "ready", !.order = order]
  <2>1. /\ before.plan # Null =>
             /\ SamePlan(before.plan, plans[k])
             /\ before.plan.kind = "selection" => before.plan.catalog = head
        /\ Proceed(c, next)
    BY <1>8, CallGoes DEF Materialize, End
  <2>2. next.command = command /\ next.stage = "ready" /\ next.order = order
    BY DEF NewCall
  <2>3. call = next
    BY <2>1, CallGoes
  <2>4. before.stage = "checked" /\ command.kind = "confirm"
    BY <1>8 DEF Materialize, At
  <2>5. order.catalog = IF before.plan = Null THEN Null ELSE head
    BY DEF Built
  <2> HIDE DEF next, order
  <2>6. StillSeen(call) <=> StillSeen(before)
    BY <2>2, <2>3 DEF StillSeen
  <2>7. StillSeen(before) /\ plans[k] # Null /\ plans[k].kind = "selection"
          => order.catalog = plans[k].catalog
    BY <1>1, <2>1, <2>4, <2>5 DEF CallSound, SamePlan
  <2> QED BY <1>1, <2>2, <2>3, <2>4, <2>6, <2>7 DEF CallSound, PlanKinds
<1> QED BY <1>3, <1>4, <1>5, <1>6, <1>7, <1>8 DEF Computes

LEMMA CallsSoundStep ==
  ASSUME Types, VersionsOK, CallsSound, [Next]_vars
  PROVE  CallsSound'
<1>1. Types' /\ (Untouched \/ Written)
  BY TypesStep, StepsWrite
<1>2. head' \in Nat
  BY <1>1 DEF Types
<1>3. ASSUME NEW c \in Callers, calls'[c] # Null PROVE CallSound(calls[c])'
  <2>1. PICK call : call = calls'[c]
    OBVIOUS
  <2>2. CASE calls'[c] = calls[c]
    <3>1. CallTyped(call) /\ CallSound(call)
      BY <1>3, <2>1, <2>2, CallKnown DEF CallsSound
    <3>2. CallSound(call)'
      BY <1>1, <1>2, <3>1, CallStaysSound
    <3> QED BY <2>1, <3>2 DEF CallSound, StillSeen
  <2>3. CASE calls'[c].stage \in {"received", "probed"}
    BY <2>3 DEF CallSound
  <2>4. CASE Computes(c) /\ Quiet
    <3>1. CallSound(call)'
      BY <1>3, <2>1, <2>4, ComputedSound
    <3> QED BY <2>1, <3>1 DEF CallSound, StillSeen
  <2> QED BY <1>3, <2>2, <2>3, <2>4, CallsChange
<1> QED BY <1>3 DEF CallsSound

LEMMA CallsSoundInit ==
  ASSUME Init
  PROVE  CallsSound
BY DEF Init, CallsSound

-----------------------------------------------------------------------------
(***************************************************************************)
(* An order is charged what was agreed.                                    *)
(***************************************************************************)

\* The charge of an order is that of a quote that held when it was taken.
QuotePaid(order) ==
  IF order.channel = "delivery"
  THEN /\ order.address # Null /\ order.quote # Null
       /\ order.quote.address = order.address
       /\ order.charge = order.quote.fee
       /\ order.quote.covered /\ order.quote.live
  ELSE order.charge = Null

ChargeOf(order) == IF order.charge = Null THEN 0 ELSE order.charge

\* Its intent was made for it, and covers it.
IntentPaid(order) ==
  order.intent # Null =>
    /\ order.intent.basis =
         [channel |-> order.channel, lines |-> order.lines,
          catalog |-> order.catalog, fee |-> ChargeOf(order),
          quote |-> QuoteOf(order.channel, order.quote)]
    /\ Covers(order.intent.tender,
              Priced(order.lines, order.catalog) + ChargeOf(order))

MoneyOK == \A o \in DOMAIN taken : QuotePaid(taken[o]) /\ IntentPaid(taken[o])

\* What stands behind the money of an order that is taken.
MoneyBase == VersionsOK /\ PlansOK /\ IntentsOK /\ CallsSound

\* A confirmation is as its station saw the capture.
LEMMA ConfirmKnown ==
  ASSUME Types, NEW call, Wrote(call), call.command.kind = "confirm"
  PROVE  LET k == call.command.capture
         IN /\ k \in Captures /\ StillSeen(call) /\ call.stage = "ready"
            /\ captures[k].version = Latest(k)
            /\ call.command.version = Latest(k)
            /\ captures[k].status = "draft"
            /\ call.order \in BuiltOrders /\ captures[k].channel = call.order.channel
            /\ PlanAgrees(k, call.order, call.command.version)
            /\ QuoteAgrees(k, call.order) /\ IntentFresh(k)
            /\ call.order.channel = "delivery" => captures[k].address # Null
<1>1. /\ call.command.capture \in Captures
      /\ Current(captures[call.command.capture], call.command)
      /\ Latest(call.command.capture) = call.command.version
  BY WroteKnown
<1> QED BY <1>1, OrdersWritten DEF StillSeen, Current

\* The last of the writes of some kinds is no earlier than any of them.
LEMMA LastWriteBounds ==
  ASSUME Types, VersionsOK, NEW k \in Captures, NEW kinds,
         NEW v \in 1 .. Latest(k), Writer(k, v).kind \in kinds
  PROVE  LastWrite(k, kinds) \in Nat /\ v <= LastWrite(k, kinds)
<1> DEFINE S == {0} \union {journal[key].version : key \in
                  {x \in DOMAIN journal : /\ journal[x].command.capture = k
                                          /\ journal[x].command.kind \in kinds}}
<1>1. PICK key \in History(k) :
        journal[key].version = v /\ Writer(k, v) = journal[key].command
  BY VersionWritten
<1>2. v \in S
  BY <1>1 DEF History
<1>3. Latest(k) \in Nat
  BY LatestKnown
<1>4. \A key2 \in History(k) : journal[key2].version \in 1 .. Latest(k)
  BY DEF VersionsOK, HistoryOK
<1>5. S \in SUBSET Nat /\ \A x \in S : x <= Latest(k)
  BY <1>3, <1>4 DEF History
<1>6. Max(S) \in S /\ \A x \in S : x <= Max(S)
  BY <1>2, <1>3, <1>5, GreatestOfMany
<1> QED BY <1>2, <1>5, <1>6 DEF LastWrite

\* A repeated order has no intent when it is confirmed: the version it was put
\* in is the capture's, and an intent would have to be written at that version
\* as well.
LEMMA RepeatedHasNoIntent ==
  ASSUME Types, MoneyBase, NEW call, Wrote(call), call.command.kind = "confirm",
         plans[call.command.capture] # Null,
         plans[call.command.capture].kind = "repeat"
  PROVE  intents[call.command.capture] = Null
<1> DEFINE k == call.command.capture
<1>1. /\ k \in Captures /\ captures[k] # Null /\ captures[k].status = "draft"
      /\ call.command.version = Latest(k)
      /\ PlanAgrees(k, call.order, call.command.version) /\ IntentFresh(k)
  BY ConfirmKnown DEF StillSeen
<1>2. PICK last \in Nat : LinesGiven(k, last) /\ StoredSince(k, last)
  BY <1>1 DEF MoneyBase, PlansOK
<1>3. plans[k].applied = Latest(k)
  BY <1>1 DEF PlanAgrees
<1>4. /\ last = Latest(k) /\ last # 0 /\ last \in 1 .. Latest(k)
      /\ Writer(k, last).kind \in PlanKinds
  BY <1>2, <1>3 DEF LinesGiven, StoredSince
<1>5. ASSUME intents[k] # Null PROVE FALSE
  <2>1. /\ intents[k].applied \in 1 .. Latest(k)
        /\ Writer(k, intents[k].applied).kind = "intent"
    BY <1>1, <1>5 DEF MoneyBase, IntentsOK, IntentTraced
  <2>2. LastWrite(k, {"select", "repeat", "fulfillment"}) <= intents[k].applied
    BY <1>1, <1>5 DEF IntentFresh
  <2>3. /\ LastWrite(k, {"select", "repeat", "fulfillment"}) \in Nat
        /\ last <= LastWrite(k, {"select", "repeat", "fulfillment"})
    BY <1>1, <1>4, LastWriteBounds DEF MoneyBase, PlanKinds
  <2>4. Latest(k) \in Nat
    BY <1>1, LatestKnown
  <2>5. intents[k].applied = last
    BY <1>4, <2>1, <2>2, <2>3, <2>4
  <2> QED BY <1>4, <2>1, <2>5 DEF PlanKinds
<1> QED BY <1>5

\* What is frozen when a capture is confirmed is what was agreed.
LEMMA ConfirmedAsAgreed ==
  ASSUME Types, MoneyBase, NEW c \in Callers, NEW call, call = calls[c],
         call # Null, Wrote(call), call.command.kind = "confirm"
  PROVE  LET order == Frozen(call.command.capture, call.command, call.order)
         IN QuotePaid(order) /\ IntentPaid(order)
<1> DEFINE command == call.command
           k == command.capture
           order == call.order
           frozen == Frozen(k, command, order)
<1>1. /\ k \in Captures /\ StillSeen(call) /\ call.stage = "ready"
      /\ captures[k] # Null /\ order \in BuiltOrders
      /\ captures[k].channel = order.channel
      /\ PlanAgrees(k, order, command.version) /\ QuoteAgrees(k, order)
      /\ order.channel = "delivery" => captures[k].address # Null
  BY ConfirmKnown DEF StillSeen
<1>2. /\ frozen.channel = order.channel /\ frozen.lines = order.lines
      /\ frozen.catalog = order.catalog /\ frozen.charge = order.charge
      /\ frozen.address = captures[k].address /\ frozen.quote = quotes[k]
      /\ frozen.intent = intents[k]
  BY DEF Frozen
<1>3. /\ AgreedOn(k)
      /\ plans[k] # Null /\ plans[k].kind = "selection" =>
           order.catalog = plans[k].catalog
  BY <1>1 DEF MoneyBase, CallsSound, CallSound
<1>4. intents[k] # Null => plans[k] # Null /\ plans[k].kind = "selection"
  <2>1. plans[k] # Null => plans[k].kind \in {"selection", "repeat"}
    BY <1>1, RowsBeside DEF Optional, PlanRows
  <2> QED BY <1>3, <2>1, RepeatedHasNoIntent DEF AgreedOn
<1> HIDE DEF frozen
<1>5. QuotePaid(frozen)
  BY <1>1, <1>2 DEF QuotePaid, QuoteAgrees
<1>6. FeeOf(order.channel, quotes[k]) = ChargeOf(frozen)
  <2>1. quotes[k] # Null => quotes[k].fee # Null
    BY <1>1, RowsBeside, RowsAreThere DEF Optional, QuoteRows
  <2> QED BY <1>1, <1>2, <2>1 DEF FeeOf, ChargeOf, QuoteAgrees
<1>7. IntentPaid(frozen)
  <2> SUFFICES ASSUME intents[k] # Null
               PROVE  IntentPaid(frozen)
    BY <1>2 DEF IntentPaid
  <2>1. /\ plans[k] # Null /\ order.catalog = plans[k].catalog
        /\ order.lines = plans[k].lines
    BY <1>1, <1>3, <1>4 DEF PlanAgrees
  <2> DEFINE basis == Basis(plans[k], captures[k].channel, quotes[k])
  <2>2. /\ intents[k].basis = basis
        /\ Covers(intents[k].tender, TotalOf(basis))
    BY <1>3 DEF AgreedOn
  <2>3. basis = [channel |-> order.channel, lines |-> order.lines,
                 catalog |-> order.catalog, fee |-> ChargeOf(frozen),
                 quote |-> QuoteOf(order.channel, quotes[k])]
    BY <1>1, <1>6, <2>1 DEF Basis
  <2>4. TotalOf(basis) = Priced(order.lines, order.catalog) + ChargeOf(frozen)
    BY <2>3 DEF TotalOf
  <2> HIDE DEF basis
  <2> QED BY <1>2, <2>2, <2>3, <2>4 DEF IntentPaid
<1> QED BY <1>5, <1>7 DEF frozen

LEMMA MoneyStep ==
  ASSUME Types, MoneyBase, MoneyOK, [Next]_vars
  PROVE  MoneyOK'
<1>1. Untouched \/ Written
  BY StepsWrite DEF MoneyBase
<1>2. CASE taken' = taken
  BY <1>2 DEF MoneyOK, QuotePaid, IntentPaid, ChargeOf
<1>3. ASSUME NEW c \in Callers, NEW call, call = calls[c], call # Null,
             Wrote(call), call.command.kind = "confirm"
      PROVE  MoneyOK'
  <2>1. PICK frozen :
          frozen = Frozen(call.command.capture, call.command, call.order)
    OBVIOUS
  <2>2. QuotePaid(frozen) /\ IntentPaid(frozen)
    BY <1>3, <2>1, ConfirmedAsAgreed
  <2>3. /\ DOMAIN taken' = DOMAIN taken \union {call.command.order}
        /\ taken'[call.command.order] = frozen
        /\ \A o \in DOMAIN taken : taken'[o] = taken[o]
    BY <1>3, <2>1, OrdersWritten
  <2>4. \A o \in DOMAIN taken' : QuotePaid(taken'[o]) /\ IntentPaid(taken'[o])
    BY <2>2, <2>3 DEF MoneyOK
  <2> QED BY <2>4 DEF MoneyOK, QuotePaid, IntentPaid, ChargeOf
<1>4. ASSUME NEW call, Wrote(call), call.command.kind # "confirm"
      PROVE  taken' = taken
  BY <1>4, OrdersWritten
<1> QED BY <1>1, <1>2, <1>3, <1>4 DEF Written, Untouched

LEMMA MoneyAlways == Spec => [](Types /\ MoneyBase /\ MoneyOK)
<1>1. Init => Types /\ MoneyBase /\ MoneyOK
  BY TypesInit, VersionsInit, PlansInit, CallsSoundInit
  DEF MoneyBase, MoneyOK, Init
<1>2. Types /\ MoneyBase /\ [Next]_vars => (Types /\ MoneyBase)'
  BY TypesStep, StepsWrite, PlansStep, IntentsStep, CallsSoundStep DEF MoneyBase
<1>3. Types /\ MoneyBase /\ MoneyOK /\ [Next]_vars
        => (Types /\ MoneyBase /\ MoneyOK)'
  BY <1>2, MoneyStep
<1> QED BY <1>1, <1>3, PTL DEF Spec

\* A delivery is charged what was quoted for the address it goes to, by a quote
\* that covered it and had not expired; and the intent frozen with an order was
\* made for that order, and the cash it names covers it.
THEOREM OrdersAreChargedAsAgreed == Spec => []MoneyAsAgreed
<1>1. ASSUME MoneyOK PROVE MoneyAsAgreed
  <2>1. QuoteHonoured
    BY <1>1 DEF MoneyOK, QuotePaid, QuoteHonoured
  <2> QED BY <1>1, <2>1 DEF MoneyOK, IntentPaid, ChargeOf, MoneyAsAgreed
<1> QED BY <1>1, MoneyAlways, PTL

-----------------------------------------------------------------------------
(***************************************************************************)
(* An order has the lines its capture was last given.                      *)
(***************************************************************************)

\* The lines an order of this capture, confirmed at this version, is to have
\* when the last ones were given by a version.
AskedFor(k, version, last) ==
  IF last = 0 THEN 0
  ELSE IF Writer(k, last).kind = "select" \/ last = version
       THEN Writer(k, last).lines ELSE 0

TakenAsAsked(order) ==
  \E last \in Nat :
    /\ LinesGiven(order.capture, last)
    /\ order.lines = AskedFor(order.capture, order.version, last)

LinesOK == \A o \in DOMAIN taken : TakenAsAsked(taken[o])

\* What stands behind the lines of an order that is taken.
LinesBase == VersionsOK /\ OrdersOK /\ PlansOK

\* What is frozen when a capture is confirmed has the lines asked for.
LEMMA ConfirmedAsAsked ==
  ASSUME Types, LinesBase, NEW call, Wrote(call),
         call.command.kind = "confirm", NEW order,
         order = Frozen(call.command.capture, call.command, call.order)
  PROVE  TakenAsAsked(order)'
<1> DEFINE command == call.command
           k == command.capture
           now == command.version + 1
<1>1. /\ k \in Captures /\ captures[k] # Null /\ captures[k].status = "draft"
      /\ command.version = Latest(k)
      /\ PlanAgrees(k, call.order, command.version)
  BY ConfirmKnown DEF StillSeen
<1>2. /\ order.capture = k /\ order.version = command.version
      /\ order.lines = call.order.lines
  BY DEF Frozen
<1>3. PICK last \in Nat : LinesGiven(k, last) /\ StoredSince(k, last)
  BY <1>1 DEF LinesBase, PlansOK
<1>4. /\ Latest(k)' = now /\ command.version \in Nat
      /\ Writer(k, now)' = command
      /\ \A v \in 1 .. Latest(k) : Writer(k, v)' = Writer(k, v)
  BY <1>1, WroteKnown
<1>5. /\ last \in 0 .. Latest(k) /\ last \in 0 .. now
      /\ last # 0 => Writer(k, last)' = Writer(k, last)
  BY <1>1, <1>3, <1>4 DEF LinesGiven
<1>6. LinesGiven(k, last)'
  <2>1. ASSUME NEW v \in last + 1 .. now
        PROVE  Writer(k, v)'.kind \notin PlanKinds
    <3>1. v = now \/ (v \in last + 1 .. Latest(k) /\ v \in 1 .. Latest(k))
      BY <1>1, <1>4, <1>5
    <3> QED BY <1>3, <1>4, <3>1 DEF LinesGiven, PlanKinds
  <2> HIDE DEF now
  <2> QED BY <1>3, <1>4, <1>5, <2>1 DEF LinesGiven
<1>7. call.order.lines = AskedFor(k, command.version, last)
  <2>1. CASE last = 0
    BY <1>1, <1>3, <2>1 DEF StoredSince, PlanAgrees, AskedFor
  <2>2. CASE last # 0 /\ plans[k] = Null
    BY <1>1, <1>3, <2>2 DEF StoredSince, PlanAgrees, AskedFor
  <2>3. CASE last # 0 /\ plans[k] # Null
    BY <1>1, <1>3, <2>3 DEF StoredSince, PlanAgrees, AskedFor
  <2> QED BY <2>1, <2>2, <2>3
<1>8. AskedFor(k, command.version, last)' = AskedFor(k, command.version, last)
  BY <1>5 DEF AskedFor
<1> HIDE DEF now, k, command
<1>9. TakenAsAsked(order)' <=>
        \E v \in Nat : /\ LinesGiven(order.capture, v)'
                       /\ order.lines = AskedFor(order.capture, order.version, v)'
  BY DEF TakenAsAsked
<1> QED BY <1>2, <1>3, <1>6, <1>7, <1>8, <1>9

\* An order keeps the lines asked for: nothing is written on its capture again.
LEMMA OrderStaysAsAsked ==
  ASSUME Types, LinesBase, NEW o \in DOMAIN taken, NEW order, order = taken[o],
         TakenAsAsked(order), Untouched \/ Written
  PROVE  TakenAsAsked(order)'
<1>1. order.capture \in Captures
  BY DEF Types, TakenOK, OrderRows
<1>2. PICK k \in Captures : k = order.capture
  BY <1>1
<1>3. /\ Latest(k)' = Latest(k)
      /\ \A v \in 1 .. Latest(k) : Writer(k, v)' = Writer(k, v)
  <2>1. CASE Untouched
    BY <2>1 DEF Untouched
  <2>2. CASE Written
    <3>1. PICK call : Wrote(call)
      BY <2>2 DEF Written
    <3>2. call.command.capture # k
      <4>1. IF call.command.kind = "create" THEN captures[call.command.capture] = Null
            ELSE Current(captures[call.command.capture], call.command)
        BY <3>1, WroteKnown
      <4>2. o \in OrdersOf(k)
        BY <1>2 DEF OrdersOf
      <4>3. captures[k] # Null /\ captures[k].status = "confirmed"
        BY <4>2 DEF LinesBase, OrdersOK, OrderedOnce
      <4> QED BY <4>1, <4>3 DEF Current
    <3> QED BY <3>1, <3>2, WroteKnown
  <2> QED BY <2>1, <2>2
<1>4. PICK last \in Nat : /\ LinesGiven(k, last)
                          /\ order.lines = AskedFor(k, order.version, last)
  BY <1>2 DEF TakenAsAsked
<1>5. Latest(k) \in Nat
  BY LatestKnown
<1>6. /\ last \in 0 .. Latest(k)
      /\ last # 0 => Writer(k, last)' = Writer(k, last)
      /\ \A v \in last + 1 .. Latest(k) : Writer(k, v)' = Writer(k, v)
  BY <1>3, <1>4, <1>5 DEF LinesGiven
<1>7. LinesGiven(k, last)'
  BY <1>3, <1>4, <1>6 DEF LinesGiven
<1>8. AskedFor(k, order.version, last)' = AskedFor(k, order.version, last)
  BY <1>6 DEF AskedFor
<1> QED BY <1>2, <1>4, <1>7, <1>8 DEF TakenAsAsked

LEMMA LinesStep ==
  ASSUME Types, LinesBase, LinesOK, [Next]_vars
  PROVE  LinesOK'
<1>1. Untouched \/ Written
  BY StepsWrite DEF LinesBase
<1>2. ASSUME NEW o \in DOMAIN taken, o \in DOMAIN taken', taken'[o] = taken[o]
      PROVE  TakenAsAsked(taken[o])'
  <2>1. PICK order : order = taken[o]
    OBVIOUS
  <2>2. TakenAsAsked(order)'
    BY <1>1, <2>1, OrderStaysAsAsked DEF LinesOK
  <2> QED BY <1>2, <2>1, <2>2 DEF TakenAsAsked
<1>3. CASE taken' = taken
  BY <1>2, <1>3 DEF LinesOK
<1>4. ASSUME NEW call, Wrote(call), call.command.kind = "confirm"
      PROVE  LinesOK'
  <2>1. PICK order : order = Frozen(call.command.capture, call.command, call.order)
    OBVIOUS
  <2>2. TakenAsAsked(order)'
    BY <1>4, <2>1, ConfirmedAsAsked
  <2>3. /\ DOMAIN taken' = DOMAIN taken \union {call.command.order}
        /\ taken'[call.command.order] = order
        /\ \A o \in DOMAIN taken : taken'[o] = taken[o]
    BY <1>4, <2>1, OrdersWritten
  <2>4. ASSUME NEW o \in DOMAIN taken' PROVE TakenAsAsked(taken[o])'
    <3>1. CASE o \in DOMAIN taken
      BY <1>2, <2>3, <3>1
    <3>2. CASE o = call.command.order
      BY <2>2, <2>3, <3>2 DEF TakenAsAsked
    <3> QED BY <2>3, <3>1, <3>2
  <2> QED BY <2>4 DEF LinesOK
<1>5. ASSUME NEW call, Wrote(call), call.command.kind # "confirm"
      PROVE  taken' = taken
  BY <1>5, OrdersWritten
<1> QED BY <1>1, <1>3, <1>4, <1>5 DEF Written, Untouched

LEMMA LinesAlways == Spec => [](Types /\ LinesBase /\ LinesOK)
<1>1. Init => Types /\ LinesBase /\ LinesOK
  BY TypesInit, VersionsInit, OrdersInit, PlansInit
  DEF LinesBase, LinesOK, Init
<1>2. Types /\ LinesBase /\ [Next]_vars => (Types /\ LinesBase)'
  BY TypesStep, StepsWrite, OrdersStep, PlansStep DEF LinesBase
<1>3. Types /\ LinesBase /\ LinesOK /\ [Next]_vars
        => (Types /\ LinesBase /\ LinesOK)'
  BY <1>2, LinesStep
<1> QED BY <1>1, <1>3, PTL DEF Spec

\* The order has the lines its capture was last given, however many stations
\* chose lines, changed the customer or confirmed meanwhile.
THEOREM OrdersHaveWhatWasAsked == Spec => []OrderIsLatestPlan
<1>1. ASSUME Types, LinesBase, LinesOK PROVE OrderIsLatestPlan
  <2>1. ASSUME NEW o \in DOMAIN taken
        PROVE  LET k == taken[o].capture
                   last == Max(PlanWrites(k) \union {0})
               IN taken[o].lines = AskedFor(k, taken[o].version, last)
    <3> DEFINE k == taken[o].capture
               S == PlanWrites(k) \union {0}
    <3>1. k \in Captures
      BY <1>1 DEF Types, TakenOK, OrderRows
    <3>2. PICK last \in Nat : LinesGiven(k, last)
                              /\ taken[o].lines = AskedFor(k, taken[o].version, last)
      BY <1>1 DEF LinesOK, TakenAsAsked
    <3>3. captures[k] # Null
      BY <1>1, <3>1 DEF LinesBase, OrdersOK, OrderedOnce, OrdersOf
    <3>4. Latest(k) \in Nat /\ Latest(k) = captures[k].version
      BY <1>1, <3>1, <3>3, LatestKnown DEF Latest
    <3>5. S = {v \in 1 .. Latest(k) : Writer(k, v).kind \in PlanKinds} \union {0}
      BY <3>4 DEF PlanWrites, PlanKinds
    <3>6. /\ last \in S /\ S \in SUBSET Nat /\ \A v \in S : v <= Latest(k)
          /\ \A v \in last + 1 .. Latest(k) : v \notin S
      BY <3>2, <3>4, <3>5 DEF LinesGiven
    <3> HIDE DEF S, k
    <3>7. Max(S) \in S /\ \A v \in S : v <= Max(S)
      BY <3>4, <3>6, GreatestOfMany
    <3>8. Max(S) = last
      <4>1. Max(S) \in Nat /\ last <= Max(S) /\ Max(S) <= Latest(k)
        BY <3>6, <3>7
      <4>2. Max(S) \notin last + 1 .. Latest(k)
        BY <3>6, <3>7
      <4> QED BY <3>2, <3>4, <4>1, <4>2
    <3> QED BY <3>2, <3>8 DEF S, k
  <2> QED BY <2>1 DEF OrderIsLatestPlan, AskedFor
<1> QED BY <1>1, LinesAlways, PTL

-----------------------------------------------------------------------------
(***************************************************************************)
(* A retry is recognised.                                                  *)
(***************************************************************************)

\* Lines were journaled with a menu that was published.
JournalBehind ==
  \A key \in DOMAIN journal :
    journal[key].command.kind \in PlanKinds => journal[key].plan.catalog <= head

RetryBase == VersionsOK /\ CallsSound

LEMMA JournalBehindStep ==
  ASSUME Types, RetryBase, JournalBehind, [Next]_vars
  PROVE  JournalBehind'
<1>1. Untouched \/ Written
  BY StepsWrite DEF RetryBase
<1>2. ASSUME NEW key \in DOMAIN journal, journal[key].command.kind \in PlanKinds
      PROVE  journal[key].plan.catalog \in Nat
  BY <1>2 DEF RetryBase, VersionsOK, EntryOK, PlanKinds, PlannedFor, Plans, Versions
<1>3. CASE Untouched
  <2>1. journal' = journal /\ head <= head'
    BY <1>3 DEF Untouched
  <2>2. head \in Nat /\ head' \in Nat
    BY TypesStep DEF Types
  <2> QED BY <1>2, <2>1, <2>2 DEF JournalBehind
<1>4. ASSUME NEW c \in Callers, NEW call, call = calls[c], call # Null, Wrote(call)
      PROVE  JournalBehind'
  <2> DEFINE command == call.command
             plan == IF command.kind \in PlanKinds THEN call.plan ELSE Null
             entry == [command |-> command, version |-> command.version + 1,
                       plan |-> plan]
  <2>1. journal' = Put(journal, command.key, entry) /\ head' = head
    BY <1>4 DEF Wrote, Writes, PlanKinds
  <2>2. entry.command = command /\ entry.plan = plan
    OBVIOUS
  <2>3. command.kind \in PlanKinds => plan.catalog <= head
    <3>1. command.kind \in PlanKinds /\ call.stage = "ready" =>
            call.plan.catalog <= head
      BY <1>4 DEF RetryBase, CallsSound, CallSound
    <3>2. command.kind \in PlanKinds => call.stage = "ready"
      BY <1>4 DEF Wrote, Writes, Leaves, PlanMoves, PlanKinds
    <3> QED BY <3>1, <3>2
  <2> HIDE DEF entry, plan
  <2>4. /\ DOMAIN journal' = DOMAIN journal \union {command.key}
        /\ journal'[command.key] = entry
        /\ \A x \in DOMAIN journal : x # command.key => journal'[x] = journal[x]
    BY <2>1 DEF Put
  <2> QED BY <2>1, <2>2, <2>3, <2>4 DEF JournalBehind
<1> QED BY <1>1, <1>3, <1>4 DEF Written

LEMMA RetriesAlways == Spec => [](Types /\ RetryBase /\ JournalBehind)
<1>1. Init => Types /\ RetryBase /\ JournalBehind
  BY TypesInit, VersionsInit, CallsSoundInit DEF RetryBase, JournalBehind, Init
<1>2. Types /\ RetryBase /\ JournalBehind /\ [Next]_vars
        => (Types /\ RetryBase /\ JournalBehind)'
  BY TypesStep, StepsWrite, CallsSoundStep, JournalBehindStep DEF RetryBase
<1> QED BY <1>1, <1>2, PTL DEF Spec

\* Plans made for one command differ in the menu they were made with, and only
\* when they repeat an earlier order.
LEMMA PlansOfOneCommand ==
  ASSUME NEW command, NEW one, NEW other,
         PlannedFor(command, one), PlannedFor(command, other),
         command.kind \in PlanKinds,
         command.kind = "select" \/ one.catalog = other.catalog
  PROVE  one = other
<1>1. one \in Plans /\ other \in Plans
  BY DEF PlannedFor
<1>2. /\ one.kind = other.kind /\ one.lines = other.lines
      /\ one.catalog = other.catalog /\ one.customer = other.customer
  BY DEF PlannedFor, PlanKinds
<1> QED BY <1>1, <1>2 DEF Plans

\* A command that was applied is recognised when it is sent again, whatever
\* changed meanwhile; only the repetition of an earlier order is not, once the
\* menu was published again.
THEOREM AppliedCommandsAreRecognised == Spec => []RetriesRecognised
<1>1. ASSUME Types, RetryBase, JournalBehind PROVE RetriesRecognised
  <2> SUFFICES ASSUME NEW c \in Callers, calls[c] # Null,
                      calls[c].stage = "ready", Journaled(calls[c].command),
                      Entry(calls[c].command).command = calls[c].command
               PROVE  \/ Recognised(c)
                      \/ /\ calls[c].command.kind = "repeat"
                         /\ head # Min({Entry(calls[c].command).plan.catalog,
                                        calls[c].plan.catalog})
    BY DEF RetriesRecognised
  <2> DEFINE command == calls[c].command
             entry == Entry(command)
             known == entry.plan.catalog
             made == calls[c].plan.catalog
  <2>1. CallTyped(calls[c])
    BY <1>1, CallKnown
  <2>2. EntryOK(command.key, entry)
    BY <1>1 DEF RetryBase, VersionsOK, Journaled, Entry
  <2>3. CASE command.kind \notin PlanKinds
    BY <2>2, <2>3 DEF EntryOK, Recognised, PlanSent, PlanKinds
  <2>4. CASE command.kind \in PlanKinds
    <3>1. PlannedFor(command, entry.plan) /\ PlannedFor(command, calls[c].plan)
      BY <2>1, <2>2, <2>4 DEF EntryOK, CallTyped, PlanKinds
    <3>2. PlanSent(c) = calls[c].plan
      BY <2>4 DEF PlanSent, PlanKinds
    <3>3. CASE command.kind = "select" \/ known = made
      <4>1. entry.plan = calls[c].plan
        BY <2>4, <3>1, <3>3, PlansOfOneCommand
      <4> QED BY <3>2, <4>1 DEF Recognised
    <3>4. CASE command.kind = "repeat" /\ known # made
      <4>1. known \in Nat /\ made \in Nat /\ head \in Nat
        BY <1>1, <3>1 DEF PlannedFor, Plans, Versions, Types
      <4>2. known <= head /\ made <= head
        BY <1>1, <2>4 DEF JournalBehind, RetryBase, CallsSound, CallSound,
           Journaled, Entry
      <4> DEFINE S == {known, made}
      <4> HIDE DEF known, made
      <4>3. \E x \in S : \A y \in S : x <= y
        BY <4>1
      <4>4. \A y \in S : Min(S) <= y
        BY <4>3 DEF Min
      <4>5. head # Min(S)
        BY <3>4, <4>1, <4>2, <4>4
      <4> QED BY <3>4, <4>5 DEF known, made
    <3> QED BY <2>4, <3>3, <3>4 DEF PlanKinds
  <2> QED BY <2>3, <2>4
<1> QED BY <1>1, RetriesAlways, PTL

-----------------------------------------------------------------------------
(***************************************************************************)
(* A live claim is respected.                                              *)
(***************************************************************************)

\* A command that is written is the only one its step journals.
LEMMA OnlyOneIsJournaled ==
  ASSUME Types, NEW call, Wrote(call), NEW k
  PROVE  \A command \in Writing(k) :
           command = call.command /\ call.command.capture = k
<1> DEFINE entry == [command |-> call.command,
                     version |-> call.command.version + 1,
                     plan |-> IF call.command.kind \in {"select", "repeat"}
                              THEN call.plan ELSE Null]
<1>1. journal' = Put(journal, call.command.key, entry)
  BY DEF Wrote, Writes
<1>2. entry.command = call.command
  OBVIOUS
<1> HIDE DEF entry
<1>3. /\ DOMAIN journal' \ DOMAIN journal \subseteq {call.command.key}
      /\ journal'[call.command.key].command = call.command
  BY <1>1, <1>2 DEF Put
<1> QED BY <1>3 DEF Writing

\* A lapsed claim is brought back to life by its owner's heartbeat.
LEMMA OnlyItsOwnerRevives ==
  ASSUME Types, [Next]_vars, Untouched, NEW k \in Captures, captures[k] # Null,
         ~captures[k].live, captures'[k].live
  PROVE  \E c \in Callers :
           /\ calls[c] # Null /\ calls'[c] = Null
           /\ calls[c].command.kind = "renew"
           /\ calls[c].command.member = captures[k].owner
<1>1. Moves
  BY StepsMove
<1>2. captures'[k] # captures[k]
  OBVIOUS
<1>3. ASSUME NEW j \in Captures, Flagged(j) PROVE j = k
  BY <1>2, <1>3 DEF Flagged, Types, RowsOK
<1>4. ASSUME NEW c \in Callers PROVE ~Writes(calls[c])
  <2>1. PICK call : call = calls[c]
    OBVIOUS
  <2>2. Writes(call) => call.command.key \in DOMAIN journal'
                        /\ call.command.key \notin DOMAIN journal
    BY DEF Writes, Put, Journaled
  <2> QED BY <2>1, <2>2 DEF Untouched
<1>5. ~Quiet /\ ~Published /\ \A j \in Captures : ~Lapsed(j) /\ ~QuoteEnds(j)
  BY <1>2, <1>3 DEF Quiet, draftTables, Published, Lapsed, QuoteEnds
<1>6. PICK c \in Callers : calls[c] # Null /\ Renewed(c)
  BY <1>1, <1>4, <1>5 DEF Moves, Served, Begun
<1>7. calls[c].command.capture = k
  BY <1>3, <1>6, CallKnown DEF Renewed
<1> QED BY <1>6, <1>7 DEF Renewed, Renewable

\* What becomes of a claim when its capture is written.
LEMMA WritesRespect ==
  ASSUME Types, NEW call, Wrote(call), NEW k, k = call.command.capture,
         captures[k] # Null, captures[k].attention = "claimed"
  PROVE  /\ captures[k].live /\ captures'[k].owner # captures[k].owner =>
              \/ call.command.member = captures[k].owner
              \/ call.command.kind = "take_over"
                 /\ call.command.member \in Managers
         /\ ~captures[k].live /\ captures'[k].live =>
              captures'[k].lease # captures[k].lease
<1> DEFINE command == call.command
           old == captures[k]
           new == captures'[k]
<1>1. /\ CommandOK(command) /\ k \in Captures /\ command.version \in Nat
      /\ command.kind # "create" /\ Current(old, command)
      /\ ClaimMoves(command, old, new) /\ command.kind # "renew"
      /\ new # Null /\ new.version = command.version + 1
      /\ ClaimOK(new)
  BY WroteKnown
<1>2. old \in CaptureRows /\ ClaimOK(old) /\ old.version = command.version
  BY <1>1, RowKnown DEF Current
<1>3. /\ old.lease \in Nat /\ old.owner # Null
      /\ old.lease <= command.version
  BY <1>1, <1>2 DEF ClaimOK, CaptureRows, Versions
<1> HIDE DEF old, new, command
<1>4. CASE command.kind \in Granting
  <2>1. new.lease # old.lease
    BY <1>1, <1>3, <1>4 DEF ClaimMoves
  <2>2. CASE command.kind \in {"claim", "resume"}
    <3>1. /\ old.attention = "claimed" /\ old.live => old.owner = command.member
      BY <1>1, <2>2 DEF ClaimMoves, Claimable
    <3> QED BY <2>1, <3>1 DEF old, new, command
  <2>3. CASE command.kind = "take_over"
    BY <1>1, <2>1, <2>3 DEF ClaimMoves, old, new, command
  <2>4. CASE command.kind = "transfer"
    <3>1. Holds(old, command)
      BY <1>1, <2>4 DEF ClaimMoves, EditKinds
    <3> QED BY <2>1, <3>1 DEF Holds, old, new, command
  <2> QED BY <1>1, <1>4, <2>2, <2>3, <2>4 DEF Granting
<1>5. CASE command.kind \notin Granting
  <2>1. Holds(old, command)
    BY <1>1, <1>5
    DEF ClaimMoves, CommandOK, AllKinds, TakingKinds, EditKinds, Granting
  <2>2. command.member = old.owner /\ old.live
    BY <2>1 DEF Holds
  <2> QED BY <2>2 DEF old, new, command
<1> QED BY <1>4, <1>5

\* A live claim leaves its owner only by what he does or by a manager taking it
\* over, and a claim that lapsed comes back to life only by its owner's station.
THEOREM LiveClaimsStand == Spec => ClaimsRespected
<1>1. ASSUME Types, VersionsOK, [Next]_vars, NEW k \in Captures,
             captures[k] # Null, captures[k].attention = "claimed"
      PROVE  ClaimRespected(k)
  <2>1. CASE Untouched
    <3>1. captures'[k].owner = captures[k].owner
      BY <1>1, <2>1 DEF Untouched, SameRow
    <3> QED BY <1>1, <2>1, <3>1, OnlyItsOwnerRevives DEF ClaimRespected
  <2>2. ASSUME NEW call, Wrote(call), call.command.capture # k
        PROVE  ClaimRespected(k)
    <3>1. captures'[k] = captures[k]
      BY <1>1, <2>2, WroteKnown
    <3> QED BY <3>1 DEF ClaimRespected
  <2>3. ASSUME NEW call, Wrote(call), call.command.capture = k
        PROVE  ClaimRespected(k)
    <3>1. /\ captures[k].live /\ captures'[k].owner # captures[k].owner =>
               \/ call.command.member = captures[k].owner
               \/ call.command.kind = "take_over"
                  /\ call.command.member \in Managers
          /\ ~captures[k].live /\ captures'[k].live =>
               captures'[k].lease # captures[k].lease
      BY <1>1, <2>3, WritesRespect
    <3>2. \A command \in Writing(k) : command = call.command
      BY <1>1, <2>3, OnlyOneIsJournaled
    <3> QED BY <3>1, <3>2 DEF ClaimRespected
  <2> QED BY <1>1, <2>1, <2>2, <2>3, StepsWrite DEF Written
<1>2. Types /\ VersionsOK /\ [Next]_vars
        => [\A k \in Captures : ClaimRespected(k)]_vars
  BY <1>1 DEF ClaimRespected
<1> QED BY <1>2, VersionsAlways, PTL DEF Spec, ClaimsRespected
=============================================================================
