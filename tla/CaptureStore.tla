---------------------------- MODULE CaptureStore ----------------------------
(***************************************************************************)
(* The commercial capture: an order being taken over the phone, at the     *)
(* counter or for delivery, before it is an order.  This module holds the  *)
(* tables the capture functions share, the requests being served and the   *)
(* shape of every capture command.                                         *)
(*                                                                         *)
(* A capture is edited by one member at a time, who holds a lease on it.   *)
(* Every command names the version and the lease its member saw; one SQL   *)
(* function looks its key up in the journal, locks the capture, compares   *)
(* both and writes the next version with its journal row: one action here. *)
(***************************************************************************)
EXTENDS FiniteSetsExt, SequencesExt

CONSTANTS
  Captures,      \* capture ids
  Members,       \* memberships that may take orders
  Managers,      \* those that may transfer and take over
  Customers,     \* customers of the directory
  Channels,      \* fulfillment channels in use
  Callers,       \* requests that may be served at once
  Kinds,         \* kinds of command the clients send
  LineCounts,    \* how many lines a selection may have
  Tenders,       \* cash tendered, or Null for none
  Fees,          \* fees of the delivery zones
  MaxCatalog,    \* bound: catalog versions published
  MaxCommands,   \* bound: commands journaled or being served
  Null

ASSUME CaptureAssumption ==
  /\ Managers \subseteq Members
  /\ Channels \subseteq {"dine_in", "counter", "pickup", "delivery"}
  /\ LineCounts \subseteq Nat /\ Fees \subseteq Nat
  /\ Tenders \subseteq Nat \union {Null}
  /\ MaxCatalog \in Nat \ {0} /\ MaxCommands \in Nat
  /\ Null \notin Nat \union Members \union Customers

VARIABLES
  captures,  \* app.capture_drafts: capture |-> Null or its row
  plans,     \* app.capture_repeat_order_plans: capture |-> Null or its row
  quotes,    \* app.capture_delivery_quotes: capture |-> Null or its row
  intents,   \* app.capture_payment_intents: capture |-> Null or its row
  taken,     \* app.orders with their frozen snapshots: order id |-> row
  head,      \* app.menu_catalog_heads: the catalog version in effect
  journal,   \* app.capture_command_events: key |-> entry
  calls      \* request being served |-> Null or its progress

draftTables == <<captures, plans, quotes, intents>>
vars == <<draftTables, taken, head, journal, calls>>

Versions == Nat \ {0}

\* live and recoverable say whether the lease and the recovery deadline are
\* still ahead of the server's clock; a lease, a party snapshot and an address
\* snapshot are named by the version that made them.
CaptureRows ==
  [status: {"draft", "confirmed", "no_sale"}, version: Versions,
   attention: {"unclaimed", "claimed", "held"},
   owner: Members \union {Null}, lease: Versions \union {Null},
   live: BOOLEAN, recoverable: BOOLEAN, autoRenew: BOOLEAN,
   channel: Channels \union {Null}, customer: Customers \union {Null},
   party: Versions \union {Null}, address: Versions \union {Null}]

PlanRows ==
  [kind: {"selection", "repeat"}, lines: Versions, catalog: Versions,
   customer: Customers \union {Null}, applied: Versions]

QuoteRows ==
  [id: Versions, address: Versions, covered: BOOLEAN, fee: Nat,
   live: BOOLEAN, applied: Versions]

Bases ==
  [catalog: Versions, lines: Versions, fee: Nat,
   quote: Versions \union {Null}, channel: Channels]

IntentRows ==
  [tender: Nat \union {Null}, basis: Bases, applied: Versions]

OrderRows ==
  [capture: Captures, version: Versions, channel: Channels, lines: Nat,
   catalog: Versions \union {Null}, charge: Nat \union {Null},
   address: Versions \union {Null}, quote: QuoteRows \union {Null},
   intent: IntentRows \union {Null}]

\* A row that is there is not the absence of one.
ASSUME CaptureRowAssumption ==
  Null \notin CaptureRows \union PlanRows \union QuoteRows \union IntentRows

-----------------------------------------------------------------------------
Put(f, key, value) ==
  [x \in DOMAIN f \union {key} |-> IF x = key THEN value ELSE f[x]]

\* A command, or a row, with more fields.
With(record, more) ==
  [field \in DOMAIN record \union DOMAIN more |->
     IF field \in DOMAIN record THEN record[field] ELSE more[field]]

\* What the lines of a plan cost in a catalog: prices rise from one version to
\* the next.
Priced(lines, catalog) == lines * catalog

\* The fee an order of this channel carries.
FeeOf(channel, quote) ==
  IF channel = "delivery" /\ quote # Null THEN quote.fee ELSE 0

QuoteOf(channel, quote) ==
  IF channel = "delivery" /\ quote # Null THEN quote.id ELSE Null

\* Everything the authoritative total is derived from; hashed in the code.
Basis(plan, channel, quote) ==
  [catalog |-> plan.catalog, lines |-> plan.lines,
   fee |-> FeeOf(channel, quote), quote |-> QuoteOf(channel, quote),
   channel |-> channel]

Covers(tender, total) == tender = Null \/ tender >= total

-----------------------------------------------------------------------------
(***************************************************************************)
(* The triggers on app.capture_drafts.                                     *)
(***************************************************************************)

\* Mutant: a selection goes with the customer too.
PlanKept_NoKind(old, new, plan) ==
  IF \/ new.status # "draft"
     \/ plan # Null /\ new.customer # old.customer
  THEN Null ELSE plan

\* A repeat plan goes with its customer; either kind goes with the draft.
PlanKept(old, new, plan) ==
  IF \/ new.status # "draft"
     \/ plan # Null /\ plan.kind = "repeat" /\ new.customer # old.customer
  THEN Null ELSE plan

QuoteKept(old, new, quote) ==
  IF \/ quote = Null
     \/ new.status # "draft"
     \/ new.channel # "delivery"
     \/ new.address # old.address
  THEN Null ELSE quote

IntentKept(new, intent) == IF new.status # "draft" THEN Null ELSE intent

-----------------------------------------------------------------------------
(***************************************************************************)
(* Commands and the calls that serve them.                                 *)
(***************************************************************************)
Journaled(command) == command.key \in DOMAIN journal

Entry(command) == journal[command.key]

Sent == {calls[c].command : c \in {d \in Callers : calls[d] # Null}}

Known == {journal[key].command : key \in DOMAIN journal}

FreshKey ==
  Min((1 .. MaxCommands + Cardinality(Callers))
        \ {command.key : command \in Sent \union Known})

\* What a call has read and computed so far.
NewCall(command) ==
  [command |-> command, stage |-> "received", plan |-> Null, quote |-> Null,
   basis |-> Null, channel |-> Null, order |-> Null]

At(c, stage, kinds) ==
  /\ calls[c] # Null
  /\ calls[c].stage = stage
  /\ calls[c].command.kind \in kinds

Proceed(c, call) ==
  /\ calls' = [calls EXCEPT ![c] = call]
  /\ UNCHANGED <<draftTables, taken, head, journal>>

\* The call ends and writes nothing: a replay, a conflict, a denial.
End(c) == Proceed(c, Null)

\* Mutant: all the service computed is part of the fingerprint.
PlanSent_Computed(c) ==
  IF calls[c].quote # Null THEN calls[c].quote
  ELSE IF calls[c].basis # Null THEN calls[c].basis ELSE calls[c].plan

\* What an entry remembers of the plan a command was sent with: a stored plan
\* is part of the command's fingerprint.
PlanSent(c) ==
  IF calls[c].command.kind \in {"select", "repeat"} THEN calls[c].plan
  ELSE Null

\* Whether SQL takes a call for the one it journaled under the same key.
Recognised(c) ==
  /\ Entry(calls[c].command).command = calls[c].command
  /\ Entry(calls[c].command).plan = PlanSent(c)

\* What an update of a capture to this row leaves in the other tables.
Effects(k, row) ==
  [plan |-> PlanKept(captures[k], row, plans[k]),
   quote |-> QuoteKept(captures[k], row, quotes[k]),
   intent |-> IntentKept(row, intents[k]),
   taken |-> taken]

\* One transaction: the row in its next version, what goes with it, and the
\* command's journal row.
Commit(c, row, effects) ==
  LET command == calls[c].command
      k == command.capture
      version == command.version + 1
  IN /\ captures' = [captures EXCEPT ![k] = [row EXCEPT !.version = version]]
     /\ plans' = [plans EXCEPT ![k] = effects.plan]
     /\ quotes' = [quotes EXCEPT ![k] = effects.quote]
     /\ intents' = [intents EXCEPT ![k] = effects.intent]
     /\ taken' = effects.taken
     /\ journal' = Put(journal, command.key,
          [command |-> command, plan |-> PlanSent(c), version |-> version])
     /\ calls' = [calls EXCEPT ![c] = Null]
     /\ UNCHANGED head

\* The shape of every capture function: the journal first, a recognised
\* command answered with what it stored and any other use of its key refused;
\* then the checks under the row's lock; then the writes.
Transaction(c, accepted, row, effects) ==
  IF ~Journaled(calls[c].command) /\ accepted THEN Commit(c, row, effects)
  ELSE End(c)

Serve(c, accepted, row) ==
  Transaction(c, accepted, row, Effects(calls[c].command.capture, row))
=============================================================================
