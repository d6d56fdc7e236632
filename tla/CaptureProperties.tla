------------------------- MODULE CaptureProperties -------------------------
(***************************************************************************)
(* What the capture services promise.                                      *)
(***************************************************************************)
EXTENDS CaptureCenter

\* The commands a capture was written by, and the one that wrote a version.
History(k) == {key \in DOMAIN journal : journal[key].command.capture = k}

Writer(k, version) ==
  journal[CHOOSE key \in History(k) : journal[key].version = version].command

Stages == {"received", "probed", "ready", "read", "checked"}

CallOK(call) ==
  /\ call.stage \in Stages
  /\ call.command.kind \in Kinds /\ call.command.capture \in Captures
  /\ call.command.member \in Members
  /\ call.stage = "received" =>
       call.plan = Null /\ call.quote = Null /\ call.order = Null

\* The tables hold rows of their types, and a capture has an owner and a lease
\* exactly while it is claimed, an address only with a customer's data.
CaptureTypeOK ==
  /\ \A k \in Captures :
       /\ plans[k] = Null \/ plans[k] \in PlanRows
       /\ quotes[k] = Null \/ quotes[k] \in QuoteRows
       /\ intents[k] = Null \/ intents[k] \in IntentRows
       /\ captures[k] = Null \/
            /\ captures[k] \in CaptureRows
            /\ captures[k].attention = "claimed" <=> captures[k].owner # Null
            /\ captures[k].attention = "claimed" <=> captures[k].lease # Null
            /\ captures[k].party = Null => captures[k].address = Null
       /\ captures[k] = Null \/ captures[k].status # "draft" =>
            plans[k] = Null /\ quotes[k] = Null /\ intents[k] = Null
  /\ \A o \in DOMAIN taken : taken[o] \in OrderRows
  /\ head \in 1 .. MaxCatalog
  /\ \A c \in Callers : calls[c] = Null \/ CallOK(calls[c])

\* Behind every version of a capture there is one journaled command, however
\* the stations raced, repeated themselves or lost their answers.
VersionsJournaled ==
  \A k \in Captures :
    LET last == IF captures[k] = Null THEN 0 ELSE captures[k].version
    IN /\ {journal[key].version : key \in History(k)} = 1 .. last
       /\ Cardinality(History(k)) = last

Granting == {"create", "claim", "resume", "take_over", "transfer"}

\* Whom a granting command gives the capture to.
Granted(command) ==
  IF command.kind = "transfer" THEN command.target ELSE command.member

\* Every version has one command behind it, and everything written on a
\* capture was written by the member who had been given it last, under the
\* lease that came with it, and not after he had put it aside: a station whose
\* lease lapsed and whose capture was claimed by another one cannot write with
\* what it had.
OnlyTheHolderWrites ==
  /\ VersionsJournaled
  /\ \A k \in Captures : \A key \in History(k) :
       LET command == journal[key].command
           earlier == {v \in 1 .. journal[key].version - 1 :
                         Writer(k, v).kind \in Granting}
       IN command.kind \notin Granting \ {"transfer"} =>
            LET granted == Max(earlier)
            IN /\ command.lease = granted
               /\ command.member = Granted(Writer(k, granted))
               /\ \A v \in granted + 1 .. journal[key].version - 1 :
                    Writer(k, v).kind # "hold"

OrdersOf(k) == {o \in DOMAIN taken : taken[o].capture = k}

\* A capture becomes at most one order, by its last write; one that was closed
\* without a sale, or is still a draft, has none.
OneOrderPerCapture ==
  \A k \in Captures :
    IF captures[k] # Null /\ captures[k].status = "confirmed"
    THEN /\ \E o \in DOMAIN taken :
              OrdersOf(k) = {o} /\ taken[o].version = captures[k].version - 1
         /\ Writer(k, captures[k].version).kind = "confirm"
    ELSE OrdersOf(k) = {}

\* A delivery is charged what was quoted for the address it goes to, by a
\* quote that covered the address and had not expired; no other order is
\* charged for delivery.
QuoteHonoured ==
  \A o \in DOMAIN taken :
    LET order == taken[o]
    IN IF order.channel = "delivery"
       THEN /\ order.address # Null /\ order.quote # Null
            /\ order.quote.address = order.address
            /\ order.charge = order.quote.fee
            /\ order.quote.covered /\ order.quote.live
       ELSE order.charge = Null

\* The quote is honoured; and the intent frozen with an order was made for that
\* order: its channel, its lines in the menu they are charged by, its delivery
\* charge; the cash the customer said he will pay with covers it.
MoneyAsAgreed ==
  /\ QuoteHonoured
  /\ \A o \in DOMAIN taken :
       LET order == taken[o]
           charge == IF order.charge = Null THEN 0 ELSE order.charge
       IN order.intent # Null =>
            /\ order.intent.basis =
                 [channel |-> order.channel, lines |-> order.lines,
                  catalog |-> order.catalog, fee |-> charge,
                  quote |-> QuoteOf(order.channel, order.quote)]
            /\ Covers(order.intent.tender,
                      Priced(order.lines, order.catalog) + charge)

PlanWrites(k) ==
  {v \in 1 .. captures[k].version : Writer(k, v).kind \in {"select", "repeat"}}

\* The order has the lines its capture was last given: of a selection however
\* long ago, none when that emptied it, and of a repeated order only when it
\* was the last thing done.
OrderIsLatestPlan ==
  \A o \in DOMAIN taken :
    LET k == taken[o].capture
        last == Max(PlanWrites(k) \union {0})
        asked == IF last = 0 THEN 0
                 ELSE IF \/ Writer(k, last).kind = "select"
                         \/ last = taken[o].version
                      THEN Writer(k, last).lines ELSE 0
    IN taken[o].lines = asked

\* The command a step journaled for a capture.
Writing(k) ==
  {journal'[key].command : key \in
     {x \in DOMAIN journal' \ DOMAIN journal :
        journal'[x].command.capture = k}}

\* What the steps do to a claim: a live one leaves its owner only by what the
\* owner does or by a manager taking it over; one that lapsed comes back to
\* life, as long as it is the same claim, only by its owner's own station.
ClaimRespected(k) ==
  captures[k] # Null /\ captures[k].attention = "claimed" =>
    /\ captures[k].live /\ captures'[k].owner # captures[k].owner =>
         \A command \in Writing(k) :
           \/ command.member = captures[k].owner
           \/ command.kind = "take_over" /\ command.member \in Managers
    /\ ~captures[k].live /\ captures'[k].live
         /\ captures'[k].lease = captures[k].lease =>
         \E c \in Callers :
           /\ calls[c] # Null /\ calls'[c] = Null
           /\ calls[c].command.kind = "renew"
           /\ calls[c].command.member = captures[k].owner

\* No step takes a live claim from its owner, or revives a lapsed one, behind
\* his back.
ClaimsRespected == [][\A k \in Captures : ClaimRespected(k)]_vars

\* A command that was applied is recognised when it is sent again, whatever
\* changed meanwhile, so its retry is answered and not refused.  The only
\* exception is the repetition of an earlier order: its lines are matched with
\* the menu before the journal is asked, so it is refused once the menu was
\* published again.
RetriesRecognised ==
  \A c \in Callers :
    LET call == calls[c]
    IN call # Null /\ call.stage = "ready" /\ Journaled(call.command) =>
         LET entry == Entry(call.command)
         IN \/ entry.command # call.command
            \/ Recognised(c)
            \/ /\ call.command.kind = "repeat"
               /\ head # Min({entry.plan.catalog, call.plan.catalog})
=============================================================================
