--------------------------- MODULE CaptureCenter ---------------------------
(***************************************************************************)
(* The capture services with the stations that use them, the menu that is  *)
(* published meanwhile and the clock that ends leases, recovery deadlines  *)
(* and quotes.                                                             *)
(***************************************************************************)
EXTENDS CaptureSale

CONSTANT Repeats  \* how many lines a customer's earlier order may have

ASSUME RepeatsAssumption == Repeats \subseteq Nat

\* A station writes with what it shows of the capture.
Base(kind, key, k, m) ==
  [kind |-> kind, key |-> key, capture |-> k, member |-> m,
   version |-> captures[k].version]

Editing(kind, key, k, m) ==
  With(Base(kind, key, k, m), [lease |-> captures[k].lease])

Creations(key) ==
  {[kind |-> "create", key |-> key, capture |-> k, member |-> m,
    version |-> 0, channel |-> ch] :
     k \in {j \in Captures : captures[j] = Null}, m \in Members,
     ch \in Channels \union {Null}}

DeskCommands(key, k, m) ==
  {Base(kind, key, k, m) : kind \in {"claim", "resume", "take_over"}}
  \union
  {Editing(kind, key, k, m) : kind \in {"hold", "renew", "no_sale"}}
  \union
  {With(Editing("prefer", key, k, m), [autoRenew |-> b]) : b \in BOOLEAN}
  \union
  {With(Editing("transfer", key, k, m), [target |-> t]) : t \in Members}
  \union
  {With(Editing("autosave", key, k, m),
        [channel |-> ch, party |-> captures[k].party,
         address |-> captures[k].address]) : ch \in Channels \union {Null}}
  \union
  {With(Editing("customer", key, k, m), [customer |-> u]) :
     u \in Customers \union {Null}}
  \union
  {With(Editing("fulfillment", key, k, m),
        [party |-> captures[k].party, given |-> b]) : b \in BOOLEAN}
  \union
  {With(Editing("instructions", key, k, m), [given |-> b]) : b \in BOOLEAN}

SaleCommands(key, k, m) ==
  {With(Editing("select", key, k, m), [lines |-> n, catalog |-> head]) :
     n \in LineCounts}
  \union
  {With(Editing("repeat", key, k, m),
        [customer |-> captures[k].customer, lines |-> n]) : n \in Repeats}
  \union
  {Editing("quote", key, k, m)}
  \union
  {With(Editing("intent", key, k, m), [tender |-> t]) : t \in Tenders}
  \union
  {With(Editing("confirm", key, k, m), [order |-> key])}

NewCommands ==
  LET key == FreshKey
      begun == {k \in Captures : captures[k] # Null}
  IN {command \in
        Creations(key) \union
        UNION {UNION {DeskCommands(key, k, m) \union SaleCommands(key, k, m) :
                        m \in Members} : k \in begun} :
        command.kind \in Kinds}

Issue(c) ==
  /\ calls[c] = Null
  /\ Cardinality({command.key : command \in Sent \union Known}) < MaxCommands
  /\ \E command \in NewCommands : Proceed(c, NewCall(command))

\* A station that lost an answer, or tires of waiting for one, sends the same
\* command again.
Retry(c) ==
  /\ calls[c] = Null
  /\ \E command \in Sent \union Known :
       command.kind \in Kinds /\ Proceed(c, NewCall(command))

\* The request dies.
Drop(c) == calls[c] # Null /\ End(c)

LeaseLapses(k) ==
  /\ captures[k] # Null /\ captures[k].live
  /\ captures' = [captures EXCEPT ![k].live = FALSE]
  /\ UNCHANGED <<plans, quotes, intents, taken, head, journal, calls>>

RecoveryLapses(k) ==
  /\ captures[k] # Null /\ captures[k].status = "draft"
  /\ captures[k].recoverable
  /\ captures' = [captures EXCEPT ![k].recoverable = FALSE]
  /\ UNCHANGED <<plans, quotes, intents, taken, head, journal, calls>>

QuoteLapses(k) ==
  /\ quotes[k] # Null /\ quotes[k].live
  /\ quotes' = [quotes EXCEPT ![k].live = FALSE]
  /\ UNCHANGED <<captures, plans, intents, taken, head, journal, calls>>

Publish ==
  /\ head < MaxCatalog
  /\ head' = head + 1
  /\ UNCHANGED <<draftTables, taken, journal, calls>>

Init ==
  /\ captures = [k \in Captures |-> Null]
  /\ plans = [k \in Captures |-> Null]
  /\ quotes = [k \in Captures |-> Null]
  /\ intents = [k \in Captures |-> Null]
  /\ taken = <<>>
  /\ head = 1
  /\ journal = <<>>
  /\ calls = [c \in Callers |-> Null]

Next ==
  \/ \E c \in Callers :
       Issue(c) \/ Retry(c) \/ Drop(c) \/ DeskStep(c) \/ SaleStep(c)
  \/ \E k \in Captures : LeaseLapses(k) \/ RecoveryLapses(k) \/ QuoteLapses(k)
  \/ Publish

Spec == Init /\ [][Next]_vars
=============================================================================
