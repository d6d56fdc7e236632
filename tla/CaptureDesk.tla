---------------------------- MODULE CaptureDesk ----------------------------
(***************************************************************************)
(* Who holds a capture, and what its holder writes on it.  Every operation *)
(* here is one SQL function.                                               *)
(***************************************************************************)
EXTENDS CaptureStore

\* The version a member saw, of a capture that is still a draft.
Current(row, command) ==
  /\ row # Null
  /\ row.status = "draft"
  /\ row.version = command.version

\* Mutant: whoever shows the lease may write.
Holds_AnyMember(row, command) ==
  /\ Current(row, command)
  /\ row.attention = "claimed" /\ row.lease = command.lease /\ row.live

\* Every command that edits needs the claim its member was given.
Holds(row, command) ==
  /\ Current(row, command)
  /\ row.attention = "claimed"
  /\ row.owner = command.member
  /\ row.lease = command.lease
  /\ row.live

\* A claim given by the write of this version to a member.
Claimed(row, command, owner) ==
  [row EXCEPT !.attention = "claimed", !.owner = owner,
              !.lease = command.version + 1, !.live = TRUE]

\* Mutant: the lease outlives the claim.
Released_KeepsLease(row, attention) ==
  [row EXCEPT !.attention = attention, !.owner = Null, !.live = FALSE]

Released(row, attention) ==
  [row EXCEPT !.attention = attention, !.owner = Null, !.lease = Null,
              !.live = FALSE]

\* A new capture, claimed by who made it.
Create(c) ==
  LET command == calls[c].command
      row == [status |-> "draft", version |-> 1, attention |-> "claimed",
              owner |-> command.member, lease |-> 1, live |-> TRUE,
              recoverable |-> TRUE, autoRenew |-> FALSE,
              channel |-> command.channel, customer |-> Null,
              party |-> Null, address |-> Null]
  IN /\ At(c, "received", {"create"})
     /\ Serve(c, captures[command.capture] = Null, row)

\* The holder puts the capture aside.
Hold(c) ==
  LET row == captures[calls[c].command.capture]
  IN /\ At(c, "received", {"hold"})
     /\ Serve(c, Holds(row, calls[c].command), Released(row, "held"))

\* Mutant: whoever attends the capture loses it.
Claimable_Attended(row, command) ==
  /\ Current(row, command)
  /\ command.kind = "resume" => row.attention = "held"
  /\ row.recoverable \/ row.autoRenew

\* A member takes a capture nobody else is attending: a resume only one put
\* aside.  One past its recovery deadline comes back only if it renews itself.
Claimable(row, command) ==
  /\ Current(row, command)
  /\ command.kind = "resume" => row.attention = "held"
  /\ row.attention = "claimed" /\ row.live => row.owner = command.member
  /\ row.recoverable \/ row.autoRenew

Claim(c) ==
  LET command == calls[c].command
      row == captures[command.capture]
  IN /\ At(c, "received", {"claim", "resume"})
     /\ Serve(c, Claimable(row, command),
              [Claimed(row, command, command.member)
                 EXCEPT !.recoverable = TRUE])

\* The holder chooses whether the recovery deadline renews itself.
Prefer(c) ==
  LET command == calls[c].command
      row == captures[command.capture]
  IN /\ At(c, "received", {"prefer"})
     /\ Serve(c, Holds(row, command),
              [row EXCEPT !.autoRenew = command.autoRenew])

\* The heartbeat: the lease of an active capture is prolonged, even one that
\* has lapsed, as long as nobody else has claimed it.  It has no version and
\* no journal row.
Renewable(row, command) ==
  /\ row # Null
  /\ row.status = "draft" /\ row.attention = "claimed" /\ row.recoverable
  /\ row.owner = command.member /\ row.lease = command.lease

Renew(c) ==
  LET k == calls[c].command.capture
  IN /\ At(c, "received", {"renew"})
     /\ captures' = IF Renewable(captures[k], calls[c].command)
                    THEN [captures EXCEPT ![k].live = TRUE] ELSE captures
     /\ calls' = [calls EXCEPT ![c] = Null]
     /\ UNCHANGED <<plans, quotes, intents, taken, head, journal>>

\* A manager gives the capture held by himself to another member.
Transfer(c) ==
  LET command == calls[c].command
      row == captures[command.capture]
  IN /\ At(c, "received", {"transfer"})
     /\ Serve(c, /\ command.member \in Managers
                 /\ command.target # command.member
                 /\ Holds(row, command),
              Claimed(row, command, command.target))

\* A manager takes a capture another member is attending.
TakeOver(c) ==
  LET command == calls[c].command
      row == captures[command.capture]
  IN /\ At(c, "received", {"take_over"})
     /\ Serve(c, /\ command.member \in Managers
                 /\ Current(row, command)
                 /\ row.attention = "claimed" /\ row.live
                 /\ row.owner # command.member,
              Claimed(row, command, command.member))

\* The channel the station shows is saved, with the snapshots it knows; it
\* prolongs the lease.
Autosave(c) ==
  LET command == calls[c].command
      row == captures[command.capture]
  IN /\ At(c, "received", {"autosave"})
     /\ Serve(c, /\ command.address # Null =>
                      command.party # Null /\ command.channel = "delivery"
                 /\ Holds(row, command)
                 /\ row.party = command.party
                 /\ row.address = command.address,
              [row EXCEPT !.channel = command.channel])

\* A customer's data is frozen on the capture, or taken off it; the address
\* goes with the customer it was of.
SetCustomer(c) ==
  LET command == calls[c].command
      row == captures[command.capture]
  IN /\ At(c, "received", {"customer"})
     /\ Serve(c, Holds(row, command),
              [row EXCEPT !.customer = command.customer,
                          !.party = IF command.customer = Null THEN Null
                                    ELSE command.version + 1,
                          !.address = Null])

\* One of the customer's addresses is frozen on the capture, or taken off it.
SetFulfillment(c) ==
  LET command == calls[c].command
      row == captures[command.capture]
  IN /\ At(c, "received", {"fulfillment"})
     /\ Serve(c, /\ Holds(row, command)
                 /\ row.customer # Null /\ row.party = command.party,
              [row EXCEPT !.address = IF command.given
                                      THEN command.version + 1 ELSE Null])

\* Words for the courier; their text is left out.
SetInstructions(c) ==
  LET command == calls[c].command
      row == captures[command.capture]
  IN /\ At(c, "received", {"instructions"})
     /\ Serve(c, /\ Holds(row, command)
                 /\ command.given => row.channel = "delivery",
              row)

\* The capture ends without an order.
NoSale(c) ==
  LET row == captures[calls[c].command.capture]
  IN /\ At(c, "received", {"no_sale"})
     /\ Serve(c, Holds(row, calls[c].command),
              [Released(row, "unclaimed") EXCEPT !.status = "no_sale"])

DeskStep(c) ==
  \/ Create(c) \/ Hold(c) \/ Claim(c) \/ Prefer(c) \/ Renew(c)
  \/ Transfer(c) \/ TakeOver(c) \/ Autosave(c) \/ SetCustomer(c)
  \/ SetFulfillment(c) \/ SetInstructions(c) \/ NoSale(c)
=============================================================================
