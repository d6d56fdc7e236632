------------------------------- MODULE Ledger -------------------------------
(***************************************************************************)
(* What the point of sale promises of money, whatever its requests         *)
(* interleave, repeat or lose: every amount is taken once, by a charge of  *)
(* one bill into one open till, and both move in the same step; a bill's   *)
(* stage always says how much of it was paid; a bill that is voided owes   *)
(* back what was paid and takes no more; a till that was closed stays as   *)
(* it was counted.                                                         *)
(***************************************************************************)
EXTENDS Integers

CONSTANTS
  Orders,    \* orders that may be billed
  Sessions,  \* tills that may be opened, one at a time
  Float      \* what a till is opened with

VARIABLES
  bills,   \* order |-> its bill
  tills,   \* session |-> its till
  charged  \* the keys charges were taken under

books == <<bills, tills, charged>>

NoBill == [stage |-> "none", due |-> 0, paid |-> 0, owed |-> 0]
NoTill == [state |-> "none", cash |-> 0, counted |-> 0]

\* The money of a bill is what its stage says.
Sound(bill) ==
  CASE bill.stage \in {"none", "unpaid"} -> bill.paid = 0
    [] bill.stage = "partial" -> 0 < bill.paid /\ bill.paid < bill.due
    [] bill.stage = "paid" -> bill.paid = bill.due
    [] bill.stage = "void" -> bill.owed = bill.paid

Init == /\ bills = [o \in Orders |-> NoBill]
        /\ tills = [s \in Sessions |-> NoTill]
        /\ charged = {}

\* A bill is opened, with nothing on it but what every bill of its kind has.
Bill(o) ==
  /\ bills[o].stage = "none"
  /\ bills' = [bills EXCEPT ![o] =
       [stage |-> "unpaid", due |-> bills'[o].due, paid |-> 0, owed |-> 0]]
  /\ bills'[o].due >= 0
  /\ UNCHANGED <<tills, charged>>

\* Something is put on the bill or taken off it, before it is paid.
Adjust(o) ==
  /\ bills[o].stage \in {"unpaid", "partial"}
  /\ bills' = [bills EXCEPT ![o].due = bills'[o].due]
  /\ bills'[o].due >= 0 /\ Sound(bills'[o])
  /\ UNCHANGED <<tills, charged>>

\* Some or all of what is left of a bill is paid, under a key of its own.  A
\* card leaves the till's cash alone, cash goes in with its tip.
Charge(o, s) ==
  LET into == tills'[s].cash - tills[s].cash
      left == bills[o].due - bills[o].paid
  IN /\ bills[o].stage \in {"unpaid", "partial"}
     /\ tills[s].state = "open"
     /\ \E amount \in 1 .. left :
          /\ bills' = [bills EXCEPT ![o] =
               [stage |-> IF amount = left THEN "paid" ELSE "partial",
                due |-> @.due, paid |-> @.paid + amount, owed |-> 0]]
          /\ into = 0 \/ into >= amount
     /\ tills' = [tills EXCEPT ![s].cash = @ + into]
     /\ \E key \in charged' \ charged : charged' = charged \union {key}

\* A bill is voided, paid or not: what was paid is owed back.
Void(o) ==
  /\ bills[o].stage \in {"unpaid", "partial", "paid"}
  /\ bills' = [bills EXCEPT ![o] =
       [stage |-> "void", due |-> 0, paid |-> @.paid, owed |-> @.paid]]
  /\ UNCHANGED <<tills, charged>>

OpenTill(s) ==
  /\ tills[s] = NoTill
  /\ \A other \in Sessions : tills[other].state # "open"
  /\ tills' = [tills EXCEPT ![s] =
       [state |-> "open", cash |-> Float, counted |-> 0]]
  /\ UNCHANGED <<bills, charged>>

CloseTill(s) ==
  /\ tills[s].state = "open"
  /\ tills' = [tills EXCEPT ![s] =
       [state |-> "closed", cash |-> @.cash, counted |-> @.cash]]
  /\ UNCHANGED <<bills, charged>>

Next == \/ \E o \in Orders : \/ Bill(o) \/ Adjust(o) \/ Void(o)
                             \/ \E s \in Sessions : Charge(o, s)
        \/ \E s \in Sessions : OpenTill(s) \/ CloseTill(s)

Spec == Init /\ [][Next]_books
=============================================================================
