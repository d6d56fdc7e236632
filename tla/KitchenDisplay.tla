--------------------------- MODULE KitchenDisplay ---------------------------
(***************************************************************************)
(* One kitchen display, the realtime gateway that hints at changes, and an *)
(* order whose lines its station cooks.  Other displays and members change *)
(* the order at any time.  The display trusts what it lists, never what it *)
(* is told: a notification only makes it list again.                       *)
(***************************************************************************)
EXTENDS Naturals, Sequences, FiniteSets

CONSTANTS KdsLines,    \* the lines of the order
          KdsPage,     \* the events of a page
          KdsChanges,  \* bound: the changes made to the order
          KdsQueue     \* bound: the refreshes that may wait

ASSUME KdsAssumption ==
  /\ IsFiniteSet(KdsLines)
  /\ KdsChanges \in Nat
  /\ KdsPage \in Nat \ {0} /\ KdsQueue \in Nat \ {0}

VARIABLES
  kitchen,     \* the order: its version, the status and the writers of it
  publishing,  \* cursors of committed events nobody was told of yet
  display      \* the board of App.tsx

kdsVars == <<kitchen, publishing, display>>

\* A board that lists nothing.
NoListing ==
  [cursor |-> 0, version |-> 0, status |-> [l \in KdsLines |-> "pending"]]

\* What list_kds_tickets answers now: only an open order has tickets.
Listed ==
  [cursor |-> kitchen.cursor, version |-> kitchen.version,
   status |-> IF kitchen.open THEN kitchen.status ELSE NoListing.status]

NextOf == [sent |-> "preparing", preparing |-> "ready"]

\* Each line was added and sent, with an event for each, and the order was
\* created and opened, with none.
FirstCursor == 2 * Cardinality(KdsLines)
FirstVersion == FirstCursor + 2

MayChange == kitchen.version < FirstVersion + KdsChanges

\* A committed change of one line: a version, and an event to publish.
MoveTicket(l, to, by) ==
  /\ MayChange
  /\ kitchen' = [kitchen EXCEPT !.version = @ + 1, !.cursor = @ + 1,
                                !.status[l] = to,
                                !.writers = Append(@, by)]
  /\ publishing' = publishing \union {kitchen.cursor + 1}

\* Another display, or the waiters, change a line.
OthersMove(l) ==
  LET now == kitchen.status[l]
      next == CASE now = "pending" -> {"sent", "gone"}
                [] now = "ready" -> {"gone"}
                [] now = "gone" -> {}
                [] OTHER -> {NextOf[now], "gone"}
  IN \E to \in next : MoveTicket(l, to, "others") /\ UNCHANGED display

\* A payment, which the kitchen has no event of: the order is open no more.
Charge ==
  /\ MayChange
  /\ kitchen' = [kitchen EXCEPT !.version = @ + 1, !.open = FALSE,
                                !.writers = Append(@, "others")]
  /\ UNCHANGED <<publishing, display>>

-----------------------------------------------------------------------------
(* The gateway and the socket. *)

\* Mutant: a hint is dropped while a refresh is under way.
Queued_WhenIdle(board) ==
  IF board.phase = "idle" THEN [board EXCEPT !.queue = 1] ELSE board

\* A refresh more at the end of the chain.
Queued(board) == [board EXCEPT !.queue = @ + 1]

\* A subscribed client that answers gets the hint; others do not, and the hint
\* is volatile: one in the way of a lost connection is gone.
Publish(n) ==
  /\ n \in publishing
  /\ publishing' = publishing \ {n}
  /\ IF display.link \in {"joined", "live"}
     THEN \/ /\ display.queue < KdsQueue
             /\ display' = Queued([display EXCEPT
                             !.told = IF n > @ THEN n ELSE @])
          \/ display' = [display EXCEPT !.missed = @ \union {n}]
     ELSE UNCHANGED display
  /\ UNCHANGED kitchen

Link(from, to, label) ==
  /\ display.link \in from
  /\ display' = [display EXCEPT !.link = to, !.label = label]
  /\ UNCHANGED <<kitchen, publishing>>

Connect == Link({"off"}, "asking", "waiting")

\* The gateway admits the client; its answer is on the way.
Subscribe == Link({"asking"}, "joined", display.label)

\* Mutant: what changed before the subscription is left for later.
Acknowledged_Quiet(board) == [board EXCEPT !.link = "live", !.label = "live"]

Acknowledged(board) ==
  Queued([board EXCEPT !.link = "live", !.label = "live"])

Acknowledge ==
  /\ display.link = "joined"
  /\ display.queue < KdsQueue
  /\ display' = Acknowledged(display)
  /\ UNCHANGED <<kitchen, publishing>>

\* The connection is lost, and socket.io opens another.
Disconnect == Link({"asking", "joined", "live"}, "off", "waiting")

\* Access is gone: the gateway closes the socket, which nobody opens again.
Evict == Link({"asking", "joined", "live"}, "gone", "waiting")

\* The session is renewed: the effect runs again, with the chain it has.
Renew ==
  /\ display.queue < KdsQueue
  /\ display' = Queued([display EXCEPT !.link = "off", !.cursor = 0,
                          !.label = IF display.link \in {"off", "gone"}
                                    THEN @ ELSE "waiting"])
  /\ UNCHANGED <<kitchen, publishing>>

-----------------------------------------------------------------------------
(* The refresh: drain the events by cursor, then list the tickets. *)

Refreshing(from, board) ==
  /\ display.phase = from
  /\ display' = board
  /\ UNCHANGED <<kitchen, publishing>>

RefreshStarts ==
  /\ display.queue > 0
  /\ Refreshing("idle", [display EXCEPT !.queue = @ - 1, !.phase = "events"])

\* recover_kds_events: a page of what came after the cursor.
EventsRead ==
  LET end == display.cursor + KdsPage
  IN Refreshing("events",
       IF kitchen.cursor > end THEN [display EXCEPT !.cursor = end]
       ELSE [display EXCEPT !.cursor = kitchen.cursor, !.phase = "list"])

TicketsServed ==
  Refreshing("list", [display EXCEPT !.phase = "tickets", !.mail = Listed])

\* A refresh is over, and with it perhaps what the cook waits for.
Over(board, label) ==
  [board EXCEPT !.phase = "idle", !.mail = NoListing, !.label = label,
                !.work.waits = IF @ = 0 THEN 0 ELSE @ - 1]

TicketsRead ==
  Refreshing("tickets",
    Over([display EXCEPT !.shown = display.mail], "live"))

\* A request of the refresh fails; the chain goes on.
RefreshFails ==
  /\ display.phase # "idle"
  /\ display' = Over(display, "error")
  /\ UNCHANGED <<kitchen, publishing>>

Refresh ==
  RefreshStarts \/ EventsRead \/ TicketsServed \/ TicketsRead

-----------------------------------------------------------------------------
(* What the cook presses. *)

NoWork == [todo |-> {}, to |-> "ready", whole |-> FALSE, answer |-> "none",
           waits |-> 0, base |-> 0, version |-> 0]

\* busyItem or busyOrder: the buttons are disabled.
Busy ==
  \/ display.work.todo # {} \/ display.work.answer # "none"
  \/ display.work.waits > 0

Press(lines, action, whole) ==
  /\ ~ Busy
  /\ lines # {}
  /\ display' = [display EXCEPT !.work =
       [todo |-> lines, to |-> action, whole |-> whole, answer |-> "none",
        waits |-> 0, base |-> display.shown.version, version |-> display.shown.version]]
  /\ UNCHANGED <<kitchen, publishing>>

ShownAs(status) == {l \in KdsLines : display.shown.status[l] = status}

\* One line, or all the lines of the order in a status.
Act(l) ==
  /\ display.shown.status[l] \in DOMAIN NextOf
  /\ Press({l}, NextOf[display.shown.status[l]], FALSE)

ActOrder(status) == Press(ShownAs(status), NextOf[status], TRUE)

\* Mutant: the version is whatever the order has by now.
WriteVersion_Latest(work) == kitchen.version

\* runBatchTransition: each write sends the version the last one answered.
WriteVersion(work) == work.version

\* The API moves a line the display asked for, unless the order changed.
WriteServed(l) ==
  /\ display.work.answer = "none"
  /\ l \in display.work.todo
  /\ LET work == display.work
         from == IF work.to = "preparing" THEN "sent" ELSE "preparing"
     IN IF /\ kitchen.version = WriteVersion(work)
           /\ kitchen.status[l] = from
        THEN /\ MoveTicket(l, work.to, "display")
             /\ display' = [display EXCEPT
                  !.work.answer = "saved", !.work.todo = @ \ {l},
                  !.work.version = kitchen.version + 1]
        ELSE /\ display' = [display EXCEPT !.work.answer = "refused"]
             /\ UNCHANGED <<kitchen, publishing>>

Rest(board) == [board EXCEPT !.work = NoWork]

\* A whole order waits for its refresh, the last of the chain.
RestQueued(board) ==
  Queued([Rest(board) EXCEPT !.work.waits =
    IF ~ board.work.whole THEN 0
    ELSE board.queue + IF board.phase = "idle" THEN 1 ELSE 2])

\* Its answer arrives: the next line, or a refresh.  A conflict refreshes too.
Answered ==
  /\ display.work.answer # "none"
  /\ IF display.work.answer = "saved" /\ display.work.todo # {}
     THEN display' = [display EXCEPT !.work.answer = "none"]
     ELSE /\ display.queue < KdsQueue
          /\ display' = RestQueued(display)
  /\ UNCHANGED <<kitchen, publishing>>

\* The request or its answer is lost.  One line alone is not refreshed.
AnswerLost ==
  /\ display.work.todo # {} \/ display.work.answer # "none"
  /\ display.queue < KdsQueue
  /\ display' = IF display.work.whole THEN RestQueued(display)
                ELSE Rest(display)
  /\ UNCHANGED <<kitchen, publishing>>

-----------------------------------------------------------------------------
\* A board as it is mounted.
NewBoard ==
  [link |-> "off", label |-> "waiting", cursor |-> 0, queue |-> 1,
   phase |-> "idle", mail |-> NoListing, shown |-> NoListing,
   told |-> 0, missed |-> {}, work |-> NoWork]

\* Access is lost, or another station is shown for a while.
Remount ==
  /\ display' = NewBoard
  /\ UNCHANGED <<kitchen, publishing>>

KdsInit ==
  /\ kitchen = [version |-> FirstVersion, cursor |-> FirstCursor,
                open |-> TRUE,
                writers |-> [v \in 1 .. FirstVersion |-> "others"],
                status |-> [l \in KdsLines |-> "sent"]]
  /\ publishing = {}
  /\ display = NewBoard

KdsNext ==
  \/ \E l \in KdsLines : OthersMove(l) \/ Act(l) \/ WriteServed(l)
  \/ Charge
  \/ \E n \in publishing : Publish(n)
  \/ Connect \/ Subscribe \/ Acknowledge \/ Disconnect \/ Evict
  \/ Renew \/ Remount
  \/ Refresh \/ RefreshFails
  \/ \E status \in DOMAIN NextOf : ActOrder(status)
  \/ Answered \/ AnswerLost

KdsSpec == KdsInit /\ [][KdsNext]_kdsVars
=============================================================================
