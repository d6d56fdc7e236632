------------------------ MODULE KitchenDisplayProofs ------------------------
(***************************************************************************)
(* Proofs about KitchenDisplay: orders of any size, pages and queues of    *)
(* any length, any number of changes by anybody.                           *)
(***************************************************************************)
EXTENDS DeviceProperties, FiniteSetTheorems, SequenceTheorems, TLAPS

\* What the kitchen and the board hold.
LineStatuses == {"pending", "sent", "preparing", "ready", "gone"}

Kitchens == [version : Nat, cursor : Nat, open : BOOLEAN,
             writers : Seq({"others", "display"}),
             status : [KdsLines -> LineStatuses]]

Listings == [cursor : Nat, version : Nat, status : [KdsLines -> LineStatuses]]

Works == [todo : SUBSET KdsLines, to : {"preparing", "ready"}, whole : BOOLEAN,
          answer : {"none", "saved", "refused"}, waits : Nat,
          base : Nat, version : Nat]

Boards == [link : {"off", "asking", "joined", "live", "gone"},
           label : {"waiting", "live", "error"}, cursor : Nat, queue : Nat,
           phase : {"idle", "events", "list", "tickets"},
           mail : Listings, shown : Listings, told : Nat,
           missed : SUBSET Nat, work : Works]

KdsTypeOK ==
  /\ kitchen \in Kitchens
  /\ publishing \subseteq Nat
  /\ display \in Boards

\* A version has one writer, and no version is known before it is written.
VersionsWritten ==
  /\ Len(kitchen.writers) = kitchen.version
  /\ display.mail.version <= kitchen.version
  /\ display.shown.version <= kitchen.version
  /\ display.work.version <= kitchen.version

\* What came after cursor c is still to be told, or was told in vain.
Covered(c) ==
  c + 1 .. kitchen.cursor \subseteq publishing \union display.missed

\* A subscribed display with no refresh queued: what it was just served, and
\* what it shows if no refresh failed since, misses nothing it was told of.
ChainCovers ==
  display.link = "live" /\ display.queue = 0 =>
    /\ display.phase = "tickets" => Covered(display.mail.cursor)
    /\ display.phase = "idle" /\ display.label = "live"
         => Covered(display.shown.cursor)

\* The inductive invariant of the display.
KdsInv == KdsTypeOK /\ VersionsWritten /\ WritesUnbroken /\ ChainCovers

-----------------------------------------------------------------------------
(***************************************************************************)
(* The order in the kitchen.                                               *)
(***************************************************************************)

\* The listing of a board that lists nothing is a listing, and so is what
\* list_kds_tickets answers.
LEMMA ListingTypes ==
  /\ NoListing \in Listings /\ NoListing.version = 0
  /\ KdsTypeOK => /\ Listed \in Listings
                  /\ Listed.version = kitchen.version
                  /\ Listed.cursor = kitchen.cursor
<1>1. NoListing \in Listings /\ NoListing.version = 0
  BY DEF NoListing, Listings, LineStatuses
<1>2. NoListing.status \in [KdsLines -> LineStatuses]
  BY <1>1 DEF Listings
<1> QED BY <1>1, <1>2 DEF KdsTypeOK, Kitchens, Listed, Listings

\* No work done and no work asked.
LEMMA NoWorkType == NoWork \in Works /\ NoWork.version = 0 /\ NoWork.base = 0
BY DEF NoWork, Works

\* The fields of a board.
LEMMA BoardFields ==
  ASSUME NEW board \in Boards
  PROVE  /\ board.cursor \in Nat /\ board.queue \in Nat
         /\ board.queue + 1 \in Nat
         /\ board.mail \in Listings /\ board.shown \in Listings
         /\ board.mail.cursor \in Nat /\ board.mail.version \in Nat
         /\ board.shown.cursor \in Nat /\ board.shown.version \in Nat
         /\ board.missed \subseteq Nat
         /\ board.work \in Works
         /\ board.work.base \in Nat /\ board.work.version \in Nat
BY DEF Boards, Listings, Works

\* A committed change adds a version with its writer, and at most one event,
\* which is to be published: what a board had covered, it has still covered.
LEMMA OrderChanges ==
  ASSUME KdsInv, NEW by \in {"others", "display"},
         \/ \E l \in KdsLines, to \in LineStatuses : MoveTicket(l, to, by)
         \/ Charge /\ by = "others"
  PROVE  /\ kitchen' \in Kitchens
         /\ publishing' \subseteq Nat
         /\ kitchen'.version = kitchen.version + 1
         /\ Len(kitchen'.writers) = kitchen'.version
         /\ kitchen'.writers[kitchen'.version] = by
         /\ \A v \in 1 .. kitchen.version :
              kitchen'.writers[v] = kitchen.writers[v]
         /\ publishing \subseteq publishing'
         /\ \A c \in Nat : c + 1 .. kitchen'.cursor \subseteq
              (c + 1 .. kitchen.cursor) \union publishing'
<1>1. /\ kitchen \in Kitchens /\ kitchen.version \in Nat
      /\ kitchen.cursor \in Nat /\ kitchen.writers \in Seq({"others", "display"})
      /\ Len(kitchen.writers) = kitchen.version
      /\ kitchen.version + 1 \in Nat /\ kitchen.cursor + 1 \in Nat
  BY DEF KdsInv, KdsTypeOK, VersionsWritten, Kitchens
<1> DEFINE written == Append(kitchen.writers, by)
<1>2. /\ written \in Seq({"others", "display"})
      /\ Len(written) = kitchen.version + 1
      /\ written[kitchen.version + 1] = by
      /\ \A v \in 1 .. kitchen.version : written[v] = kitchen.writers[v]
  BY <1>1, AppendProperties
<1> HIDE DEF written
<1>3. /\ kitchen' \in Kitchens
      /\ kitchen'.writers = written
      /\ kitchen'.version = kitchen.version + 1
      /\ publishing \subseteq publishing' /\ publishing' \subseteq Nat
      /\ \/ kitchen'.cursor = kitchen.cursor
         \/ kitchen'.cursor = kitchen.cursor + 1
            /\ kitchen.cursor + 1 \in publishing'
  <2>1. ASSUME NEW l \in KdsLines, NEW to \in LineStatuses,
               MoveTicket(l, to, by)
        PROVE  /\ kitchen' \in Kitchens
               /\ kitchen'.writers = written
               /\ kitchen'.version = kitchen.version + 1
               /\ publishing \subseteq publishing' /\ publishing' \subseteq Nat
               /\ kitchen'.cursor = kitchen.cursor + 1
               /\ kitchen.cursor + 1 \in publishing'
    <3>1. kitchen' = [kitchen EXCEPT !.version = @ + 1, !.cursor = @ + 1,
                                     !.status[l] = to, !.writers = written]
      BY <2>1 DEF MoveTicket, written
    <3>2. publishing' = publishing \union {kitchen.cursor + 1}
      BY <2>1 DEF MoveTicket
    <3>3. [kitchen.status EXCEPT ![l] = to] \in [KdsLines -> LineStatuses]
      BY <1>1 DEF Kitchens
    <3>4. kitchen' \in Kitchens
      BY <1>1, <1>2, <3>1, <3>3 DEF Kitchens
    <3> QED BY <1>1, <3>1, <3>2, <3>4 DEF Kitchens, KdsInv, KdsTypeOK
  <2>2. CASE Charge /\ by = "others"
    <3>1. kitchen' = [kitchen EXCEPT !.version = @ + 1, !.open = FALSE,
                                     !.writers = written]
      BY <2>2 DEF Charge, written
    <3> QED BY <1>1, <1>2, <2>2, <3>1 DEF Kitchens, Charge, KdsInv, KdsTypeOK
  <2> QED BY <2>1, <2>2
<1>4. ASSUME NEW c \in Nat, NEW n \in c + 1 .. kitchen'.cursor
      PROVE  n \in (c + 1 .. kitchen.cursor) \union publishing'
  BY <1>1, <1>3
<1> QED BY <1>1, <1>2, <1>3, <1>4

\* A change by somebody else keeps the invariant.
LEMMA OthersKeep ==
  ASSUME KdsInv, UNCHANGED display,
         \/ \E l \in KdsLines, to \in LineStatuses : MoveTicket(l, to, "others")
         \/ Charge
  PROVE  KdsInv'
<1>1. display \in Boards /\ kitchen.version \in Nat /\ kitchen.cursor \in Nat
  BY DEF KdsInv, KdsTypeOK, Kitchens
<1>2. /\ display'.mail.version \in Nat /\ display'.shown.version \in Nat
      /\ display'.work.base \in Nat /\ display'.work.version \in Nat
      /\ display.mail.cursor \in Nat /\ display.shown.cursor \in Nat
  BY <1>1, BoardFields
<1>3. KdsTypeOK' /\ VersionsWritten'
  BY <1>1, <1>2, OrderChanges DEF KdsInv, KdsTypeOK, VersionsWritten
<1>4. WritesUnbroken'
  <2>1. ASSUME NEW v \in display.work.base + 1 .. display.work.version
        PROVE  kitchen'.writers[v] = "display"
    <3>1. v \in 1 .. kitchen.version
      BY <1>1, <1>2 DEF KdsInv, VersionsWritten
    <3> QED BY <3>1, OrderChanges DEF KdsInv, WritesUnbroken
  <2> QED BY <2>1 DEF WritesUnbroken
<1>5. \A c \in Nat : Covered(c) => Covered(c)'
  BY OrderChanges DEF Covered
<1>6. ChainCovers'
  BY <1>2, <1>5 DEF KdsInv, ChainCovers
<1> QED BY <1>3, <1>4, <1>6 DEF KdsInv

\* OthersMove is a change by somebody else.
LEMMA OthersMoveKeeps ==
  ASSUME KdsInv, NEW l \in KdsLines, OthersMove(l)
  PROVE  KdsInv'
<1>1. kitchen.status[l] \in LineStatuses
  BY DEF KdsInv, KdsTypeOK, Kitchens
<1>2. PICK to : /\ to \in {"sent", "gone", "preparing", "ready"}
                /\ MoveTicket(l, to, "others") /\ UNCHANGED display
  BY <1>1 DEF OthersMove, NextOf, LineStatuses
<1> QED BY <1>2, OthersKeep DEF LineStatuses

\* A payment is, too.
LEMMA ChargeKeeps ==
  ASSUME KdsInv, Charge
  PROVE  KdsInv'
BY OthersKeep DEF Charge

-----------------------------------------------------------------------------
(***************************************************************************)
(* The gateway, the socket and the refresh.                                *)
(***************************************************************************)

\* A step of the board alone keeps the invariant when it changes no version it
\* works with, and has a refresh queued or is still covered.
LEMMA BoardKeeps ==
  ASSUME KdsInv, UNCHANGED <<kitchen, publishing>>, display' \in Boards,
         display'.mail.version <= kitchen.version,
         display'.shown.version <= kitchen.version,
         \/ display'.work.version = display.work.version
            /\ display'.work.base = display.work.base
         \/ display'.work.version <= kitchen.version
            /\ display'.work.base = display'.work.version,
         ChainCovers'
  PROVE  KdsInv'
<1>1. KdsTypeOK' /\ VersionsWritten'
  BY DEF KdsInv, KdsTypeOK, VersionsWritten
<1>2. WritesUnbroken'
  <2>1. CASE /\ display'.work.version = display.work.version
             /\ display'.work.base = display.work.base
    BY <2>1 DEF KdsInv, WritesUnbroken
  <2>2. CASE display'.work.base = display'.work.version
    <3>1. display'.work.version \in Nat
      BY BoardFields
    <3>2. display'.work.base + 1 .. display'.work.version = {}
      BY <2>2, <3>1
    <3> QED BY <3>2 DEF WritesUnbroken
  <2> QED BY <2>1, <2>2
<1> QED BY <1>1, <1>2 DEF KdsInv

\* A hint that is told queues a refresh, and one that is not told is missed.
LEMMA PublishKeeps ==
  ASSUME KdsInv, NEW n \in publishing, Publish(n)
  PROVE  KdsInv'
<1>1. display \in Boards /\ n \in Nat
  BY DEF KdsInv, KdsTypeOK
<1>2. /\ display' \in Boards
      /\ display'.mail = display.mail /\ display'.shown = display.shown
      /\ display'.work = display.work /\ display'.link = display.link
      /\ display'.phase = display.phase /\ display'.label = display.label
      /\ \/ display'.queue = display.queue + 1
         \/ /\ display'.queue = display.queue
            /\ display'.missed = display.missed \union {n}
         \/ /\ display' = display
            /\ display.link # "live"
  <2>1. CASE display.link \notin {"joined", "live"}
    BY <1>1, <2>1 DEF Publish
  <2>2. CASE display' = [display EXCEPT !.missed = @ \union {n}]
    BY <1>1, <2>2 DEF Boards
  <2>3. CASE display' = Queued([display EXCEPT
                                  !.told = IF n > @ THEN n ELSE @])
    <3> DEFINE told == IF n > display.told THEN n ELSE display.told
    <3>1. told \in Nat
      BY <1>1 DEF Boards
    <3> HIDE DEF told
    <3>2. display' = [display EXCEPT !.told = told, !.queue = @ + 1]
      BY <1>1, <2>3 DEF Queued, told, Boards
    <3>3. display.queue + 1 \in Nat
      BY <1>1, BoardFields
    <3> QED BY <1>1, <3>1, <3>2, <3>3 DEF Boards
  <2> QED BY <2>1, <2>2, <2>3 DEF Publish
<1>3. kitchen' = kitchen /\ publishing' = publishing \ {n}
  BY DEF Publish
<1>4. KdsTypeOK' /\ VersionsWritten' /\ WritesUnbroken'
  BY <1>2, <1>3 DEF KdsInv, KdsTypeOK, VersionsWritten, WritesUnbroken
<1>5. ChainCovers'
  <2> SUFFICES ASSUME display'.link = "live", display'.queue = 0
               PROVE  /\ display'.phase = "tickets" =>
                           Covered(display.mail.cursor)'
                      /\ display'.phase = "idle" /\ display'.label = "live" =>
                           Covered(display.shown.cursor)'
    BY <1>2 DEF ChainCovers, Covered
  <2>1. display.queue \in Nat
    BY <1>1, BoardFields
  <2>2. display.queue = 0 /\ display'.missed = display.missed \union {n}
    BY <1>2, <2>1
  <2>3. \A c : Covered(c) => c + 1 .. kitchen'.cursor \subseteq
                                publishing' \union display'.missed
    BY <1>3, <2>2 DEF Covered
  <2> QED BY <1>2, <1>3, <2>2, <2>3 DEF KdsInv, ChainCovers, Covered
<1> QED BY <1>4, <1>5 DEF KdsInv

\* Connecting, subscribing and losing the connection.
LEMMA LinkKeeps ==
  ASSUME KdsInv, Connect \/ Subscribe \/ Disconnect \/ Evict
  PROVE  KdsInv'
<1>1. display \in Boards
  BY DEF KdsInv, KdsTypeOK
<1>2. PICK to \in {"off", "asking", "joined", "gone"},
           label \in {"waiting", "live", "error"} :
        display' = [display EXCEPT !.link = to, !.label = label]
  BY <1>1 DEF Connect, Subscribe, Disconnect, Evict, Link, Boards
<1>3. /\ display' \in Boards
      /\ display'.mail = display.mail /\ display'.shown = display.shown
      /\ display'.work = display.work /\ display'.link # "live"
  BY <1>1, <1>2 DEF Boards
<1>4. UNCHANGED <<kitchen, publishing>>
  BY DEF Connect, Subscribe, Disconnect, Evict, Link
<1> QED BY <1>3, <1>4, BoardKeeps DEF ChainCovers, KdsInv, VersionsWritten

\* A subscription acknowledged queues the refresh that closes the gap.
LEMMA AcknowledgeKeeps ==
  ASSUME KdsInv, Acknowledge \/ Renew
  PROVE  KdsInv'
<1>1. display \in Boards
  BY DEF KdsInv, KdsTypeOK
<1>2. PICK link \in {"off", "live"}, label \in {"waiting", "live", "error"},
           cursor \in Nat :
        display' = [display EXCEPT !.link = link, !.label = label,
                                   !.cursor = cursor, !.queue = @ + 1]
  <2>1. CASE Acknowledge
    <3>1. display.cursor \in Nat
      BY <1>1, BoardFields
    <3>2. display' = [display EXCEPT !.link = "live", !.label = "live",
                                     !.cursor = @, !.queue = @ + 1]
      BY <1>1, <2>1 DEF Acknowledge, Acknowledged, Queued, Boards
    <3> QED BY <3>1, <3>2
  <2>2. CASE Renew
    <3> DEFINE label == IF display.link \in {"off", "gone"}
                          THEN display.label ELSE "waiting"
    <3>1. label \in {"waiting", "live", "error"}
      BY <1>1 DEF Boards
    <3>2. display' = [display EXCEPT !.link = "off", !.label = label,
                                     !.cursor = 0, !.queue = @ + 1]
      BY <1>1, <2>2 DEF Renew, Queued, Boards
    <3> HIDE DEF label
    <3> QED BY <3>1, <3>2
  <2> QED BY <2>1, <2>2
<1>3. /\ display' \in Boards
      /\ display'.mail = display.mail /\ display'.shown = display.shown
      /\ display'.work = display.work /\ display'.queue > 0
  <2>1. display.queue \in Nat /\ display.queue + 1 \in Nat
    BY <1>1, BoardFields
  <2>2. display.queue + 1 > 0
    BY <2>1
  <2> QED BY <1>1, <1>2, <2>1, <2>2 DEF Boards
<1>4. UNCHANGED <<kitchen, publishing>>
  BY DEF Acknowledge, Renew
<1> QED BY <1>3, <1>4, BoardKeeps DEF ChainCovers, KdsInv, VersionsWritten

\* A board as it is mounted has a refresh queued.
LEMMA RemountKeeps ==
  ASSUME KdsInv, Remount
  PROVE  KdsInv'
<1>1. /\ NewBoard \in Boards /\ NewBoard.mail = NoListing
      /\ NewBoard.shown = NoListing /\ NewBoard.work = NoWork
      /\ NewBoard.queue = 1
  BY ListingTypes, NoWorkType DEF NewBoard, Boards
<1>2. /\ kitchen.version \in Nat /\ display' = NewBoard
      /\ UNCHANGED <<kitchen, publishing>>
  BY DEF KdsInv, KdsTypeOK, Kitchens, Remount
<1>3. 0 <= kitchen.version
  BY <1>2
<1>4. ChainCovers'
  BY <1>1, <1>2 DEF ChainCovers
<1> QED BY <1>1, <1>2, <1>3, <1>4, BoardKeeps, ListingTypes, NoWorkType

\* A refresh starts and drains the events: nothing is shown differently.
LEMMA DrainKeeps ==
  ASSUME KdsInv, RefreshStarts \/ EventsRead
  PROVE  KdsInv'
<1>1. /\ display \in Boards /\ kitchen.cursor \in Nat
      /\ display.cursor \in Nat /\ display.queue \in Nat
      /\ KdsPage \in Nat
  BY BoardFields, KdsAssumption DEF KdsInv, KdsTypeOK, Kitchens
<1>2. PICK queue \in Nat, cursor \in Nat, phase \in {"events", "list"} :
        display' = [display EXCEPT !.queue = queue, !.cursor = cursor,
                                   !.phase = phase]
  <2>1. CASE RefreshStarts
    <3>1. display.queue - 1 \in Nat
      BY <1>1, <2>1 DEF RefreshStarts
    <3>2. display' = [display EXCEPT !.queue = @ - 1, !.cursor = @,
                                     !.phase = "events"]
      BY <1>1, <2>1 DEF RefreshStarts, Refreshing, Boards
    <3> QED BY <1>1, <3>1, <3>2
  <2>2. CASE EventsRead
    <3> DEFINE end == display.cursor + KdsPage
    <3>1. end \in Nat
      BY <1>1
    <3>2. CASE kitchen.cursor > end
      <4>1. display.phase = "events" /\ display' = [display EXCEPT !.cursor = end]
        BY <2>2, <3>2 DEF EventsRead, Refreshing
      <4>2. display' = [display EXCEPT !.queue = @, !.cursor = end,
                                       !.phase = "events"]
        BY <1>1, <4>1 DEF Boards
      <4> QED BY <1>1, <3>1, <4>2
    <3>3. CASE ~ (kitchen.cursor > end)
      <4>1. display' = [display EXCEPT !.cursor = kitchen.cursor,
                                       !.phase = "list"]
        BY <2>2, <3>3 DEF EventsRead, Refreshing
      <4>2. display' = [display EXCEPT !.queue = @, !.cursor = kitchen.cursor,
                                       !.phase = "list"]
        BY <1>1, <4>1 DEF Boards
      <4> QED BY <1>1, <4>2
    <3> QED BY <3>2, <3>3
  <2> QED BY <2>1, <2>2
<1>3. /\ display' \in Boards
      /\ display'.mail = display.mail /\ display'.shown = display.shown
      /\ display'.work = display.work
      /\ display'.phase # "idle" /\ display'.phase # "tickets"
  BY <1>1, <1>2 DEF Boards
<1>4. UNCHANGED <<kitchen, publishing>>
  BY DEF RefreshStarts, EventsRead, Refreshing
<1>5. ChainCovers'
  BY <1>3 DEF ChainCovers
<1> QED BY <1>3, <1>4, <1>5, BoardKeeps DEF KdsInv, VersionsWritten

\* The tickets served are those of now, and nothing comes after them.
LEMMA TicketsServedKeeps ==
  ASSUME KdsInv, TicketsServed
  PROVE  KdsInv'
<1>1. /\ display \in Boards /\ kitchen.version \in Nat
      /\ kitchen.cursor \in Nat
  BY DEF KdsInv, KdsTypeOK, Kitchens
<1>2. /\ display' = [display EXCEPT !.phase = "tickets", !.mail = Listed]
      /\ UNCHANGED <<kitchen, publishing>>
  BY DEF TicketsServed, Refreshing
<1>3. /\ Listed \in Listings /\ Listed.version = kitchen.version
      /\ Listed.cursor = kitchen.cursor
  BY ListingTypes DEF KdsInv
<1>4. /\ display' \in Boards /\ display'.mail = Listed
      /\ display'.shown = display.shown /\ display'.work = display.work
      /\ display'.phase = "tickets"
  BY <1>1, <1>2, <1>3 DEF Boards
<1>5. Covered(display.mail.cursor)'
  <2>1. kitchen.cursor + 1 .. kitchen.cursor = {}
    BY <1>1
  <2> QED BY <1>2, <1>3, <1>4, <2>1 DEF Covered
<1>6. ChainCovers'
  BY <1>4, <1>5 DEF ChainCovers
<1> QED
  BY <1>1, <1>2, <1>3, <1>4, <1>6, BoardKeeps DEF KdsInv, VersionsWritten

\* A refresh that is over leaves the rest of the board alone.
LEMMA OverBoard ==
  ASSUME NEW board \in Boards, NEW label \in {"waiting", "live", "error"}
  PROVE  LET over == Over(board, label)
         IN /\ over \in Boards
            /\ over.phase = "idle" /\ over.mail = NoListing
            /\ over.label = label /\ over.shown = board.shown
            /\ over.link = board.link /\ over.queue = board.queue
            /\ over.missed = board.missed
            /\ over.work.base = board.work.base
            /\ over.work.version = board.work.version
<1> DEFINE waits == IF board.work.waits = 0 THEN 0 ELSE board.work.waits - 1
           work == [board.work EXCEPT !.waits = waits]
<1>1. board.work \in Works /\ board.work.waits \in Nat
  BY DEF Boards, Works
<1>2. waits \in Nat
  BY <1>1
<1>3. /\ work \in Works /\ work.base = board.work.base
      /\ work.version = board.work.version
  <2> HIDE DEF waits
  <2> QED BY <1>1, <1>2 DEF Works
<1>4. Over(board, label) =
        [board EXCEPT !.phase = "idle", !.mail = NoListing, !.label = label,
                      !.work = work]
  BY DEF Over, Boards
<1> HIDE DEF work
<1>5. NoListing \in Listings
  BY ListingTypes
<1> QED BY <1>3, <1>4, <1>5 DEF Boards

\* A refresh ends, with the tickets it was served or with an error.
LEMMA RefreshEndsKeeps ==
  ASSUME KdsInv, TicketsRead \/ RefreshFails
  PROVE  KdsInv'
<1>1. display \in Boards /\ kitchen.version \in Nat
  BY DEF KdsInv, KdsTypeOK, Kitchens
<1>2. UNCHANGED <<kitchen, publishing>>
  BY DEF TicketsRead, RefreshFails, Refreshing
<1>3. NoListing.version <= kitchen.version
  BY <1>1, ListingTypes
<1>4. CASE TicketsRead
  <2> DEFINE board == [display EXCEPT !.shown = display.mail]
  <2>1. /\ board \in Boards /\ board.shown = display.mail
        /\ board.work = display.work /\ board.link = display.link
        /\ board.queue = display.queue /\ board.missed = display.missed
    BY <1>1 DEF Boards
  <2>2. display' = Over(board, "live") /\ display.phase = "tickets"
    BY <1>4 DEF TicketsRead, Refreshing
  <2> HIDE DEF board
  <2>3. /\ display' \in Boards
        /\ display'.phase = "idle" /\ display'.mail = NoListing
        /\ display'.shown = display.mail /\ display'.link = display.link
        /\ display'.queue = display.queue /\ display'.missed = display.missed
        /\ display'.work.base = display.work.base
        /\ display'.work.version = display.work.version
    BY <2>1, <2>2, OverBoard
  <2>4. ChainCovers'
    BY <1>2, <2>2, <2>3 DEF KdsInv, ChainCovers, Covered
  <2> QED BY <1>2, <1>3, <2>3, <2>4, BoardKeeps DEF KdsInv, VersionsWritten
<1>5. CASE RefreshFails
  <2>1. display' = Over(display, "error")
    BY <1>5 DEF RefreshFails
  <2>2. /\ display' \in Boards
        /\ display'.phase = "idle" /\ display'.mail = NoListing
        /\ display'.label = "error" /\ display'.shown = display.shown
        /\ display'.work.base = display.work.base
        /\ display'.work.version = display.work.version
    BY <1>1, <2>1, OverBoard
  <2>3. ChainCovers'
    BY <2>2 DEF ChainCovers
  <2> QED BY <1>2, <1>3, <2>2, <2>3, BoardKeeps DEF KdsInv, VersionsWritten
<1> QED BY <1>4, <1>5

-----------------------------------------------------------------------------
(***************************************************************************)
(* What the cook presses.                                                  *)
(***************************************************************************)

\* A press starts from the version that is shown.
LEMMA PressKeeps ==
  ASSUME KdsInv, NEW lines \in SUBSET KdsLines,
         NEW action \in {"preparing", "ready"}, NEW whole \in BOOLEAN,
         Press(lines, action, whole)
  PROVE  KdsInv'
<1> DEFINE work == [todo |-> lines, to |-> action, whole |-> whole,
                    answer |-> "none", waits |-> 0,
                    base |-> display.shown.version,
                    version |-> display.shown.version]
<1>1. display \in Boards /\ display.shown.version \in Nat
  BY BoardFields DEF KdsInv, KdsTypeOK
<1>2. /\ work \in Works /\ work.base = display.shown.version
      /\ work.version = display.shown.version
  BY <1>1 DEF Works
<1>3. /\ display' = [display EXCEPT !.work = work]
      /\ UNCHANGED <<kitchen, publishing>>
  BY DEF Press
<1> HIDE DEF work
<1>4. /\ display' \in Boards
      /\ display'.mail = display.mail /\ display'.shown = display.shown
      /\ display'.work = work /\ display'.link = display.link
      /\ display'.queue = display.queue /\ display'.phase = display.phase
      /\ display'.label = display.label /\ display'.missed = display.missed
  BY <1>1, <1>2, <1>3 DEF Boards
<1>5. ChainCovers'
  BY <1>3, <1>4 DEF KdsInv, ChainCovers, Covered
<1> QED BY <1>2, <1>3, <1>4, <1>5, BoardKeeps DEF KdsInv, VersionsWritten

\* One line, or every line of the order that is in a status.
LEMMA ActKeeps ==
  ASSUME KdsInv,
         (\E l \in KdsLines : Act(l))
           \/ (\E status \in DOMAIN NextOf : ActOrder(status))
  PROVE  KdsInv'
<1>1. \A status \in DOMAIN NextOf : NextOf[status] \in {"preparing", "ready"}
  BY DEF NextOf
<1>2. ASSUME NEW l \in KdsLines, Act(l) PROVE KdsInv'
  <2>1. {l} \in SUBSET KdsLines /\ FALSE \in BOOLEAN
    OBVIOUS
  <2>2. NextOf[display.shown.status[l]] \in {"preparing", "ready"}
    BY <1>1, <1>2 DEF Act
  <2>3. Press({l}, NextOf[display.shown.status[l]], FALSE)
    BY <1>2 DEF Act
  <2> QED BY <2>1, <2>2, <2>3, PressKeeps
<1>3. ASSUME NEW status \in DOMAIN NextOf, ActOrder(status) PROVE KdsInv'
  <2>1. ShownAs(status) \in SUBSET KdsLines /\ TRUE \in BOOLEAN
    BY DEF ShownAs
  <2>2. Press(ShownAs(status), NextOf[status], TRUE)
    BY <1>3 DEF ActOrder
  <2> QED BY <1>1, <2>1, <2>2, PressKeeps
<1> QED BY <1>2, <1>3

\* A write that is served carries the version on; one that is refused changes
\* nothing.
LEMMA WriteServedKeeps ==
  ASSUME KdsInv, NEW l \in KdsLines, WriteServed(l)
  PROVE  KdsInv'
<1> DEFINE old == display.work
           from == IF old.to = "preparing" THEN "sent" ELSE "preparing"
<1>1. /\ display \in Boards /\ old \in Works
      /\ kitchen.version \in Nat /\ kitchen.version + 1 \in Nat
      /\ old.base \in Nat /\ old.version \in Nat
      /\ display.mail.version \in Nat /\ display.shown.version \in Nat
      /\ display.mail.cursor \in Nat /\ display.shown.cursor \in Nat
  BY BoardFields DEF KdsInv, KdsTypeOK, Kitchens
<1>2. CASE kitchen.version = WriteVersion(old) /\ kitchen.status[l] = from
  <2> DEFINE next == kitchen.version + 1
             work == [old EXCEPT !.answer = "saved", !.todo = @ \ {l},
                                 !.version = next]
  <2>1. MoveTicket(l, old.to, "display")
    BY <1>2 DEF WriteServed
  <2>2. old.to \in LineStatuses
    BY <1>1 DEF Works, LineStatuses
  <2>3. /\ work \in Works /\ work.base = old.base /\ work.version = next
    <3> HIDE DEF next
    <3> QED BY <1>1 DEF Works, next
  <2>4. display' = [display EXCEPT !.work = work]
    BY <1>1, <1>2 DEF WriteServed, Boards
  <2> HIDE DEF work
  <2>5. /\ display' \in Boards
        /\ display'.mail = display.mail /\ display'.shown = display.shown
        /\ display'.work = work /\ display'.link = display.link
        /\ display'.queue = display.queue /\ display'.phase = display.phase
        /\ display'.label = display.label /\ display'.missed = display.missed
    BY <1>1, <2>3, <2>4 DEF Boards
  <2>6. /\ kitchen' \in Kitchens /\ publishing' \subseteq Nat
        /\ kitchen'.version = next
        /\ Len(kitchen'.writers) = kitchen'.version
        /\ kitchen'.writers[next] = "display"
        /\ \A v \in 1 .. kitchen.version :
             kitchen'.writers[v] = kitchen.writers[v]
        /\ publishing \subseteq publishing'
        /\ \A c \in Nat : c + 1 .. kitchen'.cursor \subseteq
             (c + 1 .. kitchen.cursor) \union publishing'
    BY <2>1, <2>2, OrderChanges
  <2>7. KdsTypeOK' /\ VersionsWritten'
    BY <1>1, <2>3, <2>5, <2>6 DEF KdsInv, KdsTypeOK, VersionsWritten
  <2>8. WritesUnbroken'
    <3> SUFFICES ASSUME NEW v \in old.base + 1 .. next
                 PROVE  kitchen'.writers[v] = "display"
      BY <2>3, <2>5 DEF WritesUnbroken
    <3>1. CASE v = next
      BY <2>6, <3>1
    <3>2. CASE v # next
      <4>1. v \in old.base + 1 .. old.version /\ v \in 1 .. kitchen.version
        BY <1>1, <1>2, <3>2 DEF WriteVersion
      <4> QED BY <2>6, <4>1 DEF KdsInv, WritesUnbroken
    <3> QED BY <3>1, <3>2
  <2>9. ChainCovers'
    <3>1. \A c \in Nat : Covered(c) => Covered(c)'
      BY <2>5, <2>6 DEF Covered
    <3> QED BY <1>1, <2>5, <3>1 DEF KdsInv, ChainCovers
  <2> QED BY <2>7, <2>8, <2>9 DEF KdsInv
<1>3. CASE ~ (kitchen.version = WriteVersion(old) /\ kitchen.status[l] = from)
  <2> DEFINE work == [old EXCEPT !.answer = "refused"]
  <2>1. /\ work \in Works /\ work.base = old.base
        /\ work.version = old.version
    BY <1>1 DEF Works
  <2>2. /\ display' = [display EXCEPT !.work = work]
        /\ UNCHANGED <<kitchen, publishing>>
    BY <1>1, <1>3 DEF WriteServed, Boards
  <2> HIDE DEF work
  <2>3. /\ display' \in Boards
        /\ display'.mail = display.mail /\ display'.shown = display.shown
        /\ display'.work = work /\ display'.link = display.link
        /\ display'.queue = display.queue /\ display'.phase = display.phase
        /\ display'.label = display.label /\ display'.missed = display.missed
    BY <1>1, <2>1, <2>2 DEF Boards
  <2>4. ChainCovers'
    BY <2>2, <2>3 DEF KdsInv, ChainCovers, Covered
  <2> QED BY <2>1, <2>2, <2>3, <2>4, BoardKeeps DEF KdsInv, VersionsWritten
<1> QED BY <1>2, <1>3

\* After a write of a line or of an order, the board queues a refresh or rests.
LEMMA RestedBoard ==
  ASSUME NEW board \in Boards
  PROVE  /\ LET rested == RestQueued(board)
            IN /\ rested \in Boards
               /\ rested.mail = board.mail /\ rested.shown = board.shown
               /\ rested.work.base = 0 /\ rested.work.version = 0
               /\ rested.queue > 0
         /\ LET rested == Rest(board)
            IN /\ rested \in Boards
               /\ rested.mail = board.mail /\ rested.shown = board.shown
               /\ rested.work.base = 0 /\ rested.work.version = 0
               /\ rested.link = board.link /\ rested.queue = board.queue
               /\ rested.phase = board.phase /\ rested.label = board.label
               /\ rested.missed = board.missed
<1> DEFINE waits == IF ~ board.work.whole THEN 0
                    ELSE board.queue + IF board.phase = "idle" THEN 1 ELSE 2
           work == [NoWork EXCEPT !.waits = waits]
           queue == board.queue + 1
<1>1. board.queue \in Nat
  BY BoardFields
<1>2. waits \in Nat /\ queue \in Nat /\ queue > 0
  BY <1>1
<1>3. work \in Works /\ work.base = 0 /\ work.version = 0
  <2> HIDE DEF waits
  <2> QED BY <1>2, NoWorkType DEF Works
<1>4. RestQueued(board) = [board EXCEPT !.work = work, !.queue = queue]
  BY DEF RestQueued, Rest, Queued, Boards
<1> HIDE DEF work, queue
<1>5. LET rested == RestQueued(board)
      IN /\ rested \in Boards
         /\ rested.mail = board.mail /\ rested.shown = board.shown
         /\ rested.work.base = 0 /\ rested.work.version = 0
         /\ rested.queue > 0
  BY <1>2, <1>3, <1>4 DEF Boards
<1>6. LET rested == Rest(board)
      IN /\ rested \in Boards
         /\ rested.mail = board.mail /\ rested.shown = board.shown
         /\ rested.work.base = 0 /\ rested.work.version = 0
         /\ rested.link = board.link /\ rested.queue = board.queue
         /\ rested.phase = board.phase /\ rested.label = board.label
         /\ rested.missed = board.missed
  BY NoWorkType DEF Rest, Boards
<1> QED BY <1>5, <1>6

\* The answer of a write arrives or is lost.
LEMMA AnswerKeeps ==
  ASSUME KdsInv, Answered \/ AnswerLost
  PROVE  KdsInv'
<1>1. display \in Boards /\ kitchen.version \in Nat /\ 0 <= kitchen.version
  BY DEF KdsInv, KdsTypeOK, Kitchens
<1>2. UNCHANGED <<kitchen, publishing>>
  BY DEF Answered, AnswerLost
<1>3. CASE display' = [display EXCEPT !.work.answer = "none"]
  <2> DEFINE work == [display.work EXCEPT !.answer = "none"]
  <2>1. display.work \in Works
    BY <1>1, BoardFields
  <2>2. /\ work \in Works /\ work.base = display.work.base
        /\ work.version = display.work.version
    BY <2>1 DEF Works
  <2>3. display' = [display EXCEPT !.work = work]
    BY <1>3
  <2> HIDE DEF work
  <2>4. /\ display' \in Boards
        /\ display'.mail = display.mail /\ display'.shown = display.shown
        /\ display'.work = work /\ display'.link = display.link
        /\ display'.queue = display.queue /\ display'.phase = display.phase
        /\ display'.label = display.label /\ display'.missed = display.missed
    BY <1>1, <2>2, <2>3 DEF Boards
  <2>5. ChainCovers'
    BY <1>2, <2>4 DEF KdsInv, ChainCovers, Covered
  <2> QED BY <1>2, <2>2, <2>4, <2>5, BoardKeeps DEF KdsInv, VersionsWritten
<1>4. CASE display' = RestQueued(display)
  <2>1. /\ display' \in Boards
        /\ display'.mail = display.mail /\ display'.shown = display.shown
        /\ display'.work.base = 0 /\ display'.work.version = 0
        /\ display'.queue > 0
    BY <1>1, <1>4, RestedBoard
  <2>2. ChainCovers'
    BY <2>1 DEF ChainCovers
  <2> QED BY <1>1, <1>2, <2>1, <2>2, BoardKeeps DEF KdsInv, VersionsWritten
<1>5. CASE display' = Rest(display)
  <2>1. /\ display' \in Boards
        /\ display'.mail = display.mail /\ display'.shown = display.shown
        /\ display'.work.base = 0 /\ display'.work.version = 0
        /\ display'.link = display.link /\ display'.queue = display.queue
        /\ display'.phase = display.phase /\ display'.label = display.label
        /\ display'.missed = display.missed
    BY <1>1, <1>5, RestedBoard
  <2>2. ChainCovers'
    BY <1>2, <2>1 DEF KdsInv, ChainCovers, Covered
  <2> QED BY <1>1, <1>2, <2>1, <2>2, BoardKeeps DEF KdsInv, VersionsWritten
<1> QED BY <1>3, <1>4, <1>5 DEF Answered, AnswerLost

-----------------------------------------------------------------------------
(***************************************************************************)
(* What the display promises.                                              *)
(***************************************************************************)

\* The board starts with nothing listed and a refresh queued.
LEMMA KdsInitInv == KdsInit => KdsInv
<1> SUFFICES ASSUME KdsInit PROVE KdsInv
  OBVIOUS
<1> DEFINE writers == [v \in 1 .. FirstVersion |-> "others"]
<1>1. FirstCursor \in Nat /\ FirstVersion \in Nat
  <2>1. Cardinality(KdsLines) \in Nat
    BY KdsAssumption, FS_CardinalityType
  <2> QED BY <2>1 DEF FirstCursor, FirstVersion
<1>2. writers \in Seq({"others", "display"}) /\ Len(writers) = FirstVersion
  <2>1. writers \in [1 .. FirstVersion -> {"others", "display"}]
    OBVIOUS
  <2>2. writers \in Seq({"others", "display"})
    BY <1>1, <2>1, SeqDef
  <2>3. DOMAIN writers = 1 .. FirstVersion
    OBVIOUS
  <2> HIDE DEF writers
  <2> QED BY <1>1, <2>2, <2>3, LenProperties
<1> HIDE DEF writers
<1>3. /\ kitchen = [version |-> FirstVersion, cursor |-> FirstCursor,
                    open |-> TRUE, writers |-> writers,
                    status |-> [l \in KdsLines |-> "sent"]]
      /\ publishing = {} /\ display = NewBoard
  BY DEF KdsInit, writers
<1>4. /\ kitchen \in Kitchens /\ kitchen.version = FirstVersion
      /\ kitchen.writers = writers
  BY <1>1, <1>2, <1>3 DEF Kitchens, LineStatuses
<1>5. /\ display \in Boards /\ display.mail = NoListing
      /\ display.shown = NoListing /\ display.work = NoWork
      /\ display.queue = 1
  BY <1>3, ListingTypes, NoWorkType DEF NewBoard, Boards
<1>6. KdsTypeOK /\ VersionsWritten
  BY <1>1, <1>2, <1>3, <1>4, <1>5, ListingTypes, NoWorkType
     DEF KdsTypeOK, VersionsWritten
<1>7. WritesUnbroken /\ ChainCovers
  <2>1. 0 + 1 .. 0 = {}
    OBVIOUS
  <2> QED BY <1>5, <2>1, NoWorkType DEF WritesUnbroken, ChainCovers
<1> QED BY <1>6, <1>7 DEF KdsInv

\* KdsInv holds in every reachable state of the display and the kitchen.
THEOREM KdsInvariant == KdsSpec => []KdsInv
<1>1. KdsInv /\ [KdsNext]_kdsVars => KdsInv'
  <2> SUFFICES ASSUME KdsInv, [KdsNext]_kdsVars PROVE KdsInv'
    OBVIOUS
  <2>1. ASSUME NEW l \in KdsLines, OthersMove(l) \/ WriteServed(l)
        PROVE  KdsInv'
    BY <2>1, OthersMoveKeeps, WriteServedKeeps
  <2>2. CASE (\E l \in KdsLines : Act(l))
               \/ (\E status \in DOMAIN NextOf : ActOrder(status))
    BY <2>2, ActKeeps
  <2>3. CASE Charge \/ \E n \in publishing : Publish(n)
    BY <2>3, ChargeKeeps, PublishKeeps
  <2>4. CASE Connect \/ Subscribe \/ Disconnect \/ Evict
    BY <2>4, LinkKeeps
  <2>5. CASE Acknowledge \/ Renew \/ Remount
    BY <2>5, AcknowledgeKeeps, RemountKeeps
  <2>6. CASE Refresh \/ RefreshFails
    BY <2>6, DrainKeeps, TicketsServedKeeps, RefreshEndsKeeps DEF Refresh
  <2>7. CASE Answered \/ AnswerLost
    BY <2>7, AnswerKeeps
  <2>8. CASE UNCHANGED kdsVars
    BY <2>8 DEF kdsVars, KdsInv, KdsTypeOK, VersionsWritten, WritesUnbroken,
                ChainCovers, Covered
  <2> QED BY <2>1, <2>2, <2>3, <2>4, <2>5, <2>6, <2>7, <2>8 DEF KdsNext
<1> QED BY <1>1, KdsInitInv, PTL DEF KdsSpec

\* Whatever is changed, told, lost or refused meanwhile, every version between
\* the one the cook saw and the last one answered is the display's own write.
THEOREM CookWritesUnbroken == KdsSpec => []WritesUnbroken
BY KdsInvariant, PTL DEF KdsInv

\* A display that is live and quiet shows everything it was told of, through
\* lost connections, failed refreshes, renewed sessions and pages of any size.
THEOREM NothingGoesUnseen == KdsSpec => []NothingUnseen
<1>1. KdsInv => NothingUnseen
  BY DEF KdsInv, ChainCovers, Covered, NothingUnseen
<1> QED BY <1>1, KdsInvariant, PTL

=============================================================================
