-------------------------- MODULE CaptureWorkspace --------------------------
(***************************************************************************)
(* The page on which a station takes an order over the phone, and its box  *)
(* of delivery instructions, which saves what is typed by itself: when the *)
(* operator pauses, when the box is left, when the page is about to show   *)
(* another draft or to go away.  The box is there while the draft is for   *)
(* delivery: a change of channel saves that, blanks the box, and is stored *)
(* in the browser until it is answered.                                    *)
(*                                                                         *)
(* page is what was rendered last, so it is also what a handler, a timer   *)
(* or an effect's cleanup has captured; box is held in refs, which outlive *)
(* the draft on the page.  The server is the capture service, reduced to   *)
(* versions, leases, channels and instructions (modelled in CaptureDesk);  *)
(* the drafts have no address yet, whose presence fixes the channel.  What *)
(* is under way at once may be served and answered in any order.           *)
(***************************************************************************)
EXTENDS Naturals, FiniteSets, Sequences

CONSTANTS Drafts, NoDraft,
          BoxTexts,     \* bound: texts the operator types
          BoxRequests,  \* bound: commands the page sends
          BoxVisits     \* bound: times the page is opened

ASSUME BoxAssumption ==
  /\ Drafts # {} /\ NoDraft \notin Drafts
  /\ {BoxTexts, BoxRequests, BoxVisits} \subseteq Nat

VARIABLES
  rows,    \* the server's drafts, with the instructions of each version
  replies, \* what the server answered by key
  page,    \* the page as rendered
  box,     \* the box's refs
  sent,    \* requests not answered yet, and the one the browser stores
  used     \* how many texts, keys and visits there were

boxVars == <<rows, replies, page, box, sent, used>>

NoText == [draft |-> NoDraft, number |-> 0]
None == [kind |-> "none"]

\* reset.
Empty ==
  [open |-> NoDraft, version |-> 0, lease |-> 0, status |-> "draft",
   delivery |-> TRUE, shown |-> NoText, read |-> FALSE, busy |-> FALSE,
   error |-> "none", pending |-> None]

NewBox ==
  [latest |-> NoText, dirty |-> FALSE, timer |-> FALSE, saving |-> FALSE,
   queued |-> NoText, failed |-> FALSE]

\* A draft's version: each write makes one.
Version(k) == Len(rows[k].texts)

Locked ==
  page.busy \/ page.status # "draft" \/ page.lease = 0 \/ page.error = "conflict"

-----------------------------------------------------------------------------
(* Requests. *)

Key == used.keys + 1
MaySend == used.keys + 2 <= BoxRequests  \* a handler may send two

\* base: the command of a draft as a closure saw it.
Request(kind, seen, text, by, key) ==
  [kind |-> kind, by |-> by, key |-> key, draft |-> seen.open,
   version |-> seen.version, lease |-> seen.lease, text |-> text,
   delivery |-> seen.delivery, answer |-> "none"]

\* The page with only a draft's name and version.
Seen(draft, version) ==
  [open |-> draft, version |-> version, lease |-> 0, delivery |-> TRUE]

Bare(kind, draft, key) == Request(kind, Seen(draft, 0), NoText, "button", key)

\* run: what a request leaves on the page while it is under way.
Running(screen) == [screen EXCEPT !.busy = TRUE, !.error = "none"]

\* The autosave in the browser's storage, and the requests under way.
Stored == {r \in sent : r.by = "disk"}
OnTheWay == sent \ Stored

\* A request is sent; an autosave is stored first, in the place of another.
Sending(r) ==
  IF r.kind = "channel" THEN OnTheWay \union {r, [r EXCEPT !.by = "disk"]}
                        ELSE sent \union {r}

\* A request was answered: clearPendingCaptureAutosave, unless it may arrive yet.
Cleared(r) ==
  {q \in sent \ {r} : q.by = "disk" /\ q.key = r.key => r.answer = "unavailable"}

-----------------------------------------------------------------------------
(* saveDeliveryInstructions, by a closure that saw a page. *)

\* It gets as far as sending the command.
Sends(seen, refs) ==
  /\ seen.open # NoDraft /\ seen.delivery /\ ~refs.saving
  /\ seen.lease # 0 /\ ~seen.busy

\* The page as the closure that sent a save saw it.
Closure(r) ==
  [open |-> r.draft, version |-> r.version, lease |-> r.lease,
   delivery |-> r.delivery, busy |-> FALSE]

\* The refs after it was called: nothing without a draft for delivery; it
\* queues behind a save under way; without a lease base throws, after the save
\* was marked; run refuses a busy page.
Saving(seen, refs, text) ==
  LET saves == seen.open # NoDraft /\ seen.delivery
  IN CASE ~saves -> refs
       [] saves /\ refs.saving -> [refs EXCEPT !.queued = text]
       [] saves /\ ~refs.saving /\ seen.lease = 0 ->
            [refs EXCEPT !.saving = TRUE, !.dirty = FALSE]
       [] saves /\ ~refs.saving /\ seen.lease # 0 /\ seen.busy ->
            [refs EXCEPT !.dirty = TRUE, !.failed = TRUE]
       [] Sends(seen, refs) ->
            [refs EXCEPT !.saving = TRUE, !.dirty = FALSE, !.failed = FALSE]

\* A save, with the page and the requests there are by then.
Save(seen, refs, text, screen, requests, key) ==
  /\ box' = Saving(seen, refs, text)
  /\ IF Sends(seen, refs)
     THEN /\ page' = Running(screen)
          /\ sent' = requests \union
               {Request("instructions", seen, text, "saver", key)}
          /\ used' = [used EXCEPT !.keys = key]
     ELSE /\ page' = screen /\ sent' = requests
          /\ used' = [used EXCEPT !.keys = key - 1]

\* The page is rendered; when it shows another draft, the effect's cleanup
\* stops the timer and flushes what was not saved, by the earlier closure.
Render(screen, refs, requests, key) ==
  LET left == [refs EXCEPT !.timer = FALSE]
  IN IF screen.open = page.open \/ page.open = NoDraft \/ ~refs.dirty
     THEN /\ page' = screen /\ sent' = requests
          /\ box' = IF screen.open = page.open THEN refs ELSE left
          /\ used' = [used EXCEPT !.keys = key - 1]
     ELSE Save(page, left, left.latest, screen, requests, key)

-----------------------------------------------------------------------------
(* The operator. *)

\* A text is typed, or a suggestion is chosen.
Type ==
  LET text == [draft |-> page.open, number |-> used.texts + 1]
  IN /\ ~Locked /\ page.delivery /\ used.texts < BoxTexts
     /\ box' = [box EXCEPT !.latest = text, !.dirty = TRUE, !.timer = TRUE]
     /\ page' = [page EXCEPT !.shown = text]
     /\ used' = [used EXCEPT !.texts = @ + 1]
     /\ UNCHANGED <<rows, replies, sent>>

SaveLatest(refs) ==
  /\ MaySend /\ UNCHANGED <<rows, replies>>
  /\ Save(page, refs, refs.latest, page, sent, Key)

TimerFires == box.timer /\ SaveLatest([box EXCEPT !.timer = FALSE])

\* flushDeliveryInstructions.
Blur ==
  /\ ~Locked /\ page.delivery /\ box.dirty
  /\ SaveLatest([box EXCEPT !.timer = FALSE])

RetrySave == ~Locked /\ page.delivery /\ box.failed /\ SaveLatest(box)

\* autosave of the channels: what changed is on the page before it is stored.
Autosaves(delivery, shown) ==
  LET next == [page EXCEPT !.delivery = delivery, !.shown = shown,
                           !.read = @ /\ shown = page.shown]
  IN /\ page.open # NoDraft /\ ~Locked /\ MaySend
     /\ page' = Running(next)
     /\ sent' = Sending(Request("channel", next, NoText, "button", Key))
     /\ used' = [used EXCEPT !.keys = Key]
     /\ UNCHANGED <<rows, replies, box>>

\* Away from delivery the box is blank, and not dirty for it.
ChangeFulfillment ==
  \E next \in BOOLEAN : Autosaves(next, IF next THEN page.shown ELSE NoText)

ChangeSource == Autosaves(page.delivery, page.shown)

\* recover, holdCapture and confirmCapture.
PressButton(kind, draft) ==
  /\ MaySend /\ ~page.busy
  /\ IF kind = "claim"
     THEN page.open = NoDraft /\ rows[draft].status = "draft"
     ELSE page.open = draft /\ ~Locked
  /\ LET seen == IF kind = "claim"
                 THEN Seen(draft, Version(draft)) ELSE page
     IN sent' = sent \union {Request(kind, seen, NoText, "button", Key)}
  /\ page' = Running(page)
  /\ used' = [used EXCEPT !.keys = Key]
  /\ UNCHANGED <<rows, replies, box>>

\* retryPending.
RetryPending ==
  /\ page.pending # None /\ ~page.busy
  /\ sent' = Sending([page.pending EXCEPT !.by = "retry"])
  /\ page' = Running(page)
  /\ UNCHANGED <<rows, replies, box, used>>

\* A draft that was confirmed, or whose version or lease was refused, is left.
Reset ==
  /\ MaySend /\ ~page.busy /\ page.open # NoDraft
  /\ page.status = "confirmed" \/ page.error = "conflict"
  /\ Render(Empty, box, sent, Key)
  /\ UNCHANGED <<rows, replies>>

\* Or it is left for the tray, as when its lease lapsed by the page's clock.
BackToTray ==
  /\ MaySend /\ ~page.busy /\ page.open # NoDraft
  /\ page.status = "draft" /\ (page.error = "conflict" \/ page.lease # 0)
  /\ Render(Running(Empty), box, sent \union {Bare("tray", NoDraft, Key)},
            Key + 1)
  /\ UNCHANGED <<rows, replies>>

\* The workspace unmounts and is opened again, with refs of its own.  Nobody
\* hears what it had asked, nor its last flush, which waits for a save under
\* way.  Mounted, it sends the autosave it finds stored.
Navigate ==
  LET under == {r \in sent : r.by = "saver"}
      text == IF box.dirty /\ page.open # NoDraft /\ page.delivery
              THEN box.latest ELSE box.queued
      closures == CASE text = NoText -> {}
                    [] text # NoText /\ under # {} -> {Closure(r) : r \in under}
                    [] OTHER -> {seen \in {page} : box.dirty /\ Sends(seen, box)}
      last == {Request("instructions", seen, text, "gone", Key) :
                 seen \in closures}
  IN /\ MaySend /\ used.visits < BoxVisits
     /\ sent' = {[r EXCEPT !.by = "gone"] : r \in OnTheWay} \union last
          \union Stored \union {[r EXCEPT !.by = "retry"] : r \in Stored}
     /\ page' = IF Stored = {} THEN Empty ELSE Running(Empty)
     /\ box' = NewBox
     /\ used' = [used EXCEPT !.visits = @ + 1, !.keys = @ + Cardinality(last)]
     /\ UNCHANGED <<rows, replies>>

-----------------------------------------------------------------------------
(* The server, and the network. *)

\* The instructions a command leaves: a trigger drops them with the delivery.
TextAfter(r) ==
  CASE r.kind = "instructions" -> r.text
    [] r.kind = "channel" /\ ~r.delivery -> NoText
    [] OTHER -> rows[r.draft].texts[Version(r.draft)]

\* What a command makes of its draft.
Applied(r) ==
  LET row == [rows[r.draft] EXCEPT !.texts = Append(@, TextAfter(r))]
  IN CASE r.kind = "claim" -> [row EXCEPT !.lease = Version(r.draft) + 1]
       [] r.kind = "hold" -> [row EXCEPT !.lease = 0]
       [] r.kind = "confirm" -> [row EXCEPT !.lease = 0, !.status = "confirmed"]
       [] r.kind = "channel" -> [row EXCEPT !.delivery = r.delivery]
       [] r.kind = "instructions" -> row

\* The version is the draft's, and so is the lease; a claim needs it free, or
\* lapsed; instructions need the delivery.
Accepted(r) ==
  /\ Version(r.draft) = r.version /\ rows[r.draft].status = "draft"
  /\ r.kind = "claim" \/ rows[r.draft].lease = r.lease
  /\ r.kind = "instructions" => rows[r.draft].delivery

AnsweredTo(r, answer) ==
  sent' = (sent \ {r}) \union {[r EXCEPT !.answer = answer]}

Reads == {"workspace", "tray"}

\* An answer: the draft, with the version its instructions are of.
DraftSummary(row) ==
  [version |-> Len(row.texts), lease |-> row.lease, status |-> row.status,
   delivery |-> row.delivery]

Replied(r, row) ==
  /\ AnsweredTo(r, "ok")
  /\ replies' = [k \in DOMAIN replies \union {r.key} |->
                   IF k = r.key THEN DraftSummary(row) ELSE replies[k]]

\* Whether a lease has lapsed is left open: it decides claims and writes.
Serve(r) ==
  LET fresh == r.kind \notin Reads /\ r.key \notin DOMAIN replies
  IN /\ r.answer = "none" /\ r.by # "disk"
     /\ \/ /\ r.kind = "tray" \/ (r.kind # "workspace" /\ ~fresh)
           /\ AnsweredTo(r, "ok") /\ UNCHANGED <<rows, replies>>
        \/ /\ r.kind = "workspace" /\ Replied(r, rows[r.draft])
           /\ UNCHANGED rows
        \/ /\ fresh /\ Accepted(r) /\ Replied(r, Applied(r))
           /\ rows' = [rows EXCEPT ![r.draft] = Applied(r)]
        \/ /\ fresh /\ (Accepted(r) => rows[r.draft].lease # 0)
           /\ AnsweredTo(r, "conflict") /\ UNCHANGED <<rows, replies>>
     /\ UNCHANGED <<page, box, used>>

\* A request or its answer is lost.
Lose(r) ==
  /\ r.answer \in {"none", "ok"} /\ r.by # "disk"
  /\ AnsweredTo(r, "unavailable")
  /\ UNCHANGED <<rows, replies, page, box, used>>

\* Another member claims the draft once its lease lapsed, and writes its
\* instructions, if it is for delivery.
TakenAway(k) ==
  LET text == rows[k].texts[Version(k)]
      others == IF rows[k].delivery THEN [draft |-> k, number |-> 0] ELSE text
  IN
  /\ page.open = k /\ page.lease # 0 /\ rows[k].lease = page.lease
  /\ rows[k].status = "draft"
  /\ rows' = [rows EXCEPT ![k].lease = Version(k) + 2,
                          ![k].texts = Append(Append(@, text), others)]
  /\ UNCHANGED <<replies, page, box, sent, used>>

-----------------------------------------------------------------------------
(* Answers. *)

\* The draft of an answer, on the page.
Detail(r) ==
  LET row == replies[r.key]
  IN [page EXCEPT !.open = r.draft, !.version = row.version,
        !.lease = row.lease, !.status = row.status,
        !.delivery = row.delivery, !.busy = FALSE, !.pending = None]

\* run, with what its caller does next.  read says that the text in the box is
\* known to be the draft's at the version on the page.  The answers to a claim,
\* to a confirmation and to an autosave bring no text: after an autosave the
\* box is right if it was right at the version written, or is blank as the
\* instructions now are.
Heard(r) ==
  LET told == [Detail(r) EXCEPT !.shown = r.text, !.read = TRUE]
      same == page.read /\ page.open = r.draft /\ page.version = r.version
      kept == [Detail(r) EXCEPT
                 !.read = IF r.delivery THEN same ELSE page.shown = NoText]
      reopened == [Detail(r) EXCEPT !.read = FALSE]
  IN CASE r.kind = "tray" -> [page EXCEPT !.busy = FALSE, !.pending = None]
       [] r.kind = "claim" -> Running(reopened)
       [] r.kind = "hold" -> Running(Empty)
       [] r.kind = "confirm" -> reopened
       [] r.kind = "workspace" ->
            LET text == rows[r.draft].texts[replies[r.key].version]
            IN [Detail(r) EXCEPT !.shown = text, !.read = TRUE]
       [] r.kind = "instructions" ->
            IF r.by = "retry" THEN Running(told) ELSE told
       [] r.kind = "channel" ->
            IF r.by = "retry" THEN Running(kept) ELSE kept

\* refreshWorkspace, or the tray.
Follows(r) ==
  CASE r.kind = "hold" -> {Bare("tray", NoDraft, Key)}
    [] r.kind = "claim"
         \/ (r.kind \in {"instructions", "channel"} /\ r.by = "retry") ->
         {Bare("workspace", r.draft, Key)}
    [] OTHER -> {}

\* What a request that failed leaves on the page.
Failed(r) ==
  [page EXCEPT !.busy = FALSE, !.error = r.answer,
     !.pending = IF r.answer = "unavailable"
                 THEN [r EXCEPT !.answer = "none"] ELSE None]

\* Mutant: a save that failed leaves the box clean.
Unsaved_Forgotten(ok) == [box EXCEPT !.saving = FALSE, !.failed = ~ok]

\* The saver, once its request was answered.
Unsaved(ok) ==
  [box EXCEPT !.saving = FALSE, !.dirty = @ \/ ~ok, !.failed = ~ok]

\* An answer to a button or to a retry.
HearButton(r) ==
  /\ r.by \in {"button", "retry"} /\ MaySend
  /\ IF r.answer = "ok"
     THEN LET more == Follows(r)
          IN Render(Heard(r), box, Cleared(r) \union more,
                    Key + Cardinality(more))
     ELSE /\ page' = Failed(r) /\ sent' = Cleared(r)
          /\ UNCHANGED <<box, used>>

\* An answer to the saver: what was queued is saved by the same closure.
HearSaver(r) ==
  LET screen == IF r.answer = "ok" THEN Heard(r) ELSE Failed(r)
      free == [box EXCEPT !.saving = FALSE, !.queued = NoText]
  IN /\ r.by = "saver" /\ MaySend
     /\ IF box.queued # NoText
        THEN Save(Closure(r), free, box.queued, screen, sent \ {r}, Key)
        ELSE Render(screen, Unsaved(r.answer = "ok"), sent \ {r}, Key)

\* An earlier workspace still clears what it had stored, unless it was unloaded.
HearNobody(r) ==
  /\ r.by = "gone" /\ sent' \in {sent \ {r}, Cleared(r)}
  /\ UNCHANGED <<page, box, used>>

Hear(r) ==
  /\ r.answer # "none" /\ UNCHANGED <<rows, replies>>
  /\ HearButton(r) \/ HearSaver(r) \/ HearNobody(r)

-----------------------------------------------------------------------------
\* A draft on the page, the others in the tray.
BoxInit ==
  LET first == CHOOSE k \in Drafts : TRUE
  IN /\ rows = [k \in Drafts |->
          [lease |-> IF k = first THEN 1 ELSE 0, status |-> "draft",
           delivery |-> TRUE, texts |-> <<NoText>>]]
     /\ page = [Empty EXCEPT !.open = first, !.version = 1, !.lease = 1,
                             !.read = TRUE]
     /\ replies = <<>> /\ sent = {} /\ box = NewBox
     /\ used = [texts |-> 0, keys |-> 0, visits |-> 1]

BoxNext ==
  \/ Type \/ TimerFires \/ Blur \/ RetrySave
  \/ ChangeFulfillment \/ ChangeSource
  \/ \E k \in Drafts :
       \/ \E kind \in {"claim", "hold", "confirm"} : PressButton(kind, k)
       \/ TakenAway(k)
  \/ RetryPending \/ Reset \/ BackToTray \/ Navigate
  \/ \E r \in sent : Serve(r) \/ Lose(r) \/ Hear(r)

BoxSpec == BoxInit /\ [][BoxNext]_boxVars
=============================================================================
