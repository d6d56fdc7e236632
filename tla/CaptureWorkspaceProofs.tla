----------------------- MODULE CaptureWorkspaceProofs -----------------------
(***************************************************************************)
(* Proofs about CaptureWorkspace: any number of drafts, texts, commands    *)
(* under way at once and visits of the page.                               *)
(***************************************************************************)
EXTENDS DeviceProperties, FiniteSetTheorems, SequenceTheorems, TLAPS

\* What the server, the page, its refs and a request hold.
AnyDraft == Drafts \union {NoDraft}

Typings == [draft : AnyDraft, number : Nat]

DraftRows == [lease : Nat, status : {"draft", "confirmed"},
              delivery : BOOLEAN, texts : Seq(Typings)]

Summaries == [version : Nat, lease : Nat, status : {"draft", "confirmed"},
              delivery : BOOLEAN]

Answers == {"none", "ok", "conflict", "unavailable"}

Kinds == {"claim", "hold", "confirm", "instructions", "channel", "workspace",
          "tray"}

PageRequests ==
  [kind : Kinds, by : {"button", "retry", "saver", "gone", "disk"}, key : Nat,
   draft : AnyDraft, version : Nat, lease : Nat, text : Typings,
   delivery : BOOLEAN, answer : Answers]

WorkspacePages ==
  [open : AnyDraft, version : Nat, lease : Nat,
   status : {"draft", "confirmed"}, delivery : BOOLEAN, shown : Typings,
   read : BOOLEAN, busy : BOOLEAN, error : Answers,
   pending : PageRequests \union {None}]

BoxRefs == [latest : Typings, dirty : BOOLEAN, timer : BOOLEAN,
            saving : BOOLEAN, queued : Typings, failed : BOOLEAN]

BoxTypeOK ==
  /\ rows \in [Drafts -> DraftRows] /\ \A k \in Drafts : Version(k) # 0
  /\ DOMAIN replies \subseteq Nat
  /\ \A k \in DOMAIN replies : replies[k] \in Summaries
  /\ page \in WorkspacePages /\ box \in BoxRefs /\ sent \subseteq PageRequests
  /\ used \in [texts : Nat, keys : Nat, visits : Nat]

\* The requests of a page, and the one it may send again.
Asked(requests, screen) ==
  requests \union (IF screen.pending = None THEN {} ELSE {screen.pending})

\* A request is about a draft, unless it asks for the tray; the saver's are
\* about instructions; and what was answered well is in the journal.
RequestSound(r) ==
  /\ r.kind # "tray" => r.draft \in Drafts
  /\ r.by = "saver" => r.kind = "instructions" /\ r.delivery
  /\ r.answer = "ok" /\ r.kind # "tray" => r.key \in DOMAIN replies

\* Two requests with one command: its key, its draft, its version, its text or
\* its channel.
SameCommand(r, q) ==
  /\ r.kind = q.kind /\ r.key = q.key /\ r.draft = q.draft /\ r.text = q.text
  /\ r.version = q.version /\ r.delivery = q.delivery

\* The keys handed out so far are the keys in use, and a key is of one command.
KeysHandedOut(requests, screen, keys) ==
  /\ \A r \in Asked(requests, screen) : r.key \in 1 .. keys
  /\ \A r, q \in Asked(requests, screen) : r.key = q.key => SameCommand(r, q)

\* An answer is about a version that the draft had.  At that version it had
\* the instructions a save sent; away from delivery none; and with another
\* channel for delivery those of the version that was written.
AnsweredBy(r, version, texts) ==
  /\ version \in 1 .. Len(texts)
  /\ r.kind = "instructions" => texts[version] = r.text
  /\ r.kind = "channel" /\ ~r.delivery => texts[version] = NoText
  /\ r.kind = "channel" /\ r.delivery =>
       r.version \in 1 .. Len(texts) /\ texts[version] = texts[r.version]

StoredAs(r) ==
  r.kind # "tray" /\ r.key \in DOMAIN replies =>
    AnsweredBy(r, replies[r.key].version, rows[r.draft].texts)

\* At most one save is under way, and the refs know.
OneSave(requests, refs) ==
  \A r \in requests : r.by = "saver" =>
    refs.saving /\ \A q \in requests : q.by = "saver" => q = r

\* The page knows no version before it is written.
PageKnown == page.open # NoDraft => page.version \in 1 .. Version(page.open)

\* The inductive invariant of the page.
BoxInv ==
  /\ BoxTypeOK
  /\ \A r \in Asked(sent, page) : RequestSound(r) /\ StoredAs(r)
  /\ KeysHandedOut(sent, page, used.keys)
  /\ DOMAIN replies \subseteq 1 .. used.keys
  /\ OneSave(sent, box) /\ PageKnown /\ SavedMeansStored

-----------------------------------------------------------------------------
(***************************************************************************)
(* Sending and rendering.                                                  *)
(***************************************************************************)

LEMMA BoxTypes ==
  ASSUME BoxTypeOK
  PROVE  /\ page.open \in AnyDraft /\ page.version \in Nat /\ page.lease \in Nat
         /\ page.busy \in BOOLEAN /\ page.shown \in Typings
         /\ page.read \in BOOLEAN
         /\ page.pending \in PageRequests \union {None}
         /\ box.latest \in Typings /\ box.queued \in Typings
         /\ box.dirty \in BOOLEAN /\ box.saving \in BOOLEAN
         /\ used.keys \in Nat /\ Key \in Nat \ {0}
         /\ page.delivery \in BOOLEAN
         /\ \A k \in Drafts : /\ rows[k] \in DraftRows
                              /\ rows[k].texts \in Seq(Typings)
                              /\ Version(k) \in Nat \ {0}
         /\ NoDraft \notin Drafts
BY BoxAssumption
DEF BoxTypeOK, WorkspacePages, BoxRefs, DraftRows, Key, Version

\* A text more: the others stay where they were.
LEMMA Appended ==
  ASSUME NEW texts \in Seq(Typings), NEW text \in Typings
  PROVE  LET more == Append(texts, text)
         IN /\ more \in Seq(Typings) /\ Len(texts) \in Nat
            /\ Len(more) = Len(texts) + 1
            /\ more[Len(more)] = text
            /\ \A v \in 1 .. Len(texts) : more[v] = texts[v]
BY AppendProperties, LenProperties

\* The values a page, a box and a request start from.
LEMMA EmptyTypes ==
  /\ NoText \in Typings /\ Empty \in WorkspacePages /\ NewBox \in BoxRefs
  /\ Empty.open = NoDraft /\ Empty.pending = None
  /\ ~NewBox.saving /\ ~NewBox.dirty
  /\ None \notin PageRequests
<1>1. NoText \in Typings
  BY DEF NoText, Typings, AnyDraft
<1>2. None \notin PageRequests
  BY DEF None, PageRequests
<1> QED BY <1>1, <1>2 DEF Empty, NewBox, WorkspacePages, BoxRefs, AnyDraft,
                          Answers

\* A request as it is made, other than the saver's.
LEMMA RequestMade ==
  ASSUME NEW kind \in Kinds,
         NEW seen, seen.open \in AnyDraft, seen.version \in Nat,
         seen.lease \in Nat, seen.delivery \in BOOLEAN, NEW text \in Typings,
         NEW by \in {"button", "gone"}, NEW key \in Nat,
         kind # "tray" => seen.open \in Drafts
  PROVE  LET r == Request(kind, seen, text, by, key)
         IN /\ r \in PageRequests /\ RequestSound(r)
            /\ r.kind = kind /\ r.by = by /\ r.key = key
            /\ r.draft = seen.open /\ r.text = text
<1> DEFINE r == Request(kind, seen, text, by, key)
<1>1. r \in PageRequests
  BY DEF Request, PageRequests, Answers
<1>2. /\ r.kind = kind /\ r.by = by /\ r.key = key /\ r.draft = seen.open
      /\ r.text = text /\ r.answer = "none" /\ r.delivery = seen.delivery
  BY DEF Request
<1> QED BY <1>1, <1>2 DEF RequestSound

\* A request for a draft, or for the tray, that no page as rendered makes.
LEMMA BareMade ==
  ASSUME NEW kind \in Kinds, NEW draft \in AnyDraft, NEW key \in Nat,
         kind # "tray" => draft \in Drafts
  PROVE  LET r == Bare(kind, draft, key)
         IN /\ r \in PageRequests /\ RequestSound(r)
            /\ r.key = key /\ r.by = "button"
<1>1. /\ Seen(draft, 0).open = draft /\ Seen(draft, 0).version \in Nat
      /\ Seen(draft, 0).lease \in Nat /\ Seen(draft, 0).delivery \in BOOLEAN
  BY DEF Seen
<1> QED BY <1>1, RequestMade, EmptyTypes DEF Bare

\* saveDeliveryInstructions: the page keeps what it shows, the requests grow by
\* at most a save of their own key, and nothing unsaved is forgotten.
LEMMA Saves ==
  ASSUME NEW seen, seen.open \in AnyDraft, seen.version \in Nat,
         seen.lease \in Nat, seen.busy \in BOOLEAN, seen.delivery \in BOOLEAN,
         NEW refs \in BoxRefs, NEW text \in Typings,
         NEW screen \in WorkspacePages, NEW requests \in SUBSET PageRequests,
         NEW key \in Nat \ {0}, BoxTypeOK,
         Save(seen, refs, text, screen, requests, key),
         OneSave(requests, refs),
         \A r \in Asked(requests, screen) : RequestSound(r),
         KeysHandedOut(requests, screen, key - 1)
  PROVE  /\ page' \in WorkspacePages /\ box' \in BoxRefs
         /\ sent' \subseteq PageRequests
         /\ used' = [used EXCEPT !.keys = used'.keys]
         /\ used'.keys \in {key - 1, key}
         /\ page'.open = screen.open /\ page'.version = screen.version
         /\ page'.shown = screen.shown /\ page'.read = screen.read
         /\ page'.pending = screen.pending
         /\ OneSave(sent', box') /\ KeysHandedOut(sent', page', used'.keys)
         /\ \A r \in Asked(sent', page') :
              /\ RequestSound(r)
              /\ r \in Asked(requests, screen) \/ r.key = key
         /\ refs.dirty \/ refs.saving => box'.dirty \/ box'.saving
         /\ seen.open # NoDraft /\ seen.delivery /\ ~seen.busy => box'.saving
<1> DEFINE save == Request("instructions", seen, text, "saver", key)
<1>1. refs.dirty \in BOOLEAN /\ refs.saving \in BOOLEAN
  BY DEF BoxRefs
<1>2. /\ box' = Saving(seen, refs, text) /\ key - 1 \in Nat
      /\ used \in [texts : Nat, keys : Nat, visits : Nat]
  BY DEF Save, BoxTypeOK
<1>3. CASE Sends(seen, refs)
  <2>1. /\ seen.open \in Drafts /\ ~refs.saving /\ seen.lease # 0 /\ ~seen.busy
        /\ seen.open # NoDraft /\ seen.delivery
    BY <1>3, BoxAssumption DEF Sends, AnyDraft
  <2>2. box' = [refs EXCEPT !.saving = TRUE, !.dirty = FALSE, !.failed = FALSE]
    BY <1>2, <1>3, <2>1 DEF Saving
  <2>3. /\ box' \in BoxRefs /\ box'.saving
    BY <2>2 DEF BoxRefs
  <2>4. /\ page' = Running(screen) /\ sent' = requests \union {save}
        /\ used' = [used EXCEPT !.keys = key]
    BY <1>3 DEF Save
  <2>5. /\ page' \in WorkspacePages
        /\ page'.open = screen.open /\ page'.version = screen.version
        /\ page'.shown = screen.shown /\ page'.read = screen.read
        /\ page'.pending = screen.pending
    BY <2>4 DEF Running, WorkspacePages, Answers
  <2>6. used'.keys = key /\ used' = [used EXCEPT !.keys = used'.keys]
    BY <1>2, <2>4
  <2>7. /\ save \in PageRequests /\ RequestSound(save)
        /\ save.key = key /\ save.by = "saver"
    <3>1. "instructions" \in Kinds /\ key \in Nat
      BY DEF Kinds
    <3>2. save = [kind |-> "instructions", by |-> "saver", key |-> key,
                  draft |-> seen.open, version |-> seen.version,
                  lease |-> seen.lease, text |-> text,
                  delivery |-> seen.delivery, answer |-> "none"]
      BY DEF Request
    <3>3. save \in PageRequests
      BY <3>1, <3>2 DEF PageRequests, Answers
    <3>4. save.delivery
      BY <2>1, <3>2
    <3>5. RequestSound(save)
      BY <2>1, <3>2, <3>4 DEF RequestSound
    <3> QED BY <3>2, <3>3, <3>5
  <2> HIDE DEF save
  <2>8. \A r \in requests : r.by # "saver"
    BY <2>1 DEF OneSave
  <2>9. OneSave(sent', box')
    BY <2>3, <2>4, <2>7, <2>8 DEF OneSave
  <2>10. Asked(sent', page') = Asked(requests, screen) \union {save}
    BY <2>4, <2>5 DEF Asked
  <2>11. \A r \in Asked(requests, screen) :
           r.key \in 1 .. key /\ r.key # key
    BY DEF KeysHandedOut
  <2>12. key \in 1 .. key
    OBVIOUS
  <2>13. KeysHandedOut(sent', page', used'.keys)
    <3>1. \A r \in Asked(sent', page') : r.key \in 1 .. key
      BY <2>7, <2>10, <2>11, <2>12
    <3>2. ASSUME NEW r \in Asked(sent', page'), NEW q \in Asked(sent', page'),
                 r.key = q.key
          PROVE  SameCommand(r, q)
      <4>1. CASE r = save
        BY <2>7, <2>10, <2>11, <3>2, <4>1 DEF SameCommand
      <4>2. CASE q = save
        BY <2>7, <2>10, <2>11, <3>2, <4>2 DEF SameCommand
      <4>3. CASE r # save /\ q # save
        BY <2>10, <3>2, <4>3 DEF KeysHandedOut
      <4> QED BY <4>1, <4>2, <4>3
    <3> QED BY <2>6, <3>1, <3>2 DEF KeysHandedOut
  <2> QED BY <2>3, <2>4, <2>5, <2>6, <2>7, <2>9, <2>10, <2>13
<1>4. CASE ~Sends(seen, refs)
  <2>1. /\ page' = screen /\ sent' = requests
        /\ used' = [used EXCEPT !.keys = key - 1]
    BY <1>4 DEF Save
  <2>2. used'.keys = key - 1 /\ used' = [used EXCEPT !.keys = used'.keys]
    BY <1>2, <2>1
  <2>3. /\ box' \in BoxRefs
        /\ refs.saving => box'.saving
        /\ refs.dirty \/ refs.saving => box'.dirty \/ box'.saving
        /\ seen.open # NoDraft /\ seen.delivery /\ ~seen.busy => box'.saving
    <3> DEFINE saves == seen.open # NoDraft /\ seen.delivery
    <3>1. CASE ~saves
      <4>1. box' = refs
        BY <1>2, <1>4, <3>1 DEF Saving
      <4> QED BY <3>1, <4>1
    <3>2. CASE saves /\ refs.saving
      <4>1. box' = [refs EXCEPT !.queued = text]
        BY <1>2, <3>2 DEF Saving, Sends
      <4> QED BY <3>2, <4>1 DEF BoxRefs
    <3>3. CASE saves /\ ~refs.saving /\ seen.lease = 0
      <4>1. box' = [refs EXCEPT !.saving = TRUE, !.dirty = FALSE]
        BY <1>2, <3>3 DEF Saving, Sends
      <4> QED BY <3>3, <4>1 DEF BoxRefs
    <3>4. CASE saves /\ ~refs.saving /\ seen.lease # 0
      <4>1. seen.busy
        BY <1>4, <3>4 DEF Sends
      <4>2. box' = [refs EXCEPT !.dirty = TRUE, !.failed = TRUE]
        BY <1>2, <3>4, <4>1 DEF Saving, Sends
      <4> QED BY <3>4, <4>1, <4>2 DEF BoxRefs
    <3> QED BY <1>1, <3>1, <3>2, <3>3, <3>4
  <2>4. OneSave(sent', box')
    BY <2>1, <2>3 DEF OneSave
  <2> QED BY <2>1, <2>2, <2>3, <2>4
<1> QED BY <1>3, <1>4

\* A render, with the cleanup that saves what the page leaves unsaved.
LEMMA Renders ==
  ASSUME NEW refs \in BoxRefs, NEW screen \in WorkspacePages,
         NEW requests \in SUBSET PageRequests, NEW key \in Nat \ {0}, BoxTypeOK,
         Render(screen, refs, requests, key),
         OneSave(requests, refs),
         \A r \in Asked(requests, screen) : RequestSound(r),
         KeysHandedOut(requests, screen, key - 1)
  PROVE  /\ page' \in WorkspacePages /\ box' \in BoxRefs
         /\ sent' \subseteq PageRequests
         /\ used' = [used EXCEPT !.keys = used'.keys]
         /\ used'.keys \in {key - 1, key}
         /\ page'.open = screen.open /\ page'.version = screen.version
         /\ page'.shown = screen.shown /\ page'.read = screen.read
         /\ page'.pending = screen.pending
         /\ OneSave(sent', box') /\ KeysHandedOut(sent', page', used'.keys)
         /\ \A r \in Asked(sent', page') :
              /\ RequestSound(r)
              /\ r \in Asked(requests, screen) \/ r.key = key
         /\ refs.dirty \/ refs.saving => box'.dirty \/ box'.saving
<1> DEFINE left == [refs EXCEPT !.timer = FALSE]
<1>1. /\ left \in BoxRefs /\ left.saving = refs.saving
      /\ left.dirty = refs.dirty /\ left.latest \in Typings
  BY DEF BoxRefs
<1>2. OneSave(requests, left)
  BY <1>1 DEF OneSave
<1>3. /\ page.open \in AnyDraft /\ page.version \in Nat /\ page.lease \in Nat
      /\ page.busy \in BOOLEAN /\ page.delivery \in BOOLEAN /\ key - 1 \in Nat
      /\ used \in [texts : Nat, keys : Nat, visits : Nat]
  BY BoxTypes DEF BoxTypeOK
<1>4. CASE screen.open = page.open \/ page.open = NoDraft \/ ~refs.dirty
  <2>1. /\ page' = screen /\ sent' = requests
        /\ box' = IF screen.open = page.open THEN refs ELSE left
        /\ used' = [used EXCEPT !.keys = key - 1]
    BY <1>4 DEF Render
  <2>2. used'.keys = key - 1 /\ used' = [used EXCEPT !.keys = used'.keys]
    BY <1>3, <2>1
  <2> HIDE DEF left
  <2> QED BY <1>1, <1>2, <2>1, <2>2
<1>5. CASE ~(screen.open = page.open \/ page.open = NoDraft \/ ~refs.dirty)
  <2>1. Save(page, left, left.latest, screen, requests, key)
    BY <1>5 DEF Render
  <2> HIDE DEF left
  <2> QED BY <1>1, <1>2, <1>3, <2>1, Saves
<1> QED BY <1>4, <1>5

-----------------------------------------------------------------------------
(***************************************************************************)
(* Keys, and what a step of the page carries over.                         *)
(***************************************************************************)

\* Requests with the commands there were.
LEMMA KeysKept ==
  ASSUME NEW requests, NEW screen, NEW keys, NEW others, NEW other,
         KeysHandedOut(requests, screen, keys),
         \A r \in Asked(others, other) :
           \E q \in Asked(requests, screen) : SameCommand(r, q)
  PROVE  KeysHandedOut(others, other, keys)
<1>1. ASSUME NEW r \in Asked(others, other)
      PROVE  r.key \in 1 .. keys
  <2>1. PICK q \in Asked(requests, screen) : SameCommand(r, q)
    OBVIOUS
  <2> QED BY <2>1 DEF SameCommand, KeysHandedOut
<1>2. ASSUME NEW r \in Asked(others, other), NEW q \in Asked(others, other),
             r.key = q.key
      PROVE  SameCommand(r, q)
  <2>1. PICK s \in Asked(requests, screen) : SameCommand(r, s)
    OBVIOUS
  <2>2. PICK t \in Asked(requests, screen) : SameCommand(q, t)
    OBVIOUS
  <2>3. s.key = t.key
    BY <1>2, <2>1, <2>2 DEF SameCommand
  <2>4. SameCommand(s, t)
    BY <2>3 DEF KeysHandedOut
  <2> QED BY <2>1, <2>2, <2>4 DEF SameCommand
<1> QED BY <1>1, <1>2 DEF KeysHandedOut

\* A request with a key of its own.
LEMMA KeysAdded ==
  ASSUME NEW requests, NEW screen, NEW keys \in Nat, NEW r,
         KeysHandedOut(requests, screen, keys), r.key = keys + 1
  PROVE  KeysHandedOut(requests \union {r}, screen, keys + 1)
<1>1. Asked(requests \union {r}, screen) = Asked(requests, screen) \union {r}
  BY DEF Asked
<1>2. \A q \in Asked(requests, screen) :
        q.key \in 1 .. keys + 1 /\ q.key # r.key
  BY DEF KeysHandedOut
<1>3. r.key \in 1 .. keys + 1 /\ SameCommand(r, r)
  BY DEF SameCommand
<1>4. ASSUME NEW p \in Asked(requests \union {r}, screen),
             NEW q \in Asked(requests \union {r}, screen), p.key = q.key
      PROVE  SameCommand(p, q)
  <2>1. CASE p \in Asked(requests, screen) /\ q \in Asked(requests, screen)
    BY <1>4, <2>1 DEF KeysHandedOut
  <2>2. CASE p = r /\ q = r
    BY <1>3, <2>2
  <2> QED BY <1>1, <1>2, <1>4, <2>1, <2>2
<1> QED BY <1>1, <1>2, <1>3, <1>4 DEF KeysHandedOut

\* A step of the page alone.
LEMMA PageMoves ==
  ASSUME BoxInv, UNCHANGED <<rows, replies>>,
         page' \in WorkspacePages, box' \in BoxRefs, sent' \subseteq PageRequests,
         used' \in [texts : Nat, keys : Nat, visits : Nat],
         used'.keys >= used.keys,
         \A r \in Asked(sent', page') :
           /\ RequestSound(r)
           /\ \/ r.key > used.keys
              \/ \E q \in Asked(sent, page) : SameCommand(r, q),
         KeysHandedOut(sent', page', used'.keys), OneSave(sent', box'),
         PageKnown', SavedMeansStored'
  PROVE  BoxInv'
<1>1. BoxTypeOK'
  BY DEF BoxInv, BoxTypeOK, Version
<1>2. used.keys \in Nat /\ used'.keys \in Nat
  BY BoxTypes DEF BoxInv
<1>3. (DOMAIN replies \subseteq 1 .. used.keys)'
  BY <1>2 DEF BoxInv
<1>4. ASSUME NEW r \in Asked(sent', page')
      PROVE  RequestSound(r)' /\ StoredAs(r)'
  <2>1. RequestSound(r)'
    BY DEF RequestSound
  <2>2. CASE r.key > used.keys
    <3>1. r.key \notin DOMAIN replies
      BY <1>2, <2>2 DEF BoxInv
    <3> QED BY <2>1, <3>1 DEF StoredAs
  <2>3. CASE \E q \in Asked(sent, page) : SameCommand(r, q)
    <3>1. PICK q \in Asked(sent, page) : SameCommand(r, q)
      BY <2>3
    <3>2. StoredAs(q)
      BY DEF BoxInv
    <3>3. StoredAs(r)
      BY <3>1, <3>2, Zenon DEF SameCommand, StoredAs, AnsweredBy
    <3> QED BY <2>1, <3>3 DEF StoredAs
  <2> QED BY <2>1, <2>2, <2>3
<1>5. (\A r \in Asked(sent, page) : RequestSound(r) /\ StoredAs(r))'
  BY <1>4 DEF Asked
<1>6. KeysHandedOut(sent, page, used.keys)'
  BY DEF KeysHandedOut, Asked
<1>7. OneSave(sent, box)'
  BY DEF OneSave
<1> QED BY <1>1, <1>3, <1>5, <1>6, <1>7 DEF BoxInv

\* The page shows the draft it showed, and forgets nothing unsaved.
LEMMA ShownStays ==
  ASSUME BoxInv, rows' = rows,
         page'.open = page.open, page'.version = page.version,
         page'.shown = page.shown, page'.read = page.read,
         box.dirty \/ box.saving => box'.dirty \/ box'.saving
  PROVE  PageKnown' /\ SavedMeansStored'
<1>1. PageKnown /\ SavedMeansStored
  BY DEF BoxInv
<1> QED BY <1>1 DEF PageKnown, SavedMeansStored, Version

\* The page shows no draft.
LEMMA NothingShown ==
  ASSUME page'.open = NoDraft
  PROVE  PageKnown' /\ SavedMeansStored'
BY DEF PageKnown, SavedMeansStored

\* What the invariant says of the requests.
LEMMA RequestsKnown ==
  ASSUME BoxInv
  PROVE  /\ BoxTypeOK /\ sent \subseteq PageRequests
         /\ used \in [texts : Nat, keys : Nat, visits : Nat]
         /\ page \in WorkspacePages /\ box \in BoxRefs
         /\ used.keys \in Nat /\ Key = used.keys + 1 /\ Key - 1 = used.keys
         /\ Key \in Nat \ {0}
         /\ KeysHandedOut(sent, page, Key - 1) /\ OneSave(sent, box)
         /\ \A r \in Asked(sent, page) :
              RequestSound(r) /\ StoredAs(r) /\ SameCommand(r, r)
         /\ sent \subseteq Asked(sent, page)
         /\ Asked(sent, page) \subseteq PageRequests
<1>1. /\ BoxTypeOK /\ used.keys \in Nat
  BY BoxTypes DEF BoxInv
<1>2. Key = used.keys + 1 /\ Key - 1 = used.keys /\ Key \in Nat \ {0}
  BY <1>1 DEF Key
<1>3. /\ sent \subseteq Asked(sent, page)
      /\ Asked(sent, page) \subseteq PageRequests
  BY <1>1, BoxTypes DEF Asked, BoxTypeOK
<1>4. \A r \in Asked(sent, page) :
        RequestSound(r) /\ StoredAs(r) /\ SameCommand(r, r)
  BY DEF BoxInv, SameCommand
<1> QED BY <1>1, <1>2, <1>3, <1>4 DEF BoxInv, BoxTypeOK

-----------------------------------------------------------------------------
(***************************************************************************)
(* The operator's steps.                                                   *)
(***************************************************************************)

LEMMA TypeKeeps ==
  ASSUME BoxInv, Type
  PROVE  BoxInv'
<1> DEFINE text == [draft |-> page.open, number |-> used.texts + 1]
<1>1. /\ box' = [box EXCEPT !.latest = text, !.dirty = TRUE, !.timer = TRUE]
      /\ page' = [page EXCEPT !.shown = text]
      /\ used' = [used EXCEPT !.texts = @ + 1]
      /\ UNCHANGED <<rows, replies, sent>>
  BY DEF Type
<1>2. text \in Typings
  BY RequestsKnown, BoxTypes DEF Typings
<1> HIDE DEF text
<1>3. /\ page' \in WorkspacePages /\ page'.open = page.open
      /\ page'.version = page.version /\ page'.pending = page.pending
  BY <1>1, <1>2, RequestsKnown DEF WorkspacePages
<1>4. /\ box' \in BoxRefs /\ box'.dirty /\ box'.saving = box.saving
  BY <1>1, <1>2, RequestsKnown DEF BoxRefs
<1>5. /\ used' \in [texts : Nat, keys : Nat, visits : Nat]
      /\ used'.keys = used.keys
  BY <1>1, RequestsKnown
<1>6. PageKnown' /\ SavedMeansStored'
  BY <1>1, <1>3, <1>4 DEF BoxInv, PageKnown, SavedMeansStored, Version
<1>7. Asked(sent', page') = Asked(sent, page)
  BY <1>1, <1>3 DEF Asked
<1>8. KeysHandedOut(sent', page', used'.keys)
  BY <1>5, <1>7, RequestsKnown DEF KeysHandedOut
<1>9. OneSave(sent', box')
  BY <1>1, <1>4, RequestsKnown DEF OneSave
<1>10. used'.keys >= used.keys
  BY <1>5, RequestsKnown
<1> QED BY <1>1, <1>3, <1>4, <1>5, <1>6, <1>7, <1>8, <1>9, <1>10, PageMoves,
           RequestsKnown

\* A save by the page as it is: the timer's, on leaving the box, or asked for.
LEMMA SaveLatestKeeps ==
  ASSUME BoxInv, NEW refs \in BoxRefs, refs.saving = box.saving,
         refs.dirty = box.dirty, SaveLatest(refs)
  PROVE  BoxInv'
<1>1. /\ UNCHANGED <<rows, replies>>
      /\ Save(page, refs, refs.latest, page, sent, Key)
  BY DEF SaveLatest
<1>2. OneSave(sent, refs)
  BY RequestsKnown DEF OneSave
<1>3. refs.latest \in Typings
  BY DEF BoxRefs
<1>4. /\ page.open \in AnyDraft /\ page.version \in Nat /\ page.lease \in Nat
      /\ page.busy \in BOOLEAN /\ page.delivery \in BOOLEAN
  BY BoxTypes, RequestsKnown
<1>5. /\ page' \in WorkspacePages /\ box' \in BoxRefs
      /\ sent' \subseteq PageRequests
      /\ used' = [used EXCEPT !.keys = used'.keys]
      /\ used'.keys \in {Key - 1, Key}
      /\ page'.open = page.open /\ page'.version = page.version
      /\ page'.shown = page.shown /\ page'.read = page.read
      /\ OneSave(sent', box') /\ KeysHandedOut(sent', page', used'.keys)
      /\ \A r \in Asked(sent', page') :
           /\ RequestSound(r)
           /\ r \in Asked(sent, page) \/ r.key = Key
      /\ refs.dirty \/ refs.saving => box'.dirty \/ box'.saving
  BY <1>1, <1>2, <1>3, <1>4, Saves, RequestsKnown
<1>6. PageKnown' /\ SavedMeansStored'
  BY <1>1, <1>5, ShownStays
<1>7. /\ used'.keys \in Nat /\ used'.keys >= used.keys
      /\ used' \in [texts : Nat, keys : Nat, visits : Nat]
  BY <1>5, RequestsKnown
<1>8. \A r \in Asked(sent', page') :
        /\ RequestSound(r)
        /\ \/ r.key > used.keys
           \/ \E q \in Asked(sent, page) : SameCommand(r, q)
  BY <1>5, RequestsKnown
<1> QED BY <1>1, <1>5, <1>6, <1>7, <1>8, PageMoves

LEMMA WritesKeep ==
  ASSUME BoxInv, TimerFires \/ Blur \/ RetrySave
  PROVE  BoxInv'
<1>1. /\ [box EXCEPT !.timer = FALSE] \in BoxRefs
      /\ [box EXCEPT !.timer = FALSE].saving = box.saving
      /\ [box EXCEPT !.timer = FALSE].dirty = box.dirty
      /\ box \in BoxRefs
  BY RequestsKnown DEF BoxRefs
<1>2. CASE TimerFires
  BY <1>1, <1>2, SaveLatestKeeps DEF TimerFires
<1>3. CASE Blur
  BY <1>1, <1>3, SaveLatestKeeps DEF Blur
<1>4. CASE RetrySave
  BY <1>1, <1>4, SaveLatestKeeps DEF RetrySave
<1> QED BY <1>2, <1>3, <1>4

LEMMA PressButtonKeeps ==
  ASSUME BoxInv, NEW kind \in {"claim", "hold", "confirm"}, NEW draft \in Drafts,
         PressButton(kind, draft)
  PROVE  BoxInv'
<1> DEFINE seen == IF kind = "claim" THEN Seen(draft, Version(draft)) ELSE page
           r == Request(kind, seen, NoText, "button", Key)
<1>1. /\ sent' = sent \union {r} /\ page' = Running(page)
      /\ used' = [used EXCEPT !.keys = Key]
      /\ UNCHANGED <<rows, replies, box>>
      /\ kind # "claim" => page.open = draft
  BY DEF PressButton
<1>2. /\ seen.open \in Drafts /\ seen.version \in Nat /\ seen.lease \in Nat
      /\ seen.delivery \in BOOLEAN
  BY <1>1, BoxTypes, RequestsKnown DEF Seen
<1>3. /\ r \in PageRequests /\ RequestSound(r) /\ r.key = Key
      /\ r.by = "button"
  <2> HIDE DEF seen
  <2> QED BY <1>2, RequestMade, EmptyTypes, RequestsKnown DEF AnyDraft, Kinds
<1> HIDE DEF r
<1>4. /\ page' \in WorkspacePages /\ page'.open = page.open
      /\ page'.version = page.version /\ page'.shown = page.shown
      /\ page'.read = page.read /\ page'.pending = page.pending
  BY <1>1, RequestsKnown DEF Running, WorkspacePages, Answers
<1>5. /\ used' \in [texts : Nat, keys : Nat, visits : Nat]
      /\ used'.keys = Key /\ used'.keys >= used.keys
  BY <1>1, RequestsKnown
<1>6. /\ KeysHandedOut(sent \union {r}, page, used.keys + 1)
      /\ Asked(sent', page') = Asked(sent, page) \union {r}
      /\ Asked(sent', page') = Asked(sent \union {r}, page)
  BY <1>1, <1>3, <1>4, KeysAdded, RequestsKnown DEF Asked
<1>7. KeysHandedOut(sent', page', used'.keys)
  BY <1>5, <1>6, RequestsKnown DEF KeysHandedOut
<1>8. OneSave(sent', box')
  BY <1>1, <1>3, RequestsKnown DEF OneSave
<1>9. \A q \in Asked(sent', page') :
        /\ RequestSound(q)
        /\ \/ q.key > used.keys
           \/ \E p \in Asked(sent, page) : SameCommand(q, p)
  BY <1>3, <1>6, RequestsKnown
<1>10. PageKnown' /\ SavedMeansStored'
  BY <1>1, <1>4, ShownStays
<1>11. sent' \subseteq PageRequests /\ box' \in BoxRefs
  BY <1>1, <1>3, RequestsKnown
<1> QED BY <1>1, <1>4, <1>5, <1>7, <1>8, <1>9, <1>10, <1>11, PageMoves

\* A request sent, with what the browser stores of it.
LEMMA SendingMade ==
  ASSUME BoxInv, NEW r \in PageRequests, RequestSound(r), r.by # "saver"
  PROVE  /\ Sending(r) \subseteq PageRequests /\ OneSave(Sending(r), box)
         /\ \A q \in Sending(r) :
              q \in sent \/ (RequestSound(q) /\ SameCommand(q, r))
<1> DEFINE stored == [r EXCEPT !.by = "disk"]
<1>1. stored \in PageRequests /\ stored.by = "disk"
  BY DEF PageRequests
<1>2. /\ stored.kind = r.kind /\ stored.key = r.key /\ stored.draft = r.draft
      /\ stored.text = r.text /\ stored.version = r.version
      /\ stored.delivery = r.delivery /\ stored.answer = r.answer
  BY DEF PageRequests
<1>3. RequestSound(stored) /\ SameCommand(stored, r) /\ SameCommand(r, r)
  BY <1>1, <1>2 DEF RequestSound, SameCommand
<1> HIDE DEF stored
<1>4. \A q \in Sending(r) : q \in sent \/ q = r \/ q = stored
  BY DEF Sending, OnTheWay, stored
<1>5. OneSave(Sending(r), box)
  BY <1>1, <1>4, RequestsKnown DEF OneSave
<1>6. Sending(r) \subseteq PageRequests
  BY <1>1, <1>4, RequestsKnown
<1> QED BY <1>3, <1>4, <1>5, <1>6

\* changeFulfillment and changeSource: a box that is blanked is not read.
LEMMA AutosavesKeeps ==
  ASSUME BoxInv, NEW delivery \in BOOLEAN, NEW shown \in Typings,
         Autosaves(delivery, shown)
  PROVE  BoxInv'
<1> DEFINE next == [page EXCEPT !.delivery = delivery, !.shown = shown,
                                !.read = @ /\ shown = page.shown]
           r == Request("channel", next, NoText, "button", Key)
<1>1. /\ page' = Running(next) /\ sent' = Sending(r)
      /\ used' = [used EXCEPT !.keys = Key]
      /\ UNCHANGED <<rows, replies, box>> /\ page.open # NoDraft
  BY DEF Autosaves
<1>2. /\ next \in WorkspacePages /\ next.open = page.open
      /\ next.version = page.version /\ next.shown = shown
      /\ next.read = (page.read /\ shown = page.shown)
      /\ next.pending = page.pending
  <2>1. (page.read /\ shown = page.shown) \in BOOLEAN
    OBVIOUS
  <2> QED BY <2>1, RequestsKnown DEF WorkspacePages
<1>3. /\ next.open \in Drafts /\ next.open \in AnyDraft /\ next.version \in Nat
      /\ next.lease \in Nat /\ next.delivery \in BOOLEAN
  BY <1>1, <1>2, BoxTypes, RequestsKnown DEF AnyDraft, WorkspacePages
<1> HIDE DEF next
<1>4. /\ r \in PageRequests /\ RequestSound(r) /\ r.key = Key
      /\ r.by = "button"
  <2>1. "channel" \in Kinds /\ "button" \in {"button", "gone"} /\ Key \in Nat
    BY RequestsKnown DEF Kinds
  <2> QED BY <1>3, <2>1, RequestMade, EmptyTypes
<1> HIDE DEF r
<1>5. /\ page' \in WorkspacePages /\ page'.open = page.open
      /\ page'.version = page.version /\ page'.shown = shown
      /\ page'.read = (page.read /\ shown = page.shown)
      /\ page'.pending = page.pending
  BY <1>1, <1>2 DEF Running, WorkspacePages, Answers
<1>6. /\ used' \in [texts : Nat, keys : Nat, visits : Nat]
      /\ used'.keys = Key /\ used'.keys >= used.keys
  BY <1>1, RequestsKnown
<1>7. /\ sent' \subseteq PageRequests /\ OneSave(sent', box')
      /\ \A q \in sent' : q \in sent \/ (RequestSound(q) /\ SameCommand(q, r))
  BY <1>1, <1>4, SendingMade
<1>8. \A q \in Asked(sent', page') :
        \/ q \in Asked(sent, page)
        \/ RequestSound(q) /\ SameCommand(q, r)
  BY <1>5, <1>7 DEF Asked
<1>9. KeysHandedOut(sent', page', used'.keys)
  <2>1. KeysHandedOut(sent \union {r}, page, Key)
    BY <1>4, KeysAdded, RequestsKnown
  <2>2. Asked(sent \union {r}, page) = Asked(sent, page) \union {r}
    BY DEF Asked
  <2>3. \A q \in Asked(sent', page') :
          \E p \in Asked(sent \union {r}, page) : SameCommand(q, p)
    BY <1>8, <2>2, RequestsKnown
  <2> QED BY <1>6, <2>1, <2>3, KeysKept
<1>10. \A q \in Asked(sent', page') :
         /\ RequestSound(q)
         /\ \/ q.key > used.keys
            \/ \E p \in Asked(sent, page) : SameCommand(q, p)
  <2>1. \A q : SameCommand(q, r) => q.key > used.keys
    BY <1>4, RequestsKnown DEF SameCommand
  <2> QED BY <1>8, <2>1, RequestsKnown
<1>11. PageKnown' /\ SavedMeansStored'
  <2>1. PageKnown /\ SavedMeansStored
    BY DEF BoxInv
  <2> QED BY <1>1, <1>5, <2>1 DEF PageKnown, SavedMeansStored, Version
<1>12. box' \in BoxRefs
  BY <1>1, RequestsKnown
<1> QED BY <1>1, <1>5, <1>6, <1>7, <1>9, <1>10, <1>11, <1>12, PageMoves

LEMMA ChannelKeeps ==
  ASSUME BoxInv, ChangeFulfillment \/ ChangeSource
  PROVE  BoxInv'
<1>1. page.shown \in Typings /\ NoText \in Typings /\ page.delivery \in BOOLEAN
  BY BoxTypes, EmptyTypes, RequestsKnown
<1>2. CASE ChangeFulfillment
  <2>1. PICK next \in BOOLEAN :
          Autosaves(next, IF next THEN page.shown ELSE NoText)
    BY <1>2 DEF ChangeFulfillment
  <2>2. (IF next THEN page.shown ELSE NoText) \in Typings
    BY <1>1
  <2> QED BY <2>1, <2>2, AutosavesKeeps
<1>3. CASE ChangeSource
  BY <1>1, <1>3, AutosavesKeeps DEF ChangeSource
<1> QED BY <1>2, <1>3

LEMMA RetryPendingKeeps ==
  ASSUME BoxInv, RetryPending
  PROVE  BoxInv'
<1> DEFINE r == [page.pending EXCEPT !.by = "retry"]
<1>1. /\ sent' = Sending(r) /\ page' = Running(page)
      /\ UNCHANGED <<rows, replies, box, used>> /\ page.pending # None
  BY DEF RetryPending
<1>2. page.pending \in Asked(sent, page) /\ page.pending \in PageRequests
  BY <1>1, RequestsKnown, BoxTypes DEF Asked
<1>3. /\ r \in PageRequests /\ r.by = "retry" /\ SameCommand(r, page.pending)
      /\ r.answer = page.pending.answer
  BY <1>2 DEF PageRequests, SameCommand
<1>4. RequestSound(r)
  BY <1>2, <1>3, RequestsKnown DEF RequestSound, SameCommand
<1> HIDE DEF r
<1>5. /\ page' \in WorkspacePages /\ page'.open = page.open
      /\ page'.version = page.version /\ page'.shown = page.shown
      /\ page'.read = page.read /\ page'.pending = page.pending
  BY <1>1, RequestsKnown DEF Running, WorkspacePages, Answers
<1>6. /\ sent' \subseteq PageRequests /\ OneSave(sent', box')
      /\ \A q \in sent' : q \in sent \/ (RequestSound(q) /\ SameCommand(q, r))
  BY <1>1, <1>3, <1>4, SendingMade
<1>7. \A q : SameCommand(q, r) => SameCommand(q, page.pending)
  BY <1>3 DEF SameCommand
<1>8. \A q \in Asked(sent', page') :
        RequestSound(q) /\ \E p \in Asked(sent, page) : SameCommand(q, p)
  <2>1. \A q \in Asked(sent', page') : q \in Asked(sent, page) \/ q \in sent'
    BY <1>5 DEF Asked
  <2> QED BY <1>2, <1>6, <1>7, <2>1, RequestsKnown
<1>9. KeysHandedOut(sent', page', used'.keys)
  BY <1>1, <1>8, KeysKept DEF BoxInv
<1>10. PageKnown' /\ SavedMeansStored'
  BY <1>1, <1>5, ShownStays
<1>11. /\ box' \in BoxRefs /\ used' \in [texts : Nat, keys : Nat, visits : Nat]
       /\ used'.keys >= used.keys
  BY <1>1, RequestsKnown
<1> QED BY <1>1, <1>5, <1>6, <1>8, <1>9, <1>10, <1>11, PageMoves

\* A render after which the page shows what it should.
LEMMA RenderKeeps ==
  ASSUME BoxInv, NEW refs \in BoxRefs, NEW screen \in WorkspacePages,
         NEW requests \in SUBSET PageRequests, NEW key \in Nat, key > used.keys,
         Render(screen, refs, requests, key), UNCHANGED <<rows, replies>>,
         OneSave(requests, refs),
         \A r \in Asked(requests, screen) :
           /\ RequestSound(r)
           /\ \/ r.key > used.keys
              \/ \E q \in Asked(sent, page) : SameCommand(r, q),
         KeysHandedOut(requests, screen, key - 1),
         (/\ page'.open = screen.open /\ page'.version = screen.version
          /\ page'.shown = screen.shown /\ page'.read = screen.read
          /\ refs.dirty \/ refs.saving => box'.dirty \/ box'.saving)
           => PageKnown' /\ SavedMeansStored'
  PROVE  BoxInv'
<1>1. used.keys \in Nat /\ key \in Nat \ {0}
  BY RequestsKnown
<1>2. /\ page' \in WorkspacePages /\ box' \in BoxRefs
      /\ sent' \subseteq PageRequests
      /\ used' = [used EXCEPT !.keys = used'.keys]
      /\ used'.keys \in {key - 1, key}
      /\ page'.open = screen.open /\ page'.version = screen.version
      /\ page'.shown = screen.shown /\ page'.read = screen.read
      /\ OneSave(sent', box') /\ KeysHandedOut(sent', page', used'.keys)
      /\ \A r \in Asked(sent', page') :
           /\ RequestSound(r)
           /\ r \in Asked(requests, screen) \/ r.key = key
      /\ refs.dirty \/ refs.saving => box'.dirty \/ box'.saving
  BY <1>1, Renders, RequestsKnown
<1>3. PageKnown' /\ SavedMeansStored'
  BY <1>2
<1>4. /\ used'.keys \in Nat /\ used'.keys >= used.keys
      /\ used' \in [texts : Nat, keys : Nat, visits : Nat]
  BY <1>1, <1>2, RequestsKnown
<1>5. \A r \in Asked(sent', page') :
        /\ RequestSound(r)
        /\ \/ r.key > used.keys
           \/ \E q \in Asked(sent, page) : SameCommand(r, q)
  BY <1>1, <1>2
<1> QED BY <1>2, <1>3, <1>4, <1>5, PageMoves

LEMMA ResetKeeps ==
  ASSUME BoxInv, Reset
  PROVE  BoxInv'
<1>1. Render(Empty, box, sent, Key) /\ UNCHANGED <<rows, replies>>
  BY DEF Reset
<1>2. Asked(sent, Empty) = sent
  BY EmptyTypes DEF Asked
<1>3. KeysHandedOut(sent, Empty, Key - 1)
  BY <1>2, RequestsKnown DEF KeysHandedOut
<1>4. page'.open = NoDraft => PageKnown' /\ SavedMeansStored'
  BY NothingShown
<1>5. Key > used.keys /\ Key \in Nat
  BY RequestsKnown
<1>6. \A r \in Asked(sent, Empty) :
        RequestSound(r) /\ \E q \in Asked(sent, page) : SameCommand(r, q)
  BY <1>2, RequestsKnown
<1>7. sent \in SUBSET PageRequests /\ OneSave(sent, box) /\ box \in BoxRefs
  BY RequestsKnown
<1> QED BY <1>1, <1>3, <1>4, <1>5, <1>6, <1>7, EmptyTypes, RenderKeeps

LEMMA BackToTrayKeeps ==
  ASSUME BoxInv, BackToTray
  PROVE  BoxInv'
<1> DEFINE r == Bare("tray", NoDraft, Key)
           screen == Running(Empty)
           requests == sent \union {r}
           key == Key + 1
<1>1. Render(screen, box, requests, key) /\ UNCHANGED <<rows, replies>>
  BY DEF BackToTray
<1>2. /\ r \in PageRequests /\ RequestSound(r) /\ r.key = Key
      /\ r.by = "button"
  BY BareMade, RequestsKnown DEF Kinds, AnyDraft
<1>3. /\ screen \in WorkspacePages /\ screen.open = NoDraft
      /\ screen.pending = None
  BY EmptyTypes DEF Running, WorkspacePages, Answers
<1> HIDE DEF r, screen
<1>4. /\ Asked(sent, screen) = sent
      /\ Asked(sent \union {r}, screen) = sent \union {r}
  BY <1>3 DEF Asked
<1>5. KeysHandedOut(sent, screen, used.keys)
  BY <1>4, RequestsKnown DEF KeysHandedOut
<1>6. key > used.keys /\ key \in Nat /\ key - 1 = used.keys + 1
  BY RequestsKnown
<1>7. KeysHandedOut(requests, screen, key - 1)
  <2>1. KeysHandedOut(sent \union {r}, screen, used.keys + 1)
    BY <1>2, <1>5, KeysAdded, RequestsKnown
  <2> QED BY <1>6, <2>1
<1>8. page'.open = NoDraft => PageKnown' /\ SavedMeansStored'
  BY NothingShown
<1>9. \A q \in Asked(requests, screen) :
        /\ RequestSound(q)
        /\ \/ q.key > used.keys
           \/ \E p \in Asked(sent, page) : SameCommand(q, p)
  BY <1>2, <1>4, RequestsKnown
<1>10. /\ requests \in SUBSET PageRequests /\ box \in BoxRefs
       /\ OneSave(requests, box)
  BY <1>2, RequestsKnown DEF OneSave
<1> HIDE DEF requests, key
<1> QED BY <1>1, <1>3, <1>6, <1>7, <1>8, <1>9, <1>10, RenderKeeps

LEMMA NavigateKeeps ==
  ASSUME BoxInv, Navigate
  PROVE  BoxInv'
<1> DEFINE under == {r \in sent : r.by = "saver"}
           text == IF box.dirty /\ page.open # NoDraft /\ page.delivery
                   THEN box.latest ELSE box.queued
           closures == CASE text = NoText -> {}
                         [] text # NoText /\ under # {} ->
                              {Closure(r) : r \in under}
                         [] OTHER ->
                              {seen \in {page} : box.dirty /\ Sends(seen, box)}
           last == {Request("instructions", seen, text, "gone", Key) :
                      seen \in closures}
           kept == {[r EXCEPT !.by = "gone"] : r \in OnTheWay} \union Stored
                     \union {[r EXCEPT !.by = "retry"] : r \in Stored}
<1>1. /\ sent' = kept \union last /\ box' = NewBox
      /\ page' = IF Stored = {} THEN Empty ELSE Running(Empty)
      /\ used' = [used EXCEPT !.visits = @ + 1, !.keys = @ + Cardinality(last)]
      /\ UNCHANGED <<rows, replies>>
  BY DEF Navigate
<1>2. text \in Typings
  BY BoxTypes, RequestsKnown
<1>3. \A seen \in closures :
        /\ seen.open \in Drafts /\ seen.version \in Nat /\ seen.lease \in Nat
        /\ seen.delivery \in BOOLEAN
  <2>1. \A r \in under : /\ Closure(r).open \in Drafts
                         /\ Closure(r).version \in Nat
                         /\ Closure(r).lease \in Nat
                         /\ Closure(r).delivery \in BOOLEAN
    BY RequestsKnown DEF RequestSound, PageRequests, Closure
  <2>2. Sends(page, box) => /\ page.open \in Drafts /\ page.version \in Nat
                            /\ page.lease \in Nat /\ page.delivery \in BOOLEAN
    BY BoxTypes, RequestsKnown DEF Sends, AnyDraft
  <2>3. CASE text = NoText
    BY <2>3
  <2>4. CASE text # NoText /\ under # {}
    BY <2>1, <2>4
  <2>5. CASE text # NoText /\ under = {}
    BY <2>2, <2>5
  <2> QED BY <2>3, <2>4, <2>5
<1>4. closures = {} \/ \E seen : closures = {seen}
  <2>1. \A r, q \in under : r = q
    BY RequestsKnown DEF OneSave
  <2>2. CASE text = NoText
    BY <2>2
  <2>3. CASE text # NoText /\ under # {}
    <3>1. PICK r \in under : TRUE
      BY <2>3
    <3>2. under = {r}
      BY <2>1, <3>1
    <3>3. closures = {Closure(r)}
      <4> HIDE DEF text, under
      <4> QED BY <2>3, <3>2
    <3> QED BY <3>3
  <2>4. CASE text # NoText /\ under = {}
    BY <2>4
  <2> QED BY <2>2, <2>3, <2>4
<1> HIDE DEF text, closures
<1>5. \A r \in last : /\ r \in PageRequests /\ RequestSound(r) /\ r.key = Key
                      /\ r.by = "gone"
  <2>1. ASSUME NEW seen \in closures
        PROVE  LET r == Request("instructions", seen, text, "gone", Key)
               IN /\ r \in PageRequests /\ RequestSound(r) /\ r.key = Key
                  /\ r.by = "gone"
    <3>1. /\ "instructions" \in Kinds /\ "gone" \in {"button", "gone"}
          /\ seen.open \in AnyDraft /\ Key \in Nat
      BY <1>3, RequestsKnown DEF Kinds, AnyDraft
    <3> QED BY <1>2, <1>3, <3>1, RequestMade
  <2> QED BY <2>1
<1>6. last = {} \/ \E r : last = {r}
  <2>1. CASE closures = {}
    BY <2>1
  <2>2. CASE \E seen : closures = {seen}
    <3>1. PICK seen : closures = {seen}
      BY <2>2
    <3>2. last = {Request("instructions", seen, text, "gone", Key)}
      BY <3>1
    <3> QED BY <3>2
  <2> QED BY <1>4, <2>1, <2>2
<1>7. \A r \in kept :
        /\ r \in PageRequests /\ RequestSound(r) /\ r.by # "saver"
        /\ \E q \in Asked(sent, page) : SameCommand(r, q)
  <2>1. ASSUME NEW q \in sent, NEW by \in {"gone", "retry"}
        PROVE  LET r == [q EXCEPT !.by = by]
               IN /\ r \in PageRequests /\ RequestSound(r) /\ r.by # "saver"
                  /\ SameCommand(r, q)
    <3> DEFINE r == [q EXCEPT !.by = by]
    <3>1. q \in PageRequests /\ RequestSound(q)
      BY RequestsKnown
    <3>2. /\ r \in PageRequests /\ r.by # "saver" /\ r.answer = q.answer
          /\ r.kind = q.kind /\ r.key = q.key /\ r.draft = q.draft
          /\ r.text = q.text /\ r.version = q.version /\ r.delivery = q.delivery
      BY <3>1 DEF PageRequests
    <3> HIDE DEF r
    <3>3. RequestSound(r) /\ SameCommand(r, q)
      BY <3>1, <3>2 DEF RequestSound, SameCommand
    <3> QED BY <3>2, <3>3 DEF r
  <2>2. \A r \in Stored : r \in sent /\ r.by # "saver"
    BY DEF Stored
  <2>3. OnTheWay \subseteq sent /\ Stored \subseteq sent
    BY DEF Stored, OnTheWay
  <2>4. \A q \in sent : q \in PageRequests /\ RequestSound(q)
    BY RequestsKnown
  <2>5. \A q \in sent : q \in Asked(sent, page) /\ SameCommand(q, q)
    BY DEF Asked, SameCommand
  <2> DEFINE Keeps(r) ==
        /\ r \in PageRequests /\ RequestSound(r) /\ r.by # "saver"
        /\ \E q \in Asked(sent, page) : SameCommand(r, q)
  <2>6. ASSUME NEW q \in OnTheWay
        PROVE  Keeps([q EXCEPT !.by = "gone"])
    BY <2>1, <2>3, <2>5
  <2>7. ASSUME NEW q \in Stored
        PROVE  Keeps(q) /\ Keeps([q EXCEPT !.by = "retry"])
    <3>1. Keeps(q)
      BY <2>2, <2>4, <2>5
    <3>2. Keeps([q EXCEPT !.by = "retry"])
      BY <2>1, <2>3, <2>5
    <3> QED BY <3>1, <3>2
  <2> HIDE DEF Keeps
  <2>8. \A r \in kept : Keeps(r)
    BY <2>6, <2>7
  <2> QED BY <2>8 DEF Keeps
<1> HIDE DEF kept, last
<1>8. /\ page' \in WorkspacePages /\ page'.open = NoDraft
      /\ page'.pending = None
      /\ \A requests : Asked(requests, page') = requests
  <2>1. page' \in {Empty, Running(Empty)}
    BY <1>1
  <2>2. /\ page' \in WorkspacePages /\ page'.open = NoDraft
        /\ page'.pending = None
    BY <2>1, EmptyTypes DEF Running, WorkspacePages, Answers
  <2> QED BY <2>2 DEF Asked
<1>9. KeysHandedOut(kept, page', used.keys)
  BY <1>7, <1>8, KeysKept, RequestsKnown
<1>10. ASSUME NEW n \in Nat, Cardinality(last) = n
       PROVE  /\ used' \in [texts : Nat, keys : Nat, visits : Nat]
              /\ used'.keys = used.keys + n /\ used'.keys >= used.keys
  <2>1. used' = [used EXCEPT !.visits = @ + 1, !.keys = @ + n]
    BY <1>1, <1>10
  <2>2. used \in [texts : Nat, keys : Nat, visits : Nat]
    BY RequestsKnown
  <2>3. used' \in [texts : Nat, keys : Nat, visits : Nat]
    <3> DEFINE visited == [used EXCEPT !.visits = @ + 1]
    <3>1. visited \in [texts : Nat, keys : Nat, visits : Nat]
      BY <2>2
    <3>2. used' = [visited EXCEPT !.keys = @ + n]
      BY <2>1
    <3> HIDE DEF visited
    <3> QED BY <3>1, <3>2
  <2>4. used'.keys = used.keys + n
    BY <2>1, <2>2
  <2> QED BY <2>2, <2>3, <2>4
<1>11. CASE last = {}
  <2>1. Cardinality(last) = 0 /\ sent' = kept
    BY <1>1, <1>11, FS_EmptySet
  <2>2. /\ used' \in [texts : Nat, keys : Nat, visits : Nat]
        /\ used'.keys = used.keys + 0 /\ used'.keys >= used.keys
    BY <1>10, <2>1
  <2>3. KeysHandedOut(sent', page', used'.keys)
    <3>1. used'.keys = used.keys
      BY <2>2, RequestsKnown
    <3> QED BY <1>9, <2>1, <3>1
  <2>4. \A r \in Asked(sent', page') :
          RequestSound(r) /\ \E q \in Asked(sent, page) : SameCommand(r, q)
    BY <1>1, <1>7, <1>8, <2>1
  <2>5. OneSave(sent', box') /\ sent' \subseteq PageRequests
    BY <1>7, <2>1 DEF OneSave
  <2> QED BY <1>1, <1>8, <2>2, <2>3, <2>4, <2>5, EmptyTypes, NothingShown,
             PageMoves
<1>12. CASE \E r : last = {r}
  <2>1. PICK r : last = {r}
    BY <1>12
  <2>2. Cardinality(last) = 1 /\ sent' = kept \union {r}
    BY <1>1, <2>1, FS_Singleton
  <2>3. /\ used' \in [texts : Nat, keys : Nat, visits : Nat]
        /\ used'.keys = used.keys + 1 /\ used'.keys >= used.keys
    BY <1>10, <2>2
  <2>4. KeysHandedOut(sent', page', used'.keys)
    BY <1>1, <1>5, <1>9, <2>1, <2>2, <2>3, KeysAdded, RequestsKnown
  <2>5. r.key > used.keys /\ RequestSound(r)
    BY <1>5, <2>1, RequestsKnown
  <2>6. \A p \in Asked(sent', page') :
          /\ RequestSound(p)
          /\ \/ p.key > used.keys
             \/ \E q \in Asked(sent, page) : SameCommand(p, q)
    BY <1>1, <1>7, <1>8, <2>2, <2>5
  <2>7. OneSave(sent', box') /\ sent' \subseteq PageRequests
    BY <1>5, <1>7, <2>1, <2>2 DEF OneSave
  <2> QED BY <1>1, <1>8, <2>3, <2>4, <2>6, <2>7, EmptyTypes, NothingShown,
             PageMoves
<1> QED BY <1>6, <1>11, <1>12

-----------------------------------------------------------------------------
(***************************************************************************)
(* The server and the network.                                             *)
(***************************************************************************)

LEMMA RequestAnswered ==
  ASSUME BoxInv, NEW r \in sent, NEW answer \in Answers, AnsweredTo(r, answer),
         UNCHANGED <<page, box, used>>
  PROVE  /\ sent' \subseteq PageRequests /\ OneSave(sent', box')
         /\ KeysHandedOut(sent', page', used'.keys)
         /\ \A q \in Asked(sent', page') :
              /\ \E p \in Asked(sent, page) : SameCommand(q, p)
              /\ q \in Asked(sent, page) \/ q = [r EXCEPT !.answer = answer]
<1> DEFINE told == [r EXCEPT !.answer = answer]
<1>1. sent' = (sent \ {r}) \union {told} /\ UNCHANGED <<page, box, used>>
  BY DEF AnsweredTo
<1>2. r \in PageRequests /\ r \in Asked(sent, page)
  BY RequestsKnown
<1>3. told \in PageRequests /\ SameCommand(told, r) /\ told.by = r.by
  BY <1>2 DEF PageRequests, SameCommand
<1> HIDE DEF told
<1>4. \A q \in Asked(sent', page') : q \in Asked(sent, page) \/ q = told
  BY <1>1 DEF Asked
<1>5. \A q \in Asked(sent', page') :
        \E p \in Asked(sent, page) : SameCommand(q, p)
  BY <1>2, <1>3, <1>4, RequestsKnown
<1>6. KeysHandedOut(sent', page', used'.keys)
  <2>1. KeysHandedOut(sent, page, used.keys) /\ used'.keys = used.keys
    BY <1>1 DEF BoxInv
  <2> QED BY <1>5, <2>1, KeysKept
<1>7. OneSave(sent', box')
  BY <1>1, <1>3, RequestsKnown DEF OneSave
<1>8. sent' \subseteq PageRequests
  BY <1>1, <1>3, RequestsKnown
<1> QED BY <1>4, <1>5, <1>6, <1>7, <1>8 DEF told

\* An answer that changes no draft, and is well only if the journal has it.
LEMMA AnswerKeeps ==
  ASSUME BoxInv, NEW r \in sent, NEW answer \in Answers, AnsweredTo(r, answer),
         UNCHANGED <<rows, replies, page, box, used>>,
         answer = "ok" /\ r.kind # "tray" => r.key \in DOMAIN replies
  PROVE  BoxInv'
<1>1. /\ sent' \subseteq PageRequests /\ OneSave(sent', box')
      /\ KeysHandedOut(sent', page', used'.keys)
      /\ \A q \in Asked(sent', page') :
           /\ \E p \in Asked(sent, page) : SameCommand(q, p)
           /\ q \in Asked(sent, page) \/ q = [r EXCEPT !.answer = answer]
  BY RequestAnswered
<1>2. r \in PageRequests /\ RequestSound(r)
  BY RequestsKnown
<1>3. RequestSound([r EXCEPT !.answer = answer])
  BY <1>2 DEF RequestSound, PageRequests
<1>4. \A q \in Asked(sent', page') :
        RequestSound(q) /\ \E p \in Asked(sent, page) : SameCommand(q, p)
  BY <1>1, <1>3, RequestsKnown
<1>5. PageKnown' /\ SavedMeansStored'
  BY ShownStays
<1>6. /\ page' \in WorkspacePages /\ box' \in BoxRefs
      /\ used' \in [texts : Nat, keys : Nat, visits : Nat]
      /\ used'.keys >= used.keys
  BY RequestsKnown
<1> QED BY <1>1, <1>4, <1>5, <1>6, PageMoves

\* The drafts keep the instructions of every version they had.
Remembered ==
  \A k \in Drafts :
    /\ Version(k)' \in Nat /\ Version(k)' >= Version(k)
    /\ \A v \in 1 .. Version(k) : rows'[k].texts[v] = rows[k].texts[v]

\* So the page is right about the version it knows.
LEMMA PageRemembers ==
  ASSUME BoxInv, Remembered, UNCHANGED <<page, box>>
  PROVE  PageKnown' /\ SavedMeansStored'
<1>1. CASE page.open = NoDraft
  BY <1>1, NothingShown
<1>2. CASE page.open # NoDraft
  <2>1. /\ page.open \in Drafts /\ page.version \in 1 .. Version(page.open)
        /\ Version(page.open) \in Nat
    BY <1>2, BoxTypes, RequestsKnown DEF AnyDraft, BoxInv, PageKnown
  <2>2. /\ Version(page.open)' \in Nat /\ Version(page.open)' >= Version(page.open)
        /\ rows'[page.open].texts[page.version]
             = rows[page.open].texts[page.version]
    BY <2>1 DEF Remembered
  <2>3. page.version \in 1 .. Version(page.open)'
    BY <2>1, <2>2
  <2>4. SavedMeansStored
    BY DEF BoxInv
  <2> QED BY <2>2, <2>3, <2>4 DEF PageKnown, SavedMeansStored, Version
<1> QED BY <1>1, <1>2

\* And an answer given stays right.
LEMMA AnswersRemembered ==
  ASSUME BoxInv, Remembered, NEW r, r.kind # "tray" => r.draft \in Drafts,
         r.key \in DOMAIN replies, r.key \in DOMAIN replies',
         replies'[r.key] = replies[r.key], StoredAs(r)
  PROVE  StoredAs(r)'
<1> SUFFICES ASSUME r.kind # "tray"
             PROVE  AnsweredBy(r, replies'[r.key].version,
                               rows'[r.draft].texts)
  BY DEF StoredAs, AnsweredBy
<1> DEFINE version == replies[r.key].version
           texts == rows[r.draft].texts
           more == rows'[r.draft].texts
<1>1. AnsweredBy(r, version, texts)
  BY DEF StoredAs
<1>2. /\ Len(texts) \in Nat /\ Len(more) \in Nat /\ Len(more) >= Len(texts)
      /\ \A v \in 1 .. Len(texts) : more[v] = texts[v]
  BY BoxTypes, RequestsKnown DEF Remembered, Version
<1>3. version = replies'[r.key].version
  OBVIOUS
<1> HIDE DEF version, texts, more
<1>4. \A v \in 1 .. Len(texts) : v \in 1 .. Len(more)
  BY <1>2
<1>5. AnsweredBy(r, version, more)
  BY <1>1, <1>2, <1>4, Zenon DEF AnsweredBy
<1> QED BY <1>3, <1>5 DEF more

\* An answer that the server gives well: the draft it leaves is the draft as it
\* was, or with one version more.
LEMMA RepliedKeeps ==
  ASSUME BoxInv, NEW r \in sent, r.kind # "tray", NEW row \in DraftRows,
         Replied(r, row), rows' = [rows EXCEPT ![r.draft] = row],
         Len(row.texts) >= Version(r.draft),
         \A v \in 1 .. Version(r.draft) :
           row.texts[v] = rows[r.draft].texts[v],
         AnsweredBy(r, Len(row.texts), row.texts),
         UNCHANGED <<page, box, used>>
  PROVE  BoxInv'
<1>1. AnsweredTo(r, "ok")
  BY DEF Replied
<1>2. /\ sent' \subseteq PageRequests /\ OneSave(sent', box')
      /\ KeysHandedOut(sent', page', used'.keys)
      /\ \A q \in Asked(sent', page') :
           /\ \E p \in Asked(sent, page) : SameCommand(q, p)
           /\ q \in Asked(sent, page) \/ q = [r EXCEPT !.answer = "ok"]
  BY <1>1, RequestAnswered DEF Answers
<1>3. /\ r \in Asked(sent, page) /\ r \in PageRequests /\ RequestSound(r)
      /\ r.draft \in Drafts
  BY RequestsKnown DEF RequestSound
<1>4. rows \in [Drafts -> DraftRows]
  BY RequestsKnown DEF BoxTypeOK
<1>5. \A k \in Drafts : rows'[k] = IF k = r.draft THEN row ELSE rows[k]
  BY <1>3, <1>4
<1>6. /\ \A k \in Drafts : Version(k) \in Nat \ {0}
      /\ Len(row.texts) \in Nat
  BY BoxTypes, RequestsKnown, LenProperties DEF DraftRows
<1>7. Remembered /\ \A k \in Drafts : Version(k)' # 0
  BY <1>5, <1>6 DEF Remembered, Version
<1>8. r.key \in 1 .. used.keys /\ r.key \in Nat
  BY <1>3, RequestsKnown DEF KeysHandedOut, PageRequests
<1>9. /\ DOMAIN replies' = DOMAIN replies \union {r.key}
      /\ replies'[r.key] = DraftSummary(row)
      /\ \A k \in DOMAIN replies : k # r.key => replies'[k] = replies[k]
  BY DEF Replied
<1>10. /\ DraftSummary(row) \in Summaries
       /\ DraftSummary(row).version = Len(row.texts)
  BY <1>6 DEF DraftSummary, Summaries, DraftRows
<1>11. BoxTypeOK'
  <2>1. rows' \in [Drafts -> DraftRows]
    BY <1>4
  <2>2. /\ DOMAIN replies' \subseteq Nat
        /\ \A k \in DOMAIN replies' : replies'[k] \in Summaries
    BY <1>8, <1>9, <1>10, RequestsKnown DEF BoxTypeOK
  <2> QED BY <1>2, <1>7, <2>1, <2>2, RequestsKnown DEF BoxTypeOK
<1>12. (DOMAIN replies \subseteq 1 .. used.keys)'
  BY <1>8, <1>9 DEF BoxInv
<1>13. ASSUME NEW q \in Asked(sent', page')
       PROVE  RequestSound(q)' /\ StoredAs(q)'
  <2>1. q \in Asked(sent, page) => RequestSound(q)'
    BY <1>9, RequestsKnown DEF RequestSound
  <2>2. q = [r EXCEPT !.answer = "ok"] => RequestSound(q)'
    BY <1>3, <1>9 DEF RequestSound, PageRequests
  <2>3. RequestSound(q)'
    BY <1>2, <2>1, <2>2
  <2>4. PICK p \in Asked(sent, page) : SameCommand(q, p)
    BY <1>2
  <2>5. StoredAs(p) /\ RequestSound(p)
    BY RequestsKnown
  <2>6. CASE q.key = r.key
    <3>1. SameCommand(p, r)
      <4>1. p.key = r.key /\ r \in Asked(sent, page)
        BY <2>4, <2>6, RequestsKnown DEF SameCommand
      <4>2. KeysHandedOut(sent, page, used.keys)
        BY DEF BoxInv
      <4> QED BY <4>1, <4>2 DEF KeysHandedOut
    <3>2. SameCommand(q, r)
      BY <2>4, <3>1 DEF SameCommand
    <3>3. AnsweredBy(q, Len(row.texts), row.texts)
      BY <3>2, Zenon DEF SameCommand, AnsweredBy
    <3>4. /\ replies'[q.key].version = Len(row.texts)
          /\ rows'[q.draft].texts = row.texts
      BY <1>3, <1>5, <1>9, <1>10, <2>6, <3>2 DEF SameCommand
    <3>5. StoredAs(q)'
      BY <3>3, <3>4 DEF StoredAs, AnsweredBy
    <3> QED BY <2>3, <3>5
  <2>7. CASE q.key # r.key /\ q.key \in DOMAIN replies'
    <3>1. q.key \in DOMAIN replies /\ replies'[q.key] = replies[q.key]
      BY <1>9, <2>7
    <3>2. StoredAs(q)
      BY <2>4, <2>5, Zenon DEF SameCommand, StoredAs, AnsweredBy
    <3>3. q.kind # "tray" => q.draft \in Drafts
      BY <2>4, <2>5 DEF SameCommand, RequestSound
    <3> QED BY <1>7, <2>3, <2>7, <3>1, <3>2, <3>3, AnswersRemembered
  <2>8. CASE q.key \notin DOMAIN replies'
    BY <2>3, <2>8 DEF StoredAs
  <2> QED BY <2>6, <2>7, <2>8
<1>14. PageKnown' /\ SavedMeansStored'
  BY <1>7, PageRemembers
<1>15. (\A q \in Asked(sent, page) : RequestSound(q) /\ StoredAs(q))'
  BY <1>13 DEF Asked
<1>16. KeysHandedOut(sent, page, used.keys)' /\ OneSave(sent, box)'
  BY <1>2 DEF KeysHandedOut, OneSave, Asked
<1> QED BY <1>11, <1>12, <1>14, <1>15, <1>16 DEF BoxInv

\* What a command leaves: the draft with one version more, which has the
\* instructions that the command is answered with.
LEMMA AppliedShows ==
  ASSUME BoxInv, NEW r \in sent, r.kind \notin Reads, Accepted(r)
  PROVE  LET row == Applied(r)
         IN /\ row \in DraftRows /\ Len(row.texts) >= Version(r.draft)
            /\ \A v \in 1 .. Version(r.draft) :
                 row.texts[v] = rows[r.draft].texts[v]
            /\ AnsweredBy(r, Len(row.texts), row.texts)
<1> DEFINE old == rows[r.draft]
           text == TextAfter(r)
           texts == Append(old.texts, text)
           row == [old EXCEPT !.texts = Append(@, text)]
<1>1. /\ r \in PageRequests /\ r.draft \in Drafts
      /\ r.kind \in {"claim", "hold", "confirm", "instructions", "channel"}
  BY RequestsKnown DEF RequestSound, Reads, PageRequests, Kinds
<1>2. /\ old \in DraftRows /\ old.texts \in Seq(Typings)
      /\ Version(r.draft) \in Nat \ {0} /\ Version(r.draft) = Len(old.texts)
      /\ r.version = Version(r.draft)
  BY <1>1, BoxTypes, RequestsKnown DEF Version, Accepted
<1>3. old.texts[Version(r.draft)] \in Typings
  BY <1>2, ElementOfSeq
<1>4. /\ text \in Typings
      /\ r.kind = "instructions" => text = r.text
      /\ r.kind = "channel" /\ ~r.delivery => text = NoText
      /\ r.kind = "channel" /\ r.delivery => text = old.texts[Version(r.draft)]
  <2>1. r.text \in Typings /\ r.delivery \in BOOLEAN
    BY <1>1 DEF PageRequests
  <2>2. CASE r.kind = "instructions"
    BY <2>1, <2>2 DEF TextAfter
  <2>3. CASE r.kind = "channel" /\ ~r.delivery
    <3>1. text = NoText
      BY <2>3 DEF TextAfter
    <3> QED BY <2>3, <3>1, EmptyTypes
  <2>4. CASE r.kind # "instructions" /\ ~(r.kind = "channel" /\ ~r.delivery)
    <3>1. text = old.texts[Version(r.draft)]
      BY <2>4 DEF TextAfter
    <3> QED BY <1>3, <2>4, <3>1
  <2> QED BY <2>2, <2>3, <2>4
<1> HIDE DEF text
<1>5. /\ texts \in Seq(Typings) /\ Len(texts) = Version(r.draft) + 1
      /\ texts[Len(texts)] = text
      /\ \A v \in 1 .. Version(r.draft) : texts[v] = old.texts[v]
  BY <1>2, <1>4, Appended
<1>6. row \in DraftRows /\ row.texts = texts
  BY <1>2, <1>5 DEF DraftRows
<1> HIDE DEF texts, row
<1>7. Applied(r) \in DraftRows /\ Applied(r).texts = texts
  <2>1. Applied(r) =
          CASE r.kind = "claim" -> [row EXCEPT !.lease = Version(r.draft) + 1]
            [] r.kind = "hold" -> [row EXCEPT !.lease = 0]
            [] r.kind = "confirm" ->
                 [row EXCEPT !.lease = 0, !.status = "confirmed"]
            [] r.kind = "channel" -> [row EXCEPT !.delivery = r.delivery]
            [] r.kind = "instructions" -> row
    BY DEF Applied, row, text
  <2>2. CASE r.kind = "claim"
    <3>1. Version(r.draft) + 1 \in Nat
      BY <1>2
    <3>2. Applied(r) = [row EXCEPT !.lease = Version(r.draft) + 1]
      BY <2>1, <2>2
    <3> QED BY <1>6, <3>1, <3>2 DEF DraftRows
  <2>3. CASE r.kind = "hold"
    BY <1>6, <2>1, <2>3 DEF DraftRows
  <2>4. CASE r.kind = "confirm"
    <3> DEFINE held == [row EXCEPT !.lease = 0]
    <3>1. held \in DraftRows /\ held.texts = texts
      BY <1>6 DEF DraftRows
    <3>2. Applied(r) = [held EXCEPT !.status = "confirmed"]
      BY <1>6, <2>1, <2>4 DEF DraftRows
    <3> HIDE DEF held
    <3> QED BY <3>1, <3>2 DEF DraftRows
  <2>5. CASE r.kind = "channel"
    <3>1. r.delivery \in BOOLEAN
      BY <1>1 DEF PageRequests
    <3>2. Applied(r) = [row EXCEPT !.delivery = r.delivery]
      BY <2>1, <2>5
    <3> QED BY <1>6, <3>1, <3>2 DEF DraftRows
  <2>6. CASE r.kind = "instructions"
    BY <1>6, <2>1, <2>6
  <2> QED BY <1>1, <2>2, <2>3, <2>4, <2>5, <2>6
<1>8. AnsweredBy(r, Len(texts), texts)
  <2>1. /\ Len(texts) \in 1 .. Len(texts)
        /\ r.version \in 1 .. Len(texts)
        /\ texts[r.version] = old.texts[Version(r.draft)]
    <3>1. Version(r.draft) \in Nat \ {0} /\ r.version = Version(r.draft)
      BY <1>2
    <3>2. Version(r.draft) \in 1 .. Version(r.draft)
      BY <3>1
    <3> QED BY <1>5, <3>1, <3>2
  <2> QED BY <1>4, <1>5, <2>1, Zenon DEF AnsweredBy
<1> QED BY <1>2, <1>5, <1>7, <1>8

LEMMA ServeKeeps ==
  ASSUME BoxInv, NEW r \in sent, Serve(r)
  PROVE  BoxInv'
<1> DEFINE fresh == r.kind \notin Reads /\ r.key \notin DOMAIN replies
<1>1. UNCHANGED <<page, box, used>>
  BY DEF Serve
<1>2. CASE /\ r.kind = "tray" \/ (r.kind # "workspace" /\ ~fresh)
           /\ AnsweredTo(r, "ok") /\ UNCHANGED <<rows, replies>>
  BY <1>1, <1>2, AnswerKeeps DEF Answers, Reads
<1>3. CASE /\ r.kind = "workspace" /\ Replied(r, rows[r.draft])
           /\ UNCHANGED rows
  <2>1. r.draft \in Drafts
    BY <1>3, RequestsKnown DEF RequestSound
  <2>2. /\ rows[r.draft] \in DraftRows /\ Version(r.draft) \in Nat \ {0}
        /\ rows \in [Drafts -> DraftRows]
    BY <2>1, BoxTypes, RequestsKnown DEF BoxTypeOK
  <2> DEFINE row == rows[r.draft]
  <2>3. rows' = [rows EXCEPT ![r.draft] = row]
    BY <1>3, <2>1, <2>2
  <2>4. /\ Len(row.texts) = Version(r.draft)
        /\ Len(row.texts) \in 1 .. Len(row.texts)
        /\ Len(row.texts) >= Version(r.draft)
    BY <2>2 DEF Version
  <2>5. AnsweredBy(r, Len(row.texts), row.texts)
    BY <1>3, <2>4 DEF AnsweredBy
  <2>6. \A v \in 1 .. Version(r.draft) : row.texts[v] = rows[r.draft].texts[v]
    OBVIOUS
  <2>7. row \in DraftRows /\ Replied(r, row) /\ r.kind # "tray"
    BY <1>3, <2>2
  <2> HIDE DEF row
  <2> QED BY <1>1, <2>3, <2>4, <2>5, <2>6, <2>7, RepliedKeeps
<1>4. CASE /\ fresh /\ Accepted(r) /\ Replied(r, Applied(r))
           /\ rows' = [rows EXCEPT ![r.draft] = Applied(r)]
  <2> DEFINE row == Applied(r)
  <2>1. /\ row \in DraftRows /\ Len(row.texts) >= Version(r.draft)
        /\ \A v \in 1 .. Version(r.draft) :
             row.texts[v] = rows[r.draft].texts[v]
        /\ AnsweredBy(r, Len(row.texts), row.texts)
    BY <1>4, AppliedShows
  <2>2. /\ Replied(r, row) /\ rows' = [rows EXCEPT ![r.draft] = row]
        /\ r.kind # "tray"
    BY <1>4 DEF Reads
  <2> HIDE DEF row
  <2> QED BY <1>1, <2>1, <2>2, RepliedKeeps
<1>5. CASE AnsweredTo(r, "conflict") /\ UNCHANGED <<rows, replies>>
  BY <1>1, <1>5, AnswerKeeps DEF Answers
<1> QED BY <1>2, <1>3, <1>4, <1>5 DEF Serve

LEMMA LoseKeeps ==
  ASSUME BoxInv, NEW r \in sent, Lose(r)
  PROVE  BoxInv'
BY AnswerKeeps DEF Lose, Answers

LEMMA TakenAwayKeeps ==
  ASSUME BoxInv, NEW k \in Drafts, TakenAway(k)
  PROVE  BoxInv'
<1> DEFINE text == rows[k].texts[Version(k)]
           others == IF rows[k].delivery THEN [draft |-> k, number |-> 0]
                     ELSE text
           once == Append(rows[k].texts, text)
           twice == Append(once, others)
<1>1. /\ rows' = [rows EXCEPT ![k].lease = Version(k) + 2,
                              ![k].texts = Append(Append(@, text), others)]
      /\ UNCHANGED <<replies, page, box, sent, used>>
  BY DEF TakenAway
<1>2. /\ rows \in [Drafts -> DraftRows] /\ rows[k] \in DraftRows
      /\ rows[k].texts \in Seq(Typings) /\ Version(k) \in Nat \ {0}
      /\ Version(k) = Len(rows[k].texts)
  BY BoxTypes, RequestsKnown DEF BoxTypeOK, Version
<1>3. text \in Typings /\ others \in Typings
  <2>1. text \in Typings
    BY <1>2, ElementOfSeq
  <2>2. [draft |-> k, number |-> 0] \in Typings
    BY DEF Typings, AnyDraft
  <2> QED BY <2>1, <2>2
<1> HIDE DEF text, others
<1>4. /\ once \in Seq(Typings) /\ Len(once) = Version(k) + 1
      /\ \A v \in 1 .. Version(k) : once[v] = rows[k].texts[v]
  BY <1>2, <1>3, Appended
<1> HIDE DEF once
<1>5. /\ twice \in Seq(Typings) /\ Len(twice) = Version(k) + 2
      /\ \A v \in 1 .. Version(k) : twice[v] = rows[k].texts[v]
  BY <1>2, <1>3, <1>4, Appended
<1> DEFINE row == [rows[k] EXCEPT !.lease = Version(k) + 2, !.texts = twice]
<1>6. rows' = [rows EXCEPT ![k] = row]
  BY <1>1, <1>2 DEF once
<1> HIDE DEF twice
<1>7. row \in DraftRows /\ row.texts = twice
  <2>1. [rows[k] EXCEPT !.lease = Version(k) + 2] \in DraftRows
    BY <1>2 DEF DraftRows
  <2>2. row = [[rows[k] EXCEPT !.lease = Version(k) + 2] EXCEPT !.texts = twice]
    OBVIOUS
  <2> QED BY <1>2, <1>5, <2>1, <2>2 DEF DraftRows
<1> HIDE DEF row
<1>8. \A d \in Drafts : rows'[d] = IF d = k THEN row ELSE rows[d]
  BY <1>2, <1>6
<1>9. \A d \in Drafts : Version(d) \in Nat \ {0}
  BY BoxTypes, RequestsKnown
<1>10. Remembered /\ \A d \in Drafts : Version(d)' # 0
  <2>1. \A d \in Drafts : Version(d)' = Len(rows'[d].texts)
    BY DEF Version
  <2>2. /\ Version(k)' = Version(k) + 2
        /\ \A v \in 1 .. Version(k) : rows'[k].texts[v] = rows[k].texts[v]
    BY <1>5, <1>7, <1>8, <2>1
  <2>3. \A d \in Drafts : d # k => rows'[d] = rows[d] /\ Version(d)' = Version(d)
    BY <1>8 DEF Version
  <2> QED BY <1>9, <2>2, <2>3 DEF Remembered
<1>11. rows' \in [Drafts -> DraftRows]
  BY <1>2, <1>6, <1>7
<1>12. BoxTypeOK'
  BY <1>1, <1>10, <1>11, RequestsKnown DEF BoxTypeOK
<1>13. ASSUME NEW r \in Asked(sent, page)
       PROVE  RequestSound(r)' /\ StoredAs(r)'
  <2>1. RequestSound(r) /\ StoredAs(r)
    BY RequestsKnown
  <2>2. RequestSound(r)'
    BY <1>1, <2>1 DEF RequestSound
  <2>3. CASE r.key \notin DOMAIN replies
    BY <1>1, <2>2, <2>3 DEF StoredAs
  <2>4. CASE r.key \in DOMAIN replies
    <3>1. /\ r.key \in DOMAIN replies' /\ replies'[r.key] = replies[r.key]
          /\ r.kind # "tray" => r.draft \in Drafts
      BY <1>1, <2>1, <2>4 DEF RequestSound
    <3> QED BY <1>10, <2>1, <2>2, <2>4, <3>1, AnswersRemembered
  <2> QED BY <2>3, <2>4
<1>14. PageKnown' /\ SavedMeansStored'
  BY <1>1, <1>10, PageRemembers
<1>15. (\A r \in Asked(sent, page) : RequestSound(r) /\ StoredAs(r))'
  BY <1>1, <1>13 DEF Asked
<1>16. /\ KeysHandedOut(sent, page, used.keys)' /\ OneSave(sent, box)'
       /\ (DOMAIN replies \subseteq 1 .. used.keys)'
  BY <1>1 DEF BoxInv, KeysHandedOut, OneSave, Asked
<1> QED BY <1>12, <1>14, <1>15, <1>16 DEF BoxInv

-----------------------------------------------------------------------------
(***************************************************************************)
(* Answers.                                                                *)
(***************************************************************************)

\* An answer is about a version of its draft, with the instructions it then had.
LEMMA DetailKnown ==
  ASSUME BoxInv, NEW r \in sent, r.answer = "ok", r.kind \notin {"tray", "hold"}
  PROVE  /\ Detail(r) \in WorkspacePages /\ Detail(r).pending = None
         /\ Detail(r).open = r.draft /\ r.draft \in Drafts
         /\ Detail(r).version = replies[r.key].version
         /\ Detail(r).shown = page.shown
         /\ AnsweredBy(r, Detail(r).version, rows[r.draft].texts)
         /\ Detail(r).version \in 1 .. Version(r.draft)
         /\ rows[r.draft].texts[Detail(r).version] \in Typings
<1> DEFINE row == replies[r.key]
<1>1. r \in Asked(sent, page) /\ RequestSound(r) /\ StoredAs(r)
  BY RequestsKnown
<1>2. r.draft \in Drafts /\ rows[r.draft].texts \in Seq(Typings)
  BY <1>1, BoxTypes, RequestsKnown DEF RequestSound
<1>3. r.key \in DOMAIN replies
  BY <1>1 DEF RequestSound
<1>4. row \in Summaries /\ AnsweredBy(r, row.version, rows[r.draft].texts)
  BY <1>1, <1>3, RequestsKnown DEF StoredAs, BoxTypeOK
<1>5. /\ row.version \in Nat /\ row.lease \in Nat /\ row.delivery \in BOOLEAN
      /\ row.status \in {"draft", "confirmed"} /\ r.draft \in AnyDraft
  BY <1>2, <1>4 DEF Summaries, AnyDraft
<1>6. Detail(r) = [page EXCEPT !.open = r.draft, !.version = row.version,
                     !.lease = row.lease, !.status = row.status,
                     !.delivery = row.delivery, !.busy = FALSE,
                     !.pending = None]
  BY DEF Detail
<1>7. row.version \in 1 .. Version(r.draft)
  BY <1>4 DEF AnsweredBy, Version
<1>8. rows[r.draft].texts[row.version] \in Typings
  BY <1>2, <1>7, ElementOfSeq DEF Version
<1> HIDE DEF row
<1>9. page \in WorkspacePages
  BY RequestsKnown
<1>10. /\ Detail(r) \in WorkspacePages /\ Detail(r).pending = None
       /\ Detail(r).open = r.draft /\ Detail(r).version = row.version
       /\ Detail(r).shown = page.shown
  <2>1. [page EXCEPT !.open = r.draft, !.version = row.version,
                     !.lease = row.lease, !.status = row.status]
          \in WorkspacePages
    BY <1>5, <1>9 DEF WorkspacePages
  <2>2. Detail(r) = [[page EXCEPT !.open = r.draft, !.version = row.version,
                                  !.lease = row.lease, !.status = row.status]
                       EXCEPT !.delivery = row.delivery, !.busy = FALSE,
                              !.pending = None]
    BY <1>6
  <2> QED BY <1>5, <1>9, <2>1, <2>2 DEF WorkspacePages
<1> QED BY <1>2, <1>4, <1>7, <1>8, <1>10 DEF row

\* A page that shows the text the draft had at the version it is about.
LEMMA ShowsVersion ==
  ASSUME BoxInv, rows' = rows, NEW screen, screen.open \in Drafts,
         screen.version \in 1 .. Version(screen.open),
         screen.shown = rows[screen.open].texts[screen.version],
         page'.open = screen.open, page'.version = screen.version,
         page'.shown = screen.shown
  PROVE  PageKnown' /\ SavedMeansStored'
BY DEF PageKnown, SavedMeansStored, Version

\* The page after an answer.
LEMMA HeardShows ==
  ASSUME BoxInv, NEW r \in sent, r.answer = "ok", rows' = rows
  PROVE  /\ Heard(r) \in WorkspacePages /\ Heard(r).pending = None
         /\ (/\ page'.open = Heard(r).open /\ page'.version = Heard(r).version
             /\ page'.shown = Heard(r).shown /\ page'.read = Heard(r).read
             /\ r.kind \in {"tray", "channel"} /\ (box.dirty \/ box.saving)
                  => box'.dirty \/ box'.saving)
            => PageKnown' /\ SavedMeansStored'
<1>1. page \in WorkspacePages /\ r \in PageRequests
  BY RequestsKnown
<1>2. CASE r.kind = "tray"
  <2>1. Heard(r) = [page EXCEPT !.busy = FALSE, !.pending = None]
    BY <1>2 DEF Heard
  <2>2. /\ Heard(r) \in WorkspacePages /\ Heard(r).pending = None
        /\ Heard(r).open = page.open /\ Heard(r).version = page.version
        /\ Heard(r).shown = page.shown /\ Heard(r).read = page.read
    BY <1>1, <2>1 DEF WorkspacePages
  <2> QED BY <1>2, <2>2, ShownStays
<1>3. CASE r.kind = "hold"
  <2>1. Heard(r) = Running(Empty)
    BY <1>3 DEF Heard
  <2>2. /\ Heard(r) \in WorkspacePages /\ Heard(r).pending = None
        /\ Heard(r).open = NoDraft
    BY <2>1, EmptyTypes DEF Running, WorkspacePages, Answers
  <2> QED BY <2>2, NothingShown
<1>4. CASE r.kind \notin {"tray", "hold"}
  <2> DEFINE reopened == [Detail(r) EXCEPT !.read = FALSE]
             text == rows[r.draft].texts[replies[r.key].version]
  <2>1. /\ Detail(r) \in WorkspacePages /\ Detail(r).pending = None
        /\ Detail(r).open = r.draft /\ r.draft \in Drafts
        /\ Detail(r).shown = page.shown
        /\ Detail(r).version \in 1 .. Version(r.draft)
        /\ text = rows[r.draft].texts[Detail(r).version]
        /\ text \in Typings
        /\ AnsweredBy(r, Detail(r).version, rows[r.draft].texts)
    BY <1>4, DetailKnown
  <2>2. r.text \in Typings /\ r.delivery \in BOOLEAN
    BY <1>1 DEF PageRequests
  <2> HIDE DEF text
  <2>3. CASE r.kind \in {"claim", "confirm"}
    <3>1. reopened \in WorkspacePages /\ reopened.pending = None
          /\ reopened.open = r.draft /\ reopened.version = Detail(r).version
          /\ ~reopened.read
      BY <2>1 DEF WorkspacePages
    <3> HIDE DEF reopened
    <3>2. Heard(r) = reopened \/ Heard(r) = Running(reopened)
      BY <2>3 DEF Heard, reopened
    <3>3. /\ Heard(r) \in WorkspacePages /\ Heard(r).pending = None
          /\ Heard(r).open = r.draft /\ Heard(r).version = Detail(r).version
          /\ ~Heard(r).read
      BY <3>1, <3>2 DEF Running, WorkspacePages, Answers
    <3> QED BY <2>1, <3>3 DEF PageKnown, SavedMeansStored, Version
  <2>4. CASE r.kind = "workspace"
    <3>1. Heard(r) = [Detail(r) EXCEPT !.shown = text, !.read = TRUE]
      BY <2>4 DEF Heard, text
    <3>2. [Detail(r) EXCEPT !.shown = text] \in WorkspacePages
      BY <2>1 DEF WorkspacePages
    <3>3. /\ Heard(r) \in WorkspacePages /\ Heard(r).pending = None
          /\ Heard(r).open = r.draft /\ Heard(r).version = Detail(r).version
          /\ Heard(r).shown = text
      BY <2>1, <3>1, <3>2 DEF WorkspacePages
    <3> QED BY <2>1, <3>3, ShowsVersion
  <2>5. CASE r.kind = "instructions"
    <3> DEFINE told == [Detail(r) EXCEPT !.shown = r.text, !.read = TRUE]
    <3>1. [Detail(r) EXCEPT !.shown = r.text] \in WorkspacePages
      BY <2>1, <2>2 DEF WorkspacePages
    <3>2. /\ told \in WorkspacePages /\ told.pending = None
          /\ told.open = r.draft /\ told.version = Detail(r).version
          /\ told.shown = r.text
      BY <2>1, <2>2, <3>1 DEF WorkspacePages
    <3>3. Heard(r) = told \/ Heard(r) = Running(told)
      BY <2>5 DEF Heard
    <3> HIDE DEF told
    <3>4. /\ Heard(r) \in WorkspacePages /\ Heard(r).pending = None
          /\ Heard(r).open = r.draft /\ Heard(r).version = Detail(r).version
          /\ Heard(r).shown = r.text
      BY <3>2, <3>3 DEF Running, WorkspacePages, Answers
    <3>5. r.text = rows[r.draft].texts[Detail(r).version]
      BY <2>1, <2>5 DEF AnsweredBy
    <3> QED BY <2>1, <3>4, <3>5, ShowsVersion
  <2>6. CASE r.kind = "channel"
    <3> DEFINE same == /\ page.read /\ page.open = r.draft
                       /\ page.version = r.version
               right == IF r.delivery THEN same ELSE page.shown = NoText
               kept == [Detail(r) EXCEPT !.read = right]
    <3>1. right \in BOOLEAN
      BY <1>1 DEF WorkspacePages
    <3>2. Heard(r) = kept \/ Heard(r) = Running(kept)
      BY <2>6 DEF Heard
    <3> HIDE DEF right
    <3>3. /\ kept \in WorkspacePages /\ kept.pending = None
          /\ kept.open = r.draft /\ kept.version = Detail(r).version
          /\ kept.shown = page.shown /\ kept.read = right
      BY <2>1, <3>1 DEF WorkspacePages
    <3> HIDE DEF kept
    <3>4. /\ Heard(r) \in WorkspacePages /\ Heard(r).pending = None
          /\ Heard(r).open = r.draft /\ Heard(r).version = Detail(r).version
          /\ Heard(r).shown = page.shown /\ Heard(r).read = right
      BY <3>2, <3>3 DEF Running, WorkspacePages, Answers
    <3>5. SUFFICES ASSUME page'.open = Heard(r).open,
                          page'.version = Heard(r).version,
                          page'.shown = Heard(r).shown,
                          page'.read = Heard(r).read,
                          box.dirty \/ box.saving => box'.dirty \/ box'.saving
                   PROVE  PageKnown' /\ SavedMeansStored'
      BY <2>6, <3>4
    <3>6. CASE ~right
      BY <2>1, <3>4, <3>5, <3>6 DEF PageKnown, SavedMeansStored, Version
    <3>7. CASE right /\ ~r.delivery
      <4>1. page.shown = NoText
        BY <3>7 DEF right
      <4>2. rows[r.draft].texts[Detail(r).version] = NoText
        BY <2>1, <2>6, <3>7 DEF AnsweredBy
      <4> QED BY <2>1, <3>4, <3>5, <4>1, <4>2, ShowsVersion
    <3>8. CASE right /\ r.delivery /\ ~box.dirty /\ ~box.saving
      <4>1. page.read /\ page.open = r.draft /\ page.version = r.version
        BY <3>8 DEF right
      <4>2. page.shown = rows[r.draft].texts[r.version]
        BY <2>1, <3>8, <4>1, BoxAssumption DEF BoxInv, SavedMeansStored
      <4>3. rows[r.draft].texts[Detail(r).version] = rows[r.draft].texts[r.version]
        BY <2>1, <2>6, <3>8 DEF AnsweredBy
      <4> QED BY <2>1, <3>4, <3>5, <4>2, <4>3, ShowsVersion
    <3>9. CASE box.dirty \/ box.saving
      BY <2>1, <3>4, <3>5, <3>9 DEF PageKnown, SavedMeansStored, Version
    <3> QED BY <3>6, <3>7, <3>8, <3>9
  <2> QED BY <1>1, <1>4, <2>3, <2>4, <2>5, <2>6 DEF PageRequests, Kinds
<1> QED BY <1>2, <1>3, <1>4

\* The page after a request that failed: what may be sent again is what was sent.
LEMMA FailedShows ==
  ASSUME BoxInv, NEW r \in sent, NEW rest \in SUBSET sent
  PROVE  /\ Failed(r) \in WorkspacePages
         /\ Failed(r).open = page.open /\ Failed(r).version = page.version
         /\ Failed(r).shown = page.shown /\ Failed(r).read = page.read
         /\ \A q \in Asked(rest, Failed(r)) :
              RequestSound(q) /\ \E p \in Asked(sent, page) : SameCommand(q, p)
<1> DEFINE again == [r EXCEPT !.answer = "none"]
           pending == IF r.answer = "unavailable" THEN again ELSE None
<1>1. page \in WorkspacePages /\ r \in PageRequests /\ RequestSound(r)
  BY RequestsKnown
<1>2. again \in PageRequests /\ SameCommand(again, r) /\ RequestSound(again)
  BY <1>1 DEF PageRequests, SameCommand, RequestSound, Answers
<1>3. r.answer \in Answers
  BY <1>1 DEF PageRequests
<1>4. Failed(r) = [page EXCEPT !.busy = FALSE, !.error = r.answer,
                              !.pending = pending]
  BY DEF Failed
<1> HIDE DEF again
<1>5. pending \in PageRequests \union {None}
  BY <1>2
<1> HIDE DEF pending
<1>6. /\ Failed(r) \in WorkspacePages /\ Failed(r).pending = pending
      /\ Failed(r).open = page.open /\ Failed(r).version = page.version
      /\ Failed(r).shown = page.shown /\ Failed(r).read = page.read
  BY <1>1, <1>3, <1>4, <1>5 DEF WorkspacePages
<1>7. pending \in {again, None}
  BY DEF pending
<1>8. \A q \in Asked(rest, Failed(r)) : q \in sent \/ q = again
  BY <1>6, <1>7 DEF Asked
<1> QED BY <1>2, <1>6, <1>8, RequestsKnown

\* What a caller asks for next.
LEMMA FollowsMade ==
  ASSUME BoxInv, NEW r \in sent, r.answer = "ok"
  PROVE  \/ Follows(r) = {}
         \/ \E f \in PageRequests : /\ Follows(r) = {f} /\ RequestSound(f)
                                   /\ f.key = Key /\ f.by = "button"
<1>1. Key \in Nat
  BY RequestsKnown
<1>2. CASE r.kind = "hold"
  <2>1. LET f == Bare("tray", NoDraft, Key)
        IN /\ f \in PageRequests /\ RequestSound(f)
           /\ f.key = Key /\ f.by = "button"
    <3>1. "tray" \in Kinds /\ NoDraft \in AnyDraft
      BY DEF Kinds, AnyDraft
    <3> QED BY <1>1, <3>1, BareMade
  <2>2. Follows(r) = {Bare("tray", NoDraft, Key)}
    BY <1>2 DEF Follows
  <2> QED BY <2>1, <2>2
<1> DEFINE reads == \/ r.kind = "claim"
                    \/ r.kind \in {"instructions", "channel"} /\ r.by = "retry"
<1>3. CASE reads
  <2>1. r.draft \in Drafts
    BY <1>3, DetailKnown
  <2>2. LET f == Bare("workspace", r.draft, Key)
        IN /\ f \in PageRequests /\ RequestSound(f)
           /\ f.key = Key /\ f.by = "button"
    <3>1. "workspace" \in Kinds /\ r.draft \in AnyDraft
      BY <2>1 DEF Kinds, AnyDraft
    <3> QED BY <1>1, <2>1, <3>1, BareMade
  <2>3. Follows(r) = {Bare("workspace", r.draft, Key)}
    BY <1>3 DEF Follows
  <2> QED BY <2>2, <2>3
<1>4. CASE r.kind # "hold" /\ ~reads
  BY <1>4 DEF Follows
<1> QED BY <1>2, <1>3, <1>4

LEMMA HearButtonKeeps ==
  ASSUME BoxInv, NEW r \in sent, r.answer # "none", UNCHANGED <<rows, replies>>,
         HearButton(r)
  PROVE  BoxInv'
<1> DEFINE rest == Cleared(r)
<1>0. rest \in SUBSET sent
  BY DEF Cleared
<1>1. CASE r.answer = "ok"
  <2> DEFINE more == Follows(r)
             screen == Heard(r)
             requests == (rest) \union more
             key == Key + Cardinality(more)
  <2>1. Render(screen, box, requests, key)
    BY <1>1 DEF HearButton
  <2> HIDE DEF rest
  <2>2. /\ screen \in WorkspacePages /\ screen.pending = None
        /\ (/\ page'.open = screen.open /\ page'.version = screen.version
            /\ page'.shown = screen.shown /\ page'.read = screen.read
            /\ box.dirty \/ box.saving => box'.dirty \/ box'.saving)
           => PageKnown' /\ SavedMeansStored'
    BY <1>1, HeardShows
  <2>3. \/ more = {}
        \/ \E f \in PageRequests : /\ more = {f} /\ RequestSound(f)
                                  /\ f.key = Key /\ f.by = "button"
    BY <1>1, FollowsMade
  <2> HIDE DEF screen, more
  <2>4. \A others : Asked(others, screen) = others
    BY <2>2 DEF Asked
  <2>5. KeysHandedOut(rest, screen, used.keys)
    BY <1>0, <2>4, RequestsKnown DEF KeysHandedOut
  <2>6. box \in BoxRefs
    BY RequestsKnown
  <2>7. CASE more = {}
    <3>1. key = Key /\ requests = rest
      BY <2>7, FS_EmptySet, RequestsKnown
    <3>2. /\ requests \in SUBSET PageRequests /\ OneSave(requests, box)
          /\ key \in Nat /\ key > used.keys /\ key - 1 = used.keys
      BY <1>0, <3>1, RequestsKnown DEF OneSave
    <3>3. \A q \in Asked(requests, screen) :
            RequestSound(q) /\ \E p \in Asked(sent, page) : SameCommand(q, p)
      BY <1>0, <2>4, <3>1, RequestsKnown
    <3>4. KeysHandedOut(requests, screen, key - 1)
      BY <2>5, <3>1, <3>2
    <3> HIDE DEF requests, key
    <3> QED BY <2>1, <2>2, <2>6, <3>2, <3>3, <3>4, RenderKeeps
  <2>8. CASE more # {}
    <3>1. PICK f \in PageRequests : /\ more = {f} /\ RequestSound(f)
                                   /\ f.key = Key /\ f.by = "button"
      BY <2>3, <2>8
    <3>2. key = Key + 1 /\ requests = (rest) \union {f}
      BY <3>1, FS_Singleton
    <3>3. /\ requests \in SUBSET PageRequests /\ OneSave(requests, box)
          /\ key \in Nat /\ key > used.keys /\ key - 1 = used.keys + 1
      BY <1>0, <3>1, <3>2, RequestsKnown DEF OneSave
    <3>4. \A q \in Asked(requests, screen) :
            /\ RequestSound(q)
            /\ \/ q.key > used.keys
               \/ \E p \in Asked(sent, page) : SameCommand(q, p)
      BY <1>0, <2>4, <3>1, <3>2, RequestsKnown
    <3>5. KeysHandedOut(requests, screen, key - 1)
      <4>1. KeysHandedOut((rest) \union {f}, screen, used.keys + 1)
        BY <2>5, <3>1, KeysAdded, RequestsKnown
      <4> QED BY <3>2, <3>3, <4>1
    <3> HIDE DEF requests, key
    <3> QED BY <2>1, <2>2, <2>6, <3>3, <3>4, <3>5, RenderKeeps
  <2> QED BY <2>7, <2>8
<1>2. CASE r.answer # "ok"
  <2>1. page' = Failed(r) /\ sent' = rest /\ UNCHANGED <<box, used>>
    BY <1>2 DEF HearButton
  <2> HIDE DEF rest
  <2>2. /\ page' \in WorkspacePages
        /\ page'.open = page.open /\ page'.version = page.version
        /\ page'.shown = page.shown /\ page'.read = page.read
        /\ \A q \in Asked(sent', page') :
             RequestSound(q) /\ \E p \in Asked(sent, page) : SameCommand(q, p)
    BY <1>0, <2>1, FailedShows
  <2>3. KeysHandedOut(sent', page', used'.keys)
    BY <2>1, <2>2, KeysKept DEF BoxInv
  <2>4. OneSave(sent', box') /\ sent' \subseteq PageRequests
    BY <1>0, <2>1, RequestsKnown DEF OneSave
  <2>5. PageKnown' /\ SavedMeansStored'
    BY <2>1, <2>2, ShownStays
  <2>6. /\ box' \in BoxRefs /\ used'.keys >= used.keys
        /\ used' \in [texts : Nat, keys : Nat, visits : Nat]
    BY <2>1, RequestsKnown
  <2> QED BY <2>2, <2>3, <2>4, <2>5, <2>6, PageMoves
<1> QED BY <1>1, <1>2

LEMMA HearSaverKeeps ==
  ASSUME BoxInv, NEW r \in sent, r.answer # "none", UNCHANGED <<rows, replies>>,
         HearSaver(r)
  PROVE  BoxInv'
<1> DEFINE screen == IF r.answer = "ok" THEN Heard(r) ELSE Failed(r)
           free == [box EXCEPT !.saving = FALSE, !.queued = NoText]
           refs == Unsaved(r.answer = "ok")
           requests == sent \ {r}
           seen == Closure(r)
<1>1. /\ r.by = "saver"
      /\ box.queued # NoText => Save(seen, free, box.queued, screen, requests, Key)
      /\ box.queued = NoText => Render(screen, refs, requests, Key)
  BY DEF HearSaver
<1>2. /\ r \in PageRequests /\ r.draft \in Drafts /\ r.kind = "instructions"
      /\ r.delivery /\ box \in BoxRefs
  BY <1>1, RequestsKnown DEF RequestSound
<1>3. /\ seen.open \in AnyDraft /\ seen.open # NoDraft /\ seen.version \in Nat
      /\ seen.lease \in Nat /\ seen.busy \in BOOLEAN /\ ~seen.busy
      /\ seen.delivery \in BOOLEAN /\ seen.delivery
  BY <1>2, BoxAssumption DEF Closure, PageRequests, AnyDraft
<1>4. free \in BoxRefs
  <2>1. [box EXCEPT !.saving = FALSE] \in BoxRefs
    BY <1>2 DEF BoxRefs
  <2> QED BY <2>1, EmptyTypes DEF BoxRefs
<1>5. refs \in BoxRefs /\ (r.answer # "ok" => refs.dirty)
  BY <1>2 DEF Unsaved, BoxRefs
<1>6. \A other : OneSave(requests, other)
  BY <1>1, RequestsKnown DEF OneSave
<1>6a. requests \in SUBSET sent
  OBVIOUS
<1>7. screen \in WorkspacePages
  BY <1>6a, HeardShows, FailedShows
<1>8. \A q \in Asked(requests, screen) :
        RequestSound(q) /\ \E p \in Asked(sent, page) : SameCommand(q, p)
  <2>1. CASE r.answer = "ok"
    <3>1. screen.pending = None
      BY <2>1, HeardShows
    <3>2. Asked(requests, screen) = requests
      BY <3>1 DEF Asked
    <3> QED BY <3>2, RequestsKnown
  <2>2. CASE r.answer # "ok"
    BY <1>6a, <2>2, FailedShows
  <2> QED BY <2>1, <2>2
<1>9. KeysHandedOut(requests, screen, Key - 1)
  BY <1>8, KeysKept, RequestsKnown
<1>10. ASSUME page'.open = screen.open, page'.version = screen.version,
              page'.shown = screen.shown, page'.read = screen.read,
              r.answer # "ok" => box'.dirty \/ box'.saving
       PROVE  PageKnown' /\ SavedMeansStored'
  <2>1. CASE r.answer = "ok"
    BY <1>2, <1>10, <2>1, HeardShows
  <2>2. CASE r.answer # "ok"
    BY <1>6a, <1>10, <2>2, FailedShows, ShownStays
  <2> QED BY <2>1, <2>2
<1>11. requests \in SUBSET PageRequests /\ Key \in Nat \ {0} /\ Key > used.keys
  BY RequestsKnown
<1> HIDE DEF screen, free, refs, requests, seen
<1>12. CASE box.queued # NoText
  <2>1. box.queued \in Typings /\ BoxTypeOK
    BY BoxTypes, RequestsKnown
  <2>2. \A q \in Asked(requests, screen) : RequestSound(q)
    BY <1>8
  <2>3. /\ page' \in WorkspacePages /\ box' \in BoxRefs
        /\ sent' \subseteq PageRequests
        /\ used' = [used EXCEPT !.keys = used'.keys]
        /\ used'.keys \in {Key - 1, Key}
        /\ page'.open = screen.open /\ page'.version = screen.version
        /\ page'.shown = screen.shown /\ page'.read = screen.read
        /\ OneSave(sent', box') /\ KeysHandedOut(sent', page', used'.keys)
        /\ \A q \in Asked(sent', page') :
             /\ RequestSound(q)
             /\ q \in Asked(requests, screen) \/ q.key = Key
        /\ seen.open # NoDraft /\ seen.delivery /\ ~seen.busy => box'.saving
    <3>1. /\ seen.open \in AnyDraft /\ seen.version \in Nat
          /\ seen.lease \in Nat /\ seen.busy \in BOOLEAN
          /\ seen.delivery \in BOOLEAN
      BY <1>3
    <3>2. Save(seen, free, box.queued, screen, requests, Key)
      BY <1>1, <1>12
    <3> QED BY <1>4, <1>6, <1>7, <1>9, <1>11, <2>1, <2>2, <3>1, <3>2, Saves
  <2>4. PageKnown' /\ SavedMeansStored'
    BY <1>3, <1>10, <2>3
  <2>5. /\ used'.keys \in Nat /\ used'.keys >= used.keys
        /\ used' \in [texts : Nat, keys : Nat, visits : Nat]
    BY <2>3, RequestsKnown
  <2>6. \A q \in Asked(sent', page') :
          /\ RequestSound(q)
          /\ \/ q.key > used.keys
             \/ \E p \in Asked(sent, page) : SameCommand(q, p)
    BY <1>8, <1>11, <2>3
  <2> QED BY <2>3, <2>4, <2>5, <2>6, PageMoves
<1>13. CASE box.queued = NoText
  <2>1. Render(screen, refs, requests, Key)
    BY <1>1, <1>13
  <2>2. (/\ page'.open = screen.open /\ page'.version = screen.version
         /\ page'.shown = screen.shown /\ page'.read = screen.read
         /\ refs.dirty \/ refs.saving => box'.dirty \/ box'.saving)
        => PageKnown' /\ SavedMeansStored'
    BY <1>5, <1>10
  <2> QED BY <1>5, <1>6, <1>7, <1>8, <1>9, <1>11, <2>1, <2>2, RenderKeeps
<1> QED BY <1>12, <1>13

LEMMA HearNobodyKeeps ==
  ASSUME BoxInv, NEW r \in sent, UNCHANGED <<rows, replies>>, HearNobody(r)
  PROVE  BoxInv'
<1>1. sent' \subseteq sent /\ UNCHANGED <<rows, replies, page, box, used>>
  BY DEF HearNobody, Cleared
<1>2. Asked(sent', page') \subseteq Asked(sent, page)
  BY <1>1 DEF Asked
<1>3. \A q \in Asked(sent', page') :
        RequestSound(q) /\ \E p \in Asked(sent, page) : SameCommand(q, p)
  BY <1>2, RequestsKnown
<1>4. KeysHandedOut(sent', page', used'.keys)
  BY <1>1, <1>3, KeysKept DEF BoxInv
<1>5. PageKnown' /\ SavedMeansStored'
  BY <1>1, ShownStays
<1>6. /\ page' \in WorkspacePages /\ box' \in BoxRefs
      /\ sent' \subseteq PageRequests /\ OneSave(sent', box')
      /\ used' \in [texts : Nat, keys : Nat, visits : Nat]
      /\ used'.keys >= used.keys
  BY <1>1, RequestsKnown DEF OneSave
<1> QED BY <1>1, <1>3, <1>4, <1>5, <1>6, PageMoves

-----------------------------------------------------------------------------
LEMMA BoxStarts == BoxInit => BoxInv
<1> SUFFICES ASSUME BoxInit PROVE BoxInv
  OBVIOUS
<1> DEFINE first == CHOOSE k \in Drafts : TRUE
<1>1. first \in Drafts
  BY BoxAssumption
<1>2. /\ rows = [k \in Drafts |->
                  [lease |-> IF k = first THEN 1 ELSE 0, status |-> "draft",
                   delivery |-> TRUE, texts |-> <<NoText>>]]
      /\ page = [Empty EXCEPT !.open = first, !.version = 1, !.lease = 1,
                              !.read = TRUE]
      /\ replies = <<>> /\ sent = {} /\ box = NewBox
      /\ used = [texts |-> 0, keys |-> 0, visits |-> 1]
  BY DEF BoxInit
<1> HIDE DEF first
<1>3. /\ page \in WorkspacePages /\ page.open = first /\ page.version = 1
      /\ page.shown = NoText /\ page.pending = None
  BY <1>1, <1>2, EmptyTypes DEF Empty, WorkspacePages, AnyDraft, Answers
<1>4. /\ rows \in [Drafts -> DraftRows]
      /\ \A k \in Drafts : Version(k) = 1 /\ rows[k].texts[1] = NoText
  <2>1. /\ <<NoText>> \in Seq(Typings) /\ Len(<<NoText>>) = 1
        /\ <<NoText>>[1] = NoText
    BY EmptyTypes
  <2>2. \A k \in Drafts : rows[k].texts = <<NoText>>
    BY <1>2
  <2> QED BY <1>2, <2>1, <2>2 DEF DraftRows, Version
<1>5. DOMAIN replies = {}
  BY <1>2
<1>6. Asked(sent, page) = {}
  BY <1>2, <1>3 DEF Asked
<1>7. BoxTypeOK
  BY <1>2, <1>3, <1>4, <1>5, EmptyTypes DEF BoxTypeOK
<1>8. PageKnown /\ SavedMeansStored
  BY <1>1, <1>3, <1>4 DEF PageKnown, SavedMeansStored
<1> QED BY <1>2, <1>5, <1>6, <1>7, <1>8 DEF BoxInv, KeysHandedOut, OneSave

LEMMA BoxSteps == BoxInv /\ [BoxNext]_boxVars => BoxInv'
<1> SUFFICES ASSUME BoxInv, [BoxNext]_boxVars PROVE BoxInv'
  OBVIOUS
<1>1. CASE Type
  BY <1>1, TypeKeeps
<1>2. CASE TimerFires \/ Blur \/ RetrySave
  BY <1>2, WritesKeep
<1>3. CASE \E k \in Drafts : \E kind \in {"claim", "hold", "confirm"} :
             PressButton(kind, k)
  BY <1>3, PressButtonKeeps
<1>4. CASE \E k \in Drafts : TakenAway(k)
  BY <1>4, TakenAwayKeeps
<1>5. CASE RetryPending
  BY <1>5, RetryPendingKeeps
<1>6. CASE Reset
  BY <1>6, ResetKeeps
<1>7. CASE BackToTray
  BY <1>7, BackToTrayKeeps
<1>8. CASE Navigate
  BY <1>8, NavigateKeeps
<1>9. CASE \E r \in sent : Serve(r)
  BY <1>9, ServeKeeps
<1>10. CASE \E r \in sent : Lose(r)
  BY <1>10, LoseKeeps
<1>11. CASE \E r \in sent : Hear(r)
  BY <1>11, HearButtonKeeps, HearSaverKeeps, HearNobodyKeeps DEF Hear
<1>12. CASE ChangeFulfillment \/ ChangeSource
  BY <1>12, ChannelKeeps
<1>13. CASE UNCHANGED boxVars
  BY <1>13 DEF boxVars, BoxInv, BoxTypeOK, PageKnown, SavedMeansStored, Asked,
               RequestSound, StoredAs, AnsweredBy, Version, KeysHandedOut,
               OneSave
<1> QED BY <1>1, <1>2, <1>3, <1>4, <1>5, <1>6, <1>7, <1>8, <1>9, <1>10, <1>11,
           <1>12, <1>13 DEF BoxNext

\* What the page, its refs, its requests and the server know of one another.
\* (capture-workspace.tsx: run, saveDeliveryInstructions, retryPending.)
THEOREM BoxInvariant == BoxSpec => []BoxInv
BY BoxStarts, BoxSteps, PTL DEF BoxSpec

\* A box at rest with nothing unsaved shows the instructions that the draft had
\* at the version on the page, whatever answers, retries, queued saves and
\* changes of channel came late, were lost or overtook each other.  It says
\* nothing of a box with page.read FALSE: one whose draft came with an answer
\* that brings no text (after a claim, until the workspace is read), or one that
\* a change of channel blanked; such a box may hide a text that is stored.
\* (capture-workspace.tsx: saveDeliveryInstructions, changeFulfillment, run,
\* applyWorkspace.)
THEOREM SavedIsStored == BoxSpec => []SavedMeansStored
<1>1. BoxInv => SavedMeansStored
  BY DEF BoxInv
<1> QED BY <1>1, BoxInvariant, PTL
=============================================================================
