# superRestaurant: specifications

TLA+ specifications of the restaurant point of sale in this repository: the
offline sync engine of the devices; the server's orders, cash register and
deliveries; the captures, drafts that become orders; and the kitchen display,
the waiter's phone, the print queue and the page that takes orders by telephone.
TLC checks small instances; TLAPS proves the safety properties of all of them for
every value of the constants (section 6).

## 1. The system

The product is a multi-branch restaurant point of sale: a NestJS API over
PostgreSQL (all writes go through SQL functions of the schema `app_private`), a
web client, a kitchen display, a mobile app for waiters, and a sync engine
meant for devices that work offline.

| Component | State it keeps | Operations | Modelled |
|---|---|---|---|
| Sync engine (`packages/sync-engine/src`) | durable outbox, scopes with pull cursors, optimistic replica; calls in flight | `enqueue`, `resolveBlockingEvent`, `resetScopeForResync`, `push`, `pull`, `sync`, `init` | yes |
| Orders (`apps/api/src/orders.ts`, `packages/domain/src/order*.ts`, SQL) | `app.orders` with a version, lines, journals, cancellations, KDS events | create, add, open, label, advance, cancel line, send, cancel | yes |
| Cash register and payments (`payments.ts`, `cash-register.ts`, SQL) | sessions with an aggregate of movements, payments, device sequences, audit | open, collect, close | yes |
| Deliveries (`deliveries.ts`, SQL) | one row per delivery order, events | assign, dispatch, complete, fail, settle, settle prepaid | yes |
| Captures (`captures.ts`, `capture-draft.ts`, SQL) | order drafts under a member's lease, with plan, quote, payment intent | create, claim, hold, resume, renew, transfer, take over, edit, plan, repeat, quote, intent, confirm, no sale | yes |
| Realtime gateway, kitchen display (`realtime.gateway.ts`, `apps/kds`) | socket, cursor, tickets shown, refresh chain, work in hand | subscribe, notify, evict, recover, refresh, act on a line or an order | yes |
| Mobile order taking (`order-submission.ts`, `order-delivery.ts`) | a plan with fixed keys, its delivery | submit, resume, give up | but for the draft's editor |
| Mobile session (`auth-gate.ts`, `mobile-state.ts`) | generation, gate, operator on screen | sign in, sign out, start up, revalidate, renew | but for branch access |
| Printing (`packages/printing/src`) | a queue of jobs | enqueue, deliver, retry | yes |
| Tables, zones, customers, shifts, staff, menu | one versioned record or document each | edited under a version check | no |
| Pricing, access control, reads, UI, operations scripts | none, or none of their own | | no |

How they interact. Clients call the API with commands that carry a client-made
idempotency key and the versions the client has seen. A service reads rows,
computes the next aggregates with `packages/domain`, and hands them to one SQL
function, which takes the order's advisory lock, answers a known key from a
journal, compares versions, and writes everything in one transaction. Orders,
payments and deliveries share rows: a payment moves the order's status, a
cancellation looks at payments and at the delivery, a card payment may settle
the delivery. The kitchen learns of lines through the table of KDS events. The
sync engine talks to a sync server through a port only; no application imports
it yet, and no server for it is in the repository.

What is hard: requests interleave between their reads and their transaction;
clients repeat commands whose answer they lost, with the same or with refreshed
versions; devices lose power, lose answers and overlap calls; several rows must
agree although different services write them. `PROJECT.json` lists each hazard
with its line and the properties aimed at it.

What makes each part correct: a device neither loses nor doubles an intent, and
shows a truthful state (sync); nobody's work is undone and the kitchen is told
everything (orders); each charge happens once, and drawer, sequence, order
status and refunds agree (cash); nobody drives with an order that is not to be
delivered, and a settled trip is paid (deliveries); a draft has one owner and
becomes one order (captures); a display that stays connected shows every event
(KDS); a plan is applied once, completely (mobile); a job is printed as often
as somebody asked (printing).

## 2. The sync engine

| Module | Models |
|---|---|
| `OutboxState` | the states of an outbox event and their transitions (`outbox-state.ts`) |
| `SyncEngine` | `DeviceSyncEngine` (`engine.ts`), its calls in flight, and the server behind the port |
| `SyncProperties` | type invariant, safety, refinement mapping, fairness and liveness |
| `SyncPromise` | the abstract promise: an intent is recorded, takes effect at most once, and the device says the truth about it |
| `SyncProofs`, `SyncDeliveryProofs` | the TLAPS proofs: of the device; of what it delivers |
| `MCSync`, `MCSyncRevoked` | the instances for TLC |

Correspondence. Each public method changes state through `mutate`, which is
serialised and persists the whole new state or keeps the old one (the storage
port's contract, `engine.ts:47`): such a change is one action. A push is
`ClaimBatch`, then server actions, then `PushAnswered`, `PushFailed` or
`PushCommitFails`; a pull is `PullRead` (once per page), the server's answer,
then `PullPage`, `PullCursorLost`, `PullRevoked` or `PullFails`; `sync` is a push
followed by a pull and adds no behaviour. `Crash` drops the calls and goes
through `parseDurableState`. The server (`ServerProcess`, `ServerProcessLate`,
`ServerAnswersPull`, `ForeignCommit`, `RevokeAuthorization`) is external, written
from the port contract (`contract.ts`), `OFFLINE_SYNC_CONTRACT.md` and the fake
server of the tests: a ledger of keys, a changelog per scope, requests whose
answer is lost and requests that arrive after their call was given up.

Abstractions. An entry is its position in the outbox; an attempt is the push
slot that made it, and a slot is not reused while an entry is leased to it. Time
is left out: a lease that may have lapsed, and a retry that may be due, are
chosen freely, which includes every clock. Payloads are who wrote the content.
`transition` and `compensate` operations take the path of `update` and are not
told apart from it. A lapsed lease returns the event to `pending` without
counting a retry, as in the code.

| Run | Asks | Bounds |
|---|---|---|
| `sync_push` | outbox, retries, crash, lost and late requests, overlapping pushes, the promise | 2 events of one entity, 2 pushes, batch of 2, 2 retries, 1 late request, updates only, push side only |
| `sync_pull` | replica, cursor, tombstones, rejection under piled-up writes, revocation, lost cursor | 2 events, 1 push sending 1 event, 2 changes, pages of 1, 2 pages per pull |
| `sync_live` | every event settles, every change arrives | 2 updates, 2 pushes, 2 retries, crashes, under `FairSpec` |
| `stale_revert`, `revoked_review`, `revoked_resync` | three statements of comments and documents the code contradicts | as `sync_pull` |

Two events of one entity are enough for order, blocking, overtaking and piled-up
writes, which are all about a pair; two overlapping pushes for a lapsed lease and
a stale answer; two pages of one change for a scope that changes between pages.
Deadlock is not checked: hosts may stop calling and the bounds stop the model.

Fairness (`FairSpec`). The host calls push and pull again and again; of a push,
and of a pull, not every call fails or dies, which strong fairness on the answers
states; the server answers. A lease outlives its call in this run
(`LeaseOutlivesCall`): without that, and if the process dies during every push,
the code resends for ever without counting a retry, by design, and nothing could
be promised.

What the properties leave out on purpose. `VerdictsAreTrue` and
`NoRejectedWriteShown` except an event applied by the server whose answer was
lost and whose retry was refused because the scope was revoked between: the
device then reports a rejection of a write that took effect. `EffectsInOrder`
except events under review: the last request of one may still arrive late.

Disagreements found (runs that expect a violation):
- `stale_revert`: a page that advances an entity under a pending write leaves
  `revertTo` as it was, so a later rejection restores content older than the
  pull cursor (`engine.ts:491`, `:709`).
- `revoked_review`: an event being sent when its scope is revoked can end in
  `retry_wait`, never reviewed (`engine.ts:206`).
- `revoked_resync`: a lost-cursor answer overwrites `revoked` with
  `resync_required`, after which pushes go out again (`engine.ts:646`).

## 3. The point of sale

| Module | Models |
|---|---|
| `OrderAggregate` | the pure order: life cycles, totals, mutations (`packages/domain`) |
| `PointOfSaleStore` | the tables, the requests in progress, journals and replay, the clients |
| `OrderService` | the order operations: `Read`, then `Persist` or `CancelOrder`; `Create` and `Label` at once |
| `CashService` | `Look` (replay first), the reads, `OpenRegister`, `Collect`, `CloseRegister` |
| `DeliveryService` | the trip (`MoveDelivery`) and settlement (`Weigh`, `PrepareSettlement`, `Settle`, `SettlePrepaid`) |
| `PointOfSale` | the composition |
| `PosProperties`, `MCPos` | properties, refinement mapping; the instances for TLC |
| `Ledger` | the abstract point of sale: bills, tills and charged keys that change by one entry at a time |
| `PosProofs` | the TLAPS proofs |

Correspondence. `calls[c]` is a request: its command, how far its service is,
what it has read. Each read of the service is an action, so that anything may
commit between two of them; each SQL function is one action, since it runs in a
transaction under advisory and row locks. A command is answered from the journal
of its own table (`order_audit_events`, `order_command_events`,
`financial_audit_events`, `order_delivery_events`) if the stored command is the
same one and refused if it is not. `OrderService!Current`, `OrderCurrent` and
`SessionCurrent` stand for the version check together with the comparisons of
the handed-in aggregate with the stored one. `Steps` and `Events` give send and
cancel, which are several steps in one transaction, their versions and kitchen
events. Clients (external) issue a fresh command against the versions they see,
repeat one that was sent before, unchanged or with its key kept and its versions
brought up to date, or vanish (`Drop`).

Abstractions. A line costs one unit and cancelled lines nothing; a tip comes with
a payment only and a settlement carries none; a transfer behaves like a card.
One actor and one branch: journals and locks are per actor and branch in the
code. The waiter's assignment does what the account label does and shares its
action. The state `closed`, which no operation reaches, is left out.

Each run of the point of sale is a set of scenes: a behaviour starts in one of
them and sends its kinds of command only.

| Scene | Starts from | Commands |
|---|---|---|
| `take` | an empty database | create, add, open, send, cancel: 4 |
| `cook` | an open order of two lines and a delivery charge | send, advance, cancel a line or the order: 2 more |
| `settle` | a delivery order on the road or delivered at its second attempt, an open session | the trip, settle, collect, cancel: 3 or 2 more |
| `money` | 2 open orders, of a line each and one with a delivery charge, an open session | collect, close, cancel: 2 more, by two devices, with tips |
| `register` | an order and an open session | collect, close, open again: 2 more |
| `counter` | the same | these with lines added and cancelled, labels, cancellation: 1 more |
| `replay` | a delivered order | settlements only |

| Run | Scenes | Asks |
|---|---|---|
| `pos_orders` | take, cook, settle | versions explained by the journal; the kitchen told each line's history; status, money and delivery agree |
| `pos_register` | money, register, counter | charged once; drawer, device sequence, refunds; one open session; each step an entry of `Ledger` |
| `pos_settle_replay` | replay | a statement about replays, refuted |

Commands are those the journal remembers (`MaxCommands` less those of the start);
refused and repeated ones are not counted, and as the bound is looked at when a
request arrives, a second one may take the journal one further. Two requests at a
time suffice for the races the properties name, which are between a request's
reads and one other commit, and a request may itself be followed by others. The
starting states of `MCPos` are reached by the commands they put in the journal.
Callers and devices are interchangeable and symmetric, also in the mapping to
`Ledger`; no liveness is checked here. Deadlock is not checked: once the bound is used up the clients may have
nothing left to send.

`Ledger` says what the services promise of money as one actor would keep it: a
charge takes some of what is left of one bill, under a key of its own, into one open
till, and bill, till and key move together; a voided bill owes back what was paid;
a closed till stays as counted. The mapping takes a bill's stage and what is due
from the order's row, what was paid from the payments and what is owed from the
cancellation's record, and a till from the session's row: tables different services
write. `KeepsLedger` is the next-state half of the refinement, since the scenes
start in the middle of a day; that a day starts with empty books is proved.

Disagreement found: `pos_settle_replay`. Two identical settlements in flight both
miss the stored one; the second then finds the order paid, takes the prepaid path
and is answered that nothing was collected (`deliveries.ts:267`,
`settle_prepaid_delivery`). No money is collected twice.

## 4. Captures

A capture is an order being taken at the counter or over the phone. One member at
a time writes on it, under a lease; it ends as an order or as no sale.

| Module | Models |
|---|---|
| `CaptureStore` | the tables, the triggers that drop a quote or intent with its channel, the journal and how a retry is recognised |
| `CaptureDesk` | commands one SQL function serves alone: create, claim, hold, resume, renew, prefer, transfer, take over, autosave, customer, fulfillment, instructions, no sale |
| `CaptureSale` | commands the service works for first: select, repeat, quote, intent, confirm |
| `CaptureCenter` | the stations that send and repeat them, the clocks, the published menu |
| `CaptureProperties`, `MCCapture` | properties; the instance for TLC |
| `CaptureProofs` | the TLAPS proofs |

Correspondence. `calls[c].stage` is how far a request is: received, probed, read,
checked, ready. What the service reads before the transaction (the stored plan,
the menu, the quote, the capture) is read in steps of its own; the SQL function,
with its key's advisory lock and the capture's row lock, is one action. A SQL
function redefined by later migrations is modelled by its last definition. Time
is three external actions: a lease, a recovery deadline or a quote lapses;
`live` and `recoverable` say whether each is still ahead. A lease, a party or an
address snapshot is named by the version that made it. Lines are a count, and a
line costs the number of the menu version it is priced in, so that a price
changes with every publication.

| Run | Scenes | Bounds |
|---|---|---|
| `captures` | attention (3 commands more), sale (2 more, on a capture ready to be confirmed), repeat (2 more), begin (3 from nothing) | 1 capture, a station and a manager, 2 requests at a time, 2 menu versions, 0 or 2 lines |

One capture suffices, as captures share only the menu. Two menu versions tell a
price agreed from one read later; two members, one with a manager's rights, tell
a holder from whoever was before. `OnlyTheHolderWrites` is a statement over the
journal: whoever wrote a version had been granted the capture last.

Seen while modelling, in what `RetriesRecognised` and the model show:
- a repeated order whose answer was lost is refused on the retry once the menu
  was published again: the lines are matched with the menu before the journal is
  asked (`customer-order-history.ts:205`), and the matched plan is part of the
  fingerprint (`20261101000200_menu_shared_modifier_groups.sql:1374`), where
  `docs/architecture/P2_MULTICHANNEL_CAPTURE_SLICE.md` promises an exact replay;
- a capture with a repeated order can be confirmed only if the repetition was the
  last thing done to it (`20261102000100_menu_locked_ingredients.sql:919`), so
  stating a payment intent afterwards closes that way;
- confirming locks the plan's row before the capture's, replacing the plan the
  other way round. PostgreSQL aborts one of two that meet; in the model that
  request dies (`Drop`).

## 5. The devices of a branch

| Module | Models |
|---|---|
| `KitchenDisplay` | the KDS board (`App.tsx`), the gateway, the kitchen's events and the writes of one display |
| `MobileOrdering` | handing an order plan over (`order-submission.ts`, `order-delivery.ts`) against the server's journal and other members |
| `MobileAuthGate` | the gate around the identity provider (`auth-gate.ts`) and the operator on screen |
| `PrintQueue` | `PrintJobQueue` |
| `CaptureWorkspace` | the web page on which a station takes an order (`capture-workspace.tsx`): its requests, and the box of delivery instructions that saves by itself |
| `DeviceProperties`, `MCDevices` | properties; the instances for TLC |
| `KitchenDisplayProofs`, `MobileProofs` (phone and gate), `PrintQueueProofs`, `CaptureWorkspaceProofs` | the TLAPS proofs |

Correspondence. The display's refresh chain is a count of refreshes not yet begun
and the phase of the one under way: its event pages (`EventsRead`) and its tickets
(`TicketsRead`) are answered separately. `publishing` holds hints committed and
not yet sent, `display.missed` those sent while the socket was not subscribed. A
batch of lines carries each answer's version to the next request. An attempt to
submit is a step, a reply awaited and the lines still to do; a given-up attempt
lives on and may still reach the server. A create looks for its key first
(`LookUp`) and for the open shift after (`ServeCreate`), an addition reads the
order, then the menu, then writes (`Check`, `Persist`). Whether the shift is open
and the menu sells the size is left open each time they are asked; a refusal
carries why it was made, which the phone is not told and a property is about. The
gate's reads, sign-ins and renewals are in flight with the generation they started
in. React's effects run before the next event is handled.

| Run | Parts | Bounds |
|---|---|---|
| `devices` | a display that watches, a display whose cook works without a socket, a phone handing over, a phone's gate, a printer, a page taking orders over the phone; one in each behaviour, as they share nothing | 2 lines, 2 changes by others, pages of 3, 2 queued refreshes; a plan of 2 lines, 2 attempts, 5 versions; 2 operators, 6 generations; 3 jobs, 2 attempts each; 2 drafts, 2 texts, a page opened once with 5 commands or twice with 3 |
| `workspace_text` | the page | 2 drafts, 1 text, 6 commands |

Two changes by others and two refreshes let a change fall before, between and
after a refresh's two reads; the display that watches moves no line, and the
cook's has no socket, because the two have no state in common but the tickets,
which either may find stale. Fairness: `Refreshes`, weakly. A request of a
refresh is answered or fails (`fetch` settles), and the chain is a promise that
goes on whatever the outcome (`enqueueRefresh` catches). Nothing is assumed of the
socket. `HintsAreShown` therefore allows a display that says it is not live.

What `SignedOutStaysOut` leaves out (`revived`): a renewal that was in flight when
another operator signs in is announced in the new generation and brings the
earlier operator back to the screen, although `auth-gate.ts:9` says that nothing
of an earlier generation can; and a start-up read that answers late answers
"nobody", which blanks the screen of an operator who has just signed in.

The page. `page` is what was rendered last, which is also what its handlers and
cleanups have captured; `box` is what is held in refs and outlives the draft on
the page. An answer and what its caller does next are one action, as the promise
goes on before the next event; so is a render with the cleanup it runs. The
server is reduced to versions, leases, channels and the instructions of each
version, which a trigger drops when the draft is not for delivery (`TextAfter`;
`CaptureDesk` has the rest); whether a lease has lapsed is left open whenever a
command is served. A change of channel (`ChangeFulfillment`, `ChangeSource`) is on
the page before it is saved, is stored in the browser until it is answered, and is
sent again when the page is next opened (`Navigate`); the stored command is the
request with `by = "disk"`, which nobody serves. A read brings what the draft was
when it was served, however late it is heard. A save queued when the page goes
away is sent once the one under way has answered; the model leaves the order in
which the two are served, and in which the page's calls are answered, open.
`read` remembers whether the text in the box is known to be the draft's at the
version on the page: the answers to a claim, a confirmation and an autosave bring
a version and no text, and a change of channel blanks the box. Left out: the other
fields of the page, its renewals, the reads that follow the workspace's (recent
orders, suggestions, the tray after mounting), and addresses, whose presence fixes
the channel; a draft that is created is shown as one that is claimed.
Two drafts suffice to confuse one with the other, two texts to have one wait for
the save of another. Five commands, reads counted, are enough for leaving a draft,
claiming one, reading it and sending a save, and for a save, a change of channel
and its undoing, each answered; three, for a change of channel that is lost with the
page, sent again by the next one and read. The theorem of section 6 has no such
bound.

What `SavedMeansStored` says, and of which boxes. A box at rest with nothing
unsaved shows the text its draft had at the version on the page, if `read`. It
says nothing of the two boxes described first below, which are empty over a
stored text: the code has them, and no statement of the repository is against it.

Disagreement found: `workspace_text`, a bug. The page says that the instructions
are saved in this capture and never inherited (`capture-workspace.tsx:1290`). A
text whose save was refused or failed stays in the refs when the operator leaves
the draft; after the next draft is claimed, leaving the box, *Reintentar* or
leaving the page stores that text on the next draft, whose courier gets it.

Seen while modelling:
- a claim is answered and the read of the workspace that follows is lost. The page
  then has the draft and its version with an empty box, enabled and clean, while
  the draft has its text. The next save writes over a text that was not shown;
- a change of channel blanks the box (`:708`) and saves only the channel. If that
  autosave is lost and the channel is set back, the box stays empty at the
  draft's version while the draft keeps its text;
- a text typed and not saved when the channel is changed away stays in the refs,
  out of sight, and may be saved once the draft is for delivery again;
- a retry (`retryPending`, `run` at `:953-960`) that is answered after a later save
  brings the earlier text and version back to the page until its refresh, and for
  good if that fails. It needs the answers of two calls of the page to cross, which
  the framework of today prevents by sending its actions one at a time. For this
  reason `SavedMeansStored` compares with the version on the page, not the last;
- a box whose draft is confirmed while a text is unsaved never saves again on that
  page: `base` throws after the save was marked under way (`:731-734`), and every
  later text queues behind it although the box says it is saved by itself
  (`SavedMeansStored` excludes a box that is saving);
- every 409 is told to the operator as an order that moved
  (`order-submission.ts:186-191`), also those for a shift that is not open
  (`20261004000200_table_board.sql:373`) and for a size or half the menu does not
  sell (`orders.ts:523-531`), though nobody wrote the order.
  `NoConflictWithItself` therefore tells the causes apart;
- a save that queued behind another is sent by the same closure, with the version
  from before it, and is refused;
- an order that a first attempt of a plan opened, unheard, and that was charged
  since is reported as a conflict by the second, not as delivered
  (`order-submission.ts:111`): the repeated create answers the order as created;
- `list_kds_tickets` lists lines of open orders only, so what is still cooking
  leaves the display when the order is paid, without an event;
- a refresh over HTTP sets the label to live (`App.tsx:153`) even when the server
  has closed the socket for good.

## 6. Proofs

Each theorem is proved for every value of the constants: any number of scopes,
orders, captures, devices and requests in flight, and any value of the bounds that
TLC needs. The runs check the same formulas on small instances.

What is assumed of the constants, in the modules that declare them, and evaluated
by TLC in the runs: counts and amounts are naturals, sets of actors are finite or
parts of one another (`ConstantsAssumption`, `StoreAssumption`,
`ChargeAssumption`, `CaptureAssumption`, `RepeatsAssumption`, `KdsAssumption`,
`GateAssumption`, `MobileAssumption`, `PrintAssumption`, `BoxAssumption`), and the
marks for
absence, such as `Null`, are no row, number or object of the program
(`RevertAssumption`, `RowAssumption`, `CaptureRowAssumption`).

### The sync engine

| Theorem | Property | Says |
|---|---|---|
| `TypeCorrect` | `TypeOK` | states are well formed |
| `HydratableKept` | `Hydratable` | what is persisted can be loaded again |
| `RetryBudgetKept` | `RetryBudget` | no event exceeds `MaxRetries` failed deliveries |
| `HistoryKept` | `OutboxHistory` | no event is lost, rewritten or moved outside the transition table |
| `OrderKept` | `NothingOvertakes` | no event is sent before an earlier one of its entity |
| `VerdictsKept` | `VerdictsAreTrue` | what the device says of an event is what the server did |
| `OrderOfEffects` | `EffectsInOrder` | events of an entity take effect once, in order |
| `PromiseKept` | `ImplementsPromise` | the engine, transport and server implement `SyncPromise` |
| `MarkIsLatest` | `PendingMarkIsLatest` | the pending mark is the entity's latest event |
| `RejectedNotShown` | `NoRejectedWriteShown` | a rejected write is not shown, nor kept to go back to |
| `DeletedStaysDeleted` | `TombstonesStay` | a deleted entity stays deleted, and versions only grow |
| `NothingSkipped` | `CursorCovered` | the replica has what its cursor has passed |

The first five are in `SyncProofs`. `TypeOK` is inductive by itself, one lemma per
action. Over it every step's effect on the outbox is one of two (`OutboxStep`): one
new entry with the next sequence at the end, or each entry changed by an
`EntryStep`, which keeps its intent, follows the table and keeps it `Lawful` (a
sending entry has an attempt, a retry count at the limit waits). `HistoryKept` is
this lemma. `Hydratable` and `RetryBudget` are proved together (`DurableStep`,
`ScopesStep`) because neither half of `Lawful` is kept without the other entries'
facts: a claim gives the entry its attempt, and a failure counts only for an entry
that was being sent, which by `RetryBudget` had a retry left. `OrderKept` needs no
invariant beyond `TypeOK`: only `ClaimBatch` makes an entry `sending`
(`OnlyClaimsSend`), and a batch that takes an entry takes the oldest eligible ones
first (`EarlierEligible`, `BatchTakesOldest`).

The others are in `SyncDeliveryProofs`, in the order in which they lean on one
another.
- What a step may do to the server (decide one request, commit a foreign change,
  revoke) and to a push. `AnswersTrue`: an answer on its way says what the ledger
  says. With it, a closed entry's verdict is the ledger's (`VerdictsHeld`).
- A request names the events of an entity in order, and one that is under way, or
  was abandoned and may still arrive, has no later event of the entity decided
  before it (`RequestsOrdered`, `Passed`). So what the server applies next is
  applied after what precedes it (`EffectsPassed`), and once (`WritesOnce`).
- The refinement: each event's stage in `SyncPromise` is computed from the outbox
  and the ledger. Every step leaves all stages alone or is the step of the promise
  they went through; initial states map to initial states. The hypothesis
  `"revoke" \notin Faults` is needed: after a revocation the retry of an event that
  took effect is refused, and the device then says so. `VerdictsKept` has no such
  hypothesis and excepts exactly that case.
- What a step may do to the replica: nothing, undo a rejected write, record a local
  one, take a change of a page (`ReplicaMove`). Each keeps the marks right
  (`MarkRight`), the contents those of events not rejected (`Lasting`), tombstones
  empty, and the cursor's prefix of the changelog covered (`Covered`). The last one
  needs that versions of the server's log increase.

### The point of sale

| Theorem | Property | Says |
|---|---|---|
| `TablesKeepTheirTypes` | `PosTypeOK` | states are well formed |
| `NothingIsUndone` | `OrdersMoveForward` | orders and lines only move along their life cycles |
| `MoneyIsAccountedFor` | `MoneyMatchesStatus` | an order's status says how much was captured |
| `RefundsAreOwed` | `RefundOwed` | a cancelled order owes what was captured for it |
| `DrawersReconcile` | `DrawerReconciles` | the drawer is the float and its cash movements; one session is open |
| `SequencesHaveNoGaps` | `NumbersInSequence` | a device's sequence has no gap and no repetition |
| `EveryKeyIsChargedOnce` | `ChargedOnce` | no key is charged twice |
| `TheAuditIsComplete` | `VersionsExplained` | each version was made by one journaled command |
| `DeliveriesAgree` | `DeliveryAgrees` | a delivery agrees with its order and its money |
| `TheKitchenIsTold` | `KitchenTold` | the kitchen's events of a line are its history |
| `LedgerIsKept` | `KeepsLedger` | the services implement `Ledger` |

`Types` strengthens `PosTypeOK` with the shapes of requests and of what they have
read, of the journal, and of what clients may repeat. Over it one lemma per action
(`...Serves`, collected in `StepsMove`) shows that every step is one of a few moves:
it is quiet, or it writes an order, takes a payment, opens or closes a session,
moves a trip, or settles a prepaid one. A move says what the rows were when the
transaction looked, which is where the version checks enter: what a request had
read is what is stored, or the step is quiet. The remaining invariants are each
kept move by move, whichever kind of request makes it:
- `MoneyOK` and `DrawerOK` relate a row to the sum of its payments. `SumOf` folds over
  a set, of which the provers know nothing, so `Totals` states the partial sums as
  a function, `TotalsExist` and `TotalsAgree` tie it to the fold, and `MoneyAdds`
  is what is used: one payment more adds its amount;
- `ChargedOnce` is proved of the journal: every payment has the entry of its key,
  which says what it was for (`PaymentIsFiled`, `JournalKeeps`);
- `VersionsExplained` speaks of intervals of versions, as send and cancel make
  several; an entry's interval begins where the last one ended (`SpanAdded`);
- `TripOf` is what `DeliveryAgrees` lacks: what a trip's state says of the order's
  status and cancellation together;
- `StoriesOf` follows a line through the kitchen's log by the positions of its
  events (`StoryGoesOn`), as a step may append events of several lines.

The refinement comes last and rests on `Types`, `MoneyOK` and `ChargedOnce`. An
order's command opens, adjusts or voids its bill or leaves it alone
(`OrderIsBilled`); a payment is a charge (`PaymentIsCharged`), whose key is new by
the journal (`KeyIsNew`); a session opens and closes its till (`SessionIsTilled`);
trips and quiet steps leave the books alone (`BooksStand`). With `BooksInit` this is
the whole of `Spec => Books!Spec`.

### Captures

| Theorem | Property | Says |
|---|---|---|
| `CapturesKeepTheirTypes` | `CaptureTypeOK` | states are well formed |
| `HoldersWriteAlone` | `OnlyTheHolderWrites` | a version was written by whoever had been given the capture last |
| `CapturesSellOnce` | `OneOrderPerCapture` | a capture becomes at most one order, by its last version |
| `OrdersAreChargedAsAgreed` | `MoneyAsAgreed` | quote and intent of an order are those made for it |
| `OrdersHaveWhatWasAsked` | `OrderIsLatestPlan` | an order has the lines last given |
| `AppliedCommandsAreRecognised` | `RetriesRecognised` | an applied command is recognised when sent again |
| `LiveClaimsStand` | `ClaimsRespected` | nobody takes a live claim but by a take-over |

The layout is the same: `Types`, one lemma per action, and moves: the tables stand
still, time passes, a heartbeat renews a lease, the menu is published, or one
command writes its capture's next version (`Writes`) and is journaled
(`Recorded`). Then:
- `VersionsOK`: exactly one journaled command per version, so that "the last
  grant" and "the last selection" before a version are well defined;
- `HoldersOK`: a claim's lease and owner are those of the last grant, nothing having
  put the capture aside since;
- `OrdersOK`, `PlansOK`, `IntentsOK`: an order is its capture's last version; the
  stored plan, lines and intent are those of the last command that gave them, and
  what a quote or an intent was made for;
- `CallsSound`: what a request has read or computed is still so, or the capture has
  a later version than the request expects and it will be refused. This is the
  invariant the reads before the transaction need, and `ConfirmedAsAgreed`, where
  they meet the row, rests on it.

### The devices

| Module | Theorem | Property | Inductive invariant |
|---|---|---|---|
| `KitchenDisplayProofs` | `CookWritesUnbroken` | `WritesUnbroken` | `KdsInv` |
| | `NothingGoesUnseen` | `NothingUnseen` | `KdsInv` |
| `MobileProofs` | `WholeOrdersSent` | `SentMeansWhole` | `MobileInv` |
| | `NoOwnConflict` | `NoConflictWithItself` | `MobileInv` |
| | `NobodyComesBack` | `SignedOutStaysOut` | `GateInv` |
| `PrintQueueProofs` | `JobsPrintOnce` | `PrintsOnce` | `PrintInv` |
| `CaptureWorkspaceProofs` | `SavedIsStored` | `SavedMeansStored` | `BoxInv` |

- `KdsInv`: besides the types, every version has a writer, and what came after what
  the board shows, or was just served, is still to be told or was told in vain
  (`ChainCovers`), which relates the phases of a refresh to the hints under way.
- `MobileInv`: what an order's history implies (a version adds one line at most, an
  order opened has them all), and what each attempt, and each of its requests still
  under way, knows of it: since its version only its own additions were made, or
  somebody else has moved the order. An attempt refused for want of a shift has
  written nothing, as its create had not been served. `SentMeansWhole` and
  `NoConflictWithItself` both follow.
- `GateInv`: whoever is on the screen, the provider holds or a read found was
  admitted in this generation, and only one sign-in, that of the form on the
  screen, is under way; all of it unless `revived`.
- `PrintInv`: a job has at most one write unanswered and is pending meanwhile, so
  what the paper says follows from its status.
- `BoxInv`: a draft's texts are a history to which commands only append, so what
  is known of an earlier version stays true. A command in the journal left a
  version of it, with the text it sent, none when it changed the channel away from
  delivery, and otherwise the text of the version it was written from
  (`AnsweredBy`); a key stands for one command, the copy in the browser's storage
  included. Of the page: it knows no version that was not written, and at most one
  save is under way, only while the refs say so. So an answer that brings a text,
  or leaves one known to be right, leaves it next to its version, and the marks for
  unsaved and saving are cleared by nothing else. What the theorem leaves out is
  said in section 5: `read` is a hypothesis of it, not a consequence.

### What is only model-checked

- Liveness: `EventsSettle`, `ReplicaCatchesUp`, `HintsAreShown`. The prover handles
  neither fairness nor `ENABLED`.
- The five statements that runs refute.

## 7. Plan

Done: every component of the table in section 1 that is marked as modelled, with
its properties checked and its safety proved, and the two refinements,
`SyncPromise` and `Ledger`. Next:

1. What the map leaves out of the mobile components: the draft's editor and branch
   access.
2. Captures: an abstract draft (held by one member, priced as agreed, sold once)
   which `CaptureCenter` implements.

## 8. Not modelled

Payload shape and size checks, codecs and formatting; permissions and branch
membership beyond managers and members (commands come from actors that may send
them); when the operational shift an order needs is open; event ids beside keys; currencies,
change and rounding; row locks and the deadlocks PostgreSQL breaks.

Components without a model, and why:
- menu catalog, tables, zones, customers, shifts and staff: single records or one
  document, edited under a version check. Their protocol is the one the orders
  and captures have; the captures use what they need of the menu and the zones;
- pricing: pure arithmetic on exact fractions, with no state; if it is added, as
  operators checked against a reference definition over bounded inputs;
- access control: a pure table of roles;
- reads, reports and the screens, but for the display, the two mobile screens and
  the box of the capture page above: they change nothing;
- provisioning, fixtures and schema verification: scripts run by hand, not part of
  the running system. They, the tests and the shared type declarations are a large
  part of the repository's lines.
