-------------------------- MODULE DeviceProperties --------------------------
(* What the devices of a branch promise about what they show and print.    *)
EXTENDS KitchenDisplay, MobileOrdering, MobileAuthGate, PrintQueue,
        CaptureWorkspace

\* A quiet display that says it is live has read every change the station was
\* told of; what it misses is a hint not sent yet or lost with a connection.
\* (App.tsx: every acknowledgement and every hint queues a refresh.)
NothingUnseen ==
  /\ display.link = "live" /\ display.label = "live"
  /\ display.queue = 0 /\ display.phase = "idle"
  => display.shown.cursor + 1 .. kitchen.cursor
       \subseteq publishing \union display.missed

\* From the version the cook saw to the last the display was answered, every
\* version of the order is the display's: a cook who moves a whole order moves
\* the order on the screen, and nobody else's change goes unnoticed between.
\* (kds-state.ts: runBatchTransition carries each answer's version on.)
WritesUnbroken ==
  \A v \in display.work.base + 1 .. display.work.version :
    kitchen.writers[v] = "display"

\* A change the display was told of is shown at last, or the display says that
\* it is not up to date.  (App.tsx: enqueueRefresh chains, never drops.)
HintsAreShown ==
  display.told > display.shown.cursor
    ~> display.shown.cursor >= display.told \/ display.label # "live"

\* An order is opened by a plan, and reported sent, only with every line of
\* the plan on it, however many attempts that took and whatever became of the
\* calls given up.  (order-submission.ts: pendingLines, submitOrderPlan.)
SentMeansWhole ==
  /\ \A p \in DOMAIN orders :
       orders[p].opened # 0 => OnOrder(orders[p]) = OrderLines
  /\ \A i \in DOMAIN attempts :
       LET order == orders[attempts[i].plan]
       IN attempts[i].step = "sent" =>
            /\ OnOrder(order) = OrderLines
            /\ order.status \notin {"none", "draft"}

\* An attempt does not trip over its own writes: told that the order moved, by
\* its version or by its absence, somebody else has written it after the version
\* the attempt knew; told that no shift is open, the attempt wrote nothing.  A
\* 409 for a closed shift, or for a size the menu no longer sells, reaches the
\* operator as the same conflict although nobody need have written the order.
\* (order-submission.ts: submitOrderPlan sends the version last answered.)
NoConflictWithItself ==
  \A i \in DOMAIN attempts :
    LET attempt == attempts[i]
        order == orders[attempt.plan]
        why == IF attempt.reply.kind = "conflict" THEN attempt.reply.why
               ELSE IF attempt.step = "conflict" THEN attempt.why
               ELSE "none"
    IN /\ why = "moved" =>
            \E v \in attempt.version + 1 .. order.version :
              order.writers[v] # i
       /\ why = "shift" =>
            \A v \in 1 .. order.version : order.writers[v] # i

\* Who is on the screen signed in during the generation that is open: no read
\* and no listener of an earlier one brings an operator back.  The exception
\* is a renewal announced while somebody else signs in, or after.
\* (auth-gate.ts: currentSession, attach, turn.)
SignedOutStaysOut ==
  app.who # NoOne => revived \/ (gate.open /\ app.who \in admitted)

\* A job is never written again once a write of it succeeded: it prints once,
\* and once more at most for every write that failed.  Jobs are begun in the
\* order they came, and no job is written more often than allowed.
\* (print-job-queue.ts: deliverNext, retry.)
PrintsOnce ==
  \A j \in DOMAIN jobs :
    LET job == jobs[j]
        printed == paper[job.id]
    IN /\ printed.delivered = IF job.status = "delivered" THEN 1 ELSE 0
       /\ printed.printed <= printed.failed + 1
       /\ job.attempts <= MaxAttempts
       /\ job.attempts > 0 => \A k \in 1 .. j - 1 : jobs[k].attempts > 0

\* When the box of delivery instructions is at rest and holds nothing unsaved,
\* what it shows is what the draft had at the version on the page: no late
\* answer, retry, queued save or change of channel leaves the operator believing
\* in a text that was not stored.  It is not said of two boxes, which page.read
\* sets apart: one whose draft came on the page with an answer that brings no
\* text (to a claim, to a confirmation, to an autosave written from another
\* version than the page's), and one that a change of channel blanked.  They
\* may be empty while the draft has a text, which the next save writes over,
\* until the workspace is read, instructions are saved, or an answer says that
\* the draft is not for delivery.
\* (capture-workspace.tsx: saveDeliveryInstructions, changeFulfillment, run,
\* applyWorkspace.)
SavedMeansStored ==
  page.open # NoDraft /\ page.read /\ ~box.dirty /\ ~box.saving
  => page.shown = rows[page.open].texts[page.version]

\* capture-workspace.tsx:1290: instructions are saved in this capture and are
\* never inherited by themselves.  A text typed for one draft is not another's.
TypedTextStays ==
  \A k \in Drafts : \A v \in 1 .. Version(k) :
    rows[k].texts[v].draft \in {k, NoDraft}
=============================================================================
