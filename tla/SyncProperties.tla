--------------------------- MODULE SyncProperties ---------------------------
(***************************************************************************)
(* What the sync engine has to keep true: see SyncEngine for the model.    *)
(***************************************************************************)
EXTENDS SyncEngine

OutboxTypeOK ==
  /\ lastLocalSequence \in Nat
  /\ outbox \in Seq(Entries)

ScopesTypeOK ==
  /\ DOMAIN scopes \subseteq Scopes
  /\ \A s \in DOMAIN scopes : scopes[s] \in ScopeStates

ReplicaTypeOK ==
  /\ DOMAIN replica \subseteq Scopes \X Entities
  /\ \A k \in DOMAIN replica : replica[k] \in ReplicaEntities

PushesTypeOK ==
  /\ DOMAIN pushes = Pushers
  /\ \A w \in Pushers : pushes[w] # Null =>
       /\ pushes[w] \in PushCalls(pushes[w].claimed)
       /\ pushes[w].claimed \subseteq DOMAIN outbox

PullTypeOK ==
  pull # Null =>
    /\ pull \in PullCalls
    /\ pull.phase = "answered" => pull.to <= Len(changelog[pull.scope])

ServerTypeOK ==
  /\ DOMAIN changelog = Scopes
  /\ \A s \in Scopes : changelog[s] \in Seq(Changes)
  /\ DOMAIN ledger \subseteq Scopes \X Keys
  /\ \A intent \in DOMAIN ledger : ledger[intent] \in Verdicts
  /\ authorized \subseteq Scopes
  /\ late \subseteq [scope: Scopes, todo: (SUBSET DOMAIN outbox) \ {{}}]

\* The values the state may take: in particular calls name events that exist,
\* and a page ends within the changelog.
TypeOK ==
  /\ OutboxTypeOK /\ ScopesTypeOK /\ ReplicaTypeOK
  /\ PushesTypeOK /\ PullTypeOK /\ ServerTypeOK

-----------------------------------------------------------------------------
(***************************************************************************)
(* Durable state.                                                          *)
(***************************************************************************)

\* Whatever the engine persists, parseDurableState accepts when the process
\* comes back (durable-state.ts): sequences strictly increase up to
\* lastLocalSequence, an intent has one event, no record is outside a known
\* scope, and an entry being sent has its attempt.  A state it refuses would
\* leave the device unable to start with its outbox unsent.
Hydratable ==
  /\ \A i \in DOMAIN outbox :
       /\ outbox[i].localSequence <= lastLocalSequence
       /\ outbox[i].scope \in DOMAIN scopes
       /\ outbox[i].localState = "sending" => outbox[i].attemptId # Null
  /\ \A i, j \in DOMAIN outbox : i < j =>
       /\ outbox[i].localSequence < outbox[j].localSequence
       /\ outbox[i].scope = outbox[j].scope => outbox[i].key # outbox[j].key
  /\ \A k \in DOMAIN replica : k[1] \in DOMAIN scopes

\* No call, failure or restart gives an event more than MaxRetries failed
\* deliveries, and one that has used them up waits for review only
\* (claimBatch, RETRY_LIMIT).
RetryBudget ==
  \A i \in DOMAIN outbox :
    /\ outbox[i].retryCount <= MaxRetries
    /\ outbox[i].retryCount = MaxRetries =>
         outbox[i].localState \in {"retry_wait", "manual_review"}

\* An event is never lost, its intent never rewritten, and its state moves
\* only along section 7.1, whatever calls overlap (outbox-state.ts).  One
\* claim may take a lapsed entry through pending back to sending.
OutboxHistory ==
  [][/\ Len(outbox') >= Len(outbox)
     /\ \A i \in DOMAIN outbox :
          LET old == outbox[i]  new == outbox'[i] IN
          /\ new.localState = old.localState
               \/ new.localState \in OutboxTransitions[old.localState]
          /\ IsTerminalState(old.localState) => new = old
          /\ <<new.scope, new.entity, new.operation, new.key,
               new.localSequence>> =
             <<old.scope, old.entity, old.operation, old.key,
               old.localSequence>>]_outbox

-----------------------------------------------------------------------------
(***************************************************************************)
(* Delivery.                                                               *)
(***************************************************************************)

\* An event closed as accepted or duplicate did take effect on the server,
\* and one closed as rejected did not, although responses are lost, late or
\* belong to an attempt already given up (applyPushOutcome).  Of a scope the
\* server has revoked it may be wrong: see the README.
VerdictsAreTrue ==
  \A i \in DOMAIN outbox :
    LET intent == <<outbox[i].scope, outbox[i].key>>
        applied == intent \in DOMAIN ledger /\ ledger[intent] = "accepted"
    IN /\ outbox[i].localState \in {"accepted", "duplicate"} => applied
       /\ outbox[i].localState = "rejected"
            /\ outbox[i].scope \in authorized => ~applied

\* Where the change made by event i stands in the changelog, if anywhere.
EffectAt(i) ==
  {p \in DOMAIN changelog[outbox[i].scope] :
     changelog[outbox[i].scope][p].writer = i}

\* Events of one entity take effect in the order they were recorded, and
\* each at most once, although batches fail as a whole or in part, are
\* retried at different times and overlap (claimBatch's `held`).  An event
\* left to review is excepted: its last request may still take effect after
\* the event that resolves it.
EffectsInOrder ==
  \A i, j \in DOMAIN outbox :
    i < j /\ SameEntity(i, j) =>
      /\ Cardinality(EffectAt(i)) <= 1
      /\ ~IsBlockingState(outbox[i].localState) =>
           \A p \in EffectAt(i), q \in EffectAt(j) : p < q

\* No event starts being sent while an earlier event of its entity is
\* undelivered outside the same batch, or is in conflict or review without a
\* resolution (claimBatch's `held` and `blockers`).
NothingOvertakes ==
  [][\A i \in DOMAIN outbox :
       outbox'[i].localState = "sending" /\ outbox'[i] # outbox[i] =>
         \A j \in 1..(i - 1) : SameEntity(i, j) =>
           LET earlier == outbox'[j] IN
           \/ IsTerminalState(earlier.localState)
           \/ IsBlockingState(earlier.localState) /\ earlier.resolvedBy # Null
           \/ earlier.localState = "sending"
                /\ earlier.attemptId = outbox'[i].attemptId]_outbox

-----------------------------------------------------------------------------
(***************************************************************************)
(* Replica.                                                                *)
(***************************************************************************)

\* The write of an event known to be rejected is never what the device shows
\* or would go back to, even if other writes piled up on it, unless it did
\* take effect and the server then revoked the scope (buildEnqueue's revertTo,
\* revertRejected).
NoRejectedWriteShown ==
  \A k \in DOMAIN replica :
    LET shown == {replica[k].snapshot} \union
                   (IF replica[k].revertTo = Null THEN {}
                    ELSE {replica[k].revertTo.snapshot})
    IN \A i \in (shown \ {Null}) \intersect DOMAIN outbox :
         outbox[i].localState = "rejected" => EffectAt(i) # {}

\* An optimistic write is pending for the last event of its entity, and only
\* while there is content to go back to.
PendingMarkIsLatest ==
  \A k \in DOMAIN replica :
    LET id == replica[k].pendingEventId IN
    /\ (id = Null) <=> (replica[k].revertTo = Null)
    /\ id # Null =>
         /\ id \in DOMAIN outbox
         /\ <<outbox[id].scope, outbox[id].entity>> = k
         /\ outbox[id].localState # "rejected"
         /\ \A i \in DOMAIN outbox : i > id => ~SameEntity(i, id)

\* Each change up to the pull cursor is in the replica, or superseded there,
\* unless an event of the entity was rejected: what the cursor has passed is
\* never asked for again (applyPage).
CursorCovered ==
  \A s \in DOMAIN scopes :
    LET cursor == scopes[s].pullCursor IN
    cursor # Null =>
      \A p \in 1..cursor :
        LET change == changelog[s][p]  k == <<s, change.entity>> IN
        \/ /\ k \in DOMAIN replica
           /\ \/ replica[k].tombstone
              \/ replica[k].canonicalVersion >= change.canonicalVersion
        \/ \E i \in DOMAIN outbox : /\ <<outbox[i].scope, outbox[i].entity>> = k
                                    /\ outbox[i].localState = "rejected"

\* A deleted entity stays deleted for the device, whatever the server sends
\* later and whatever was pending when it went (applyPage, buildEnqueue).
TombstonesStay ==
  [][\A k \in DOMAIN replica : replica[k].tombstone =>
       /\ k \in DOMAIN replica'
       /\ replica'[k].tombstone
       /\ replica'[k].snapshot = Null
       /\ replica'[k].canonicalVersion >= replica[k].canonicalVersion]_replica

-----------------------------------------------------------------------------
(***************************************************************************)
(* The engine keeps SyncPromise.                                           *)
(***************************************************************************)
EventOf(intent) ==
  {i \in DOMAIN outbox : <<outbox[i].scope, outbox[i].key>> = intent}

StageOf(state) ==
  CASE state \in {"accepted", "duplicate"} -> "done"
    [] state = "rejected" -> "refused"
    [] IsBlockingState(state) -> "review"
    [] OTHER -> "queued"

\* What the device knows of each intent, and the intents that took effect.
StageOfIntents ==
  [intent \in Scopes \X Keys |->
     IF EventOf(intent) = {} THEN "unknown"
     ELSE StageOf(outbox[Min(EventOf(intent))].localState)]

AppliedIntents == {intent \in DOMAIN ledger : ledger[intent] = "accepted"}

Promise == INSTANCE SyncPromise WITH
  Intents <- Scopes \X Keys, told <- StageOfIntents, applied <- AppliedIntents

\* The engine, its transport and the server together keep the promise.
ImplementsPromise == Promise!Spec

-----------------------------------------------------------------------------
(***************************************************************************)
(* Liveness.  The host calls push and pull again and again (waiting pulls  *)
(* are served in turn, by pullQueue).  A call returns with an answer or a  *)
(* failure unless the process dies first, and it does not die during every *)
(* push; nor does every pull fail.                                         *)
(***************************************************************************)
FairSpec ==
  /\ Spec
  /\ \A s \in Scopes :
       /\ WF_vars(\E w \in Pushers : ClaimBatch(w, s, Lapsable, Retrying))
  /\ \A s \in PulledScopes : SF_vars(PullRead(s))
  /\ \A w \in Pushers :
       SF_vars(\/ PushAnswered(w)
               \/ \E failure \in {"unavailable", "refused", "call_revoked"} :
                    PushFailed(w, failure))
  /\ SF_vars(ServerAnswersPull)
  /\ SF_vars(PullPage \/ PullCursorLost \/ PullRevoked)

Waiting(i) ==
  /\ i \in DOMAIN outbox
  /\ outbox[i].localState \in {"pending", "sending", "retry_wait"}

\* A person has to act first: resolve an earlier event, or restore access.
NeedsPerson(i) ==
  \/ Status(outbox[i].scope) = "revoked"
  \/ \E j \in 1..(i - 1) : /\ SameEntity(i, j)
                           /\ IsBlockingState(outbox[j].localState)
                           /\ outbox[j].resolvedBy = Null

\* Every recorded event gets a result or a review, unless a person has to
\* act first: no retry, batch limit, lease or overlap starves it.
EventsSettle ==
  \A i \in 1..MaxEvents : Waiting(i) ~> (~Waiting(i) \/ NeedsPerson(i))

\* Every committed change reaches the device, unless the scope is revoked or
\* waits for a resync (pullPages).
ReplicaCatchesUp ==
  \A s \in PulledScopes, n \in 1..MaxChanges :
    Len(changelog[s]) >= n ~>
      \/ Status(s) \in {"revoked", "resync_required"}
      \/ s \in DOMAIN scopes /\ scopes[s].pullCursor \notin (0..(n - 1)) \union {Null}

-----------------------------------------------------------------------------
(***************************************************************************)
(* Statements of the code's own comments and documents that do not hold:   *)
(* each is checked by a run that expects TLC to refute it.                 *)
(***************************************************************************)

\* engine.ts: "Keep the oldest pre-pending content so a rejection restores
\* the last confirmed state."  The confirmed state is at least what the pull
\* cursor has passed.
RejectionRestoresConfirmed ==
  \A s \in DOMAIN scopes :
    LET cursor == scopes[s].pullCursor IN
    cursor # Null =>
      \A p \in 1..cursor :
        LET change == changelog[s][p]  k == <<s, change.entity>> IN
        /\ k \in DOMAIN replica
        /\ \/ replica[k].tombstone
           \/ replica[k].canonicalVersion >= change.canonicalVersion

\* engine.ts on revokeScope: "Marks the scope revoked and moves pending
\* financial events to manual review."
RevokedFinancialsReviewed ==
  \A i \in DOMAIN outbox :
    Status(outbox[i].scope) = "revoked" /\ IsFinancial(outbox[i]) =>
      outbox[i].localState \notin {"pending", "retry_wait"}

=============================================================================
