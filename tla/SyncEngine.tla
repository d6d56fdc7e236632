----------------------------- MODULE SyncEngine -----------------------------
(***************************************************************************)
(* DeviceSyncEngine of packages/sync-engine/src/engine.ts: the durable     *)
(* outbox, the optimistic replica and the pull cursor of one device, the   *)
(* pushes and the pull it has in flight, and the server they talk to.      *)
(*                                                                         *)
(* Every public method runs its state change through `mutate`, which is    *)
(* serialised and either persists the whole new state or leaves the old    *)
(* one: such a change is one action here, and memory and storage never     *)
(* differ between actions.  The awaits on the transport are where other    *)
(* calls, failures and crashes interleave.                                 *)
(*                                                                         *)
(* An outbox entry is known by its position in the outbox: the source's    *)
(* fresh eventId.  An attempt is known by the push that made it; a push    *)
(* slot is reused only when no entry is still leased to it.                *)
(***************************************************************************)
EXTENDS OutboxState, Sequences, FiniteSets, FiniteSetsExt

CONSTANTS
  Scopes,             \* restaurant/branch scopes of the device
  Entities,           \* entity ids
  FinancialEntities,  \* the entities of type Payment or CashMovement
  Keys,               \* idempotency keys
  Pushers,            \* push calls that may be outstanding at once
  MaxBatch,           \* maxBatchSize
  MaxRetries,         \* backoff.maxRetries
  PageLimit,          \* pullLimit
  MaxPages,           \* maxPagesPerSync
  Operations,         \* operations the host enqueues
  PulledScopes,       \* the scopes the host pulls
  ForeignEntities,    \* the entities other devices change too
  Refusals,           \* refusals the server may answer with
  Faults,             \* faults that may happen, see below
  LeaseOutlivesCall,  \* TRUE: no lease lapses while its push call is pending
  MaxEvents,          \* bound: events ever enqueued
  MaxChanges,         \* bound: changes in the server's changelog of a scope
  MaxLate             \* bound: abandoned requests the server may still see

(***************************************************************************)
(* "crash": the process dies; "commit": a persist of a push outcome fails; *)
(* "cursor": the server forgets a cursor; "revoke": it revokes the device  *)
(* or its user in a scope.                                                 *)
(***************************************************************************)
ASSUME ConstantsAssumption ==
  /\ FinancialEntities \subseteq Entities
  /\ MaxBatch \in Nat \ {0} /\ MaxRetries \in Nat \ {0}
  /\ PageLimit \in Nat \ {0} /\ MaxPages \in Nat \ {0}
  /\ PulledScopes \subseteq Scopes /\ ForeignEntities \subseteq Entities
  /\ MaxEvents \in Nat /\ MaxChanges \in Nat /\ MaxLate \in Nat
  /\ Operations \subseteq {"create", "update", "delete"}
  /\ Refusals \subseteq {"rejected", "conflict", "manual_review"}
  /\ Faults \subseteq {"crash", "commit", "cursor", "revoke"}
  /\ LeaseOutlivesCall \in BOOLEAN
  /\ Null \notin Nat /\ Null \notin Pushers

VARIABLES
  \* durable device state (DurableSyncState)
  lastLocalSequence,  \* one sequence per device
  scopes,             \* registered scope |-> status and pull cursor
  outbox,             \* sequence of entries, never shortened
  replica,            \* known <<scope, entity>> |-> replica entity
  \* calls in flight, lost by a crash
  pushes,             \* push slot |-> Null or its request and results so far
  pull,               \* Null or the pull being served: pulls are serialised
  \* the server, external
  changelog,          \* scope |-> sequence of canonical changes
  ledger,             \* <<scope, key>> |-> the verdict it is remembered with
  authorized,         \* the scopes this device may still use
  late                \* abandoned push requests the server may still process

deviceVars == <<lastLocalSequence, scopes, outbox, replica>>
serverVars == <<changelog, ledger, authorized, late>>
vars == <<deviceVars, pushes, pull, serverVars>>

EventIds == Nat \ {0}

\* Whose content a snapshot shows: an event's, another device's (0), nobody's.
Contents == Nat \union {Null}

Entries ==
  [scope: Scopes, entity: Entities, operation: Operations, key: Keys,
   localSequence: EventIds, localState: OutboxStates, retryCount: Nat,
   attemptId: Pushers \union {Null}, blockedBy: EventIds \union {Null},
   resolvedBy: EventIds \union {Null}]

Reverts == [existed: BOOLEAN, snapshot: Contents, canonicalVersion: Nat]

\* null is no object.
ASSUME RevertAssumption == Null \notin Reverts

ReplicaEntities ==
  [canonicalVersion: Nat, tombstone: BOOLEAN, snapshot: Contents,
   pendingEventId: EventIds \union {Null}, revertTo: Reverts \union {Null}]

ScopeStates ==
  [status: {"active", "revoked", "resync_required"},
   pullCursor: Nat \union {Null}]

Changes == [entity: Entities, canonicalVersion: EventIds,
            tombstone: BOOLEAN, writer: Nat]

Verdicts == {"accepted", "rejected", "conflict", "manual_review"}

\* What a push learns of one event; "auth_revoked" is a rejection whose code
\* is AUTH_REVOKED or DEVICE_REVOKED.
Results == Verdicts \union {"duplicate", "auth_revoked"}

\* A push in flight: the events of its request, and the results the server
\* has for the first of them.
PushCalls(claimed) ==
  [scope: Scopes, claimed: {claimed},
   results: UNION {[S -> Results] : S \in SUBSET claimed}]

PullCalls ==
  [phase: {"read"}, scope: Scopes, pages: Nat]
    \union [phase: {"sent"}, scope: Scopes, pages: Nat,
            cursor: Nat \union {Null}]
    \union [phase: {"answered"}, scope: Scopes, pages: Nat,
            cursor: Nat \union {Null}, hasMore: BOOLEAN,
            answer: {"page", "cursor_lost", "auth_revoked"}, to: Nat]

-----------------------------------------------------------------------------
(***************************************************************************)
(* Helpers over the durable state.                                         *)
(***************************************************************************)
Put(f, key, value) ==
  [x \in DOMAIN f \union {key} |-> IF x = key THEN value ELSE f[x]]

Status(s) == IF s \in DOMAIN scopes THEN scopes[s].status ELSE "unregistered"

ScopeOrNew(s) == IF s \in DOMAIN scopes THEN scopes[s]
                 ELSE [status |-> "active", pullCursor |-> Null]

ReplaceStatus(s, status) ==
  Put(scopes, s, [ScopeOrNew(s) EXCEPT !.status = status])

IsFinancial(entry) == entry.entity \in FinancialEntities

SameEntity(i, j) == /\ outbox[i].scope = outbox[j].scope
                    /\ outbox[i].entity = outbox[j].entity

\* revokeScope: the financial events still waiting in `entries` of scope s go
\* to manual review.
RevokeEntries(entries, s) ==
  [i \in DOMAIN entries |->
     IF /\ entries[i].scope = s
        /\ IsFinancial(entries[i])
        /\ entries[i].localState \in {"pending", "retry_wait"}
     THEN Invalidate(entries[i])
     ELSE entries[i]]

\* Mutant: the content goes back but the mark of the pending write stays.
Restored_KeepsMark(r) ==
  IF r.revertTo = Null THEN r
  ELSE [r EXCEPT !.snapshot = r.revertTo.snapshot,
                 !.canonicalVersion = r.revertTo.canonicalVersion,
                 !.revertTo = Null]

Restored(r) ==
  IF r.revertTo = Null THEN [r EXCEPT !.pendingEventId = Null]
  ELSE [r EXCEPT !.snapshot = r.revertTo.snapshot,
                 !.canonicalVersion = r.revertTo.canonicalVersion,
                 !.pendingEventId = Null, !.revertTo = Null]

\* revertRejected: undo the optimistic write of each entity whose latest
\* pending event is one of `rejected`; a rejected create leaves nothing.
RevertRejected(s, rejected) ==
  LET hit(k) == k[1] = s /\ replica[k].pendingEventId \in rejected
      removed(k) == /\ hit(k)
                    /\ replica[k].revertTo # Null
                    /\ ~replica[k].revertTo.existed
  IN [k \in {x \in DOMAIN replica : ~removed(x)} |->
        IF hit(k) THEN Restored(replica[k]) ELSE replica[k]]

-----------------------------------------------------------------------------
(***************************************************************************)
(* Local operations: enqueue, resolveBlockingEvent, resetScopeForResync.   *)
(***************************************************************************)

\* Mutant: the content to go back to is the one shown now, pending or not.
RevertFor_Newest(k) ==
  IF k \notin DOMAIN replica
  THEN [existed |-> FALSE, snapshot |-> Null, canonicalVersion |-> 0]
  ELSE [existed |-> TRUE, snapshot |-> replica[k].snapshot,
        canonicalVersion |-> replica[k].canonicalVersion]

\* The content to go back to if `id` is rejected: the oldest one from before
\* the writes still pending.
RevertFor(k) ==
  IF k \notin DOMAIN replica
  THEN [existed |-> FALSE, snapshot |-> Null, canonicalVersion |-> 0]
  ELSE IF replica[k].pendingEventId # Null /\ replica[k].revertTo # Null
       THEN replica[k].revertTo
       ELSE [existed |-> TRUE, snapshot |-> replica[k].snapshot,
             canonicalVersion |-> replica[k].canonicalVersion]

OptimisticWrite(k, id, operation) ==
  [canonicalVersion |-> IF k \in DOMAIN replica
                        THEN replica[k].canonicalVersion ELSE 0,
   tombstone |-> FALSE,
   snapshot |-> IF operation = "delete" THEN Null ELSE id,
   pendingEventId |-> id,
   revertTo |-> RevertFor(k)]

\* A create is allowed on a known entity only to replace an optimistic write
\* stuck behind a conflict or a review.
MayCreate(k) ==
  k \in DOMAIN replica =>
    /\ replica[k].pendingEventId # Null
    /\ IsBlockingState(outbox[replica[k].pendingEventId].localState)

\* Mutant: only the events still to be delivered are searched for the key.
KeyUsed_Undelivered(s, key) ==
  \E i \in DOMAIN outbox : /\ outbox[i].scope = s
                           /\ outbox[i].key = key
                           /\ ~IsTerminalState(outbox[i].localState)

KeyUsed(s, key) ==
  \E i \in DOMAIN outbox : outbox[i].scope = s /\ outbox[i].key = key

\* A key already used in the scope returns the event it made, or fails when
\* the intent differs: either way nothing changes, so that is no step here.
Enqueue(s, key, entity, operation) ==
  LET id == Len(outbox) + 1
      k == <<s, entity>>
  IN /\ Len(outbox) < MaxEvents
     /\ Status(s) # "revoked"
     /\ ~KeyUsed(s, key)
     /\ k \in DOMAIN replica => ~replica[k].tombstone
     /\ operation = "create" => MayCreate(k)
     /\ lastLocalSequence' = lastLocalSequence + 1
     /\ scopes' = Put(scopes, s, ScopeOrNew(s))
     /\ outbox' = Append(outbox,
          [scope |-> s, entity |-> entity, operation |-> operation,
           key |-> key, localSequence |-> lastLocalSequence + 1,
           localState |-> "pending", retryCount |-> 0, attemptId |-> Null,
           blockedBy |-> Null, resolvedBy |-> Null])
     /\ replica' = Put(replica, k, OptimisticWrite(k, id, operation))
     /\ UNCHANGED <<pushes, pull, serverVars>>

ResolveBlockingEvent(blocking, resolver) ==
  /\ SameEntity(blocking, resolver)
  /\ IsBlockingState(outbox[blocking].localState)
  /\ outbox[blocking].resolvedBy = Null
  /\ outbox[resolver].localSequence > outbox[blocking].localSequence
  /\ outbox[resolver].localState # "rejected"
  /\ outbox' = [outbox EXCEPT ![blocking] = Resolve(@, resolver)]
  /\ UNCHANGED <<lastLocalSequence, scopes, replica, pushes, pull, serverVars>>

ResetScopeForResync(s) ==
  /\ Status(s) = "resync_required"
  /\ scopes' = Put(scopes, s, [status |-> "active", pullCursor |-> Null])
  /\ UNCHANGED <<lastLocalSequence, outbox, replica, pushes, pull, serverVars>>

-----------------------------------------------------------------------------
(***************************************************************************)
(* Push: claimBatch, the call, applyPushOutcome.                           *)
(***************************************************************************)

\* Mutant: one retry too many.
Swept_OneTooMany(entry, lapsed) ==
  IF entry.localState = "sending" /\ entry.attemptId \in lapsed
  THEN LeaseExpired(entry)
  ELSE IF entry.localState = "retry_wait" /\ entry.retryCount > MaxRetries
       THEN Invalidate(entry)
       ELSE entry

\* The first thing claimBatch does to an entry: a lapsed lease returns it to
\* pending, an exhausted retry budget sends it to manual review.
Swept(entry, lapsed) ==
  IF entry.localState = "sending" /\ entry.attemptId \in lapsed
  THEN LeaseExpired(entry)
  ELSE IF entry.localState = "retry_wait" /\ entry.retryCount >= MaxRetries
       THEN Invalidate(entry)
       ELSE entry

SweptOutbox(s, lapsed) ==
  [i \in DOMAIN outbox |-> IF outbox[i].scope = s THEN Swept(outbox[i], lapsed)
                           ELSE outbox[i]]

\* Mutant: only a conflict stops the later events, a review does not.
Blockers_ConflictOnly(swept, i) ==
  {j \in 1..(i - 1) : /\ SameEntity(i, j)
                      /\ swept[j].localState = "conflict"
                      /\ swept[j].resolvedBy = Null}

\* The earlier events of i's entity that stop it until they are resolved.
Blockers(swept, i) ==
  {j \in 1..(i - 1) : /\ SameEntity(i, j)
                      /\ IsBlockingState(swept[j].localState)
                      /\ swept[j].resolvedBy = Null}

\* Mutant: an event waiting for its retry does not hold the later ones.
Held_SendingOnly(swept, due, i) ==
  \E j \in 1..(i - 1) : SameEntity(i, j) /\ swept[j].localState = "sending"

\* The source's `held`: an earlier event of the entity still has to be
\* delivered and is not due now.
Held(swept, due, i) ==
  \E j \in 1..(i - 1) :
    /\ SameEntity(i, j)
    /\ \/ swept[j].localState = "sending"
       \/ swept[j].localState = "retry_wait" /\ j \notin due

Eligible(swept, s, due) ==
  {i \in DOMAIN swept :
     /\ swept[i].scope = s
     /\ \/ swept[i].localState = "pending"
        \/ swept[i].localState = "retry_wait" /\ i \in due
     /\ Blockers(swept, i) = {}
     /\ ~Held(swept, due, i)}

\* The oldest MaxBatch eligible events; the ones left over hold back the
\* later ones of their entities, which are left over too.
Batch(eligible) ==
  {i \in eligible : Cardinality({j \in eligible : j < i}) < MaxBatch}

\* lapsed: the attempts whose lease is over by now; due: the retries whose
\* backoff is.  Claims nothing but still persists when only sweeping and
\* blockedBy changed.
ClaimBatch(w, s, lapsed, due) ==
  LET swept == SweptOutbox(s, lapsed)
      claimed == Batch(Eligible(swept, s, due))
  IN /\ pushes[w] = Null
     /\ s \in DOMAIN scopes
     /\ Status(s) # "revoked"
     /\ \A i \in DOMAIN swept : swept[i].attemptId # w
     /\ outbox' =
          [i \in DOMAIN outbox |->
             IF i \in claimed THEN Claim(swept[i], w)
             ELSE IF swept[i].scope = s /\ swept[i].localState = "pending"
                  THEN Block(swept[i], IF Blockers(swept, i) = {} THEN Null
                                       ELSE Min(Blockers(swept, i)))
                  ELSE swept[i]]
     /\ claimed # {} \/ outbox' # outbox
     /\ pushes' = IF claimed = {} THEN pushes
                  ELSE [pushes EXCEPT ![w] = [scope |-> s, claimed |-> claimed,
                                              results |-> <<>>]]
     /\ UNCHANGED <<lastLocalSequence, scopes, replica, pull, serverVars>>

\* Mutant: an event the response leaves out is taken as known to the server.
NextEntryState_MissingIsDuplicate(entry, learnt) ==
  CASE learnt = "missing" -> Result(entry, "duplicate")
    [] learnt = "unavailable" -> Retry(entry)
    [] learnt = "refused" -> Result(entry, "manual_review")
    [] OTHER -> Result(entry, learnt)

\* Mutant: a call that may not be repeated is taken as a rejection.
NextEntryState_RefusedIsRejected(entry, learnt) ==
  CASE learnt \in {"missing", "unavailable"} -> Retry(entry)
    [] learnt = "refused" -> Result(entry, "rejected")
    [] OTHER -> Result(entry, learnt)

\* Mutant: the failure is recorded as if it were a result.
NextEntryState_FailureAsResult(entry, learnt) ==
  CASE learnt \in {"missing", "unavailable"} -> Retry(entry)
    [] OTHER -> Result(entry, learnt)

\* nextEntryState: what an entry becomes given what its push learnt of it.
\* "missing": the response says nothing of it; "unavailable", "refused" and
\* "call_revoked": the call failed, retryable, not retryable or as revoked.
NextEntryState(entry, learnt) ==
  CASE learnt \in {"missing", "unavailable"} -> Retry(entry)
    [] learnt = "refused" -> Result(entry, "manual_review")
    [] learnt \in {"call_revoked", "auth_revoked"} /\ IsFinancial(entry) ->
         Result(entry, "manual_review")
    [] learnt = "call_revoked" -> LeaseExpired(entry)
    [] learnt = "auth_revoked" -> Result(entry, "rejected")
    [] OTHER -> Result(entry, learnt)

\* Mutant: a late response settles its events whoever holds them now.
Current_AnyAttempt(w) == pushes[w].claimed

\* The events of push w that are still leased to it.
Current(w) == {i \in pushes[w].claimed : /\ outbox[i].localState = "sending"
                                        /\ outbox[i].attemptId = w}

\* applyPushOutcome: an entry whose attempt is no longer this push's is left
\* alone, but a revocation the response carries counts all the same.
ApplyPushOutcome(w, learnt) ==
  LET s == pushes[w].scope
      told == [i \in DOMAIN outbox |->
                 IF i \in Current(w) THEN NextEntryState(outbox[i], learnt[i])
                 ELSE outbox[i]]
      rejected == {i \in Current(w) : told[i].localState = "rejected"}
      revoked == \E i \in pushes[w].claimed :
                   learnt[i] \in {"auth_revoked", "call_revoked"}
  IN /\ replica' = RevertRejected(s, rejected)
     /\ outbox' = IF revoked THEN RevokeEntries(told, s) ELSE told
     /\ scopes' = IF revoked THEN ReplaceStatus(s, "revoked") ELSE scopes
     /\ pushes' = [pushes EXCEPT ![w] = Null]
     /\ UNCHANGED lastLocalSequence

Unprocessed(call) == call.claimed \ DOMAIN call.results

\* The call that w abandons may still reach the server.
Abandon(call) ==
  \/ UNCHANGED late
  \/ /\ Unprocessed(call) # {}
     /\ Cardinality(late) < MaxLate
     /\ late' = late \union {[scope |-> call.scope, todo |-> Unprocessed(call)]}

\* The response is in; it may leave out results.
PushAnswered(w) ==
  /\ pushes[w] # Null
  /\ Unprocessed(pushes[w]) = {}
  /\ \E omitted \in SUBSET pushes[w].claimed :
       ApplyPushOutcome(w, [i \in pushes[w].claimed |->
                              IF i \in omitted THEN "missing"
                              ELSE pushes[w].results[i]])
  /\ UNCHANGED <<pull, serverVars>>

\* The call fails, whatever the server has done of it by then.
PushFailed(w, failure) ==
  /\ pushes[w] # Null
  /\ failure = "call_revoked" => pushes[w].scope \notin authorized
  /\ ApplyPushOutcome(w, [i \in pushes[w].claimed |-> failure])
  /\ Abandon(pushes[w])
  /\ UNCHANGED <<pull, changelog, ledger, authorized>>

\* The outcome cannot be persisted: the call throws, its entries stay leased.
PushCommitFails(w) ==
  /\ "commit" \in Faults
  /\ pushes[w] # Null
  /\ pushes' = [pushes EXCEPT ![w] = Null]
  /\ UNCHANGED <<deviceVars, pull, serverVars>>

-----------------------------------------------------------------------------
(***************************************************************************)
(* Pull: one at a time, page by page.                                      *)
(***************************************************************************)

\* The head of the loop of pullPages: give up in a scope that is not active
\* or after MaxPages pages, otherwise ask for the page after the cursor.
PullRead(s) ==
  LET pages == IF pull = Null THEN 0 ELSE pull.pages
      proceed == Status(s) \in {"active", "unregistered"} /\ pages < MaxPages
  IN /\ \/ pull = Null /\ proceed
        \/ pull # Null /\ pull.phase = "read" /\ pull.scope = s
     /\ pull' = IF proceed
                THEN [phase |-> "sent", scope |-> s, pages |-> pages,
                      cursor |-> ScopeOrNew(s).pullCursor]
                ELSE Null
     /\ UNCHANGED <<deviceVars, pushes, serverVars>>

\* The changes of an answered page, as positions of the changelog.
PagePositions ==
  (IF pull.cursor = Null THEN 1 ELSE pull.cursor + 1)..pull.to

(***************************************************************************)
(* applyPage on one entity.  The source goes through the page in version   *)
(* order: a version not above the local one is skipped, and once a         *)
(* tombstone is there only a newer tombstone replaces it.  So the change   *)
(* that remains is the newest tombstone if there is a new one, else the    *)
(* newest change unless the entity is already a tombstone.                 *)
(***************************************************************************)
Newer(k) ==
  {p \in PagePositions :
     /\ changelog[k[1]][p].entity = k[2]
     /\ k \in DOMAIN replica =>
          changelog[k[1]][p].canonicalVersion > replica[k].canonicalVersion}

\* Mutant: what is pending locally wins over the server's changes.
Winning_PendingWins(k) ==
  IF k \in DOMAIN replica /\ replica[k].pendingEventId # Null THEN {}
  ELSE Newer(k)

\* Mutant: the newest change wins, even over a tombstone.
Winning_Resurrects(k) == Newer(k)

Winning(k) ==
  LET tombstones == {p \in Newer(k) : changelog[k[1]][p].tombstone}
  IN IF tombstones # {} THEN tombstones
     ELSE IF k \in DOMAIN replica /\ replica[k].tombstone THEN {}
     ELSE Newer(k)

\* The pending mark survives a change unless the event is known accepted.
StillPending(k) ==
  /\ k \in DOMAIN replica
  /\ replica[k].pendingEventId # Null
  /\ outbox[replica[k].pendingEventId].localState
       \notin {"accepted", "duplicate"}

Merged(k, change) ==
  LET keep == ~change.tombstone /\ StillPending(k)
  IN [canonicalVersion |-> change.canonicalVersion,
      tombstone |-> change.tombstone,
      snapshot |-> IF change.tombstone THEN Null ELSE change.writer,
      pendingEventId |-> IF keep THEN replica[k].pendingEventId ELSE Null,
      revertTo |-> IF keep THEN replica[k].revertTo ELSE Null]

\* Mutant: the cursor is only kept when the last page is in.
Advanced_AtTheEnd(s) ==
  [ScopeOrNew(s) EXCEPT !.pullCursor = IF pull.hasMore THEN @ ELSE pull.to]

Advanced(s) == [ScopeOrNew(s) EXCEPT !.pullCursor = pull.to]

\* One transaction: the merged changes and the new cursor.  When the scope
\* was revoked meanwhile the source throws and nothing is applied.
PullPage ==
  LET s == pull.scope
      touched == {k \in {s} \X Entities : Winning(k) # {}}
  IN /\ pull # Null /\ pull.phase = "answered" /\ pull.answer = "page"
     /\ IF /\ Status(s) \in {"active", "unregistered"}
           /\ ScopeOrNew(s).pullCursor = pull.cursor
        THEN /\ replica' = [k \in DOMAIN replica \union touched |->
                              IF k \in touched
                              THEN Merged(k, changelog[s][Max(Winning(k))])
                              ELSE replica[k]]
             /\ scopes' = Put(scopes, s, Advanced(s))
             /\ pull' = IF pull.hasMore
                        THEN [phase |-> "read", scope |-> s,
                              pages |-> pull.pages + 1]
                        ELSE Null
        ELSE /\ UNCHANGED <<replica, scopes>>
             /\ pull' = Null
     /\ UNCHANGED <<lastLocalSequence, outbox, pushes, serverVars>>

\* CURSOR_INVALID, CURSOR_EXPIRED or CURSOR_SCOPE_MISMATCH.
PullCursorLost ==
  /\ pull # Null /\ pull.phase = "answered" /\ pull.answer = "cursor_lost"
  /\ scopes' = ReplaceStatus(pull.scope, "resync_required")
  /\ pull' = Null
  /\ UNCHANGED <<lastLocalSequence, outbox, replica, pushes, serverVars>>

PullRevoked ==
  /\ pull # Null /\ pull.phase = "answered" /\ pull.answer = "auth_revoked"
  /\ scopes' = ReplaceStatus(pull.scope, "revoked")
  /\ outbox' = RevokeEntries(outbox, pull.scope)
  /\ pull' = Null
  /\ UNCHANGED <<lastLocalSequence, replica, pushes, serverVars>>

\* A transport failure, an answer the parser refuses, or a failed persist.
PullFails ==
  /\ pull # Null /\ pull.phase # "read"
  /\ pull' = Null
  /\ UNCHANGED <<deviceVars, pushes, serverVars>>

\* The process dies; init() loads the persisted state again.
Crash ==
  /\ "crash" \in Faults
  /\ pull # Null \/ \E w \in Pushers : pushes[w] # Null
  /\ pushes' = [w \in Pushers |-> Null]
  /\ pull' = Null
  /\ \/ UNCHANGED late
     \/ \E w \in Pushers : pushes[w] # Null /\ Abandon(pushes[w])
  /\ UNCHANGED <<deviceVars, changelog, ledger, authorized>>

-----------------------------------------------------------------------------
(***************************************************************************)
(* The server, as the engine's port and its tests use it: it takes the     *)
(* events of a request in order, each in a transaction of its own, checks  *)
(* authorisation first, then the deduplication ledger.                     *)
(***************************************************************************)
NextVersion(s, entity) ==
  1 + Cardinality({p \in DOMAIN changelog[s] :
                     changelog[s][p].entity = entity})

CommitChange(s, entity, tombstone, writer) ==
  /\ Len(changelog[s]) < MaxChanges
  /\ changelog' = [changelog EXCEPT ![s] = Append(@,
       [entity |-> entity, canonicalVersion |-> NextVersion(s, entity),
        tombstone |-> tombstone, writer |-> writer])]

\* The server's answer to event i.
Process(i, result) ==
  LET entry == outbox[i]
      intent == <<entry.scope, entry.key>>
  IN \/ /\ entry.scope \notin authorized
        /\ result = "auth_revoked"
        /\ UNCHANGED <<changelog, ledger>>
     \/ /\ entry.scope \in authorized
        /\ intent \in DOMAIN ledger
        /\ result = IF ledger[intent] = "accepted" THEN "duplicate"
                    ELSE ledger[intent]
        /\ UNCHANGED <<changelog, ledger>>
     \/ /\ entry.scope \in authorized
        /\ intent \notin DOMAIN ledger
        /\ result = "accepted"
        /\ CommitChange(entry.scope, entry.entity,
                        entry.operation = "delete", i)
        /\ ledger' = Put(ledger, intent, "accepted")
     \/ /\ entry.scope \in authorized
        /\ intent \notin DOMAIN ledger
        /\ result \in Refusals
        /\ UNCHANGED changelog
        /\ ledger' = Put(ledger, intent, result)

ServerProcess(w) ==
  /\ pushes[w] # Null
  /\ Unprocessed(pushes[w]) # {}
  /\ LET i == Min(Unprocessed(pushes[w]))
     IN \E result \in Results :
          /\ Process(i, result)
          /\ pushes' = [pushes EXCEPT ![w].results = Put(@, i, result)]
  /\ UNCHANGED <<deviceVars, pull, authorized, late>>

\* A request its caller has given up on; nobody reads the answer.
ServerProcessLate(request) ==
  /\ LET i == Min(request.todo)
         rest == request.todo \ {i}
     IN /\ \E result \in Results : Process(i, result)
        /\ late' = (late \ {request}) \union
                     (IF rest = {} THEN {}
                      ELSE {[request EXCEPT !.todo = rest]})
  /\ UNCHANGED <<deviceVars, pushes, pull, authorized>>

ServerAnswersPull ==
  /\ pull # Null /\ pull.phase = "sent"
  /\ LET s == pull.scope
         from == IF pull.cursor = Null THEN 0 ELSE pull.cursor
         to == Min({from + PageLimit, Len(changelog[s])})
         answered(answer) ==
           [phase |-> "answered", scope |-> s, pages |-> pull.pages,
            cursor |-> pull.cursor, answer |-> answer, to |-> to,
            hasMore |-> to < Len(changelog[s])]
     IN \/ s \in authorized /\ pull' = answered("page")
        \/ /\ s \in authorized /\ "cursor" \in Faults /\ pull.cursor # Null
           /\ pull' = answered("cursor_lost")
        \/ s \notin authorized /\ pull' = answered("auth_revoked")
  /\ UNCHANGED <<deviceVars, pushes, serverVars>>

\* Another device changes an entity.
ForeignCommit(s, entity, tombstone) ==
  /\ CommitChange(s, entity, tombstone, 0)
  /\ UNCHANGED <<deviceVars, pushes, pull, ledger, authorized, late>>

RevokeAuthorization(s) ==
  /\ "revoke" \in Faults
  /\ s \in authorized
  /\ authorized' = authorized \ {s}
  /\ UNCHANGED <<deviceVars, pushes, pull, changelog, ledger, late>>

-----------------------------------------------------------------------------
Init ==
  /\ lastLocalSequence = 0
  /\ scopes = <<>>
  /\ outbox = <<>>
  /\ replica = <<>>
  /\ pushes = [w \in Pushers |-> Null]
  /\ pull = Null
  /\ changelog = [s \in Scopes |-> <<>>]
  /\ ledger = <<>>
  /\ authorized = Scopes
  /\ late = {}

\* The attempts whose lease may be over.
Lapsable == {w \in Pushers : LeaseOutlivesCall => pushes[w] = Null}

Retrying == {i \in DOMAIN outbox : outbox[i].localState = "retry_wait"}

Host ==
  \/ \E s \in Scopes, key \in Keys, entity \in Entities,
        operation \in Operations : Enqueue(s, key, entity, operation)
  \/ \E i, j \in DOMAIN outbox : ResolveBlockingEvent(i, j)
  \/ \E s \in Scopes : ResetScopeForResync(s)

Push ==
  \/ \E w \in Pushers, s \in Scopes, lapsed \in SUBSET Lapsable,
        due \in SUBSET Retrying : ClaimBatch(w, s, lapsed, due)
  \/ \E w \in Pushers :
       \/ PushAnswered(w)
       \/ \E failure \in {"unavailable", "refused", "call_revoked"} :
            PushFailed(w, failure)
       \/ PushCommitFails(w)

Pull ==
  \/ \E s \in PulledScopes : PullRead(s)
  \/ PullPage
  \/ PullCursorLost
  \/ PullRevoked
  \/ PullFails

Server ==
  \/ \E w \in Pushers : ServerProcess(w)
  \/ \E request \in late : ServerProcessLate(request)
  \/ ServerAnswersPull
  \/ \E s \in Scopes, entity \in ForeignEntities, tombstone \in BOOLEAN :
       ForeignCommit(s, entity, tombstone)
  \/ \E s \in Scopes : RevokeAuthorization(s)

Next == Host \/ Push \/ Pull \/ Server \/ Crash

Spec == Init /\ [][Next]_vars

=============================================================================
