----------------------------- MODULE SyncProofs -----------------------------
(***************************************************************************)
(* Proofs about SyncEngine, for every value of its constants.              *)
(***************************************************************************)
EXTENDS SyncProperties, FiniteSetTheorems, SequenceTheorems,
        WellFoundedInduction, TLAPS

-----------------------------------------------------------------------------
(***************************************************************************)
(* Least and greatest elements; sequences rebuilt position by position.    *)
(***************************************************************************)

\* A nonempty set of naturals has its least element (Min of FiniteSetsExt).
LEMMA MinIsElement ==
  ASSUME NEW S \in SUBSET Nat, S # {}
  PROVE  /\ Min(S) \in S
         /\ \A x \in S : Min(S) <= x
<1> DEFINE less == {ss \in Nat \X Nat : ss[1] < ss[2]}
<1>1. OpToRel(<, Nat) = less
  BY DEF OpToRel
<1>2. IsWellFoundedOn(less, Nat)
  BY <1>1, NatLessThanWellFounded
<1>3. PICK x \in S : \A y \in S : ~(<<y, x>> \in less)
  BY <1>2, WFMin
<1>4. ASSUME NEW y \in S PROVE x <= y
  <2>1. x \in Nat /\ y \in Nat
    OBVIOUS
  <2>2. y < x => <<y, x>> \in less
    BY <2>1
  <2> QED BY <1>3, <2>1, <2>2
<1> QED BY <1>4 DEF Min

\* A nonempty set of naturals up to n has its greatest element.
LEMMA MaxIsElement ==
  ASSUME NEW n \in Nat, NEW S \in SUBSET (1..n), S # {}
  PROVE  /\ Max(S) \in S
         /\ \A x \in S : Max(S) >= x
<1> DEFINE T == {n - x : x \in S}
<1>1. \A x \in S : x \in Nat /\ n - x \in Nat
  OBVIOUS
<1>2. T \in SUBSET Nat /\ T # {}
  BY <1>1
<1>3. PICK m \in T : \A y \in T : m <= y
  BY <1>2, MinIsElement
<1>4. PICK x \in S : m = n - x
  OBVIOUS
<1>5. ASSUME NEW y \in S PROVE x >= y
  <2>1. n - y \in T
    OBVIOUS
  <2>2. n - x <= n - y
    BY <1>3, <1>4, <2>1
  <2> QED BY <1>1, <2>2
<1> QED BY <1>5 DEF Max

\* A sequence stays one when each position gets a new element.
LEMMA MappedSeq ==
  ASSUME NEW S, NEW T, NEW s \in Seq(S), NEW t,
         t = [i \in DOMAIN s |-> t[i]],
         \A i \in DOMAIN s : t[i] \in T
  PROVE  /\ t \in Seq(T)
         /\ DOMAIN t = DOMAIN s
         /\ Len(t) = Len(s)
<1>1. Len(s) \in Nat /\ DOMAIN s = 1..Len(s)
  BY LenProperties
<1>2. t \in [1..Len(s) -> T]
  BY <1>1
<1>3. t \in Seq(T)
  BY <1>1, <1>2, SeqDef
<1> QED BY <1>1, <1>2, <1>3, LenProperties

\* What Put defines, and keeps.
LEMMA PutProperties ==
  ASSUME NEW f, NEW key, NEW value
  PROVE  /\ DOMAIN Put(f, key, value) = DOMAIN f \union {key}
         /\ Put(f, key, value)[key] = value
         /\ \A x \in DOMAIN f : x # key => Put(f, key, value)[x] = f[x]
BY DEF Put

-----------------------------------------------------------------------------
(***************************************************************************)
(* Types.                                                                  *)
(***************************************************************************)

\* Every event of transitionOutboxState turns an entry into an entry.
LEMMA EntryTypes ==
  ASSUME NEW entry \in Entries
  PROVE  /\ \A w \in Pushers : Claim(entry, w) \in Entries
         /\ LeaseExpired(entry) \in Entries
         /\ Retry(entry) \in Entries
         /\ \A status \in OutboxStates : Result(entry, status) \in Entries
         /\ Invalidate(entry) \in Entries
         /\ \A b \in EventIds \union {Null} : Block(entry, b) \in Entries
         /\ \A r \in EventIds : Resolve(entry, r) \in Entries
<1>1. ASSUME NEW w \in Pushers PROVE Claim(entry, w) \in Entries
  BY DEF Entries, OutboxStates, Claim
<1>2. LeaseExpired(entry) \in Entries
  BY DEF Entries, OutboxStates, LeaseExpired
<1>3. Retry(entry) \in Entries
  <2>1. entry.retryCount + 1 \in Nat
    BY DEF Entries
  <2> QED BY <2>1 DEF Entries, OutboxStates, Retry
<1>4. ASSUME NEW status \in OutboxStates PROVE Result(entry, status) \in Entries
  BY DEF Entries, Result
<1>5. Invalidate(entry) \in Entries
  BY DEF Entries, OutboxStates, Invalidate
<1>6. ASSUME NEW b \in EventIds \union {Null} PROVE Block(entry, b) \in Entries
  BY DEF Entries, Block
<1>7. ASSUME NEW r \in EventIds PROVE Resolve(entry, r) \in Entries
  BY DEF Entries, Resolve
<1> QED BY <1>1, <1>2, <1>3, <1>4, <1>5, <1>6, <1>7

\* What a push learns of an event leaves its entry an entry.
LEMMA NextEntryStateType ==
  ASSUME NEW entry \in Entries,
         NEW learnt \in Results \union
               {"missing", "unavailable", "refused", "call_revoked"}
  PROVE  NextEntryState(entry, learnt) \in Entries
BY EntryTypes DEF NextEntryState, Results, Verdicts, OutboxStates

\* revokeScope keeps the outbox a sequence of entries of the same length.
LEMMA RevokeEntriesType ==
  ASSUME NEW entries \in Seq(Entries), NEW s
  PROVE  /\ RevokeEntries(entries, s) \in Seq(Entries)
         /\ DOMAIN RevokeEntries(entries, s) = DOMAIN entries
         /\ Len(RevokeEntries(entries, s)) = Len(entries)
<1> DEFINE t == RevokeEntries(entries, s)
<1>1. t = [i \in DOMAIN entries |-> t[i]]
  BY DEF RevokeEntries
<1>2. ASSUME NEW i \in DOMAIN entries PROVE t[i] \in Entries
  <2>1. entries[i] \in Entries
    BY LenProperties, ElementOfSeq
  <2> QED BY <2>1, EntryTypes DEF RevokeEntries
<1> HIDE DEF t
<1> QED BY <1>1, <1>2, MappedSeq DEF t

\* Undoing optimistic writes adds no entity and keeps the others typed.
LEMMA RevertRejectedType ==
  ASSUME ReplicaTypeOK, NEW s, NEW rejected
  PROVE  /\ DOMAIN RevertRejected(s, rejected) \subseteq DOMAIN replica
         /\ \A k \in DOMAIN RevertRejected(s, rejected) :
              RevertRejected(s, rejected)[k] \in ReplicaEntities
<1>1. ASSUME NEW r \in ReplicaEntities PROVE Restored(r) \in ReplicaEntities
  BY DEF Restored, ReplicaEntities, Reverts
<1> QED BY <1>1 DEF RevertRejected, ReplicaTypeOK

\* A scope not registered yet starts active, without a cursor.
LEMMA ScopeOrNewType ==
  ASSUME ScopesTypeOK, NEW s \in Scopes
  PROVE  ScopeOrNew(s) \in ScopeStates
BY DEF ScopesTypeOK, ScopeOrNew, ScopeStates

\* Marking a scope leaves the table of scopes well formed.
LEMMA ReplaceStatusType ==
  ASSUME ScopesTypeOK, NEW s \in Scopes,
         NEW status \in {"active", "revoked", "resync_required"},
         scopes' = ReplaceStatus(s, status)
  PROVE  ScopesTypeOK'
<1>1. [ScopeOrNew(s) EXCEPT !.status = status] \in ScopeStates
  BY ScopeOrNewType DEF ScopeStates
<1>2. /\ DOMAIN scopes' = DOMAIN scopes \union {s}
      /\ \A x \in DOMAIN scopes' : scopes'[x] \in ScopeStates
  BY <1>1 DEF ReplaceStatus, Put, ScopesTypeOK
<1> QED BY <1>2 DEF ScopesTypeOK

\* What an action leaves alone keeps its type when the outbox only grows.
LEMMA UntouchedTypes ==
  ASSUME DOMAIN outbox \subseteq DOMAIN outbox'
  PROVE  /\ PushesTypeOK /\ UNCHANGED pushes => PushesTypeOK'
         /\ PullTypeOK /\ UNCHANGED <<pull, changelog>> => PullTypeOK'
         /\ ServerTypeOK /\ UNCHANGED serverVars => ServerTypeOK'
<1>1. ASSUME PushesTypeOK, UNCHANGED pushes PROVE PushesTypeOK'
  BY <1>1 DEF PushesTypeOK
<1>2. ASSUME PullTypeOK, UNCHANGED <<pull, changelog>> PROVE PullTypeOK'
  BY <1>2 DEF PullTypeOK
<1>3. ASSUME ServerTypeOK, UNCHANGED serverVars PROVE ServerTypeOK'
  BY <1>3 DEF ServerTypeOK, serverVars
<1> QED BY <1>1, <1>2, <1>3

LEMMA EnqueueType ==
  ASSUME TypeOK, NEW s \in Scopes, NEW key \in Keys, NEW entity \in Entities,
         NEW operation \in Operations, Enqueue(s, key, entity, operation)
  PROVE  TypeOK'
<1> USE DEF TypeOK
<1> DEFINE id == Len(outbox) + 1
           k == <<s, entity>>
           entry == [scope |-> s, entity |-> entity, operation |-> operation,
                     key |-> key, localSequence |-> lastLocalSequence + 1,
                     localState |-> "pending", retryCount |-> 0,
                     attemptId |-> Null, blockedBy |-> Null,
                     resolvedBy |-> Null]
<1>1. /\ lastLocalSequence' = lastLocalSequence + 1
      /\ outbox' = Append(outbox, entry)
      /\ scopes' = Put(scopes, s, ScopeOrNew(s))
      /\ replica' = Put(replica, k, OptimisticWrite(k, id, operation))
      /\ UNCHANGED <<pushes, pull, serverVars>>
  BY DEF Enqueue
<1>2. Len(outbox) \in Nat /\ id \in EventIds
  BY LenProperties DEF OutboxTypeOK, EventIds
<1>3. entry \in Entries
  BY DEF Entries, OutboxTypeOK, OutboxStates, EventIds
<1>4. /\ outbox' \in Seq(Entries)
      /\ DOMAIN outbox \subseteq DOMAIN outbox'
  <2>1. /\ Append(outbox, entry) \in Seq(Entries)
        /\ Len(Append(outbox, entry)) = Len(outbox) + 1
    BY <1>3, AppendProperties DEF OutboxTypeOK
  <2> QED BY <1>1, <1>2, <2>1, LenProperties DEF OutboxTypeOK
<1>5. OutboxTypeOK'
  BY <1>1, <1>4 DEF OutboxTypeOK
<1>6. ScopesTypeOK'
  <2>1. ScopeOrNew(s) \in ScopeStates
    BY ScopeOrNewType
  <2>2. /\ DOMAIN scopes' = DOMAIN scopes \union {s}
        /\ \A x \in DOMAIN scopes' : scopes'[x] \in ScopeStates
    BY <1>1, <2>1 DEF Put, ScopesTypeOK
  <2> QED BY <2>2 DEF ScopesTypeOK
<1>7. ReplicaTypeOK'
  <2>1. RevertFor(k) \in Reverts
    BY DEF RevertFor, ReplicaTypeOK, ReplicaEntities, Reverts, Contents
  <2>2. OptimisticWrite(k, id, operation) \in ReplicaEntities
    BY <1>2, <2>1 DEF OptimisticWrite, ReplicaTypeOK, ReplicaEntities,
                      Contents, EventIds
  <2>3. /\ DOMAIN replica' = DOMAIN replica \union {k}
        /\ \A x \in DOMAIN replica' : replica'[x] \in ReplicaEntities
    BY <1>1, <2>2 DEF Put, ReplicaTypeOK
  <2> QED BY <2>3 DEF ReplicaTypeOK
<1> QED BY <1>1, <1>4, <1>5, <1>6, <1>7, UntouchedTypes DEF serverVars

LEMMA ResolveBlockingEventType ==
  ASSUME TypeOK, NEW i \in DOMAIN outbox, NEW j \in DOMAIN outbox,
         ResolveBlockingEvent(i, j)
  PROVE  TypeOK'
<1> USE DEF TypeOK
<1>1. /\ outbox' = [outbox EXCEPT ![i] = Resolve(@, j)]
      /\ UNCHANGED <<lastLocalSequence, scopes, replica, pushes, pull, serverVars>>
  BY DEF ResolveBlockingEvent
<1>2. outbox \in Seq(Entries) /\ j \in EventIds
  BY LenProperties DEF OutboxTypeOK, EventIds
<1>3. /\ \A x \in DOMAIN outbox : outbox'[x] \in Entries
      /\ outbox' = [x \in DOMAIN outbox |-> outbox'[x]]
  <2>1. \A x \in DOMAIN outbox : outbox[x] \in Entries
    BY <1>2, LenProperties, ElementOfSeq
  <2> QED BY <1>1, <1>2, <2>1, EntryTypes
<1>4. outbox' \in Seq(Entries) /\ DOMAIN outbox' = DOMAIN outbox
  BY <1>2, <1>3, MappedSeq
<1> QED BY <1>1, <1>4, UntouchedTypes
        DEF OutboxTypeOK, ScopesTypeOK, ReplicaTypeOK, serverVars

LEMMA ResetScopeForResyncType ==
  ASSUME TypeOK, NEW s \in Scopes, ResetScopeForResync(s)
  PROVE  TypeOK'
<1> USE DEF TypeOK
<1>1. ScopesTypeOK'
  <2>1. [status |-> "active", pullCursor |-> Null] \in ScopeStates
    BY DEF ScopeStates
  <2>2. /\ DOMAIN scopes' = DOMAIN scopes \union {s}
        /\ \A x \in DOMAIN scopes' : scopes'[x] \in ScopeStates
    BY <2>1 DEF ResetScopeForResync, Put, ScopesTypeOK
  <2> QED BY <2>2 DEF ScopesTypeOK
<1> QED BY <1>1, UntouchedTypes
        DEF ResetScopeForResync, OutboxTypeOK, ReplicaTypeOK, serverVars

\* claimBatch's sweep keeps the outbox a sequence of entries.
LEMMA SweptType ==
  ASSUME OutboxTypeOK, NEW s, NEW lapsed
  PROVE  /\ DOMAIN SweptOutbox(s, lapsed) = DOMAIN outbox
         /\ \A i \in DOMAIN outbox : /\ outbox[i] \in Entries
                                    /\ SweptOutbox(s, lapsed)[i] \in Entries
<1>1. ASSUME NEW i \in DOMAIN outbox PROVE outbox[i] \in Entries
  BY LenProperties, ElementOfSeq DEF OutboxTypeOK
<1> QED BY <1>1, EntryTypes DEF SweptOutbox, Swept

\* The event that blocks another is an event, the earliest that does.
LEMMA BlockerType ==
  ASSUME OutboxTypeOK, NEW swept, NEW i \in DOMAIN outbox,
         Blockers(swept, i) # {}
  PROVE  Min(Blockers(swept, i)) \in EventIds
<1>1. i \in Nat
  BY LenProperties DEF OutboxTypeOK
<1>2. Blockers(swept, i) \in SUBSET Nat
  BY <1>1 DEF Blockers
<1>3. Min(Blockers(swept, i)) \in Blockers(swept, i)
  BY <1>2, MinIsElement
<1> QED BY <1>1, <1>3 DEF Blockers, EventIds

LEMMA ClaimBatchType ==
  ASSUME TypeOK, NEW w \in Pushers, NEW s \in Scopes, NEW lapsed, NEW due,
         ClaimBatch(w, s, lapsed, due)
  PROVE  TypeOK'
<1> USE DEF TypeOK
<1> DEFINE swept == SweptOutbox(s, lapsed)
           claimed == Batch(Eligible(swept, s, due))
           blocker(i) == IF Blockers(swept, i) = {} THEN Null
                         ELSE Min(Blockers(swept, i))
<1>1. /\ outbox' = [i \in DOMAIN outbox |->
             IF i \in claimed THEN Claim(swept[i], w)
             ELSE IF swept[i].scope = s /\ swept[i].localState = "pending"
                  THEN Block(swept[i], blocker(i))
                  ELSE swept[i]]
      /\ pushes' = IF claimed = {} THEN pushes
                   ELSE [pushes EXCEPT ![w] = [scope |-> s, claimed |-> claimed,
                                               results |-> <<>>]]
      /\ UNCHANGED <<lastLocalSequence, scopes, replica, pull, serverVars>>
  BY DEF ClaimBatch
<1>2. outbox' \in Seq(Entries) /\ DOMAIN outbox' = DOMAIN outbox
  <2>1. ASSUME NEW i \in DOMAIN outbox PROVE outbox'[i] \in Entries
    <3>1. swept[i] \in Entries
      BY SweptType
    <3>2. blocker(i) \in EventIds \union {Null}
      BY BlockerType
    <3> HIDE DEF swept, claimed, blocker
    <3> QED BY <1>1, <3>1, <3>2, EntryTypes
  <2>2. outbox' = [i \in DOMAIN outbox |-> outbox'[i]]
    BY <1>1
  <2> QED BY <2>1, <2>2, MappedSeq DEF OutboxTypeOK
<1>3. claimed \subseteq DOMAIN outbox
  BY SweptType DEF Batch, Eligible
<1>4. PushesTypeOK'
  <2> DEFINE call == [scope |-> s, claimed |-> claimed, results |-> <<>>]
  <2>1. <<>> \in UNION {[S -> Results] : S \in SUBSET claimed}
    <3>1. <<>> \in [{} -> Results]
      OBVIOUS
    <3>2. {} \in SUBSET claimed
      OBVIOUS
    <3> QED BY <3>1, <3>2
  <2>2. call \in PushCalls(claimed)
    BY <2>1 DEF PushCalls
  <2> HIDE DEF claimed
  <2> QED BY <1>1, <1>2, <1>3, <2>2 DEF PushesTypeOK
<1> QED BY <1>1, <1>2, <1>4, UntouchedTypes
        DEF OutboxTypeOK, ScopesTypeOK, ReplicaTypeOK, serverVars

\* Whatever a push learns of its events, recording it keeps the types.
LEMMA ApplyPushOutcomeType ==
  ASSUME TypeOK, NEW w \in Pushers, pushes[w] # Null,
         NEW learnt,
         \A i \in pushes[w].claimed :
            learnt[i] \in Results \union
               {"missing", "unavailable", "refused", "call_revoked"},
         ApplyPushOutcome(w, learnt)
  PROVE  /\ OutboxTypeOK' /\ ScopesTypeOK' /\ ReplicaTypeOK' /\ PushesTypeOK'
         /\ DOMAIN outbox' = DOMAIN outbox
<1> USE DEF TypeOK
<1> DEFINE s == pushes[w].scope
           told == [i \in DOMAIN outbox |->
                      IF i \in Current(w) THEN NextEntryState(outbox[i], learnt[i])
                      ELSE outbox[i]]
           rejected == {i \in Current(w) : told[i].localState = "rejected"}
           revoked == \E i \in pushes[w].claimed :
                        learnt[i] \in {"auth_revoked", "call_revoked"}
<1>1. /\ replica' = RevertRejected(s, rejected)
      /\ outbox' = IF revoked THEN RevokeEntries(told, s) ELSE told
      /\ scopes' = IF revoked THEN ReplaceStatus(s, "revoked") ELSE scopes
      /\ pushes' = [pushes EXCEPT ![w] = Null]
      /\ UNCHANGED lastLocalSequence
  BY DEF ApplyPushOutcome
<1>2. s \in Scopes
  BY DEF PushesTypeOK, PushCalls
<1>3. told \in Seq(Entries) /\ DOMAIN told = DOMAIN outbox
  <2>1. ASSUME NEW i \in DOMAIN outbox PROVE told[i] \in Entries
    <3>1. outbox[i] \in Entries
      BY LenProperties, ElementOfSeq DEF OutboxTypeOK
    <3> QED BY <3>1, NextEntryStateType DEF Current
  <2>2. told = [i \in DOMAIN outbox |-> told[i]]
    OBVIOUS
  <2> HIDE DEF told
  <2> QED BY <2>1, <2>2, MappedSeq DEF OutboxTypeOK
<1>4. outbox' \in Seq(Entries) /\ DOMAIN outbox' = DOMAIN outbox
  <2> HIDE DEF told, revoked
  <2> QED BY <1>1, <1>3, RevokeEntriesType
<1>5. ScopesTypeOK'
  <2>1. CASE revoked
    BY <1>1, <1>2, <2>1, ReplaceStatusType
  <2>2. CASE ~revoked
    BY <1>1, <2>2 DEF ScopesTypeOK
  <2> QED BY <2>1, <2>2
<1>6. ReplicaTypeOK'
  <2> HIDE DEF rejected
  <2> QED BY <1>1, RevertRejectedType DEF ReplicaTypeOK
<1>7. PushesTypeOK'
  BY <1>1, <1>4 DEF PushesTypeOK
<1> QED BY <1>1, <1>4, <1>5, <1>6, <1>7 DEF OutboxTypeOK

\* A request given up on names events that exist.
LEMMA AbandonType ==
  ASSUME TypeOK, NEW w \in Pushers, pushes[w] # Null, Abandon(pushes[w])
  PROVE  late' \subseteq [scope: Scopes, todo: (SUBSET DOMAIN outbox) \ {{}}]
BY DEF Abandon, TypeOK, ServerTypeOK, PushesTypeOK, PushCalls, Unprocessed

\* What a response leaves in `learnt` is a result or nothing for each event.
LEMMA PushAnsweredLearns ==
  ASSUME TypeOK, NEW w \in Pushers, PushAnswered(w)
  PROVE  \E learnt :
           /\ \A i \in pushes[w].claimed :
                learnt[i] \in Results \union
                  {"missing", "unavailable", "refused", "call_revoked"}
           /\ ApplyPushOutcome(w, learnt)
<1> PICK omitted \in SUBSET pushes[w].claimed :
      ApplyPushOutcome(w, [i \in pushes[w].claimed |->
                             IF i \in omitted THEN "missing"
                             ELSE pushes[w].results[i]])
  BY DEF PushAnswered
<1> DEFINE learnt == [i \in pushes[w].claimed |->
                        IF i \in omitted THEN "missing"
                        ELSE pushes[w].results[i]]
<1>1. pushes[w] # Null /\ Unprocessed(pushes[w]) = {}
  BY DEF PushAnswered
<1>2. ASSUME NEW i \in pushes[w].claimed PROVE pushes[w].results[i] \in Results
  <2>1. PICK S \in SUBSET pushes[w].claimed : pushes[w].results \in [S -> Results]
    BY <1>1 DEF TypeOK, PushesTypeOK, PushCalls
  <2>2. i \in S
    BY <1>1, <2>1 DEF Unprocessed
  <2> QED BY <2>1, <2>2
<1>3. \A i \in pushes[w].claimed :
        learnt[i] \in Results \union
          {"missing", "unavailable", "refused", "call_revoked"}
  BY <1>2
<1>4. ApplyPushOutcome(w, learnt)
  OBVIOUS
<1> HIDE DEF learnt
<1> QED BY <1>3, <1>4

LEMMA PushAnsweredType ==
  ASSUME TypeOK, NEW w \in Pushers, PushAnswered(w)
  PROVE  TypeOK'
<1>1. pushes[w] # Null /\ UNCHANGED <<pull, serverVars>>
  BY DEF PushAnswered
<1>2. /\ OutboxTypeOK' /\ ScopesTypeOK' /\ ReplicaTypeOK' /\ PushesTypeOK'
      /\ DOMAIN outbox' = DOMAIN outbox
  BY <1>1, PushAnsweredLearns, ApplyPushOutcomeType
<1> QED BY <1>1, <1>2, UntouchedTypes DEF TypeOK, serverVars

LEMMA PushFailedType ==
  ASSUME TypeOK, NEW w \in Pushers,
         NEW failure \in {"unavailable", "refused", "call_revoked"},
         PushFailed(w, failure)
  PROVE  TypeOK'
<1> DEFINE learnt == [i \in pushes[w].claimed |-> failure]
<1>1. /\ pushes[w] # Null /\ ApplyPushOutcome(w, learnt) /\ Abandon(pushes[w])
      /\ UNCHANGED <<pull, changelog, ledger, authorized>>
  BY DEF PushFailed
<1>2. /\ OutboxTypeOK' /\ ScopesTypeOK' /\ ReplicaTypeOK' /\ PushesTypeOK'
      /\ DOMAIN outbox' = DOMAIN outbox
  <2>1. \A i \in pushes[w].claimed :
          learnt[i] \in Results \union
            {"missing", "unavailable", "refused", "call_revoked"}
    OBVIOUS
  <2> HIDE DEF learnt
  <2> QED BY <1>1, <2>1, ApplyPushOutcomeType
<1>3. ServerTypeOK'
  <2>1. late' \subseteq [scope: Scopes, todo: (SUBSET DOMAIN outbox) \ {{}}]
    BY <1>1, AbandonType
  <2> QED BY <1>1, <1>2, <2>1 DEF TypeOK, ServerTypeOK
<1> QED BY <1>1, <1>2, <1>3, UntouchedTypes DEF TypeOK

LEMMA PushCommitFailsType ==
  ASSUME TypeOK, NEW w \in Pushers, PushCommitFails(w)
  PROVE  TypeOK'
<1>1. PushesTypeOK'
  BY DEF TypeOK, PushesTypeOK, PushCommitFails, deviceVars
<1> QED BY <1>1, UntouchedTypes
        DEF TypeOK, PushCommitFails, deviceVars, serverVars,
            OutboxTypeOK, ScopesTypeOK, ReplicaTypeOK

LEMMA CrashType ==
  ASSUME TypeOK, Crash
  PROVE  TypeOK'
<1>1. /\ pushes' = [w \in Pushers |-> Null] /\ pull' = Null
      /\ UNCHANGED <<deviceVars, changelog, ledger, authorized>>
  BY DEF Crash
<1>2. late' \subseteq [scope: Scopes, todo: (SUBSET DOMAIN outbox) \ {{}}]
  BY AbandonType DEF Crash, TypeOK, ServerTypeOK
<1>3. ServerTypeOK'
  BY <1>1, <1>2 DEF TypeOK, ServerTypeOK, deviceVars
<1> QED BY <1>1, <1>3
        DEF TypeOK, OutboxTypeOK, ScopesTypeOK, ReplicaTypeOK, PushesTypeOK,
            PullTypeOK, deviceVars

-----------------------------------------------------------------------------

LEMMA PullReadType ==
  ASSUME TypeOK, NEW s \in Scopes, PullRead(s)
  PROVE  TypeOK'
<1>1. UNCHANGED <<deviceVars, pushes, serverVars>>
  BY DEF PullRead
<1>2. PullTypeOK'
  <2> DEFINE pages == IF pull = Null THEN 0 ELSE pull.pages
  <2>1. pages \in Nat
    BY DEF TypeOK, PullTypeOK, PullCalls
  <2>2. ScopeOrNew(s).pullCursor \in Nat \union {Null}
    BY ScopeOrNewType DEF TypeOK, ScopeStates
  <2>3. \/ pull' = Null
        \/ pull' = [phase |-> "sent", scope |-> s, pages |-> pages,
                    cursor |-> ScopeOrNew(s).pullCursor]
    BY DEF PullRead
  <2> HIDE DEF pages
  <2> QED BY <2>1, <2>2, <2>3 DEF PullTypeOK, PullCalls
<1> QED BY <1>1, <1>2, UntouchedTypes
        DEF TypeOK, deviceVars, OutboxTypeOK, ScopesTypeOK, ReplicaTypeOK

LEMMA PullFailsType ==
  ASSUME TypeOK, PullFails
  PROVE  TypeOK'
BY UntouchedTypes
   DEF TypeOK, PullFails, deviceVars, OutboxTypeOK, ScopesTypeOK,
       ReplicaTypeOK, PullTypeOK

LEMMA PullCursorLostType ==
  ASSUME TypeOK, PullCursorLost
  PROVE  TypeOK'
<1>1. pull.scope \in Scopes
  BY DEF TypeOK, PullTypeOK, PullCalls, PullCursorLost
<1>2. ScopesTypeOK'
  BY <1>1, ReplaceStatusType DEF TypeOK, PullCursorLost
<1> QED BY <1>2, UntouchedTypes
        DEF TypeOK, PullCursorLost, OutboxTypeOK, ReplicaTypeOK, PullTypeOK

LEMMA PullRevokedType ==
  ASSUME TypeOK, PullRevoked
  PROVE  TypeOK'
<1>1. pull.scope \in Scopes
  BY DEF TypeOK, PullTypeOK, PullCalls, PullRevoked
<1>2. ScopesTypeOK'
  BY <1>1, ReplaceStatusType DEF TypeOK, PullRevoked
<1>3. OutboxTypeOK' /\ DOMAIN outbox' = DOMAIN outbox
  BY RevokeEntriesType DEF TypeOK, PullRevoked, OutboxTypeOK
<1> QED BY <1>2, <1>3, UntouchedTypes
        DEF TypeOK, PullRevoked, ReplicaTypeOK, PullTypeOK

\* The changes of an answered page are positions of the changelog.
LEMMA WinningType ==
  ASSUME TypeOK, pull # Null, pull.phase = "answered",
         NEW k \in {pull.scope} \X Entities
  PROVE  /\ pull.scope \in Scopes /\ pull.to \in Nat
         /\ changelog[pull.scope] \in Seq(Changes)
         /\ Winning(k) \in SUBSET (1..Len(changelog[pull.scope]))
<1>1. /\ pull.scope \in Scopes /\ pull.to \in Nat
      /\ pull.cursor \in Nat \union {Null}
      /\ pull.to <= Len(changelog[pull.scope])
  BY DEF TypeOK, PullTypeOK, PullCalls
<1>2. changelog[pull.scope] \in Seq(Changes)
  BY <1>1 DEF TypeOK, ServerTypeOK
<1>3. Len(changelog[pull.scope]) \in Nat
  BY <1>2, LenProperties
<1>4. PagePositions \subseteq 1..Len(changelog[pull.scope])
  BY <1>1, <1>3 DEF PagePositions
<1> QED BY <1>1, <1>2, <1>4 DEF Winning, Newer

LEMMA PullPageType ==
  ASSUME TypeOK, PullPage
  PROVE  TypeOK'
<1> DEFINE s == pull.scope
           touched == {k \in {s} \X Entities : Winning(k) # {}}
<1>1. /\ pull # Null /\ pull.phase = "answered"
      /\ UNCHANGED <<lastLocalSequence, outbox, pushes, serverVars>>
  BY DEF PullPage
<1>2. s \in Scopes /\ pull.to \in Nat /\ pull.pages \in Nat
  BY <1>1 DEF TypeOK, PullTypeOK, PullCalls
<1>3. CASE UNCHANGED <<replica, scopes>> /\ pull' = Null
  BY <1>1, <1>3, UntouchedTypes
     DEF TypeOK, OutboxTypeOK, ScopesTypeOK, ReplicaTypeOK, PullTypeOK
<1>4. CASE /\ replica' = [k \in DOMAIN replica \union touched |->
                           IF k \in touched
                           THEN Merged(k, changelog[s][Max(Winning(k))])
                           ELSE replica[k]]
           /\ scopes' = Put(scopes, s, Advanced(s))
           /\ pull' = IF pull.hasMore
                      THEN [phase |-> "read", scope |-> s,
                            pages |-> pull.pages + 1]
                      ELSE Null
  <2>1. ScopesTypeOK'
    <3>1. Advanced(s) \in ScopeStates
      BY <1>2, ScopeOrNewType DEF TypeOK, Advanced, ScopeStates
    <3>2. /\ DOMAIN scopes' = DOMAIN scopes \union {s}
          /\ \A x \in DOMAIN scopes' : scopes'[x] \in ScopeStates
      BY <1>2, <1>4, <3>1 DEF Put, TypeOK, ScopesTypeOK
    <3> QED BY <1>2, <3>2 DEF TypeOK, ScopesTypeOK
  <2>2. ReplicaTypeOK'
    <3>1. ASSUME NEW k \in touched
          PROVE  Merged(k, changelog[s][Max(Winning(k))]) \in ReplicaEntities
      <4>1. changelog[s] \in Seq(Changes)
        BY <1>1, WinningType
      <4>2. Max(Winning(k)) \in 1..Len(changelog[s])
        BY <1>1, <4>1, WinningType, MaxIsElement, LenProperties
      <4>3. changelog[s][Max(Winning(k))] \in Changes
        BY <4>1, <4>2, ElementOfSeq
      <4> QED BY <4>3 DEF Merged, StillPending, ReplicaEntities, Changes,
                          Contents, EventIds, TypeOK, ReplicaTypeOK
    <3>2. touched \subseteq Scopes \X Entities
      BY <1>2
    <3> HIDE DEF touched
    <3> QED BY <1>4, <3>1, <3>2 DEF TypeOK, ReplicaTypeOK
  <2>3. PullTypeOK'
    BY <1>2, <1>4 DEF PullTypeOK, PullCalls
  <2> QED BY <1>1, <2>1, <2>2, <2>3, UntouchedTypes DEF TypeOK, OutboxTypeOK
<1> QED BY <1>1, <1>3, <1>4 DEF PullPage

-----------------------------------------------------------------------------

\* A change appended to the changelog keeps it typed and never shorter.
LEMMA CommitChangeType ==
  ASSUME TypeOK, NEW s \in Scopes, NEW entity \in Entities,
         NEW tombstone \in BOOLEAN, NEW writer \in Nat,
         CommitChange(s, entity, tombstone, writer)
  PROVE  /\ DOMAIN changelog' = Scopes
         /\ \A x \in Scopes : /\ changelog'[x] \in Seq(Changes)
                             /\ Len(changelog[x]) <= Len(changelog'[x])
<1> DEFINE change == [entity |-> entity,
                      canonicalVersion |-> NextVersion(s, entity),
                      tombstone |-> tombstone, writer |-> writer]
<1>1. \A x \in Scopes : changelog[x] \in Seq(Changes) /\ Len(changelog[x]) \in Nat
  BY LenProperties DEF TypeOK, ServerTypeOK
<1>2. NextVersion(s, entity) \in EventIds
  <2> DEFINE older == {p \in DOMAIN changelog[s] :
                         changelog[s][p].entity = entity}
  <2>1. DOMAIN changelog[s] = 1..Len(changelog[s]) /\ Len(changelog[s]) \in Nat
    BY <1>1, LenProperties
  <2>2. IsFiniteSet(1..Len(changelog[s]))
    BY <2>1, FS_Interval
  <2>3. IsFiniteSet(older)
    BY <2>1, <2>2, FS_Subset
  <2>4. Cardinality(older) \in Nat
    BY <2>3, FS_CardinalityType
  <2> HIDE DEF older
  <2>5. NextVersion(s, entity) = 1 + Cardinality(older)
    BY DEF NextVersion, older
  <2> QED BY <2>4, <2>5 DEF EventIds
<1>3. change \in Changes
  BY <1>2 DEF Changes
<1>4. changelog' = [changelog EXCEPT ![s] = Append(changelog[s], change)]
  BY DEF CommitChange
<1>5. /\ Append(changelog[s], change) \in Seq(Changes)
      /\ Len(Append(changelog[s], change)) = Len(changelog[s]) + 1
  BY <1>1, <1>3, AppendProperties
<1> HIDE DEF change
<1> QED BY <1>1, <1>4, <1>5 DEF TypeOK, ServerTypeOK

\* A page in flight stays within a changelog that only grows.
LEMMA PullTypeKept ==
  ASSUME TypeOK, UNCHANGED pull,
         \A x \in Scopes : /\ changelog'[x] \in Seq(Changes)
                         /\ Len(changelog[x]) <= Len(changelog'[x])
  PROVE  PullTypeOK'
<1> SUFFICES ASSUME pull # Null, pull.phase = "answered"
             PROVE  pull.to <= Len(changelog'[pull.scope])
  BY DEF TypeOK, PullTypeOK
<1>1. /\ pull.scope \in Scopes /\ pull.to \in Nat
      /\ pull.to <= Len(changelog[pull.scope])
  BY DEF TypeOK, PullTypeOK, PullCalls
<1>2. Len(changelog[pull.scope]) \in Nat /\ Len(changelog'[pull.scope]) \in Nat
  BY <1>1, LenProperties DEF TypeOK, ServerTypeOK
<1> QED BY <1>1, <1>2

\* Answering an event keeps the changelog and the ledger typed.
LEMMA ProcessType ==
  ASSUME TypeOK, NEW i \in DOMAIN outbox, NEW result, Process(i, result)
  PROVE  /\ DOMAIN changelog' = Scopes
         /\ \A x \in Scopes : /\ changelog'[x] \in Seq(Changes)
                             /\ Len(changelog[x]) <= Len(changelog'[x])
         /\ DOMAIN ledger' \subseteq Scopes \X Keys
         /\ \A intent \in DOMAIN ledger' : ledger'[intent] \in Verdicts
         /\ result \in Results
<1> DEFINE entry == outbox[i]
           intent == <<entry.scope, entry.key>>
<1>1. entry \in Entries /\ i \in Nat
  BY LenProperties, ElementOfSeq DEF TypeOK, OutboxTypeOK
<1>2. entry.scope \in Scopes /\ entry.entity \in Entities /\ intent \in Scopes \X Keys
  BY <1>1 DEF Entries
<1>3. \A x \in Scopes : /\ changelog[x] \in Seq(Changes)
                      /\ Len(changelog[x]) <= Len(changelog[x])
  BY LenProperties DEF TypeOK, ServerTypeOK
<1>4. CASE /\ result = "auth_revoked" \/ intent \in DOMAIN ledger
           /\ result \in {"auth_revoked", "duplicate", ledger[intent]}
           /\ UNCHANGED <<changelog, ledger>>
  BY <1>3, <1>4 DEF TypeOK, ServerTypeOK, Results, Verdicts
<1>5. CASE /\ result = "accepted"
           /\ CommitChange(entry.scope, entry.entity,
                           entry.operation = "delete", i)
           /\ ledger' = Put(ledger, intent, "accepted")
  <2>1. (entry.operation = "delete") \in BOOLEAN
    OBVIOUS
  <2>2. /\ DOMAIN changelog' = Scopes
        /\ \A x \in Scopes : /\ changelog'[x] \in Seq(Changes)
                            /\ Len(changelog[x]) <= Len(changelog'[x])
    BY <1>1, <1>2, <1>5, <2>1, CommitChangeType
  <2>3. /\ DOMAIN ledger' = DOMAIN ledger \union {intent}
        /\ \A x \in DOMAIN ledger' : ledger'[x] \in Verdicts
    BY <1>5 DEF Put, Verdicts, TypeOK, ServerTypeOK
  <2> QED BY <1>2, <1>5, <2>2, <2>3 DEF Results, Verdicts, TypeOK, ServerTypeOK
<1>6. CASE /\ result \in Refusals
           /\ UNCHANGED changelog
           /\ ledger' = Put(ledger, intent, result)
  <2>1. result \in Verdicts
    BY <1>6, ConstantsAssumption DEF Verdicts
  <2>2. /\ DOMAIN ledger' = DOMAIN ledger \union {intent}
        /\ \A x \in DOMAIN ledger' : ledger'[x] \in Verdicts
    BY <1>6, <2>1 DEF Put, TypeOK, ServerTypeOK
  <2> QED BY <1>2, <1>3, <1>6, <2>1, <2>2 DEF Results, TypeOK, ServerTypeOK
<1> QED BY <1>4, <1>5, <1>6 DEF Process

LEMMA ServerProcessType ==
  ASSUME TypeOK, NEW w \in Pushers, ServerProcess(w)
  PROVE  TypeOK'
<1> DEFINE i == Min(Unprocessed(pushes[w]))
<1>1. /\ pushes[w] # Null /\ Unprocessed(pushes[w]) # {}
      /\ UNCHANGED <<deviceVars, pull, authorized, late>>
  BY DEF ServerProcess
<1>2. PICK result \in Results :
        /\ Process(i, result)
        /\ pushes' = [pushes EXCEPT ![w].results = Put(@, i, result)]
  BY DEF ServerProcess
<1>3. DOMAIN outbox \subseteq Nat /\ UNCHANGED outbox
  BY <1>1, LenProperties DEF TypeOK, OutboxTypeOK, deviceVars
<1>4. /\ i \in pushes[w].claimed
      /\ i \in DOMAIN outbox
  <2>1. Unprocessed(pushes[w]) \in SUBSET Nat
    BY <1>1, <1>3 DEF TypeOK, PushesTypeOK, Unprocessed
  <2>2. i \in Unprocessed(pushes[w])
    BY <1>1, <2>1, MinIsElement
  <2> QED BY <1>1, <2>2 DEF TypeOK, PushesTypeOK, Unprocessed
<1> HIDE DEF i
<1>5. PushesTypeOK'
  <2> DEFINE results == Put(pushes[w].results, i, result)
             claimed == pushes[w].claimed
  <2>1. results \in UNION {[S -> Results] : S \in SUBSET claimed}
    <3>1. PICK S \in SUBSET claimed : pushes[w].results \in [S -> Results]
      BY <1>1 DEF TypeOK, PushesTypeOK, PushCalls
    <3>2. results \in [S \union {i} -> Results]
      BY <3>1 DEF Put
    <3>3. S \union {i} \in SUBSET claimed
      BY <1>4
    <3> QED BY <3>2, <3>3
  <2>2. pushes' = [pushes EXCEPT ![w] = [pushes[w] EXCEPT !.results = results]]
    BY <1>2
  <2> HIDE DEF results
  <2>3. [pushes[w] EXCEPT !.results = results] \in PushCalls(claimed)
    BY <1>1, <2>1 DEF TypeOK, PushesTypeOK, PushCalls
  <2>4. [pushes[w] EXCEPT !.results = results].claimed = claimed
    BY <2>3 DEF PushCalls
  <2> HIDE DEF claimed
  <2> QED BY <1>1, <1>3, <2>2, <2>3, <2>4 DEF TypeOK, PushesTypeOK, claimed
<1>6. ServerTypeOK' /\ PullTypeOK'
  <2>1. /\ DOMAIN changelog' = Scopes
        /\ \A x \in Scopes : /\ changelog'[x] \in Seq(Changes)
                            /\ Len(changelog[x]) <= Len(changelog'[x])
        /\ DOMAIN ledger' \subseteq Scopes \X Keys
        /\ \A intent \in DOMAIN ledger' : ledger'[intent] \in Verdicts
    BY <1>2, <1>4, ProcessType
  <2>2. ServerTypeOK'
    BY <1>1, <1>3, <2>1 DEF TypeOK, ServerTypeOK
  <2>3. PullTypeOK'
    BY <1>1, <2>1, PullTypeKept
  <2> QED BY <2>2, <2>3
<1> QED BY <1>1, <1>5, <1>6
        DEF TypeOK, deviceVars, OutboxTypeOK, ScopesTypeOK, ReplicaTypeOK

LEMMA ServerProcessLateType ==
  ASSUME TypeOK, NEW request \in late, ServerProcessLate(request)
  PROVE  TypeOK'
<1> DEFINE i == Min(request.todo)
           rest == request.todo \ {i}
<1>1. PICK result \in Results : Process(i, result)
  BY DEF ServerProcessLate
<1>2. /\ late' = (late \ {request}) \union
                   (IF rest = {} THEN {} ELSE {[request EXCEPT !.todo = rest]})
      /\ UNCHANGED <<deviceVars, pushes, pull, authorized>>
  BY DEF ServerProcessLate
<1>3. /\ request \in [scope: Scopes, todo: (SUBSET DOMAIN outbox) \ {{}}]
      /\ DOMAIN outbox \subseteq Nat /\ UNCHANGED outbox
  BY <1>2, LenProperties DEF TypeOK, OutboxTypeOK, ServerTypeOK, deviceVars
<1>4. i \in DOMAIN outbox
  <2>1. request.todo \in SUBSET Nat /\ request.todo # {}
    BY <1>3
  <2> QED BY <1>3, <2>1, MinIsElement
<1> HIDE DEF i
<1>5. /\ DOMAIN changelog' = Scopes
      /\ \A x \in Scopes : /\ changelog'[x] \in Seq(Changes)
                          /\ Len(changelog[x]) <= Len(changelog'[x])
      /\ DOMAIN ledger' \subseteq Scopes \X Keys
      /\ \A intent \in DOMAIN ledger' : ledger'[intent] \in Verdicts
  BY <1>1, <1>4, ProcessType
<1>6. ServerTypeOK'
  <2>1. rest # {} => [request EXCEPT !.todo = rest] \in
                       [scope: Scopes, todo: (SUBSET DOMAIN outbox) \ {{}}]
    BY <1>3
  <2>2. late' \subseteq [scope: Scopes, todo: (SUBSET DOMAIN outbox) \ {{}}]
    BY <1>2, <2>1 DEF TypeOK, ServerTypeOK
  <2> QED BY <1>2, <1>3, <1>5, <2>2 DEF TypeOK, ServerTypeOK
<1>7. PullTypeOK'
  BY <1>2, <1>5, PullTypeKept
<1> QED BY <1>2, <1>3, <1>6, <1>7, UntouchedTypes
        DEF TypeOK, deviceVars, OutboxTypeOK, ScopesTypeOK, ReplicaTypeOK

LEMMA ServerAnswersPullType ==
  ASSUME TypeOK, ServerAnswersPull
  PROVE  TypeOK'
<1> DEFINE s == pull.scope
           from == IF pull.cursor = Null THEN 0 ELSE pull.cursor
           to == Min({from + PageLimit, Len(changelog[s])})
           hasMore == to < Len(changelog[s])
           answered(answer) ==
             [phase |-> "answered", scope |-> s, pages |-> pull.pages,
              cursor |-> pull.cursor, answer |-> answer, to |-> to,
              hasMore |-> hasMore]
<1>1. /\ pull # Null /\ pull.phase = "sent"
      /\ UNCHANGED <<deviceVars, pushes, serverVars>>
      /\ \E answer \in {"page", "cursor_lost", "auth_revoked"} :
           pull' = answered(answer)
  BY DEF ServerAnswersPull
<1>2. /\ s \in Scopes /\ pull.pages \in Nat
      /\ pull.cursor \in Nat \union {Null} /\ from \in Nat
  BY <1>1 DEF TypeOK, PullTypeOK, PullCalls
<1>3. to \in Nat /\ to <= Len(changelog[s])
  <2>1. {from + PageLimit, Len(changelog[s])} \in SUBSET Nat
    BY <1>2, ConstantsAssumption, LenProperties DEF TypeOK, ServerTypeOK
  <2> HIDE DEF from
  <2> QED BY <2>1, MinIsElement
<1>4. hasMore \in BOOLEAN
  OBVIOUS
<1> HIDE DEF to, hasMore
<1>5. \A answer \in {"page", "cursor_lost", "auth_revoked"} :
        /\ answered(answer) \in PullCalls
        /\ answered(answer).to <= Len(changelog[answered(answer).scope])
  BY <1>2, <1>3, <1>4 DEF PullCalls
<1> HIDE DEF s, from
<1>6. PullTypeOK'
  BY <1>1, <1>5 DEF PullTypeOK, serverVars
<1> QED BY <1>1, <1>6, UntouchedTypes
        DEF TypeOK, deviceVars, OutboxTypeOK, ScopesTypeOK, ReplicaTypeOK

LEMMA ForeignCommitType ==
  ASSUME TypeOK, NEW s \in Scopes, NEW entity \in ForeignEntities,
         NEW tombstone \in BOOLEAN, ForeignCommit(s, entity, tombstone)
  PROVE  TypeOK'
<1>1. /\ CommitChange(s, entity, tombstone, 0)
      /\ UNCHANGED <<deviceVars, pushes, pull, ledger, authorized, late>>
  BY DEF ForeignCommit
<1>2. /\ DOMAIN changelog' = Scopes
      /\ \A x \in Scopes : /\ changelog'[x] \in Seq(Changes)
                          /\ Len(changelog[x]) <= Len(changelog'[x])
  BY <1>1, ConstantsAssumption, CommitChangeType
<1>3. PullTypeOK'
  BY <1>1, <1>2, PullTypeKept
<1>4. ServerTypeOK'
  BY <1>1, <1>2 DEF TypeOK, ServerTypeOK, deviceVars
<1> QED BY <1>1, <1>3, <1>4, UntouchedTypes
        DEF TypeOK, deviceVars, OutboxTypeOK, ScopesTypeOK, ReplicaTypeOK

LEMMA RevokeAuthorizationType ==
  ASSUME TypeOK, NEW s \in Scopes, RevokeAuthorization(s)
  PROVE  TypeOK'
<1>1. ServerTypeOK'
  BY DEF TypeOK, RevokeAuthorization, ServerTypeOK, deviceVars
<1> QED BY <1>1, UntouchedTypes
        DEF TypeOK, RevokeAuthorization, deviceVars,
            OutboxTypeOK, ScopesTypeOK, ReplicaTypeOK

LEMMA StutterType ==
  ASSUME TypeOK, UNCHANGED vars
  PROVE  TypeOK'
BY UntouchedTypes
   DEF TypeOK, vars, deviceVars, serverVars, OutboxTypeOK, ScopesTypeOK,
       ReplicaTypeOK

LEMMA InitType == Init => TypeOK
<1> SUFFICES ASSUME Init PROVE TypeOK
  OBVIOUS
<1> USE DEF Init
<1>1. OutboxTypeOK /\ ScopesTypeOK /\ ReplicaTypeOK
  BY EmptySeq DEF OutboxTypeOK, ScopesTypeOK, ReplicaTypeOK
<1>2. PushesTypeOK /\ PullTypeOK
  BY DEF PushesTypeOK, PullTypeOK
<1>3. ServerTypeOK
  BY EmptySeq DEF ServerTypeOK
<1> QED BY <1>1, <1>2, <1>3 DEF TypeOK

\* No step leaves the types: one case per action of Next.
LEMMA NextType ==
  ASSUME TypeOK, [Next]_vars
  PROVE  TypeOK'
<1>1. CASE Host
  BY <1>1, EnqueueType, ResolveBlockingEventType, ResetScopeForResyncType DEF Host
<1>2. CASE Push
  BY <1>2, ClaimBatchType, PushAnsweredType, PushFailedType, PushCommitFailsType
     DEF Push
<1>3. CASE Pull
  BY <1>3, ConstantsAssumption, PullReadType, PullPageType, PullCursorLostType,
     PullRevokedType, PullFailsType DEF Pull
<1>4. CASE Server
  BY <1>4, ServerProcessType, ServerProcessLateType, ServerAnswersPullType,
     ForeignCommitType, RevokeAuthorizationType DEF Server
<1>5. CASE Crash
  BY <1>5, CrashType
<1>6. CASE UNCHANGED vars
  BY <1>6, StutterType
<1> QED BY <1>1, <1>2, <1>3, <1>4, <1>5, <1>6 DEF Next

\* The state stays within its types: in particular calls in flight name events
\* of the outbox, and a page being served ends within the changelog.
THEOREM TypeCorrect == Spec => []TypeOK
<1>1. Init => TypeOK
  BY InitType
<1>2. TypeOK /\ [Next]_vars => TypeOK'
  BY NextType
<1> QED BY <1>1, <1>2, PTL DEF Spec

-----------------------------------------------------------------------------
(***************************************************************************)
(* How a step may change one entry of the outbox.                          *)
(***************************************************************************)
Identity(entry) ==
  <<entry.scope, entry.entity, entry.operation, entry.key, entry.localSequence>>

\* What holds of each entry on its own: its part of RetryBudget and Hydratable.
Lawful(entry) ==
  /\ entry.retryCount <= MaxRetries
  /\ entry.retryCount = MaxRetries =>
       entry.localState \in {"retry_wait", "manual_review"}
  /\ entry.localState = "sending" => entry.attemptId # Null

EntryStep(old, new) ==
  /\ Identity(new) = Identity(old)
  /\ \/ new.localState = old.localState
     \/ new.localState \in OutboxTransitions[old.localState]
  /\ IsTerminalState(old.localState) => new = old
  /\ Lawful(old) => Lawful(new)

LEMMA Transitions ==
  /\ OutboxTransitions["pending"] = {"sending", "manual_review"}
  /\ OutboxTransitions["sending"] =
       {"accepted", "duplicate", "rejected", "conflict", "manual_review",
        "retry_wait", "pending"}
  /\ OutboxTransitions["retry_wait"] = {"sending", "manual_review"}
BY DEF OutboxTransitions

\* A claim of a swept entry, whose state allows it.
LEMMA ClaimStep ==
  ASSUME NEW entry \in Entries, NEW lapsed, NEW w \in Pushers,
         Swept(entry, lapsed).localState \in {"pending", "retry_wait"}
  PROVE  EntryStep(entry, Claim(Swept(entry, lapsed), w))
<1> DEFINE swept == Swept(entry, lapsed)
           new == Claim(swept, w)
<1>1. \/ swept = LeaseExpired(entry) /\ entry.localState = "sending"
      \/ swept = entry /\ entry.localState = "pending"
      \/ swept = entry /\ entry.localState = "retry_wait"
                      /\ ~(entry.retryCount >= MaxRetries)
  BY DEF Swept, Invalidate, Entries
<1>2. swept \in Entries
  BY <1>1, EntryTypes
<1>3. /\ Identity(swept) = Identity(entry)
      /\ swept.retryCount = entry.retryCount
  BY <1>1 DEF LeaseExpired, Identity, Entries
<1>4. /\ Identity(new) = Identity(swept)
      /\ new.retryCount = swept.retryCount
      /\ new.localState = "sending"
      /\ new.attemptId = w
  BY <1>2 DEF Claim, Identity, Entries
<1> HIDE DEF new, swept
<1>5. Lawful(entry) => Lawful(new)
  BY <1>1, <1>3, <1>4, ConstantsAssumption DEF Lawful, Entries
<1>6. new.localState = entry.localState \/ new.localState \in OutboxTransitions[entry.localState]
  BY <1>1, <1>4, Transitions
<1>7. ~IsTerminalState(entry.localState)
  BY <1>1 DEF IsTerminalState
<1> QED BY <1>3, <1>4, <1>5, <1>6, <1>7 DEF EntryStep, new, swept

\* A swept entry, its blocker noted when it is pending.
LEMMA SweptStep ==
  ASSUME NEW entry \in Entries, NEW lapsed
  PROVE  /\ EntryStep(entry, Swept(entry, lapsed))
         /\ \A b : Swept(entry, lapsed).localState = "pending" =>
                    EntryStep(entry, Block(Swept(entry, lapsed), b))
<1> DEFINE swept == Swept(entry, lapsed)
<1>1. \/ swept = LeaseExpired(entry) /\ entry.localState = "sending"
      \/ swept = Invalidate(entry) /\ entry.localState = "retry_wait"
      \/ swept = entry
  BY DEF Swept
<1>2. swept \in Entries
  BY <1>1, EntryTypes
<1>3. /\ Identity(swept) = Identity(entry)
      /\ swept.retryCount = entry.retryCount
      /\ \/ swept = entry
         \/ swept.localState = "pending" /\ entry.localState = "sending"
         \/ swept.localState = "manual_review" /\ entry.localState = "retry_wait"
  BY <1>1 DEF LeaseExpired, Invalidate, Identity, Entries
<1> HIDE DEF swept
<1>4. EntryStep(entry, swept)
  BY <1>3, Transitions DEF EntryStep, Lawful, IsTerminalState
<1>5. ASSUME NEW b, swept.localState = "pending"
      PROVE  EntryStep(entry, Block(swept, b))
  <2>1. /\ Identity(Block(swept, b)) = Identity(swept)
        /\ Block(swept, b).retryCount = swept.retryCount
        /\ Block(swept, b).localState = "pending"
    BY <1>2, <1>5 DEF Block, Identity, Entries
  <2>2. ~IsTerminalState(entry.localState)
    BY <1>3, <1>5 DEF IsTerminalState
  <2> QED BY <1>3, <1>5, <2>1, <2>2, Transitions DEF EntryStep, Lawful
<1> QED BY <1>4, <1>5 DEF swept

\* revokeScope sends a waiting entry to review.
LEMMA InvalidateStep ==
  ASSUME NEW entry \in Entries, entry.localState \in {"pending", "retry_wait"}
  PROVE  EntryStep(entry, Invalidate(entry))
<1>1. /\ Identity(Invalidate(entry)) = Identity(entry)
      /\ Invalidate(entry).retryCount = entry.retryCount
      /\ Invalidate(entry).localState = "manual_review"
  BY DEF Invalidate, Identity, Entries
<1> QED BY <1>1, Transitions DEF EntryStep, Lawful, IsTerminalState

\* A person's resolution of a blocking entry changes its resolvedBy only.
LEMMA ResolveStep ==
  ASSUME NEW entry \in Entries, NEW r, IsBlockingState(entry.localState)
  PROVE  EntryStep(entry, Resolve(entry, r))
<1>1. /\ Identity(Resolve(entry, r)) = Identity(entry)
      /\ Resolve(entry, r).retryCount = entry.retryCount
      /\ Resolve(entry, r).attemptId = entry.attemptId
      /\ Resolve(entry, r).localState = entry.localState
  BY DEF Resolve, Identity, Entries
<1> QED BY <1>1 DEF EntryStep, Lawful, IsTerminalState, IsBlockingState

\* The outcome of a push takes a sending entry to a result, a review, a retry
\* or back to pending; one that is then revoked while waiting is reviewed.
LEMMA OutcomeStep ==
  ASSUME NEW entry \in Entries, entry.localState = "sending",
         NEW learnt \in Results \union
               {"missing", "unavailable", "refused", "call_revoked"},
         NEW new \in {NextEntryState(entry, learnt),
                      Invalidate(NextEntryState(entry, learnt))},
         \/ new = NextEntryState(entry, learnt)
         \/ NextEntryState(entry, learnt).localState \in {"pending", "retry_wait"}
  PROVE  EntryStep(entry, new)
<1> DEFINE next == NextEntryState(entry, learnt)
<1>1. \/ next = Retry(entry)
      \/ next = LeaseExpired(entry)
      \/ \E status \in Results \ {"auth_revoked"} : next = Result(entry, status)
  BY DEF NextEntryState, Results, Verdicts
<1>2. next \in Entries
  BY NextEntryStateType
<1>3. /\ Identity(next) = Identity(entry)
      /\ \/ /\ next.localState = "retry_wait"
            /\ next.retryCount = entry.retryCount + 1
         \/ /\ next.localState \in OutboxTransitions["sending"]
            /\ next.retryCount = entry.retryCount
  <2>1. CASE next = Retry(entry)
    BY <2>1 DEF Retry, Identity, Entries
  <2>2. CASE next = LeaseExpired(entry)
    BY <2>2, Transitions DEF LeaseExpired, Identity, Entries
  <2>3. ASSUME NEW status \in Results \ {"auth_revoked"},
               next = Result(entry, status)
        PROVE  /\ Identity(next) = Identity(entry)
               /\ next.localState \in OutboxTransitions["sending"]
               /\ next.retryCount = entry.retryCount
    <3>1. /\ Identity(next) = Identity(entry)
          /\ next.localState = status
          /\ next.retryCount = entry.retryCount
      BY <2>3 DEF Result, Identity, Entries
    <3> QED BY <3>1, Transitions DEF Results, Verdicts
  <2> QED BY <1>1, <2>1, <2>2, <2>3
<1>4. /\ Identity(Invalidate(next)) = Identity(next)
      /\ Invalidate(next).localState = "manual_review"
      /\ Invalidate(next).retryCount = next.retryCount
  BY <1>2 DEF Invalidate, Identity, Entries
<1> HIDE DEF next
<1>5. /\ Identity(new) = Identity(entry)
      /\ new.localState \in OutboxTransitions["sending"]
  BY <1>3, <1>4, Transitions DEF next
<1>6. Lawful(entry) => Lawful(new)
  <2> SUFFICES ASSUME Lawful(entry) PROVE Lawful(new)
    OBVIOUS
  <2>1. entry.retryCount \in Nat /\ entry.retryCount < MaxRetries
    BY ConstantsAssumption DEF Lawful, Entries
  <2> QED BY <1>3, <1>4, <1>5, <2>1, ConstantsAssumption, Transitions
          DEF Lawful, next
<1> QED BY <1>5, <1>6 DEF EntryStep, IsTerminalState

-----------------------------------------------------------------------------
(***************************************************************************)
(* How a step may change the outbox: it may append one new entry, or       *)
(* change entries in place.                                                *)
(***************************************************************************)
NewEntry(entry) ==
  /\ entry.localSequence = lastLocalSequence + 1
  /\ lastLocalSequence' = lastLocalSequence + 1
  /\ entry.localState = "pending" /\ entry.retryCount = 0
  /\ ~KeyUsed(entry.scope, entry.key)
  /\ entry.scope \in DOMAIN scopes'

OutboxStep ==
  \/ \E entry \in Entries : outbox' = Append(outbox, entry) /\ NewEntry(entry)
  \/ /\ DOMAIN outbox' = DOMAIN outbox
     /\ UNCHANGED lastLocalSequence
     /\ \A i \in DOMAIN outbox : EntryStep(outbox[i], outbox'[i])

LEMMA EntryStutter == \A entry : EntryStep(entry, entry)
BY DEF EntryStep

LEMMA EnqueueStep ==
  ASSUME TypeOK, NEW s \in Scopes, NEW key \in Keys, NEW entity \in Entities,
         NEW operation \in Operations, Enqueue(s, key, entity, operation)
  PROVE  OutboxStep
<1> DEFINE entry == [scope |-> s, entity |-> entity, operation |-> operation,
                     key |-> key, localSequence |-> lastLocalSequence + 1,
                     localState |-> "pending", retryCount |-> 0,
                     attemptId |-> Null, blockedBy |-> Null,
                     resolvedBy |-> Null]
<1>1. /\ outbox' = Append(outbox, entry)
      /\ lastLocalSequence' = lastLocalSequence + 1
      /\ ~KeyUsed(s, key)
      /\ scopes' = Put(scopes, s, ScopeOrNew(s))
  BY DEF Enqueue
<1>2. entry \in Entries
  BY DEF Entries, TypeOK, OutboxTypeOK, OutboxStates, EventIds
<1> HIDE DEF entry
<1>3. NewEntry(entry)
  <2>1. DOMAIN scopes' = DOMAIN scopes \union {s}
    BY <1>1, PutProperties
  <2>2. /\ entry.localSequence = lastLocalSequence + 1
        /\ entry.localState = "pending" /\ entry.retryCount = 0
        /\ entry.key = key /\ entry.scope = s
    BY DEF entry
  <2> QED BY <1>1, <2>1, <2>2 DEF NewEntry
<1> QED BY <1>1, <1>2, <1>3 DEF OutboxStep

LEMMA ResolveBlockingEventStep ==
  ASSUME TypeOK, NEW i \in DOMAIN outbox, NEW j, ResolveBlockingEvent(i, j)
  PROVE  OutboxStep
<1>1. outbox[i] \in Entries
  BY LenProperties, ElementOfSeq DEF TypeOK, OutboxTypeOK
<1>2. /\ outbox' = [outbox EXCEPT ![i] = Resolve(outbox[i], j)]
      /\ UNCHANGED lastLocalSequence
      /\ IsBlockingState(outbox[i].localState)
  BY DEF ResolveBlockingEvent
<1> QED BY <1>1, <1>2, ResolveStep, EntryStutter DEF OutboxStep

LEMMA ClaimBatchStep ==
  ASSUME TypeOK, NEW w \in Pushers, NEW s \in Scopes, NEW lapsed, NEW due,
         ClaimBatch(w, s, lapsed, due)
  PROVE  OutboxStep
<1> DEFINE swept == SweptOutbox(s, lapsed)
           claimed == Batch(Eligible(swept, s, due))
           blocker(i) == IF Blockers(swept, i) = {} THEN Null
                         ELSE Min(Blockers(swept, i))
<1>1. /\ outbox' = [i \in DOMAIN outbox |->
             IF i \in claimed THEN Claim(swept[i], w)
             ELSE IF swept[i].scope = s /\ swept[i].localState = "pending"
                  THEN Block(swept[i], blocker(i))
                  ELSE swept[i]]
      /\ UNCHANGED lastLocalSequence
  BY DEF ClaimBatch
<1>2. ASSUME NEW i \in DOMAIN outbox PROVE EntryStep(outbox[i], outbox'[i])
  <2>1. outbox[i] \in Entries
    BY SweptType DEF TypeOK
  <2>2. CASE outbox[i].scope = s
    <3>1. swept[i] = Swept(outbox[i], lapsed)
      BY <2>2 DEF SweptOutbox
    <3>2. i \in claimed => swept[i].localState \in {"pending", "retry_wait"}
      BY DEF Batch, Eligible
    <3> HIDE DEF swept, claimed, blocker
    <3>3. \/ i \in claimed /\ outbox'[i] = Claim(swept[i], w)
          \/ swept[i].localState = "pending" /\ outbox'[i] = Block(swept[i], blocker(i))
          \/ outbox'[i] = swept[i]
      BY <1>1
    <3> QED BY <2>1, <3>1, <3>2, <3>3, ClaimStep, SweptStep
  <2>3. CASE outbox[i].scope # s
    <3>1. swept[i] = outbox[i] /\ i \notin claimed
      BY <2>3 DEF SweptOutbox, Batch, Eligible
    <3> HIDE DEF swept, claimed
    <3> QED BY <1>1, <2>3, <3>1, EntryStutter
  <2> QED BY <2>2, <2>3
<1> QED BY <1>1, <1>2 DEF OutboxStep

\* revokeScope, of an outbox whose entries have already changed.
LEMMA RevokeEntriesStep ==
  ASSUME NEW entries \in Seq(Entries), NEW s, NEW i \in DOMAIN entries
  PROVE  \/ RevokeEntries(entries, s)[i] = entries[i]
         \/ /\ entries[i].localState \in {"pending", "retry_wait"}
            /\ RevokeEntries(entries, s)[i] = Invalidate(entries[i])
BY DEF RevokeEntries

LEMMA ApplyPushOutcomeStep ==
  ASSUME TypeOK, NEW w \in Pushers, pushes[w] # Null,
         NEW learnt,
         \A i \in pushes[w].claimed :
            learnt[i] \in Results \union
               {"missing", "unavailable", "refused", "call_revoked"},
         ApplyPushOutcome(w, learnt)
  PROVE  OutboxStep
<1> DEFINE s == pushes[w].scope
           told == [i \in DOMAIN outbox |->
                      IF i \in Current(w) THEN NextEntryState(outbox[i], learnt[i])
                      ELSE outbox[i]]
<1>1. /\ outbox' = RevokeEntries(told, s) \/ outbox' = told
      /\ UNCHANGED lastLocalSequence
  BY DEF ApplyPushOutcome
<1>2. \A i \in DOMAIN outbox : outbox[i] \in Entries
  BY LenProperties, ElementOfSeq DEF TypeOK, OutboxTypeOK
<1>3. told \in Seq(Entries) /\ DOMAIN told = DOMAIN outbox
  <2>1. ASSUME NEW i \in DOMAIN outbox PROVE told[i] \in Entries
    BY <1>2, NextEntryStateType DEF Current
  <2>2. told = [i \in DOMAIN outbox |-> told[i]]
    OBVIOUS
  <2> HIDE DEF told
  <2> QED BY <2>1, <2>2, MappedSeq DEF TypeOK, OutboxTypeOK
<1>4. ASSUME NEW i \in DOMAIN outbox PROVE EntryStep(outbox[i], outbox'[i])
  <2>1. \/ outbox'[i] = told[i]
        \/ /\ told[i].localState \in {"pending", "retry_wait"}
           /\ outbox'[i] = Invalidate(told[i])
    <3> HIDE DEF told, s
    <3> QED BY <1>1, <1>3, RevokeEntriesStep
  <2>2. CASE i \in Current(w)
    <3>1. told[i] = NextEntryState(outbox[i], learnt[i])
      BY <2>2
    <3>2. outbox[i].localState = "sending" /\ i \in pushes[w].claimed
      BY <2>2 DEF Current
    <3> HIDE DEF told
    <3> QED BY <1>2, <2>1, <3>1, <3>2, OutcomeStep
  <2>3. CASE i \notin Current(w)
    <3>1. told[i] = outbox[i]
      BY <2>3
    <3> HIDE DEF told
    <3> QED BY <1>2, <2>1, <3>1, EntryStutter, InvalidateStep
  <2> QED BY <2>2, <2>3
<1>5. DOMAIN outbox' = DOMAIN outbox
  <2> HIDE DEF told, s
  <2> QED BY <1>1, <1>3, RevokeEntriesType
<1> QED BY <1>1, <1>4, <1>5 DEF OutboxStep

\* Every step of the engine changes the outbox in one of the two ways.
LEMMA NextOutboxStep ==
  ASSUME TypeOK, [Next]_vars
  PROVE  OutboxStep
<1>1. CASE UNCHANGED <<outbox, lastLocalSequence>>
  BY <1>1, EntryStutter DEF OutboxStep
<1>2. ASSUME NEW w \in Pushers, PushAnswered(w) PROVE OutboxStep
  BY <1>2, PushAnsweredLearns, ApplyPushOutcomeStep DEF PushAnswered
<1>3. ASSUME NEW w \in Pushers,
             NEW failure \in {"unavailable", "refused", "call_revoked"},
             PushFailed(w, failure)
      PROVE  OutboxStep
  <2> DEFINE learnt == [i \in pushes[w].claimed |-> failure]
  <2>1. pushes[w] # Null /\ ApplyPushOutcome(w, learnt)
    BY <1>3 DEF PushFailed
  <2>2. \A i \in pushes[w].claimed :
          learnt[i] \in Results \union
            {"missing", "unavailable", "refused", "call_revoked"}
    OBVIOUS
  <2> HIDE DEF learnt
  <2> QED BY <2>1, <2>2, ApplyPushOutcomeStep
<1>4. CASE PullRevoked
  <2>1. /\ outbox' = RevokeEntries(outbox, pull.scope)
        /\ UNCHANGED lastLocalSequence
    BY <1>4 DEF PullRevoked
  <2>2. outbox \in Seq(Entries)
    BY DEF TypeOK, OutboxTypeOK
  <2>3. ASSUME NEW i \in DOMAIN outbox PROVE EntryStep(outbox[i], outbox'[i])
    <3>1. outbox[i] \in Entries
      BY <2>2, LenProperties, ElementOfSeq
    <3> QED BY <2>1, <2>2, <3>1, RevokeEntriesStep, InvalidateStep, EntryStutter
  <2>4. DOMAIN outbox' = DOMAIN outbox
    BY <2>1, <2>2, RevokeEntriesType
  <2> QED BY <2>1, <2>3, <2>4 DEF OutboxStep
<1>5. CASE Host
  BY <1>1, <1>5, EnqueueStep, ResolveBlockingEventStep
     DEF Host, ResetScopeForResync
<1>6. CASE Push
  BY <1>1, <1>2, <1>3, <1>6, ClaimBatchStep DEF Push, PushCommitFails, deviceVars
<1>7. CASE Pull
  BY <1>1, <1>4, <1>7
     DEF Pull, PullRead, PullPage, PullCursorLost, PullFails, deviceVars
<1>8. CASE Server
  BY <1>1, <1>8
     DEF Server, ServerProcess, ServerProcessLate, ServerAnswersPull,
         ForeignCommit, RevokeAuthorization, deviceVars
<1>9. CASE Crash
  BY <1>1, <1>9 DEF Crash, deviceVars
<1>10. CASE UNCHANGED vars
  BY <1>1, <1>10 DEF vars, deviceVars
<1> QED BY <1>5, <1>6, <1>7, <1>8, <1>9, <1>10 DEF Next

\* What is in the outbox after a step: the old entries, stepped, and maybe one
\* new entry.
LEMMA OutboxStepEntries ==
  ASSUME TypeOK, TypeOK', OutboxStep
  PROVE  /\ Len(outbox') >= Len(outbox)
         /\ lastLocalSequence' >= lastLocalSequence
         /\ \A i \in DOMAIN outbox : /\ i \in DOMAIN outbox'
                                     /\ EntryStep(outbox[i], outbox'[i])
         /\ \A i \in DOMAIN outbox' \ DOMAIN outbox :
              /\ NewEntry(outbox'[i])
              /\ \A j \in DOMAIN outbox' : j # i => j < i /\ j \in DOMAIN outbox
<1>1. /\ outbox \in Seq(Entries) /\ outbox' \in Seq(Entries)
      /\ lastLocalSequence \in Nat
  BY DEF TypeOK, OutboxTypeOK
<1>2. ASSUME NEW entry \in Entries, outbox' = Append(outbox, entry), NewEntry(entry)
      PROVE  /\ Len(outbox') = Len(outbox) + 1
             /\ lastLocalSequence' >= lastLocalSequence
             /\ \A i \in DOMAIN outbox : outbox'[i] = outbox[i]
             /\ outbox'[Len(outbox) + 1] = entry
             /\ DOMAIN outbox = 1..Len(outbox)
             /\ DOMAIN outbox' = 1..(Len(outbox) + 1)
  BY <1>1, <1>2, AppendProperties, LenProperties DEF NewEntry
<1>3. CASE \E entry \in Entries : outbox' = Append(outbox, entry) /\ NewEntry(entry)
  <2> PICK entry \in Entries : outbox' = Append(outbox, entry) /\ NewEntry(entry)
    BY <1>3
  <2>1. Len(outbox) \in Nat
    BY <1>1, LenProperties
  <2> QED BY <1>2, <2>1, EntryStutter
<1>4. CASE /\ DOMAIN outbox' = DOMAIN outbox
           /\ UNCHANGED lastLocalSequence
           /\ \A i \in DOMAIN outbox : EntryStep(outbox[i], outbox'[i])
  BY <1>1, <1>4, LenProperties
<1> QED BY <1>3, <1>4 DEF OutboxStep

\* An entry keeps its place, its intent and the order of its states.
THEOREM HistoryKept == Spec => OutboxHistory
<1>1. TypeOK /\ TypeOK' /\ [Next]_vars =>
        [/\ Len(outbox') >= Len(outbox)
         /\ \A i \in DOMAIN outbox :
              LET old == outbox[i]  new == outbox'[i] IN
              /\ new.localState = old.localState
                   \/ new.localState \in OutboxTransitions[old.localState]
              /\ IsTerminalState(old.localState) => new = old
              /\ <<new.scope, new.entity, new.operation, new.key,
                   new.localSequence>> =
                 <<old.scope, old.entity, old.operation, old.key,
                   old.localSequence>>]_outbox
  <2> SUFFICES ASSUME TypeOK, TypeOK', [Next]_vars
               PROVE  /\ Len(outbox') >= Len(outbox)
                      /\ \A i \in DOMAIN outbox : EntryStep(outbox[i], outbox'[i])
    BY DEF EntryStep, Identity
  <2> QED BY NextOutboxStep, OutboxStepEntries
<1> QED BY <1>1, TypeCorrect, PTL DEF Spec, OutboxHistory

-----------------------------------------------------------------------------
(***************************************************************************)
(* The durable state: Hydratable and RetryBudget, which together are       *)
(* inductive (an entry being sent has its attempt, and one to be retried   *)
(* has a retry left).                                                      *)
(***************************************************************************)

ScopesGrow ==
  /\ DOMAIN scopes \subseteq DOMAIN scopes'
  /\ \A k \in DOMAIN replica' : k[1] \in DOMAIN scopes'

LEMMA PutGrows ==
  ASSUME NEW s, NEW value, scopes' = Put(scopes, s, value)
  PROVE  DOMAIN scopes' = DOMAIN scopes \union {s}
BY PutProperties

\* A step forgets no scope, and the replica knows only entities of known ones.
LEMMA ScopesStep ==
  ASSUME TypeOK, Hydratable, [Next]_vars
  PROVE  ScopesGrow
<1>1. \A k \in DOMAIN replica : k[1] \in DOMAIN scopes
  BY DEF Hydratable
<1>2. CASE UNCHANGED scopes /\ UNCHANGED replica
  BY <1>1, <1>2 DEF ScopesGrow
<1>3. ASSUME NEW s, NEW value, scopes' = Put(scopes, s, value), UNCHANGED replica
      PROVE  ScopesGrow
  <2>1. DOMAIN scopes' = DOMAIN scopes \union {s}
    BY <1>3, PutGrows
  <2> QED BY <1>1, <1>3, <2>1 DEF ScopesGrow
<1>4. ASSUME NEW s, NEW key, NEW entity, NEW operation,
             Enqueue(s, key, entity, operation)
      PROVE  ScopesGrow
  <2> DEFINE write == OptimisticWrite(<<s, entity>>, Len(outbox) + 1, operation)
  <2>1. /\ scopes' = Put(scopes, s, ScopeOrNew(s))
        /\ replica' = Put(replica, <<s, entity>>, write)
    BY <1>4 DEF Enqueue
  <2> HIDE DEF write
  <2>2. /\ DOMAIN scopes' = DOMAIN scopes \union {s}
        /\ DOMAIN replica' = DOMAIN replica \union {<<s, entity>>}
    BY <2>1, PutGrows, PutProperties
  <2> QED BY <1>1, <2>2 DEF ScopesGrow
<1>5. ASSUME NEW w, NEW learnt, ApplyPushOutcome(w, learnt) PROVE ScopesGrow
  <2>1. DOMAIN replica' \subseteq DOMAIN replica
    <3>1. \A s, rejected : DOMAIN RevertRejected(s, rejected) \subseteq DOMAIN replica
      BY DEF RevertRejected
    <3>2. \E s, rejected : replica' = RevertRejected(s, rejected)
      BY <1>5 DEF ApplyPushOutcome
    <3> QED BY <3>1, <3>2
  <2>2. CASE scopes' = scopes
    BY <1>1, <2>1, <2>2 DEF ScopesGrow
  <2>3. CASE scopes' = ReplaceStatus(pushes[w].scope, "revoked")
    <3>1. DOMAIN scopes' = DOMAIN scopes \union {pushes[w].scope}
      BY <2>3, PutGrows DEF ReplaceStatus
    <3> QED BY <1>1, <2>1, <3>1 DEF ScopesGrow
  <2> QED BY <1>5, <2>2, <2>3 DEF ApplyPushOutcome
<1>6. ASSUME PullPage PROVE ScopesGrow
  <2> DEFINE touched == {k \in {pull.scope} \X Entities : Winning(k) # {}}
             applied == /\ DOMAIN replica' = DOMAIN replica \union touched
                        /\ scopes' = Put(scopes, pull.scope, Advanced(pull.scope))
  <2>1. (UNCHANGED scopes /\ UNCHANGED replica) \/ applied
    BY <1>6 DEF PullPage
  <2>2. \A k \in touched : k[1] = pull.scope
    OBVIOUS
  <2> HIDE DEF touched
  <2>3. CASE applied
    <3>1. DOMAIN scopes' = DOMAIN scopes \union {pull.scope}
      BY <2>3, PutGrows
    <3> QED BY <1>1, <2>2, <2>3, <3>1 DEF ScopesGrow
  <2> QED BY <1>2, <2>1, <2>3
<1>7. CASE Host
  BY <1>2, <1>3, <1>4, <1>7 DEF Host, ResolveBlockingEvent, ResetScopeForResync
<1>8. CASE Push
  <2>1. ASSUME NEW w \in Pushers, PushAnswered(w) PROVE ScopesGrow
    BY <1>5, <2>1, PushAnsweredLearns
  <2>2. ASSUME NEW w, NEW failure, PushFailed(w, failure) PROVE ScopesGrow
    <3> DEFINE learnt == [i \in pushes[w].claimed |-> failure]
    <3>1. ApplyPushOutcome(w, learnt)
      BY <2>2 DEF PushFailed
    <3> HIDE DEF learnt
    <3> QED BY <1>5, <3>1
  <2>3. ASSUME NEW w, NEW s, NEW lapsed, NEW due, ClaimBatch(w, s, lapsed, due)
        PROVE  ScopesGrow
    BY <1>2, <2>3 DEF ClaimBatch
  <2>4. ASSUME NEW w, PushCommitFails(w) PROVE ScopesGrow
    BY <1>2, <2>4 DEF PushCommitFails, deviceVars
  <2> QED BY <1>8, <2>1, <2>2, <2>3, <2>4 DEF Push
<1>9. CASE Pull
  BY <1>2, <1>3, <1>6, <1>9
     DEF Pull, PullRead, PullCursorLost, PullRevoked, PullFails, ReplaceStatus,
         deviceVars
<1>10. CASE Server
  BY <1>2, <1>10
     DEF Server, ServerProcess, ServerProcessLate, ServerAnswersPull,
         ForeignCommit, RevokeAuthorization, deviceVars
<1>11. CASE Crash \/ UNCHANGED vars
  BY <1>2, <1>11 DEF Crash, vars, deviceVars
<1> QED BY <1>7, <1>8, <1>9, <1>10, <1>11 DEF Next

LEMMA DurableStep ==
  ASSUME TypeOK, TypeOK', Hydratable, RetryBudget, [Next]_vars
  PROVE  Hydratable' /\ RetryBudget'
<1>1. /\ Len(outbox') >= Len(outbox)
      /\ lastLocalSequence' >= lastLocalSequence
      /\ \A i \in DOMAIN outbox : /\ i \in DOMAIN outbox'
                                  /\ EntryStep(outbox[i], outbox'[i])
      /\ \A i \in DOMAIN outbox' \ DOMAIN outbox :
           /\ NewEntry(outbox'[i])
           /\ \A j \in DOMAIN outbox' : j # i => j < i /\ j \in DOMAIN outbox
  BY NextOutboxStep, OutboxStepEntries
<1>2. /\ DOMAIN scopes \subseteq DOMAIN scopes'
      /\ \A k \in DOMAIN replica' : k[1] \in DOMAIN scopes'
  BY ScopesStep DEF ScopesGrow
<1>3. /\ lastLocalSequence \in Nat /\ lastLocalSequence' \in Nat
      /\ \A i \in DOMAIN outbox : i \in Nat /\ outbox[i] \in Entries
      /\ \A i \in DOMAIN outbox' : i \in Nat /\ outbox'[i] \in Entries
  BY LenProperties, ElementOfSeq DEF TypeOK, OutboxTypeOK
<1>4. \A i \in DOMAIN outbox : Lawful(outbox[i])
  BY DEF Hydratable, RetryBudget, Lawful
<1>5. \A i \in DOMAIN outbox' : Lawful(outbox'[i])
  <2>1. ASSUME NEW i \in DOMAIN outbox' \ DOMAIN outbox PROVE Lawful(outbox'[i])
    BY <1>1, ConstantsAssumption DEF NewEntry, Lawful
  <2> QED BY <1>1, <1>4, <2>1 DEF EntryStep
<1>6. \A i \in DOMAIN outbox : Identity(outbox'[i]) = Identity(outbox[i])
  BY <1>1 DEF EntryStep
<1>7. ASSUME NEW i \in DOMAIN outbox'
      PROVE  /\ outbox'[i].localSequence <= lastLocalSequence'
             /\ outbox'[i].scope \in DOMAIN scopes'
  <2>1. CASE i \in DOMAIN outbox
    <3>1. /\ outbox[i].localSequence <= lastLocalSequence
          /\ outbox[i].scope \in DOMAIN scopes
      BY <2>1 DEF Hydratable
    <3>2. /\ outbox'[i].localSequence = outbox[i].localSequence
          /\ outbox'[i].scope = outbox[i].scope
      BY <1>6, <2>1 DEF Identity
    <3>3. outbox[i].localSequence \in Nat
      BY <1>3, <2>1 DEF Entries, EventIds
    <3> QED BY <1>1, <1>2, <1>3, <3>1, <3>2, <3>3
  <2>2. CASE i \notin DOMAIN outbox
    <3>1. NewEntry(outbox'[i])
      BY <1>1, <2>2
    <3> QED BY <1>3, <3>1 DEF NewEntry
  <2> QED BY <2>1, <2>2
<1>8. ASSUME NEW i \in DOMAIN outbox', NEW j \in DOMAIN outbox', i < j
      PROVE  /\ outbox'[i].localSequence < outbox'[j].localSequence
             /\ outbox'[i].scope = outbox'[j].scope => outbox'[i].key # outbox'[j].key
  <2>1. i \in DOMAIN outbox
    BY <1>1, <1>3, <1>8
  <2>2. Identity(outbox'[i]) = Identity(outbox[i])
    BY <1>6, <2>1
  <2>3. CASE j \in DOMAIN outbox
    <3>1. Identity(outbox'[j]) = Identity(outbox[j])
      BY <1>6, <2>3
    <3> QED BY <1>8, <2>1, <2>2, <2>3, <3>1 DEF Hydratable, Identity
  <2>4. CASE j \notin DOMAIN outbox
    <3>1. NewEntry(outbox'[j])
      BY <1>1, <2>4
    <3>2. outbox[i].localSequence <= lastLocalSequence
      BY <2>1 DEF Hydratable
    <3>3. outbox[i].localSequence \in Nat
      BY <1>3, <2>1 DEF Entries, EventIds
    <3>4. outbox'[i].localSequence < outbox'[j].localSequence
      BY <1>3, <2>2, <3>1, <3>2, <3>3 DEF NewEntry, Identity
    <3> QED BY <2>1, <2>2, <3>1, <3>4 DEF NewEntry, Identity, KeyUsed
  <2> QED BY <2>3, <2>4
<1> QED BY <1>2, <1>5, <1>7, <1>8 DEF Hydratable, RetryBudget, Lawful

LEMMA DurableInit == Init => Hydratable /\ RetryBudget
BY DEF Init, Hydratable, RetryBudget

LEMMA DurableKept == Spec => [](Hydratable /\ RetryBudget)
<1>1. Init => Hydratable /\ RetryBudget
  BY DurableInit
<1>2. TypeOK /\ TypeOK' /\ (Hydratable /\ RetryBudget) /\ [Next]_vars
        => (Hydratable /\ RetryBudget)'
  BY DurableStep
<1> QED BY <1>1, <1>2, TypeCorrect, PTL DEF Spec

\* What is persisted can always be loaded again: parseDurableState accepts it.
THEOREM HydratableKept == Spec => []Hydratable
BY DurableKept, PTL

\* No entry is retried more than MaxRetries times, and one that used up its
\* retries leaves retry_wait for review only.
THEOREM RetryBudgetKept == Spec => []RetryBudget
BY DurableKept, PTL

-----------------------------------------------------------------------------
(***************************************************************************)
(* The order of delivery within an entity.                                 *)
(***************************************************************************)

\* What lies before an eligible event of its entity is eligible too when it is
\* to be delivered: nothing else holds it back that would not hold the event.
LEMMA EarlierEligible ==
  ASSUME TypeOK, NEW s \in Scopes, NEW swept, NEW due,
         DOMAIN swept = DOMAIN outbox,
         \A x \in DOMAIN outbox : swept[x].scope = outbox[x].scope,
         NEW i \in Eligible(swept, s, due), NEW j \in 1..(i - 1), SameEntity(i, j),
         swept[j].localState \in {"pending", "retry_wait"}
  PROVE  j \in Eligible(swept, s, due)
<1>1. /\ DOMAIN outbox = 1..Len(outbox) /\ Len(outbox) \in Nat
      /\ i \in DOMAIN swept /\ swept[i].scope = s
      /\ Blockers(swept, i) = {} /\ ~Held(swept, due, i)
  BY LenProperties DEF TypeOK, OutboxTypeOK, Eligible
<1>2. i \in Nat /\ j \in Nat /\ j < i /\ j \in DOMAIN swept
  BY <1>1
<1>3. swept[j].scope = s
  BY <1>1, <1>2 DEF SameEntity
<1>4. swept[j].localState = "retry_wait" => j \in due
  BY <1>1 DEF Held
<1>5. \A x \in 1..(j - 1) : SameEntity(j, x) => x \in 1..(i - 1) /\ SameEntity(i, x)
  BY <1>2 DEF SameEntity
<1>6. Blockers(swept, j) = {}
  <2>1. Blockers(swept, j) \subseteq Blockers(swept, i)
    BY <1>5 DEF Blockers
  <2> QED BY <1>1, <2>1
<1>7. ~Held(swept, due, j)
  BY <1>1, <1>5 DEF Held
<1> QED BY <1>2, <1>3, <1>4, <1>6, <1>7 DEF Eligible

\* A batch takes the oldest eligible events: none it leaves out is before one
\* it takes.
LEMMA BatchTakesOldest ==
  ASSUME NEW n \in Nat, NEW eligible \in SUBSET (1..n),
         NEW i \in Batch(eligible), NEW j \in eligible, j < i
  PROVE  j \in Batch(eligible)
<1> DEFINE before(x) == {y \in eligible : y < x}
<1>1. IsFiniteSet(before(i))
  <2>1. IsFiniteSet(1..n)
    BY FS_Interval
  <2>2. before(i) \subseteq 1..n
    OBVIOUS
  <2> QED BY <2>1, <2>2, FS_Subset
<1>2. before(j) \subseteq before(i)
  <2>1. i \in Nat /\ j \in Nat /\ \A y \in eligible : y \in Nat
    BY DEF Batch
  <2>2. \A y \in eligible : y < j => y < i
    BY <2>1
  <2> QED BY <2>2
<1>3. /\ Cardinality(before(j)) <= Cardinality(before(i))
      /\ Cardinality(before(i)) \in Nat /\ Cardinality(before(j)) \in Nat
  BY <1>1, <1>2, FS_Subset, FS_CardinalityType
<1>4. Cardinality(before(i)) < MaxBatch
  BY DEF Batch
<1> HIDE DEF before
<1>5. Cardinality(before(j)) < MaxBatch
  BY <1>3, <1>4, ConstantsAssumption
<1> QED BY <1>5 DEF Batch, before

\* What `NothingOvertakes` says of the earlier event j of an event i.
MayFollow(i, j) ==
  \/ IsTerminalState(outbox'[j].localState)
  \/ IsBlockingState(outbox'[j].localState) /\ outbox'[j].resolvedBy # Null
  \/ /\ outbox'[j].localState = "sending"
     /\ outbox'[j].attemptId = outbox'[i].attemptId

\* An earlier event of the entity of one that is claimed is claimed with it,
\* or no longer stands in its way.
LEMMA ClaimedFollow ==
  ASSUME TypeOK, NEW w \in Pushers, NEW s \in Scopes, NEW lapsed, NEW due,
         ClaimBatch(w, s, lapsed, due),
         NEW i \in Batch(Eligible(SweptOutbox(s, lapsed), s, due)),
         NEW j \in 1..(i - 1), SameEntity(i, j)
  PROVE  /\ outbox'[i].attemptId = w
         /\ \/ /\ j \in Batch(Eligible(SweptOutbox(s, lapsed), s, due))
               /\ MayFollow(i, j)
            \/ IsTerminalState(outbox'[j].localState)
            \/ /\ IsBlockingState(outbox'[j].localState)
               /\ outbox'[j].resolvedBy # Null
<1> DEFINE swept == SweptOutbox(s, lapsed)
           eligible == Eligible(swept, s, due)
           claimed == Batch(eligible)
           blocker(x) == IF Blockers(swept, x) = {} THEN Null
                         ELSE Min(Blockers(swept, x))
<1>1. \A x \in DOMAIN outbox :
        outbox'[x] = IF x \in claimed THEN Claim(swept[x], w)
                     ELSE IF swept[x].scope = s /\ swept[x].localState = "pending"
                          THEN Block(swept[x], blocker(x))
                          ELSE swept[x]
  BY DEF ClaimBatch
<1>2. /\ DOMAIN outbox = 1..Len(outbox) /\ Len(outbox) \in Nat
      /\ \A x \in DOMAIN outbox : outbox[x] \in Entries
  BY LenProperties, ElementOfSeq DEF TypeOK, OutboxTypeOK
<1>3. DOMAIN swept = DOMAIN outbox
  BY DEF SweptOutbox
<1>4. i \in claimed /\ i \in DOMAIN outbox
  BY <1>3 DEF Batch, Eligible
<1>5. j \in DOMAIN outbox /\ i \in Nat /\ j \in Nat /\ j < i
  BY <1>2, <1>4
<1>6. ASSUME NEW x \in DOMAIN outbox
      PROVE  /\ swept[x] \in Entries
             /\ swept[x].scope = outbox[x].scope
  <2>1. \/ swept[x] = LeaseExpired(outbox[x])
        \/ swept[x] = Invalidate(outbox[x])
        \/ swept[x] = outbox[x]
    BY DEF SweptOutbox, Swept
  <2>2. outbox[x] \in Entries
    BY <1>2
  <2> HIDE DEF swept
  <2> QED BY <2>1, <2>2, EntryTypes DEF LeaseExpired, Invalidate, Entries
<1> HIDE DEF swept
<1>7. /\ i \in eligible /\ Blockers(swept, i) = {} /\ ~Held(swept, due, i)
  BY <1>4 DEF Batch, Eligible
<1>8. outbox'[i].attemptId = w
  <2>1. swept[i] \in Entries
    BY <1>4, <1>6
  <2> HIDE DEF claimed, blocker
  <2> QED BY <1>1, <1>4, <2>1 DEF Claim, Entries
<1>9. swept[j] \in Entries
  BY <1>5, <1>6
<1>10. CASE swept[j].localState \in {"pending", "retry_wait"}
  <2>1. j \in eligible
    BY <1>3, <1>4, <1>6, <1>7, <1>10, EarlierEligible
  <2>2. eligible \in SUBSET (1..Len(outbox))
    BY <1>2, <1>3 DEF Eligible
  <2>3. j \in claimed
    <3> HIDE DEF eligible
    <3> QED BY <1>2, <1>4, <1>5, <2>1, <2>2, BatchTakesOldest
  <2>4. outbox'[j] = Claim(swept[j], w)
    <3> HIDE DEF claimed, blocker
    <3> QED BY <1>1, <1>5, <2>3
  <2>5. MayFollow(i, j)
    BY <1>8, <1>9, <2>4 DEF Claim, Entries, MayFollow
  <2> QED BY <1>8, <2>3, <2>5 DEF swept
<1>11. CASE swept[j].localState \notin {"pending", "retry_wait"}
  <2>1. j \notin claimed
    BY <1>11 DEF Batch, Eligible
  <2>2. outbox'[j] = swept[j]
    <3> HIDE DEF claimed, blocker
    <3> QED BY <1>1, <1>5, <1>11, <2>1
  <2>3. swept[j].localState # "sending"
    BY <1>7 DEF Held
  <2>4. IsBlockingState(swept[j].localState) => swept[j].resolvedBy # Null
    BY <1>7 DEF Blockers
  <2>5. IsTerminalState(swept[j].localState) \/ IsBlockingState(swept[j].localState)
    BY <1>9, <1>11, <2>3 DEF Entries, OutboxStates, IsTerminalState, IsBlockingState
  <2> QED BY <1>8, <2>2, <2>4, <2>5
<1> QED BY <1>10, <1>11

\* An entry that a claim leaves being sent, and changes, is one it claims.
LEMMA ClaimBatchOrder ==
  ASSUME TypeOK, NEW w \in Pushers, NEW s \in Scopes, NEW lapsed, NEW due,
         ClaimBatch(w, s, lapsed, due),
         NEW i \in DOMAIN outbox, outbox'[i].localState = "sending",
         outbox'[i] # outbox[i],
         NEW j \in 1..(i - 1), SameEntity(i, j)
  PROVE  MayFollow(i, j)
<1> DEFINE swept == SweptOutbox(s, lapsed)
           claimed == Batch(Eligible(swept, s, due))
           blocker == IF Blockers(swept, i) = {} THEN Null
                      ELSE Min(Blockers(swept, i))
<1>1. outbox'[i] = IF i \in claimed THEN Claim(swept[i], w)
                   ELSE IF swept[i].scope = s /\ swept[i].localState = "pending"
                        THEN Block(swept[i], blocker)
                        ELSE swept[i]
  BY DEF ClaimBatch
<1>2. outbox[i] \in Entries
  BY LenProperties, ElementOfSeq DEF TypeOK, OutboxTypeOK
<1>3. \/ swept[i] = LeaseExpired(outbox[i])
      \/ swept[i] = Invalidate(outbox[i])
      \/ swept[i] = outbox[i]
  BY DEF SweptOutbox, Swept
<1>4. i \in claimed
  <2> HIDE DEF swept, claimed, blocker
  <2>1. swept[i] \in Entries
    BY <1>2, <1>3, EntryTypes
  <2>2. Block(swept[i], blocker).localState = swept[i].localState
    BY <2>1 DEF Block, Entries
  <2>3. swept[i].localState = "sending" => swept[i] = outbox[i]
    BY <1>2, <1>3 DEF LeaseExpired, Invalidate, Entries
  <2> QED BY <1>1, <2>2, <2>3
<1> QED BY <1>4, ClaimedFollow DEF MayFollow

\* Only a claim makes an event start being sent.
LEMMA OnlyClaimsSend ==
  ASSUME TypeOK, [Next]_vars, NEW i \in DOMAIN outbox,
         outbox'[i].localState = "sending", outbox'[i] # outbox[i]
  PROVE  \E w \in Pushers, s \in Scopes : \E lapsed, due : ClaimBatch(w, s, lapsed, due)
<1> DEFINE Claimed == \E w \in Pushers, s \in Scopes : \E lapsed, due :
                         ClaimBatch(w, s, lapsed, due)
<1>1. outbox \in Seq(Entries) /\ outbox[i] \in Entries
  BY LenProperties, ElementOfSeq DEF TypeOK, OutboxTypeOK
<1>2. ~UNCHANGED outbox
  OBVIOUS
<1>3. ASSUME NEW s, NEW key, NEW entity, NEW operation,
             Enqueue(s, key, entity, operation)
      PROVE  FALSE
  <2> DEFINE entry == [scope |-> s, entity |-> entity, operation |-> operation,
                       key |-> key, localSequence |-> lastLocalSequence + 1,
                       localState |-> "pending", retryCount |-> 0,
                       attemptId |-> Null, blockedBy |-> Null,
                       resolvedBy |-> Null]
  <2>1. outbox' = Append(outbox, entry)
    BY <1>3 DEF Enqueue
  <2> HIDE DEF entry
  <2>2. outbox'[i] = outbox[i]
    BY <1>1, <2>1, LenProperties
  <2> QED BY <2>2
<1>4. ASSUME NEW x \in DOMAIN outbox, NEW y, ResolveBlockingEvent(x, y) PROVE FALSE
  <2>1. /\ outbox' = [outbox EXCEPT ![x] = Resolve(outbox[x], y)]
        /\ IsBlockingState(outbox[x].localState)
    BY <1>4 DEF ResolveBlockingEvent
  <2>2. x = i
    BY <2>1
  <2>3. outbox'[i] = Resolve(outbox[i], y)
    BY <2>1, <2>2
  <2>4. outbox'[i].localState = outbox[i].localState
    BY <1>1, <2>3 DEF Resolve, Entries
  <2> QED BY <2>1, <2>2, <2>4 DEF IsBlockingState
<1>5. ASSUME NEW s, outbox' = RevokeEntries(outbox, s) PROVE FALSE
  <2>1. outbox'[i] = Invalidate(outbox[i])
    BY <1>1, <1>5, RevokeEntriesStep
  <2> QED BY <1>1, <2>1 DEF Invalidate, Entries
<1>6. ASSUME NEW w \in Pushers, pushes[w] # Null, NEW learnt,
             \A x \in pushes[w].claimed :
                learnt[x] \in Results \union
                   {"missing", "unavailable", "refused", "call_revoked"},
             ApplyPushOutcome(w, learnt)
      PROVE  FALSE
  <2> DEFINE s == pushes[w].scope
             told == [x \in DOMAIN outbox |->
                        IF x \in Current(w) THEN NextEntryState(outbox[x], learnt[x])
                        ELSE outbox[x]]
  <2>1. outbox' = RevokeEntries(told, s) \/ outbox' = told
    BY <1>6 DEF ApplyPushOutcome
  <2>2. told[i].localState = "sending" => told[i] = outbox[i]
    <3>1. CASE i \in Current(w)
      <4>1. learnt[i] \in Results \union
                   {"missing", "unavailable", "refused", "call_revoked"}
        BY <1>6, <3>1 DEF Current
      <4> DEFINE next == NextEntryState(outbox[i], learnt[i])
      <4>2. \/ next = Retry(outbox[i])
            \/ next = LeaseExpired(outbox[i])
            \/ \E status \in Results \ {"auth_revoked"} :
                  next = Result(outbox[i], status)
        BY <4>1 DEF NextEntryState, Results, Verdicts
      <4> HIDE DEF next
      <4>3. next.localState # "sending"
        <5>1. CASE next = Retry(outbox[i])
          BY <1>1, <5>1 DEF Retry, Entries
        <5>2. CASE next = LeaseExpired(outbox[i])
          BY <1>1, <5>2 DEF LeaseExpired, Entries
        <5>3. ASSUME NEW status \in Results \ {"auth_revoked"},
                     next = Result(outbox[i], status)
              PROVE  next.localState # "sending"
          <6>1. next.localState = status
            BY <1>1, <5>3 DEF Result, Entries
          <6> QED BY <6>1 DEF Results, Verdicts
        <5> QED BY <4>2, <5>1, <5>2, <5>3
      <4>4. told[i] = next
        BY <3>1 DEF next
      <4> QED BY <4>3, <4>4
    <3>2. CASE i \notin Current(w)
      BY <3>2
    <3> QED BY <3>1, <3>2
  <2>3. \/ outbox'[i] = told[i]
        \/ outbox'[i] = Invalidate(told[i]) /\ told[i] \in Entries
    <3>1. told \in Seq(Entries) /\ DOMAIN told = DOMAIN outbox
      <4>1. ASSUME NEW x \in DOMAIN outbox PROVE told[x] \in Entries
        <5>1. outbox[x] \in Entries
          BY LenProperties, ElementOfSeq DEF TypeOK, OutboxTypeOK
        <5> QED BY <1>6, <5>1, NextEntryStateType DEF Current
      <4>2. told = [x \in DOMAIN outbox |-> told[x]]
        OBVIOUS
      <4> HIDE DEF told
      <4> QED BY <1>1, <4>1, <4>2, MappedSeq
    <3> HIDE DEF told, s
    <3>2. told[i] \in Entries
      BY <3>1, LenProperties, ElementOfSeq
    <3> QED BY <2>1, <3>1, <3>2, RevokeEntriesStep
  <2> HIDE DEF told, s
  <2>4. outbox'[i] # Invalidate(told[i]) \/ told[i] \notin Entries
    BY DEF Invalidate, Entries
  <2> QED BY <2>2, <2>3, <2>4
<1> HIDE DEF Claimed
<1>7. CASE Host
  BY <1>2, <1>3, <1>4, <1>7 DEF Host, ResetScopeForResync
<1>8. CASE Push
  <2>1. ASSUME NEW w \in Pushers, PushAnswered(w) PROVE FALSE
    BY <1>6, <2>1, PushAnsweredLearns DEF PushAnswered
  <2>2. ASSUME NEW w \in Pushers,
               NEW failure \in {"unavailable", "refused", "call_revoked"},
               PushFailed(w, failure)
        PROVE  FALSE
    <3> DEFINE learnt == [x \in pushes[w].claimed |-> failure]
    <3>1. pushes[w] # Null /\ ApplyPushOutcome(w, learnt)
      BY <2>2 DEF PushFailed
    <3>2. \A x \in pushes[w].claimed :
            learnt[x] \in Results \union
              {"missing", "unavailable", "refused", "call_revoked"}
      OBVIOUS
    <3> HIDE DEF learnt
    <3> QED BY <1>6, <3>1, <3>2
  <2>3. ASSUME NEW w \in Pushers, PushCommitFails(w) PROVE FALSE
    BY <1>2, <2>3 DEF PushCommitFails, deviceVars
  <2> QED BY <1>8, <2>1, <2>2, <2>3 DEF Push, Claimed
<1>9. CASE Pull
  BY <1>2, <1>5, <1>9
     DEF Pull, PullRead, PullPage, PullCursorLost, PullRevoked, PullFails,
         deviceVars
<1>10. CASE Server
  BY <1>2, <1>10
     DEF Server, ServerProcess, ServerProcessLate, ServerAnswersPull,
         ForeignCommit, RevokeAuthorization, deviceVars
<1>11. CASE Crash \/ UNCHANGED vars
  BY <1>2, <1>11 DEF Crash, vars, deviceVars
<1> QED BY <1>7, <1>8, <1>9, <1>10, <1>11 DEF Next, Claimed

\* No event starts being sent before an earlier one of its entity that is still
\* to be delivered, unless both are in the batch, or waits for a person.
THEOREM OrderKept == Spec => NothingOvertakes
<1>1. TypeOK /\ [Next]_vars =>
        [\A i \in DOMAIN outbox :
           outbox'[i].localState = "sending" /\ outbox'[i] # outbox[i] =>
             \A j \in 1..(i - 1) : SameEntity(i, j) =>
               LET earlier == outbox'[j] IN
               \/ IsTerminalState(earlier.localState)
               \/ IsBlockingState(earlier.localState) /\ earlier.resolvedBy # Null
               \/ earlier.localState = "sending"
                    /\ earlier.attemptId = outbox'[i].attemptId]_outbox
  <2> SUFFICES ASSUME TypeOK, [Next]_vars, NEW i \in DOMAIN outbox,
                      outbox'[i].localState = "sending", outbox'[i] # outbox[i],
                      NEW j \in 1..(i - 1), SameEntity(i, j)
               PROVE  MayFollow(i, j)
    BY DEF MayFollow
  <2> QED BY OnlyClaimsSend, ClaimBatchOrder
<1> QED BY <1>1, TypeCorrect, PTL DEF Spec, NothingOvertakes

=============================================================================
