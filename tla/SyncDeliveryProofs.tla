------------------------- MODULE SyncDeliveryProofs -------------------------
(***************************************************************************)
(* Proofs about what SyncEngine delivers: that the outcome of an event is  *)
(* the server's, that events of an entity take effect in order and once,   *)
(* that the engine keeps SyncPromise, and that the replica never loses or  *)
(* undoes what the server confirmed.  For every value of the constants.    *)
(***************************************************************************)
EXTENDS SyncProofs

-----------------------------------------------------------------------------
(***************************************************************************)
(* What each part of the state may do in a step.                           *)
(***************************************************************************)

LEMMA EventType ==
  ASSUME TypeOK, NEW i \in DOMAIN outbox
  PROVE  /\ i \in Nat /\ i # 0
         /\ outbox[i] \in Entries
         /\ outbox[i].scope \in Scopes /\ outbox[i].entity \in Entities
<1>1. outbox[i] \in Entries /\ i \in Nat /\ i # 0
  BY LenProperties, ElementOfSeq DEF TypeOK, OutboxTypeOK
<1> QED BY <1>1 DEF Entries

\* What names an event for the server.
Intent(i) == <<outbox[i].scope, outbox[i].key>>

Decided(i) == Intent(i) \in DOMAIN ledger

Learnings == Results \union {"missing", "unavailable", "refused", "call_revoked"}

\* Push w ends with an outcome, persisted: a result it learnt of an event is
\* the one the server gave this push.
OutcomeOf(w, learnt) ==
  /\ pushes[w] # Null
  /\ \A i \in pushes[w].claimed :
       /\ learnt[i] \in Learnings
       /\ learnt[i] \in Results => /\ i \in DOMAIN pushes[w].results
                                   /\ learnt[i] = pushes[w].results[i]
  /\ ApplyPushOutcome(w, learnt)

\* The events a request still has to be processed for, be it of a push in
\* flight or of one given up.
Requests ==
  {Unprocessed(pushes[w]) : w \in {v \in Pushers : pushes[v] # Null}}
    \union {request.todo : request \in late}

IsFirst(i, R) == i \in R /\ \A j \in R : i <= j

\* A step of the server changes the ledger and the changelog together.
TakesEffect(i) ==
  /\ outbox[i].scope \in authorized
  /\ ~Decided(i)
  /\ CommitChange(outbox[i].scope, outbox[i].entity,
                  outbox[i].operation = "delete", i)
  /\ ledger' = Put(ledger, Intent(i), "accepted")

IsRefused(i, verdict) ==
  /\ outbox[i].scope \in authorized
  /\ ~Decided(i)
  /\ UNCHANGED changelog
  /\ ledger' = Put(ledger, Intent(i), verdict)

ServerMove ==
  \/ UNCHANGED <<changelog, ledger>>
  \/ /\ UNCHANGED <<deviceVars, authorized>>
     /\ \/ /\ \E s \in Scopes, entity \in Entities, tombstone \in BOOLEAN :
               CommitChange(s, entity, tombstone, 0)
           /\ UNCHANGED ledger
        \/ \E i \in DOMAIN outbox, R \in Requests :
             /\ IsFirst(i, R)
             /\ \/ TakesEffect(i)
                \/ \E verdict \in Verdicts \ {"accepted"} : IsRefused(i, verdict)

\* A push slot stays, ends, starts with nothing learnt or gets one answer.
PushMove(w) ==
  \/ UNCHANGED pushes[w]
  \/ pushes'[w] = Null
  \/ /\ pushes[w] = Null
     /\ \E s \in Scopes : \E lapsed, due :
          /\ ClaimBatch(w, s, lapsed, due)
          /\ pushes'[w] =
               [scope |-> s, results |-> <<>>,
                claimed |-> Batch(Eligible(SweptOutbox(s, lapsed), s, due))]
  \/ ServerProcess(w)
\* The end of a push, answered or failed, is an outcome.
LEMMA PushEnds ==
  ASSUME TypeOK, NEW w \in Pushers,
         \/ PushAnswered(w)
         \/ \E failure \in {"unavailable", "refused", "call_revoked"} :
              PushFailed(w, failure)
  PROVE  \E learnt : OutcomeOf(w, learnt)
<1>1. CASE PushAnswered(w)
  <2> PICK omitted \in SUBSET pushes[w].claimed :
        ApplyPushOutcome(w, [i \in pushes[w].claimed |->
                               IF i \in omitted THEN "missing"
                               ELSE pushes[w].results[i]])
    BY <1>1 DEF PushAnswered
  <2> DEFINE learnt == [i \in pushes[w].claimed |->
                          IF i \in omitted THEN "missing"
                          ELSE pushes[w].results[i]]
  <2>1. pushes[w] # Null /\ Unprocessed(pushes[w]) = {}
    BY <1>1 DEF PushAnswered
  <2>2. ASSUME NEW i \in pushes[w].claimed
        PROVE  i \in DOMAIN pushes[w].results /\ pushes[w].results[i] \in Results
    <3>1. PICK S \in SUBSET pushes[w].claimed : pushes[w].results \in [S -> Results]
      BY <2>1 DEF TypeOK, PushesTypeOK, PushCalls
    <3>2. i \in S
      BY <2>1, <3>1 DEF Unprocessed
    <3> QED BY <3>1, <3>2
  <2>3. \A i \in pushes[w].claimed :
          /\ learnt[i] \in Learnings
          /\ learnt[i] \in Results => learnt[i] = pushes[w].results[i]
    BY <2>2 DEF Learnings, Results, Verdicts
  <2>4. ApplyPushOutcome(w, learnt)
    OBVIOUS
  <2> HIDE DEF learnt
  <2> QED BY <2>1, <2>2, <2>3, <2>4 DEF OutcomeOf
<1>2. ASSUME NEW failure \in {"unavailable", "refused", "call_revoked"},
             PushFailed(w, failure)
      PROVE  \E learnt : OutcomeOf(w, learnt)
  <2> DEFINE learnt == [i \in pushes[w].claimed |-> failure]
  <2>1. pushes[w] # Null /\ ApplyPushOutcome(w, learnt)
    BY <1>2 DEF PushFailed
  <2>2. \A i \in pushes[w].claimed :
          learnt[i] \in Learnings /\ learnt[i] \notin Results
    BY DEF Learnings, Results, Verdicts
  <2> HIDE DEF learnt
  <2> QED BY <2>1, <2>2 DEF OutcomeOf
<1> QED BY <1>1, <1>2

\* The server's answer to an event is a move of the server.
LEMMA ProcessMoves ==
  ASSUME TypeOK, NEW i \in DOMAIN outbox, NEW result, Process(i, result),
         UNCHANGED <<deviceVars, authorized>>,
         NEW R \in Requests, IsFirst(i, R)
  PROVE  ServerMove
<1>1. CASE UNCHANGED <<changelog, ledger>>
  BY <1>1 DEF ServerMove
<1>2. CASE /\ outbox[i].scope \in authorized /\ ~Decided(i)
           /\ CommitChange(outbox[i].scope, outbox[i].entity,
                           outbox[i].operation = "delete", i)
           /\ ledger' = Put(ledger, Intent(i), "accepted")
  BY <1>2 DEF ServerMove, TakesEffect
<1>3. CASE /\ outbox[i].scope \in authorized /\ ~Decided(i)
           /\ result \in Refusals
           /\ UNCHANGED changelog
           /\ ledger' = Put(ledger, Intent(i), result)
  <2>1. result \in Verdicts \ {"accepted"}
    BY <1>3, ConstantsAssumption DEF Verdicts
  <2> QED BY <1>3, <2>1 DEF ServerMove, IsRefused
<1> QED BY <1>1, <1>2, <1>3 DEF Process, Decided, Intent

\* The server takes the least event of a request.
LEMMA FirstOfPush ==
  ASSUME TypeOK, NEW w \in Pushers, pushes[w] # Null, Unprocessed(pushes[w]) # {}
  PROVE  /\ Unprocessed(pushes[w]) \in Requests
         /\ Min(Unprocessed(pushes[w])) \in DOMAIN outbox
         /\ IsFirst(Min(Unprocessed(pushes[w])), Unprocessed(pushes[w]))
<1>1. DOMAIN outbox \subseteq Nat
  BY LenProperties DEF TypeOK, OutboxTypeOK
<1>2. /\ Unprocessed(pushes[w]) \subseteq DOMAIN outbox
      /\ Unprocessed(pushes[w]) \in SUBSET Nat
  BY <1>1 DEF TypeOK, PushesTypeOK, Unprocessed
<1> QED BY <1>2, MinIsElement DEF Requests, IsFirst

LEMMA FirstOfLate ==
  ASSUME TypeOK, NEW request \in late
  PROVE  /\ request.todo \in Requests
         /\ Min(request.todo) \in DOMAIN outbox
         /\ IsFirst(Min(request.todo), request.todo)
<1>1. DOMAIN outbox \subseteq Nat
  BY LenProperties DEF TypeOK, OutboxTypeOK
<1>2. /\ request.todo \subseteq DOMAIN outbox /\ request.todo # {}
      /\ request.todo \in SUBSET Nat
  BY <1>1 DEF TypeOK, ServerTypeOK
<1> QED BY <1>2, MinIsElement DEF Requests, IsFirst

\* Every step moves the server, and the scopes it authorises only shrink.
LEMMA NextServerMove ==
  ASSUME TypeOK, [Next]_vars
  PROVE  ServerMove /\ authorized' \subseteq authorized
<1>1. CASE UNCHANGED <<changelog, ledger, authorized>>
  BY <1>1 DEF ServerMove
<1>2. CASE Host
  <2>1. UNCHANGED serverVars
    BY <1>2 DEF Host, Enqueue, ResolveBlockingEvent, ResetScopeForResync
  <2> QED BY <1>1, <2>1 DEF serverVars
<1>3. CASE Push
  <2>1. ASSUME NEW w, NEW s, NEW lapsed, NEW due, ClaimBatch(w, s, lapsed, due)
        PROVE  UNCHANGED serverVars
    BY <2>1 DEF ClaimBatch
  <2>2. UNCHANGED serverVars \/ UNCHANGED <<changelog, ledger, authorized>>
    BY <1>3, <2>1 DEF Push, PushAnswered, PushFailed, PushCommitFails
  <2> QED BY <1>1, <2>2 DEF serverVars
<1>4. CASE Pull
  BY <1>1, <1>4
     DEF Pull, PullRead, PullPage, PullCursorLost, PullRevoked, PullFails,
         serverVars
<1>5. ASSUME NEW w \in Pushers, ServerProcess(w)
      PROVE  ServerMove /\ authorized' \subseteq authorized
  <2>1. /\ pushes[w] # Null /\ Unprocessed(pushes[w]) # {}
        /\ \E result : Process(Min(Unprocessed(pushes[w])), result)
        /\ UNCHANGED <<deviceVars, authorized>>
    BY <1>5 DEF ServerProcess
  <2> QED BY <2>1, FirstOfPush, ProcessMoves
<1>6. ASSUME NEW request \in late, ServerProcessLate(request)
      PROVE  ServerMove /\ authorized' \subseteq authorized
  <2>1. /\ \E result : Process(Min(request.todo), result)
        /\ UNCHANGED <<deviceVars, authorized>>
    BY <1>6 DEF ServerProcessLate
  <2> QED BY <2>1, FirstOfLate, ProcessMoves
<1>7. ASSUME NEW s \in Scopes, NEW entity \in ForeignEntities,
             NEW tombstone \in BOOLEAN, ForeignCommit(s, entity, tombstone)
      PROVE  ServerMove /\ authorized' \subseteq authorized
  BY <1>7, ConstantsAssumption DEF ForeignCommit, ServerMove
<1>8. ASSUME NEW s \in Scopes, RevokeAuthorization(s)
      PROVE  ServerMove /\ authorized' \subseteq authorized
  BY <1>8 DEF RevokeAuthorization, ServerMove
<1>9. CASE Server
  BY <1>1, <1>5, <1>6, <1>7, <1>8, <1>9 DEF Server, ServerAnswersPull, serverVars
<1>10. CASE Crash \/ UNCHANGED vars
  BY <1>1, <1>10 DEF Crash, vars, serverVars
<1> QED BY <1>2, <1>3, <1>4, <1>9, <1>10 DEF Next

\* A push slot moves in one of four ways.
LEMMA NextPushMove ==
  ASSUME TypeOK, [Next]_vars, NEW w \in Pushers
  PROVE  PushMove(w)
<1>1. CASE UNCHANGED pushes
  BY <1>1 DEF PushMove
<1>2. DOMAIN pushes = Pushers
  BY DEF TypeOK, PushesTypeOK
<1>3. ASSUME NEW v \in Pushers, pushes' = [pushes EXCEPT ![v] = Null]
      PROVE  PushMove(w)
  BY <1>2, <1>3 DEF PushMove
<1>4. CASE Push
  <2>1. ASSUME NEW v \in Pushers, NEW s \in Scopes, NEW lapsed, NEW due,
               ClaimBatch(v, s, lapsed, due)
        PROVE  PushMove(w)
    <3> DEFINE claimed == Batch(Eligible(SweptOutbox(s, lapsed), s, due))
               call == [scope |-> s, claimed |-> claimed, results |-> <<>>]
    <3>1. /\ pushes[v] = Null
          /\ pushes' = IF claimed = {} THEN pushes
                       ELSE [pushes EXCEPT ![v] = call]
      BY <2>1 DEF ClaimBatch
    <3>2. call = [scope |-> s, results |-> <<>>, claimed |-> claimed]
      OBVIOUS
    <3> HIDE DEF call, claimed
    <3>3. pushes'[w] = pushes[w] \/ (w = v /\ pushes'[w] = call)
      BY <1>2, <3>1
    <3> QED BY <2>1, <3>1, <3>2, <3>3 DEF PushMove, claimed
  <2>2. ASSUME NEW v \in Pushers, NEW learnt, OutcomeOf(v, learnt) PROVE PushMove(w)
    BY <1>3, <2>2 DEF OutcomeOf, ApplyPushOutcome
  <2>3. ASSUME NEW v \in Pushers, PushCommitFails(v) PROVE PushMove(w)
    BY <1>3, <2>3 DEF PushCommitFails
  <2> QED BY <1>4, <2>1, <2>2, <2>3, PushEnds DEF Push
<1>5. ASSUME NEW v \in Pushers, ServerProcess(v) PROVE PushMove(w)
  <2>1. CASE v = w
    BY <1>5, <2>1 DEF PushMove
  <2>2. CASE v # w
    <3>1. \E i, result :
            pushes' = [pushes EXCEPT ![v].results = Put(@, i, result)]
      BY <1>5 DEF ServerProcess
    <3> QED BY <1>2, <2>2, <3>1 DEF PushMove
  <2> QED BY <2>1, <2>2
<1>6. CASE Crash
  BY <1>6 DEF Crash, PushMove
<1>7. CASE Host
  BY <1>1, <1>7 DEF Host, Enqueue, ResolveBlockingEvent, ResetScopeForResync
<1>8. CASE Pull
  BY <1>1, <1>8
     DEF Pull, PullRead, PullPage, PullCursorLost, PullRevoked, PullFails
<1>9. CASE Server
  BY <1>1, <1>5, <1>9
     DEF Server, ServerProcessLate, ServerAnswersPull, ForeignCommit,
         RevokeAuthorization
<1>10. CASE UNCHANGED vars
  BY <1>1, <1>10 DEF vars
<1> QED BY <1>4, <1>6, <1>7, <1>8, <1>9, <1>10 DEF Next
-----------------------------------------------------------------------------
(***************************************************************************)
(* How an event gets its result.                                           *)
(***************************************************************************)

\* What an event is right after a push learns of its own events, before a
\* revocation sends the financial ones to review.
Told(w, learnt, i) ==
  IF i \in Current(w) THEN NextEntryState(outbox[i], learnt[i]) ELSE outbox[i]

SettledBy(i, w, learnt) ==
  /\ OutcomeOf(w, learnt)
  /\ i \in Current(w)
  /\ outbox'[i].localState = Told(w, learnt, i).localState
  /\ \/ learnt[i] = outbox'[i].localState
     \/ learnt[i] = "auth_revoked" /\ outbox'[i].localState = "rejected"

\* Persisting an outcome leaves each event as told, or in review.
LEMMA OutcomeEntries ==
  ASSUME TypeOK, NEW w \in Pushers, NEW learnt, OutcomeOf(w, learnt),
         NEW i \in DOMAIN outbox
  PROVE  /\ Told(w, learnt, i) \in Entries
         /\ \/ outbox'[i] = Told(w, learnt, i)
            \/ /\ Told(w, learnt, i).localState \in {"pending", "retry_wait"}
               /\ outbox'[i].localState = "manual_review"
<1> DEFINE s == pushes[w].scope
           told == [x \in DOMAIN outbox |-> Told(w, learnt, x)]
<1>1. \A x \in DOMAIN outbox : outbox[x] \in Entries
  BY LenProperties, ElementOfSeq DEF TypeOK, OutboxTypeOK
<1>2. ASSUME NEW x \in DOMAIN outbox PROVE Told(w, learnt, x) \in Entries
  <2>1. x \in Current(w) => learnt[x] \in Learnings
    BY DEF OutcomeOf, Current
  <2> QED BY <1>1, <2>1, NextEntryStateType DEF Told, Learnings
<1>3. told \in Seq(Entries) /\ DOMAIN told = DOMAIN outbox
  <2>1. \A x \in DOMAIN outbox : told[x] \in Entries
    BY <1>2
  <2>2. told = [x \in DOMAIN outbox |-> told[x]]
    OBVIOUS
  <2> HIDE DEF told
  <2> QED BY <2>1, <2>2, MappedSeq DEF TypeOK, OutboxTypeOK
<1>4. outbox' = RevokeEntries(told, s) \/ outbox' = told
  BY DEF OutcomeOf, ApplyPushOutcome, Told
<1>5. \/ outbox'[i] = told[i]
      \/ /\ told[i].localState \in {"pending", "retry_wait"}
         /\ outbox'[i] = Invalidate(told[i])
  <2> HIDE DEF told, s
  <2> QED BY <1>3, <1>4, RevokeEntriesStep
<1>6. Invalidate(told[i]).localState = "manual_review"
  BY <1>2 DEF Invalidate, Entries
<1>7. told[i] = Told(w, learnt, i)
  OBVIOUS
<1> HIDE DEF told
<1> QED BY <1>2, <1>5, <1>6, <1>7

\* A result is taken from what the push learnt.
LEMMA LearntState ==
  ASSUME NEW entry \in Entries, NEW learnt \in Learnings,
         IsTerminalState(NextEntryState(entry, learnt).localState)
  PROVE  LET state == NextEntryState(entry, learnt).localState IN
         learnt = state \/ (learnt = "auth_revoked" /\ state = "rejected")
<1> DEFINE next == NextEntryState(entry, learnt)
<1>1. \/ next = Retry(entry)
      \/ next = LeaseExpired(entry)
      \/ next = Result(entry, "manual_review")
      \/ next = Result(entry, "rejected") /\ learnt = "auth_revoked"
      \/ next = Result(entry, learnt)
  BY DEF NextEntryState
<1>2. /\ Retry(entry).localState = "retry_wait"
      /\ LeaseExpired(entry).localState = "pending"
      /\ \A status : Result(entry, status).localState = status
  BY DEF Retry, LeaseExpired, Result, Entries
<1> HIDE DEF next
<1>3. IsTerminalState(next.localState)
  BY DEF next
<1>4. learnt = next.localState \/ (learnt = "auth_revoked" /\ next.localState = "rejected")
  BY <1>1, <1>2, <1>3 DEF IsTerminalState
<1> QED BY <1>4 DEF next

\* An event is closed only by the outcome of the push it is leased to.
LEMMA OnlyOutcomesSettle ==
  ASSUME TypeOK, [Next]_vars, NEW i \in DOMAIN outbox,
         IsTerminalState(outbox'[i].localState),
         ~IsTerminalState(outbox[i].localState)
  PROVE  \E w \in Pushers : \E learnt : SettledBy(i, w, learnt)
<1> DEFINE Settled == \E w \in Pushers : \E learnt : SettledBy(i, w, learnt)
<1>1. outbox \in Seq(Entries) /\ outbox[i] \in Entries
  BY LenProperties, ElementOfSeq DEF TypeOK, OutboxTypeOK
<1>2. outbox'[i] # outbox[i] /\ ~UNCHANGED outbox
  OBVIOUS
<1>3. ASSUME NEW w \in Pushers, NEW learnt, OutcomeOf(w, learnt) PROVE Settled
  <2>1. outbox'[i] = Told(w, learnt, i)
    BY <1>3, OutcomeEntries DEF IsTerminalState
  <2>2. i \in Current(w)
    BY <1>2, <2>1 DEF Told
  <2>3. learnt[i] \in Learnings
    BY <1>3, <2>2 DEF OutcomeOf, Current
  <2>4. outbox'[i] = NextEntryState(outbox[i], learnt[i])
    BY <2>1, <2>2 DEF Told
  <2>5. \/ learnt[i] = outbox'[i].localState
        \/ learnt[i] = "auth_revoked" /\ outbox'[i].localState = "rejected"
    BY <1>1, <2>3, <2>4, LearntState
  <2>6. SettledBy(i, w, learnt)
    BY <1>3, <2>1, <2>2, <2>5 DEF SettledBy
  <2> QED BY <2>6
<1>4. ASSUME NEW s, NEW key, NEW entity, NEW operation,
             Enqueue(s, key, entity, operation)
      PROVE  FALSE
  <2>1. \E entry : outbox' = Append(outbox, entry)
    BY <1>4 DEF Enqueue
  <2>2. outbox'[i] = outbox[i]
    BY <1>1, <2>1, LenProperties
  <2> QED BY <1>2, <2>2
<1>5. ASSUME NEW x \in DOMAIN outbox, NEW y, ResolveBlockingEvent(x, y) PROVE FALSE
  <2>1. outbox' = [outbox EXCEPT ![x] = Resolve(outbox[x], y)]
    BY <1>5 DEF ResolveBlockingEvent
  <2>2. outbox'[i] = Resolve(outbox[i], y)
    BY <1>2, <2>1
  <2>3. outbox'[i].localState = outbox[i].localState
    BY <1>1, <2>2 DEF Resolve, Entries
  <2> QED BY <2>3
<1>6. ASSUME NEW s, outbox' = RevokeEntries(outbox, s) PROVE FALSE
  <2>1. outbox'[i] = Invalidate(outbox[i])
    BY <1>1, <1>2, <1>6, RevokeEntriesStep
  <2> QED BY <1>1, <2>1 DEF Invalidate, Entries, IsTerminalState
<1>7. ASSUME NEW w \in Pushers, NEW s \in Scopes, NEW lapsed, NEW due,
             ClaimBatch(w, s, lapsed, due)
      PROVE  FALSE
  <2> DEFINE swept == SweptOutbox(s, lapsed)
             blocker == IF Blockers(swept, i) = {} THEN Null
                        ELSE Min(Blockers(swept, i))
  <2>1. \/ outbox'[i] = Claim(swept[i], w)
        \/ outbox'[i] = Block(swept[i], blocker)
        \/ outbox'[i] = swept[i]
    BY <1>7 DEF ClaimBatch
  <2>2. \/ swept[i] = LeaseExpired(outbox[i])
        \/ swept[i] = Invalidate(outbox[i])
        \/ swept[i] = outbox[i]
    BY DEF SweptOutbox, Swept
  <2> HIDE DEF swept, blocker
  <2>3. swept[i] \in Entries /\ ~IsTerminalState(swept[i].localState)
    BY <1>1, <2>2, EntryTypes
       DEF LeaseExpired, Invalidate, Entries, IsTerminalState
  <2>4. /\ Claim(swept[i], w).localState = "sending"
        /\ Block(swept[i], blocker).localState = swept[i].localState
    BY <2>3 DEF Claim, Block, Entries
  <2> QED BY <2>1, <2>3, <2>4 DEF IsTerminalState
<1> HIDE DEF Settled
<1>8. CASE Host
  BY <1>2, <1>4, <1>5, <1>8 DEF Host, ResetScopeForResync
<1>9. CASE Push
  <2>1. ASSUME NEW w, PushCommitFails(w) PROVE FALSE
    BY <1>2, <2>1 DEF PushCommitFails, deviceVars
  <2> QED BY <1>3, <1>7, <1>9, <2>1, PushEnds DEF Push, Settled
<1>10. CASE Pull
  BY <1>2, <1>6, <1>10
     DEF Pull, PullRead, PullPage, PullCursorLost, PullRevoked, PullFails,
         deviceVars
<1>11. CASE Server
  BY <1>2, <1>11
     DEF Server, ServerProcess, ServerProcessLate, ServerAnswersPull,
         ForeignCommit, RevokeAuthorization, deviceVars
<1>12. CASE Crash \/ UNCHANGED vars
  BY <1>2, <1>12 DEF Crash, vars, deviceVars
<1> QED BY <1>8, <1>9, <1>10, <1>11, <1>12 DEF Next
-----------------------------------------------------------------------------
(***************************************************************************)
(* The verdict an event is closed with is the server's.  Inductive with    *)
(* what the pushes in flight have learnt.                                  *)
(***************************************************************************)

Accepted(i) == Decided(i) /\ ledger[Intent(i)] = "accepted"

ResultTrue(i, result) ==
  /\ result \in {"accepted", "duplicate"} => Accepted(i)
  /\ result = "rejected" => Decided(i) /\ ledger[Intent(i)] = "rejected"
  /\ result = "auth_revoked" => outbox[i].scope \notin authorized

AnswersTrue ==
  \A w \in Pushers : pushes[w] # Null =>
    \A i \in DOMAIN pushes[w].results : ResultTrue(i, pushes[w].results[i])

VerdictTrue(i, state) ==
  /\ state \in {"accepted", "duplicate"} => Accepted(i)
  /\ state = "rejected" => \/ Decided(i) /\ ledger[Intent(i)] = "rejected"
                           \/ outbox[i].scope \notin authorized

VerdictsHeld ==
  \A i \in DOMAIN outbox : VerdictTrue(i, outbox[i].localState)

\* An event stays in the outbox as what it is.
LEMMA EventsStay ==
  ASSUME TypeOK, [Next]_vars
  PROVE  /\ \A i \in DOMAIN outbox : /\ i \in DOMAIN outbox'
                                     /\ Identity(outbox'[i]) = Identity(outbox[i])
                                     /\ EntryStep(outbox[i], outbox'[i])
         /\ \A i \in DOMAIN outbox' \ DOMAIN outbox :
              /\ NewEntry(outbox'[i])
              /\ \A j \in DOMAIN outbox' : j # i => j < i /\ j \in DOMAIN outbox
BY NextType, NextOutboxStep, OutboxStepEntries DEF EntryStep

\* The server never takes a verdict back.
LEMMA LedgerGrows ==
  ASSUME ServerMove, NEW intent \in DOMAIN ledger
  PROVE  intent \in DOMAIN ledger' /\ ledger'[intent] = ledger[intent]
<1>1. CASE UNCHANGED ledger
  BY <1>1
<1>2. ASSUME NEW i, NEW verdict, ~Decided(i), ledger' = Put(ledger, Intent(i), verdict)
      PROVE  intent \in DOMAIN ledger' /\ ledger'[intent] = ledger[intent]
  BY <1>2 DEF Decided, Put
<1> QED BY <1>1, <1>2 DEF ServerMove, TakesEffect, IsRefused

\* What is true of a result stays true.
LEMMA ResultStaysTrue ==
  ASSUME TypeOK, [Next]_vars, NEW i \in DOMAIN outbox, NEW result,
         ResultTrue(i, result)
  PROVE  ResultTrue(i, result)'
<1>1. ServerMove /\ authorized' \subseteq authorized
  BY NextServerMove
<1>2. outbox'[i].scope = outbox[i].scope /\ outbox'[i].key = outbox[i].key
  BY EventsStay DEF Identity
<1>3. Intent(i)' = Intent(i)
  BY <1>2 DEF Intent
<1>4. Decided(i) => Decided(i)' /\ ledger'[Intent(i)] = ledger[Intent(i)]
  BY <1>1, <1>3, LedgerGrows DEF Decided
<1> QED BY <1>1, <1>2, <1>3, <1>4 DEF ResultTrue, Accepted

\* The server's answer is true when it is given.
LEMMA AnswerIsTrue ==
  ASSUME TypeOK, NEW i \in DOMAIN outbox, NEW result, Process(i, result),
         UNCHANGED <<deviceVars, authorized>>
  PROVE  ResultTrue(i, result)'
<1>1. UNCHANGED outbox /\ Intent(i)' = Intent(i)
  BY DEF Intent, deviceVars
<1>2. CASE outbox[i].scope \notin authorized /\ result = "auth_revoked"
  BY <1>1, <1>2 DEF ResultTrue
<1>3. CASE /\ Decided(i)
           /\ result = IF ledger[Intent(i)] = "accepted" THEN "duplicate"
                       ELSE ledger[Intent(i)]
           /\ UNCHANGED ledger
  <2>1. ledger[Intent(i)] \in Verdicts
    BY <1>3 DEF TypeOK, ServerTypeOK, Decided
  <2>2. \/ result = "duplicate" /\ ledger[Intent(i)] = "accepted"
        \/ result \in {"rejected", "conflict", "manual_review"}
             /\ ledger[Intent(i)] = result
    BY <1>3, <2>1 DEF Verdicts
  <2>3. Decided(i)' /\ ledger'[Intent(i)] = ledger[Intent(i)]
    BY <1>1, <1>3 DEF Decided
  <2> QED BY <1>1, <2>2, <2>3 DEF ResultTrue, Accepted
<1>4. CASE /\ result \in {"accepted", "rejected", "conflict", "manual_review"}
           /\ ledger' = Put(ledger, Intent(i), result)
  <2>1. Decided(i)' /\ ledger'[Intent(i)] = result
    BY <1>1, <1>4 DEF Decided, Put
  <2> QED BY <1>1, <1>4, <2>1 DEF ResultTrue, Accepted
<1> QED BY <1>2, <1>3, <1>4, ConstantsAssumption
        DEF Process, Decided, Intent
\* What a push has learnt is about events it claimed.
LEMMA ResultsOfClaimed ==
  ASSUME TypeOK, NEW w \in Pushers, pushes[w] # Null
  PROVE  /\ DOMAIN pushes[w].results \subseteq pushes[w].claimed
         /\ pushes[w].claimed \subseteq DOMAIN outbox
         /\ \A i \in DOMAIN pushes[w].results : pushes[w].results[i] \in Results
<1>1. PICK S \in SUBSET pushes[w].claimed : pushes[w].results \in [S -> Results]
  BY DEF TypeOK, PushesTypeOK, PushCalls
<1> QED BY <1>1 DEF TypeOK, PushesTypeOK

\* A step of the server for push w adds one answer to it.
LEMMA ProcessedPush ==
  ASSUME TypeOK, NEW w \in Pushers, ServerProcess(w)
  PROVE  /\ pushes[w] # Null /\ Unprocessed(pushes[w]) # {}
         /\ UNCHANGED <<deviceVars, authorized, late>>
         /\ pushes'[w].claimed = pushes[w].claimed
         /\ pushes'[w].scope = pushes[w].scope
         /\ \E result \in Results :
              /\ Process(Min(Unprocessed(pushes[w])), result)
              /\ pushes'[w].results =
                   Put(pushes[w].results, Min(Unprocessed(pushes[w])), result)
<1> DEFINE i == Min(Unprocessed(pushes[w]))
<1>1. PICK result \in Results :
        /\ Process(i, result)
        /\ pushes' = [pushes EXCEPT ![w].results = Put(@, i, result)]
  BY DEF ServerProcess
<1>2. /\ pushes[w] # Null /\ Unprocessed(pushes[w]) # {}
      /\ UNCHANGED <<deviceVars, authorized, late>>
  BY DEF ServerProcess
<1>3. pushes[w] \in PushCalls(pushes[w].claimed) /\ w \in DOMAIN pushes
  BY <1>2 DEF TypeOK, PushesTypeOK
<1> HIDE DEF i
<1>4. /\ pushes'[w].results = Put(pushes[w].results, i, result)
      /\ pushes'[w].claimed = pushes[w].claimed
      /\ pushes'[w].scope = pushes[w].scope
  BY <1>1, <1>3 DEF PushCalls
<1> QED BY <1>1, <1>2, <1>4 DEF i

LEMMA AnswersStayTrue ==
  ASSUME TypeOK, [Next]_vars, AnswersTrue
  PROVE  AnswersTrue'
<1> SUFFICES ASSUME NEW w \in Pushers, pushes'[w] # Null,
                    NEW i \in DOMAIN pushes'[w].results,
                    NEW result, result = pushes'[w].results[i]
             PROVE  ResultTrue(i, result)'
  BY DEF AnswersTrue
<1>1. ASSUME pushes[w] # Null, i \in DOMAIN pushes[w].results,
             result = pushes[w].results[i]
      PROVE  ResultTrue(i, result)'
  <2>1. i \in DOMAIN outbox
    BY <1>1, ResultsOfClaimed
  <2>2. ResultTrue(i, result)
    BY <1>1 DEF AnswersTrue
  <2> QED BY <2>1, <2>2, ResultStaysTrue
<1>2. CASE UNCHANGED pushes[w]
  BY <1>1, <1>2
<1>3. CASE \E claimed, s : pushes'[w] = [scope |-> s, results |-> <<>>,
                                          claimed |-> claimed]
  BY <1>3
<1>4. CASE ServerProcess(w)
  <2> DEFINE x == Min(Unprocessed(pushes[w]))
  <2>1. /\ pushes[w] # Null /\ x \in DOMAIN outbox
        /\ UNCHANGED <<deviceVars, authorized>>
    BY <1>4, ProcessedPush, FirstOfPush
  <2>2. PICK r \in Results : /\ Process(x, r)
                             /\ pushes'[w].results = Put(pushes[w].results, x, r)
    BY <1>4, ProcessedPush
  <2> HIDE DEF x
  <2>3. CASE i = x
    BY <2>1, <2>2, <2>3, AnswerIsTrue DEF Put
  <2>4. CASE i # x
    BY <1>1, <2>1, <2>2, <2>4 DEF Put
  <2> QED BY <2>3, <2>4
<1> QED BY <1>2, <1>3, <1>4, NextPushMove DEF PushMove

LEMMA VerdictStaysTrue ==
  ASSUME TypeOK, [Next]_vars, NEW i \in DOMAIN outbox, NEW state,
         VerdictTrue(i, state)
  PROVE  VerdictTrue(i, state)'
<1>1. ServerMove /\ authorized' \subseteq authorized
  BY NextServerMove
<1>2. outbox'[i].scope = outbox[i].scope /\ outbox'[i].key = outbox[i].key
  BY EventsStay DEF Identity
<1>3. Intent(i)' = Intent(i)
  BY <1>2 DEF Intent
<1>4. Decided(i) => Decided(i)' /\ ledger'[Intent(i)] = ledger[Intent(i)]
  BY <1>1, <1>3, LedgerGrows DEF Decided
<1> QED BY <1>1, <1>2, <1>3, <1>4 DEF VerdictTrue, Accepted

LEMMA VerdictsStayHeld ==
  ASSUME TypeOK, [Next]_vars, AnswersTrue, VerdictsHeld
  PROVE  VerdictsHeld'
<1> SUFFICES ASSUME NEW i \in DOMAIN outbox', NEW state,
                    state = outbox'[i].localState
             PROVE  VerdictTrue(i, state)'
  BY DEF VerdictsHeld, VerdictTrue
<1>1. CASE i \notin DOMAIN outbox
  <2>1. state = "pending"
    BY <1>1, EventsStay DEF NewEntry
  <2> QED BY <2>1 DEF VerdictTrue
<1>2. CASE i \in DOMAIN outbox /\ ~IsTerminalState(state)
  BY <1>2 DEF VerdictTrue, IsTerminalState
<1>3. CASE i \in DOMAIN outbox /\ IsTerminalState(outbox[i].localState)
  <2>1. state = outbox[i].localState
    BY <1>3, EventsStay DEF EntryStep
  <2>2. VerdictTrue(i, state)
    BY <1>3, <2>1 DEF VerdictsHeld, VerdictTrue
  <2> QED BY <1>3, <2>2, VerdictStaysTrue
<1>4. CASE /\ i \in DOMAIN outbox /\ IsTerminalState(state)
           /\ ~IsTerminalState(outbox[i].localState)
  <2>1. PICK w \in Pushers : \E learnt : SettledBy(i, w, learnt)
    BY <1>4, OnlyOutcomesSettle
  <2>2. PICK learnt : SettledBy(i, w, learnt)
    BY <2>1
  <2>3. /\ pushes[w] # Null /\ i \in pushes[w].claimed
        /\ learnt[i] \in Results => /\ i \in DOMAIN pushes[w].results
                                    /\ learnt[i] = pushes[w].results[i]
        /\ \/ learnt[i] = state
           \/ learnt[i] = "auth_revoked" /\ state = "rejected"
    BY <2>2 DEF SettledBy, OutcomeOf, Current
  <2>4. learnt[i] \in Results
    BY <1>4, <2>3 DEF Results, Verdicts, IsTerminalState
  <2>5. ResultTrue(i, learnt[i])
    BY <2>3, <2>4 DEF AnswersTrue
  <2>6. VerdictTrue(i, state)
    BY <1>4, <2>3, <2>5 DEF ResultTrue, VerdictTrue, IsTerminalState
  <2> QED BY <1>4, <2>6, VerdictStaysTrue
<1> QED BY <1>1, <1>2, <1>3, <1>4

LEMMA VerdictsInvariant == Spec => [](AnswersTrue /\ VerdictsHeld)
<1>1. Init => AnswersTrue /\ VerdictsHeld
  BY DEF Init, AnswersTrue, VerdictsHeld
<1>2. TypeOK /\ (AnswersTrue /\ VerdictsHeld) /\ [Next]_vars
        => (AnswersTrue /\ VerdictsHeld)'
  BY AnswersStayTrue, VerdictsStayHeld
<1> QED BY <1>1, <1>2, TypeCorrect, PTL DEF Spec

\* Whatever responses are lost, late or of an attempt given up, an event the
\* device closes as accepted or duplicate did take effect, and one it closes as
\* rejected did not, unless the server revoked its scope.
THEOREM VerdictsKept == Spec => []VerdictsAreTrue
<1>1. VerdictsHeld => VerdictsAreTrue
  BY DEF VerdictsHeld, VerdictTrue, VerdictsAreTrue, Accepted, Decided, Intent
<1> QED BY <1>1, VerdictsInvariant, PTL
-----------------------------------------------------------------------------
(***************************************************************************)
(* The changelog: each event takes effect at most once, and only when the  *)
(* server accepts it.                                                      *)
(***************************************************************************)

\* What a step may put at the end of a scope's changelog.
NewChange(s, p) ==
  /\ p = Len(changelog[s]) + 1
  /\ changelog'[s][p].entity \in Entities
  /\ changelog'[s][p].canonicalVersion = NextVersion(s, changelog'[s][p].entity)
  /\ \/ changelog'[s][p].writer = 0
     \/ \E i \in DOMAIN outbox, R \in Requests :
          /\ IsFirst(i, R)
          /\ TakesEffect(i)
          /\ changelog'[s][p].writer = i
          /\ outbox[i].scope = s
          /\ outbox[i].entity = changelog'[s][p].entity

\* A sequence with one more element.
LEMMA AppendedAt ==
  ASSUME NEW S, NEW q \in Seq(S), NEW e
  PROVE  LET t == Append(q, e) IN
         /\ Len(q) \in Nat /\ DOMAIN q = 1..Len(q)
         /\ \A p \in DOMAIN q : p \in DOMAIN t /\ t[p] = q[p]
         /\ \A p \in DOMAIN t : p \in DOMAIN q \/ p = Len(q) + 1
         /\ Len(q) + 1 \in DOMAIN t /\ t[Len(q) + 1] = e
<1> DEFINE T == S \union {e}
           t == Append(q, e)
<1>1. q \in Seq(T) /\ e \in T
  <2>1. q \in [1..Len(q) -> T] /\ Len(q) \in Nat
    BY LenProperties
  <2> QED BY <2>1, SeqDef
<1> HIDE DEF T
<1>2. /\ t \in Seq(T)
      /\ Len(t) = Len(q) + 1
      /\ \A p \in 1..Len(q) : t[p] = q[p]
      /\ t[Len(q) + 1] = e
  BY <1>1, AppendProperties
<1>3. /\ Len(q) \in Nat /\ DOMAIN q = 1..Len(q)
      /\ DOMAIN t = 1..(Len(q) + 1)
  BY <1>1, <1>2, LenProperties
<1> HIDE DEF t
<1>4. /\ \A p \in 1..Len(q) : p \in 1..(Len(q) + 1)
      /\ \A p \in 1..(Len(q) + 1) : p \in 1..Len(q) \/ p = Len(q) + 1
      /\ Len(q) + 1 \in 1..(Len(q) + 1)
  BY <1>3
<1>5. /\ \A p \in DOMAIN q : p \in DOMAIN t /\ t[p] = q[p]
      /\ \A p \in DOMAIN t : p \in DOMAIN q \/ p = Len(q) + 1
      /\ Len(q) + 1 \in DOMAIN t /\ t[Len(q) + 1] = e
  BY <1>2, <1>3, <1>4
<1> QED BY <1>3, <1>5 DEF t

LEMMA AppendedChange ==
  ASSUME TypeOK, NEW s \in Scopes, NEW change,
         changelog' = [changelog EXCEPT ![s] = Append(@, change)],
         NEW x \in Scopes
  PROVE  /\ \A p \in DOMAIN changelog[x] : /\ p \in DOMAIN changelog'[x]
                                           /\ changelog'[x][p] = changelog[x][p]
         /\ \A p \in DOMAIN changelog'[x] : p \in DOMAIN changelog[x] \/
              /\ x = s
              /\ p = Len(changelog[x]) + 1
              /\ changelog'[x][p] = change
<1>1. changelog[x] \in Seq(Changes) /\ DOMAIN changelog = Scopes
  BY DEF TypeOK, ServerTypeOK
<1>2. CASE x # s
  BY <1>1, <1>2
<1>3. CASE x = s
  <2>1. changelog'[x] = Append(changelog[x], change)
    BY <1>1, <1>3
  <2> QED BY <1>1, <1>3, <2>1, AppendedAt
<1> QED BY <1>2, <1>3

\* A scope's changelog only grows, by one change at a time.
LEMMA ChangelogGrows ==
  ASSUME TypeOK, [Next]_vars, NEW s \in Scopes
  PROVE  /\ \A p \in DOMAIN changelog[s] : /\ p \in DOMAIN changelog'[s]
                                           /\ changelog'[s][p] = changelog[s][p]
         /\ \A p \in DOMAIN changelog'[s] :
              p \in DOMAIN changelog[s] \/ NewChange(s, p)
<1>1. ServerMove
  BY NextServerMove
<1>2. CASE UNCHANGED changelog
  BY <1>2
<1>3. ASSUME NEW x \in Scopes, NEW entity \in Entities, NEW tombstone \in BOOLEAN,
             NEW writer \in Nat, CommitChange(x, entity, tombstone, writer),
             \/ writer = 0
             \/ /\ writer \in DOMAIN outbox /\ TakesEffect(writer)
                /\ \E R \in Requests : IsFirst(writer, R)
                /\ outbox[writer].scope = x /\ outbox[writer].entity = entity
      PROVE  /\ \A p \in DOMAIN changelog[s] : /\ p \in DOMAIN changelog'[s]
                                               /\ changelog'[s][p] = changelog[s][p]
             /\ \A p \in DOMAIN changelog'[s] :
                  p \in DOMAIN changelog[s] \/ NewChange(s, p)
  <2> DEFINE change == [entity |-> entity,
                        canonicalVersion |-> NextVersion(x, entity),
                        tombstone |-> tombstone, writer |-> writer]
  <2>1. changelog' = [changelog EXCEPT ![x] = Append(@, change)]
    BY <1>3 DEF CommitChange
  <2>2. /\ change.entity = entity /\ change.writer = writer
        /\ change.canonicalVersion = NextVersion(x, entity)
    OBVIOUS
  <2> HIDE DEF change
  <2>3. \A p \in DOMAIN changelog[s] : /\ p \in DOMAIN changelog'[s]
                                        /\ changelog'[s][p] = changelog[s][p]
    BY <2>1, AppendedChange
  <2>4. ASSUME NEW p \in DOMAIN changelog'[s], p \notin DOMAIN changelog[s]
        PROVE  NewChange(s, p)
    <3>1. s = x /\ p = Len(changelog[s]) + 1 /\ changelog'[s][p] = change
      BY <2>1, <2>4, AppendedChange
    <3> QED BY <1>3, <2>2, <3>1 DEF NewChange
  <2> QED BY <2>3, <2>4
<1>4. ASSUME NEW i \in DOMAIN outbox, TakesEffect(i),
             \E R \in Requests : IsFirst(i, R)
      PROVE  /\ \A p \in DOMAIN changelog[s] : /\ p \in DOMAIN changelog'[s]
                                               /\ changelog'[s][p] = changelog[s][p]
             /\ \A p \in DOMAIN changelog'[s] :
                  p \in DOMAIN changelog[s] \/ NewChange(s, p)
  <2>1. outbox[i] \in Entries /\ i \in Nat
    BY LenProperties, ElementOfSeq DEF TypeOK, OutboxTypeOK
  <2>2. /\ outbox[i].scope \in Scopes /\ outbox[i].entity \in Entities
        /\ (outbox[i].operation = "delete") \in BOOLEAN
        /\ CommitChange(outbox[i].scope, outbox[i].entity,
                        outbox[i].operation = "delete", i)
    BY <1>4, <2>1 DEF TakesEffect, Entries
  <2> QED BY <1>3, <1>4, <2>1, <2>2
<1>5. UNCHANGED changelog
        \/ (\E x \in Scopes, entity \in Entities, tombstone \in BOOLEAN :
              CommitChange(x, entity, tombstone, 0))
        \/ (\E i \in DOMAIN outbox :
              TakesEffect(i) /\ \E R \in Requests : IsFirst(i, R))
  BY <1>1 DEF ServerMove, IsRefused
<1>6. 0 \in Nat
  OBVIOUS
<1> QED BY <1>2, <1>3, <1>4, <1>5, <1>6
-----------------------------------------------------------------------------
(***************************************************************************)
(* Order.  An event is in a request only with the earlier undecided events *)
(* of its entity, so the server reaches those first: this is what claiming *)
(* a batch establishes, and nothing the server does or forgets undoes it.  *)
(***************************************************************************)

\* The server has decided on i, or i will take no effect that counts: it waits
\* for a person, or its scope is revoked.
Passed(i) ==
  \/ Decided(i)
  \/ IsBlockingState(outbox[i].localState)
  \/ outbox[i].scope \notin authorized

RequestOrdered(R) ==
  \A j \in R, i \in DOMAIN outbox : i < j /\ SameEntity(i, j) =>
    i \in R \/ Passed(i)

\* A step makes requests only by a claim, and takes the first event off one.
LEMMA NextRequests ==
  ASSUME TypeOK, [Next]_vars, NEW R \in Requests'
  PROVE  \/ R \in Requests
         \/ \E w \in Pushers, s \in Scopes : \E lapsed, due :
              /\ ClaimBatch(w, s, lapsed, due)
              /\ R = Batch(Eligible(SweptOutbox(s, lapsed), s, due))
         \/ \E old \in Requests, i \in DOMAIN outbox : \E result :
              /\ IsFirst(i, old) /\ R = old \ {i}
              /\ Process(i, result)
              /\ UNCHANGED <<deviceVars, authorized>>
<1> DEFINE Claimed == \E w \in Pushers, s \in Scopes : \E lapsed, due :
                        /\ ClaimBatch(w, s, lapsed, due)
                        /\ R = Batch(Eligible(SweptOutbox(s, lapsed), s, due))
           Processed == \E old \in Requests, i \in DOMAIN outbox : \E result :
                          /\ IsFirst(i, old) /\ R = old \ {i}
                          /\ Process(i, result)
                          /\ UNCHANGED <<deviceVars, authorized>>
<1>1. ASSUME NEW w \in Pushers, pushes'[w] # Null, R = Unprocessed(pushes'[w])
      PROVE  R \in Requests \/ Claimed \/ Processed
  <2>1. CASE UNCHANGED pushes[w]
    BY <1>1, <2>1 DEF Requests
  <2>2. ASSUME NEW s \in Scopes, NEW lapsed, NEW due, ClaimBatch(w, s, lapsed, due),
               pushes'[w] = [scope |-> s, results |-> <<>>,
                 claimed |-> Batch(Eligible(SweptOutbox(s, lapsed), s, due))]
        PROVE  Claimed
    <3>1. R = Batch(Eligible(SweptOutbox(s, lapsed), s, due))
      BY <1>1, <2>2 DEF Unprocessed
    <3> QED BY <2>2, <3>1
  <2>3. CASE ServerProcess(w)
    <3> DEFINE i == Min(Unprocessed(pushes[w]))
    <3>1. /\ pushes[w] # Null /\ Unprocessed(pushes[w]) # {}
          /\ UNCHANGED <<deviceVars, authorized>>
          /\ pushes'[w].claimed = pushes[w].claimed
      BY <2>3, ProcessedPush
    <3>2. PICK result \in Results :
            /\ Process(i, result)
            /\ pushes'[w].results = Put(pushes[w].results, i, result)
      BY <2>3, ProcessedPush
    <3>3. /\ Unprocessed(pushes[w]) \in Requests
          /\ i \in DOMAIN outbox /\ IsFirst(i, Unprocessed(pushes[w]))
      BY <3>1, FirstOfPush
    <3> HIDE DEF i
    <3>4. R = Unprocessed(pushes[w]) \ {i}
      BY <1>1, <3>1, <3>2 DEF Unprocessed, Put
    <3> QED BY <3>1, <3>2, <3>3, <3>4
  <2> HIDE DEF Claimed, Processed
  <2> QED BY <1>1, <2>1, <2>2, <2>3, NextPushMove DEF PushMove
<1>2. ASSUME NEW request \in late', R = request.todo
      PROVE  R \in Requests \/ Processed
  <2>1. CASE request \in late
    BY <1>2, <2>1 DEF Requests
  <2>2. ASSUME NEW w \in Pushers, pushes[w] # Null, Abandon(pushes[w])
        PROVE  R \in Requests
    BY <1>2, <2>2 DEF Abandon, Requests
  <2>3. ASSUME NEW old \in late, ServerProcessLate(old), request \notin late
        PROVE  Processed
    <3> DEFINE i == Min(old.todo)
    <3>1. PICK result : Process(i, result)
      BY <2>3 DEF ServerProcessLate
    <3>2. old.todo \in Requests /\ i \in DOMAIN outbox /\ IsFirst(i, old.todo)
      BY <2>3, FirstOfLate
    <3>3. /\ request = [old EXCEPT !.todo = old.todo \ {i}]
          /\ UNCHANGED <<deviceVars, authorized>>
      BY <1>2, <2>3 DEF ServerProcessLate
    <3>4. old \in [scope: Scopes, todo: (SUBSET DOMAIN outbox) \ {{}}]
      BY DEF TypeOK, ServerTypeOK
    <3> HIDE DEF i
    <3>5. R = old.todo \ {i}
      BY <1>2, <3>3, <3>4
    <3> QED BY <3>1, <3>2, <3>3, <3>5
  <2>4. \/ late' \subseteq late
        \/ \E w \in Pushers : pushes[w] # Null /\ Abandon(pushes[w])
        \/ \E old \in late : ServerProcessLate(old)
    <3>1. CASE Host
      BY <3>1 DEF Host, Enqueue, ResolveBlockingEvent, ResetScopeForResync, serverVars
    <3>2. CASE Push
      <4>1. ASSUME NEW w, NEW s, NEW lapsed, NEW due, ClaimBatch(w, s, lapsed, due)
            PROVE  UNCHANGED serverVars
        BY <4>1 DEF ClaimBatch
      <4> QED BY <3>2, <4>1
              DEF Push, PushAnswered, PushFailed, PushCommitFails, serverVars
    <3>3. CASE Pull
      BY <3>3 DEF Pull, PullRead, PullPage, PullCursorLost, PullRevoked, PullFails,
                  serverVars
    <3>4. CASE Server
      BY <3>4 DEF Server, ServerProcess, ServerAnswersPull, ForeignCommit,
                  RevokeAuthorization, serverVars
    <3>5. CASE Crash \/ UNCHANGED vars
      BY <3>5 DEF Crash, vars, serverVars
    <3> QED BY <3>1, <3>2, <3>3, <3>4, <3>5 DEF Next
  <2> HIDE DEF Processed
  <2> QED BY <2>1, <2>2, <2>3, <2>4
<1> HIDE DEF Claimed, Processed
<1>3. R \in Requests \/ Claimed \/ Processed
  BY <1>1, <1>2 DEF Requests
<1> QED BY <1>3 DEF Claimed, Processed

\* An event in conflict or review stays there.
LEMMA ReviewStays ==
  ASSUME TypeOK, [Next]_vars, NEW i \in DOMAIN outbox,
         IsBlockingState(outbox[i].localState)
  PROVE  IsBlockingState(outbox'[i].localState)
<1>1. /\ OutboxTransitions["conflict"] = {"manual_review"}
      /\ OutboxTransitions["manual_review"] = {}
  BY DEF OutboxTransitions
<1> QED BY <1>1, EventsStay DEF EntryStep, IsBlockingState

\* What is passed stays passed.
LEMMA PassedStays ==
  ASSUME TypeOK, [Next]_vars, NEW i \in DOMAIN outbox, Passed(i)
  PROVE  Passed(i)'
<1>1. ServerMove /\ authorized' \subseteq authorized
  BY NextServerMove
<1>2. /\ outbox'[i].scope = outbox[i].scope /\ outbox'[i].key = outbox[i].key
  BY EventsStay DEF Identity
<1>3. CASE Decided(i)
  <2>1. Intent(i)' = Intent(i)
    BY <1>2 DEF Intent
  <2>2. Decided(i)'
    BY <1>1, <1>3, <2>1, LedgerGrows DEF Decided
  <2> QED BY <2>2 DEF Passed
<1>4. CASE IsBlockingState(outbox[i].localState)
  BY <1>4, ReviewStays DEF Passed
<1>5. CASE outbox[i].scope \notin authorized
  BY <1>1, <1>2, <1>5 DEF Passed
<1> QED BY <1>3, <1>4, <1>5 DEF Passed
\* A new event is the last; the older ones keep their entity.
LEMMA SameEntityStays ==
  ASSUME TypeOK, [Next]_vars, NEW i \in DOMAIN outbox', NEW j \in DOMAIN outbox
  PROVE  /\ i < j \/ i \in DOMAIN outbox => i \in DOMAIN outbox
         /\ i \in DOMAIN outbox => SameEntity(i, j)' = SameEntity(i, j)
         /\ i \in Nat /\ j \in Nat
<1>1. i \in Nat /\ j \in Nat
  BY NextType, LenProperties DEF TypeOK, OutboxTypeOK
<1>2. j \in DOMAIN outbox' /\ Identity(outbox'[j]) = Identity(outbox[j])
  BY EventsStay
<1>3. i \in DOMAIN outbox => SameEntity(i, j)' = SameEntity(i, j)
  BY <1>2, EventsStay DEF Identity, SameEntity
<1>4. i \notin DOMAIN outbox => j < i
  BY <1>2, EventsStay
<1> QED BY <1>1, <1>3, <1>4

RequestsOrdered == \A R \in Requests : RequestOrdered(R)

\* Requests name events of the outbox.
LEMMA RequestsOfEvents ==
  ASSUME TypeOK, NEW R \in Requests
  PROVE  R \subseteq DOMAIN outbox
BY DEF Requests, TypeOK, PushesTypeOK, ServerTypeOK, Unprocessed

\* A batch is claimed in order: an event left behind is closed, in review, or
\* its scope is revoked.
LEMMA ClaimedInOrder ==
  ASSUME TypeOK, [Next]_vars, VerdictsHeld',
         NEW w \in Pushers, NEW s \in Scopes, NEW lapsed, NEW due,
         ClaimBatch(w, s, lapsed, due),
         NEW R, R = Batch(Eligible(SweptOutbox(s, lapsed), s, due))
  PROVE  RequestOrdered(R)'
<1>1. R \subseteq DOMAIN outbox
  BY DEF Batch, Eligible, SweptOutbox
<1>2. SUFFICES ASSUME NEW j \in R, NEW i \in DOMAIN outbox', i < j,
                      SameEntity(i, j)', i \notin R
               PROVE  Passed(i)'
  BY DEF RequestOrdered
<1>3. i \in DOMAIN outbox /\ j \in DOMAIN outbox /\ SameEntity(j, i)
  <2>1. j \in DOMAIN outbox
    BY <1>1
  <2>2. i \in DOMAIN outbox /\ SameEntity(i, j)
    BY <1>2, <2>1, SameEntityStays
  <2> QED BY <2>1, <2>2 DEF SameEntity
<1>4. i \in 1..(j - 1)
  BY <1>2, <1>3, LenProperties DEF TypeOK, OutboxTypeOK
<1>5. \/ IsTerminalState(outbox'[i].localState)
      \/ IsBlockingState(outbox'[i].localState)
  BY <1>2, <1>3, <1>4, ClaimedFollow
<1>6. IsTerminalState(outbox'[i].localState) =>
        Decided(i)' \/ outbox'[i].scope \notin authorized'
  BY <1>2 DEF VerdictsHeld, VerdictTrue, Accepted, IsTerminalState
<1> QED BY <1>5, <1>6 DEF Passed

\* The event the server has just answered is passed.
LEMMA AnsweredIsPassed ==
  ASSUME NEW i \in DOMAIN outbox, NEW result, Process(i, result),
         UNCHANGED <<deviceVars, authorized>>
  PROVE  Passed(i)'
<1>1. UNCHANGED outbox /\ Intent(i)' = Intent(i)
  BY DEF Intent, deviceVars
<1>2. CASE outbox[i].scope \notin authorized
  BY <1>1, <1>2 DEF Passed
<1>3. CASE Decided(i) /\ UNCHANGED ledger
  BY <1>1, <1>3 DEF Passed, Decided
<1>4. CASE \E verdict : ledger' = Put(ledger, Intent(i), verdict)
  <2>1. Decided(i)'
    BY <1>1, <1>4 DEF Decided, Put
  <2> QED BY <2>1 DEF Passed
<1> QED BY <1>2, <1>3, <1>4 DEF Process, Decided, Intent

LEMMA RequestsStayOrdered ==
  ASSUME TypeOK, [Next]_vars, VerdictsHeld', RequestsOrdered
  PROVE  RequestsOrdered'
<1> SUFFICES ASSUME NEW R \in Requests' PROVE RequestOrdered(R)'
  BY DEF RequestsOrdered
<1>1. ASSUME NEW old \in Requests, NEW j \in old, NEW i \in DOMAIN outbox',
             i < j, SameEntity(i, j)', i \notin old
      PROVE  Passed(i)'
  <2>1. j \in DOMAIN outbox
    BY RequestsOfEvents
  <2>2. i \in DOMAIN outbox /\ SameEntity(i, j)
    BY <1>1, <2>1, SameEntityStays
  <2>3. Passed(i)
    BY <1>1, <2>2 DEF RequestsOrdered, RequestOrdered
  <2> QED BY <2>2, <2>3, PassedStays
<1>2. CASE R \in Requests
  BY <1>1, <1>2 DEF RequestOrdered
<1>3. CASE \E w \in Pushers, s \in Scopes : \E lapsed, due :
             /\ ClaimBatch(w, s, lapsed, due)
             /\ R = Batch(Eligible(SweptOutbox(s, lapsed), s, due))
  BY <1>3, ClaimedInOrder
<1>4. ASSUME NEW old \in Requests, NEW x \in DOMAIN outbox, NEW result,
             IsFirst(x, old), R = old \ {x}, Process(x, result),
             UNCHANGED <<deviceVars, authorized>>
      PROVE  RequestOrdered(R)'
  <2>1. Passed(x)'
    BY <1>4, AnsweredIsPassed
  <2> QED BY <1>1, <1>4, <2>1 DEF RequestOrdered
<1> QED BY <1>2, <1>3, <1>4, NextRequests

-----------------------------------------------------------------------------
(***************************************************************************)
(* Effects: known, once each, and in order.                                *)
(***************************************************************************)

\* Each change of this device is of one of its events, of its scope and
\* entity, that the server accepted.
WritersKnown ==
  \A s \in Scopes : \A p \in DOMAIN changelog[s] :
    changelog[s][p].writer # 0 =>
      \E i \in DOMAIN outbox :
        /\ changelog[s][p].writer = i
        /\ outbox[i].scope = s /\ outbox[i].entity = changelog[s][p].entity
        /\ Accepted(i)

WritesOnce ==
  \A s \in Scopes : \A p, q \in DOMAIN changelog[s] :
    changelog[s][p].writer = changelog[s][q].writer =>
      p = q \/ changelog[s][p].writer = 0

\* When an event has taken effect, the earlier ones of its entity are passed,
\* and the effects they have come before it.
EffectsPassed ==
  \A j \in DOMAIN outbox : \A q \in EffectAt(j) :
    \A i \in DOMAIN outbox : i < j /\ SameEntity(i, j) =>
      /\ Passed(i)
      /\ ~IsBlockingState(outbox[i].localState) => \A p \in EffectAt(i) : p < q

LEMMA AcceptedStays ==
  ASSUME TypeOK, [Next]_vars, NEW i \in DOMAIN outbox, Accepted(i)
  PROVE  Accepted(i)'
<1>1. VerdictTrue(i, "accepted")
  BY DEF VerdictTrue
<1>2. VerdictTrue(i, "accepted")'
  BY <1>1, VerdictStaysTrue
<1> QED BY <1>2 DEF VerdictTrue

LEMMA EffectIsAccepted ==
  ASSUME TypeOK, [Next]_vars, NEW i \in DOMAIN outbox, TakesEffect(i)
  PROVE  Accepted(i)'
<1>1. Intent(i)' = Intent(i)
  BY EventsStay DEF Identity, Intent
<1> QED BY <1>1 DEF TakesEffect, Accepted, Decided, Put

LEMMA WritersStayKnown ==
  ASSUME TypeOK, [Next]_vars, WritersKnown
  PROVE  WritersKnown'
<1> SUFFICES ASSUME NEW s \in Scopes, NEW p \in DOMAIN changelog'[s],
                    changelog'[s][p].writer # 0
             PROVE  \E i \in DOMAIN outbox' :
                      /\ changelog'[s][p].writer = i
                      /\ outbox'[i].scope = s
                      /\ outbox'[i].entity = changelog'[s][p].entity
                      /\ Accepted(i)'
  BY DEF WritersKnown
<1>1. \A i \in DOMAIN outbox : /\ i \in DOMAIN outbox'
                               /\ outbox'[i].scope = outbox[i].scope
                               /\ outbox'[i].entity = outbox[i].entity
  BY EventsStay DEF Identity
<1>2. CASE p \in DOMAIN changelog[s]
  <2>1. changelog'[s][p] = changelog[s][p]
    BY <1>2, ChangelogGrows
  <2>2. PICK i \in DOMAIN outbox :
          /\ changelog[s][p].writer = i
          /\ outbox[i].scope = s /\ outbox[i].entity = changelog[s][p].entity
          /\ Accepted(i)
    BY <1>2, <2>1 DEF WritersKnown
  <2>3. Accepted(i)'
    BY <2>2, AcceptedStays
  <2> QED BY <1>1, <2>1, <2>2, <2>3
<1>3. CASE NewChange(s, p)
  <2>1. PICK i \in DOMAIN outbox :
          /\ changelog'[s][p].writer = i
          /\ outbox[i].scope = s /\ outbox[i].entity = changelog'[s][p].entity
          /\ TakesEffect(i)
    BY <1>3 DEF NewChange
  <2>2. Accepted(i)'
    BY <2>1, EffectIsAccepted
  <2> QED BY <1>1, <2>1, <2>2
<1> QED BY <1>2, <1>3, ChangelogGrows
LEMMA WritesStayOnce ==
  ASSUME TypeOK, [Next]_vars, WritersKnown, WritesOnce
  PROVE  WritesOnce'
<1> SUFFICES ASSUME NEW s \in Scopes,
                    NEW p \in DOMAIN changelog'[s], NEW q \in DOMAIN changelog'[s],
                    changelog'[s][p].writer = changelog'[s][q].writer,
                    changelog'[s][p].writer # 0
             PROVE  p = q
  BY DEF WritesOnce
<1>1. ASSUME NEW x \in DOMAIN changelog[s], NEW y, NewChange(s, y),
             changelog'[s][x].writer = changelog'[s][y].writer,
             changelog'[s][x].writer # 0
      PROVE  FALSE
  <2>1. PICK i \in DOMAIN outbox : changelog'[s][y].writer = i /\ TakesEffect(i)
    BY <1>1 DEF NewChange
  <2>2. changelog[s][x].writer = i
    BY <1>1, <2>1, ChangelogGrows
  <2>3. Accepted(i)
    BY <1>1, <2>1, <2>2 DEF WritersKnown
  <2> QED BY <2>1, <2>3 DEF TakesEffect, Accepted
<1>2. CASE p \in DOMAIN changelog[s] /\ q \in DOMAIN changelog[s]
  <2>1. changelog'[s][p] = changelog[s][p] /\ changelog'[s][q] = changelog[s][q]
    BY <1>2, ChangelogGrows
  <2> QED BY <1>2, <2>1 DEF WritesOnce
<1>3. CASE NewChange(s, p) /\ NewChange(s, q)
  BY <1>3 DEF NewChange
<1> QED BY <1>1, <1>2, <1>3, ChangelogGrows

\* Where an event's effect comes from, in a step.
LEMMA EffectStep ==
  ASSUME TypeOK, TypeOK', [Next]_vars, WritersKnown,
         NEW j \in DOMAIN outbox', NEW q \in EffectAt(j)'
  PROVE  /\ j \in DOMAIN outbox /\ outbox[j].scope \in Scopes
         /\ \/ q \in EffectAt(j)
            \/ /\ q = Len(changelog[outbox[j].scope]) + 1
               /\ TakesEffect(j)
               /\ \E R \in Requests : IsFirst(j, R)
<1> DEFINE s == outbox'[j].scope
<1>1. j \in Nat \ {0} /\ s \in Scopes
  <2>1. outbox'[j] \in Entries /\ j \in Nat \ {0}
    BY LenProperties, ElementOfSeq DEF TypeOK, OutboxTypeOK
  <2> QED BY <2>1 DEF Entries
<1>2. q \in DOMAIN changelog'[s] /\ changelog'[s][q].writer = j
  BY DEF EffectAt
<1>3. CASE q \in DOMAIN changelog[s]
  <2>1. changelog[s][q].writer = j
    BY <1>1, <1>2, <1>3, ChangelogGrows
  <2>2. j \in DOMAIN outbox
    BY <1>1, <1>3, <2>1 DEF WritersKnown
  <2>3. outbox[j].scope = s
    BY <2>2, EventsStay DEF Identity
  <2> HIDE DEF s
  <2>4. q \in EffectAt(j)
    BY <1>3, <2>1, <2>3 DEF EffectAt
  <2> QED BY <1>1, <2>2, <2>3, <2>4
<1>4. CASE NewChange(s, q)
  <2>1. /\ q = Len(changelog[s]) + 1
        /\ \E i \in DOMAIN outbox, R \in Requests :
             /\ IsFirst(i, R) /\ TakesEffect(i) /\ changelog'[s][q].writer = i
    BY <1>1, <1>2, <1>4 DEF NewChange
  <2>2. j \in DOMAIN outbox /\ TakesEffect(j) /\ \E R \in Requests : IsFirst(j, R)
    BY <1>2, <2>1
  <2>3. outbox[j].scope = s
    BY <2>2, EventsStay DEF Identity
  <2> HIDE DEF s
  <2> QED BY <1>1, <2>1, <2>2, <2>3
<1> QED BY <1>1, <1>2, <1>3, <1>4, ChangelogGrows

LEMMA EffectsStayPassed ==
  ASSUME TypeOK, TypeOK', [Next]_vars, WritersKnown, RequestsOrdered, EffectsPassed
  PROVE  EffectsPassed'
<1> SUFFICES ASSUME NEW j \in DOMAIN outbox', NEW q \in EffectAt(j)',
                    NEW i \in DOMAIN outbox', i < j, SameEntity(i, j)'
             PROVE  /\ Passed(i)'
                    /\ ~IsBlockingState(outbox'[i].localState) =>
                         \A p \in EffectAt(i)' : p < q
  BY DEF EffectsPassed
<1>1. j \in DOMAIN outbox
  BY EffectStep
<1>2. i \in DOMAIN outbox /\ SameEntity(i, j) /\ i \in Nat /\ j \in Nat
  BY <1>1, SameEntityStays
<1>3. Passed(i)
  <2>1. CASE q \in EffectAt(j)
    BY <1>1, <1>2, <2>1 DEF EffectsPassed
  <2>2. ASSUME NEW R \in Requests, IsFirst(j, R) PROVE Passed(i)
    <3>1. j \in R /\ i \notin R
      BY <1>2, <2>2 DEF IsFirst
    <3> QED BY <1>2, <3>1 DEF RequestsOrdered, RequestOrdered
  <2> QED BY <2>1, <2>2, EffectStep
<1>4. ASSUME ~IsBlockingState(outbox'[i].localState), NEW p \in EffectAt(i)'
      PROVE  p < q
  <2>1. ~IsBlockingState(outbox[i].localState)
    BY <1>2, <1>4, ReviewStays
  <2>2. ~TakesEffect(i)
    BY <1>3, <2>1 DEF Passed, TakesEffect
  <2>3. p \in EffectAt(i)
    BY <1>4, <2>2, EffectStep
  <2>4. CASE q \in EffectAt(j)
    BY <1>1, <1>2, <2>1, <2>3, <2>4 DEF EffectsPassed
  <2>5. CASE q = Len(changelog[outbox[j].scope]) + 1
    <3>1. p \in DOMAIN changelog[outbox[j].scope]
      BY <1>2, <2>3 DEF EffectAt, SameEntity
    <3>2. changelog[outbox[j].scope] \in Seq(Changes)
      BY EffectStep DEF TypeOK, ServerTypeOK
    <3> QED BY <2>5, <3>1, <3>2, LenProperties
  <2> QED BY <2>4, <2>5, EffectStep
<1> QED BY <1>2, <1>3, <1>4, PassedStays

EffectsInvariant ==
  RequestsOrdered /\ WritersKnown /\ WritesOnce /\ EffectsPassed

LEMMA EffectsKept == Spec => []EffectsInvariant
<1>1. Init => EffectsInvariant
  <2> SUFFICES ASSUME Init PROVE EffectsInvariant
    OBVIOUS
  <2>1. Requests = {}
    BY DEF Init, Requests
  <2>2. \A s \in Scopes : changelog[s] = <<>>
    BY DEF Init
  <2>3. outbox = <<>>
    BY DEF Init
  <2> QED BY <2>1, <2>2, <2>3
          DEF EffectsInvariant, RequestsOrdered, WritersKnown, WritesOnce,
              EffectsPassed
<1>2. TypeOK /\ TypeOK' /\ (AnswersTrue /\ VerdictsHeld)'
        /\ EffectsInvariant /\ [Next]_vars => EffectsInvariant'
  BY RequestsStayOrdered, WritersStayKnown, WritesStayOnce, EffectsStayPassed
     DEF EffectsInvariant
<1> QED BY <1>1, <1>2, TypeCorrect, VerdictsInvariant, PTL DEF Spec

\* Each event takes effect at most once, and before any later event of its
\* entity, unless it was left to review: whatever batches, retries, failures
\* and requests given up do to one another.
THEOREM OrderOfEffects == Spec => []EffectsInOrder
<1>1. TypeOK /\ EffectsInvariant => EffectsInOrder
  <2> SUFFICES ASSUME TypeOK, EffectsInvariant,
                      NEW i \in DOMAIN outbox, NEW j \in DOMAIN outbox,
                      i < j, SameEntity(i, j)
               PROVE  /\ Cardinality(EffectAt(i)) <= 1
                      /\ ~IsBlockingState(outbox[i].localState) =>
                           \A p \in EffectAt(i), q \in EffectAt(j) : p < q
    BY DEF EffectsInOrder
  <2>1. Cardinality(EffectAt(i)) <= 1
    <3>1. \A p, q \in EffectAt(i) : p = q
      BY EventType DEF EffectAt, EffectsInvariant, WritesOnce
    <3>2. CASE EffectAt(i) = {}
      BY <3>2, FS_EmptySet
    <3>3. CASE \E p : EffectAt(i) = {p}
      <4>1. PICK p : EffectAt(i) = {p}
        BY <3>3
      <4>2. Cardinality({p}) = 1
        BY FS_Singleton
      <4> QED BY <4>1, <4>2
    <3>4. EffectAt(i) = {} \/ \E p : EffectAt(i) = {p}
      BY <3>1
    <3> QED BY <3>2, <3>3, <3>4
  <2> QED BY <2>1 DEF EffectsInvariant, EffectsPassed
<1> QED BY <1>1, TypeCorrect, EffectsKept, PTL
-----------------------------------------------------------------------------
(***************************************************************************)
(* The engine implements SyncPromise: each step is a step of the promise,  *)
(* or changes nothing it speaks of.                                        *)
(***************************************************************************)

\* An intent of the outbox is known at the stage of its one event.
LEMMA StageOfEvent ==
  ASSUME TypeOK, Hydratable, NEW i \in DOMAIN outbox
  PROVE  /\ Intent(i) \in Scopes \X Keys
         /\ StageOfIntents[Intent(i)] = StageOf(outbox[i].localState)
<1>1. /\ outbox[i] \in Entries /\ i \in Nat
      /\ \A j \in DOMAIN outbox : j \in Nat
  BY EventType
<1>2. Intent(i) \in Scopes \X Keys
  BY <1>1 DEF Intent, Entries
<1>3. ASSUME NEW j \in EventOf(Intent(i)) PROVE j = i
  <2>1. /\ j \in DOMAIN outbox /\ j \in Nat
        /\ outbox[j].scope = outbox[i].scope /\ outbox[j].key = outbox[i].key
    BY <1>1 DEF EventOf, Intent
  <2>2. ~(i < j) /\ ~(j < i)
    BY <2>1 DEF Hydratable
  <2> QED BY <1>1, <2>1, <2>2
<1>4. EventOf(Intent(i)) = {i}
  BY <1>3 DEF EventOf, Intent
<1>5. Min({i}) = i
  BY <1>1, MinIsElement
<1> QED BY <1>2, <1>4, <1>5 DEF StageOfIntents

\* An intent without an event is unknown.
LEMMA StageOfUnknown ==
  ASSUME NEW intent \in Scopes \X Keys, intent \notin {Intent(i) : i \in DOMAIN outbox}
  PROVE  StageOfIntents[intent] = "unknown"
<1>1. EventOf(intent) = {}
  BY DEF EventOf, Intent
<1> QED BY <1>1 DEF StageOfIntents

LEMMA StagesAreStages ==
  ASSUME TypeOK, Hydratable
  PROVE  StageOfIntents \in [Scopes \X Keys -> Promise!Stages]
<1>1. StageOfIntents = [intent \in Scopes \X Keys |-> StageOfIntents[intent]]
  BY DEF StageOfIntents
<1>2. ASSUME NEW intent \in Scopes \X Keys
      PROVE  StageOfIntents[intent] \in Promise!Stages
  <2>1. CASE intent \in {Intent(i) : i \in DOMAIN outbox}
    <3>1. PICK i \in DOMAIN outbox : intent = Intent(i)
      BY <2>1
    <3> QED BY <3>1, StageOfEvent DEF StageOf, Promise!Stages
  <2>2. CASE intent \notin {Intent(i) : i \in DOMAIN outbox}
    BY <2>2, StageOfUnknown DEF Promise!Stages
  <2> QED BY <2>1, <2>2
<1> QED BY <1>1, <1>2

\* Only a revocation changes what the server authorises.
LEMMA AuthorizedStays ==
  ASSUME [Next]_vars, "revoke" \notin Faults
  PROVE  UNCHANGED authorized
<1>1. CASE Host
  <2>1. UNCHANGED serverVars
    BY <1>1 DEF Host, Enqueue, ResolveBlockingEvent, ResetScopeForResync
  <2> QED BY <2>1 DEF serverVars
<1>2. CASE Push
  <2>1. ASSUME NEW w, NEW s, NEW lapsed, NEW due, ClaimBatch(w, s, lapsed, due)
        PROVE  UNCHANGED serverVars
    BY <2>1 DEF ClaimBatch
  <2>2. UNCHANGED serverVars \/ UNCHANGED authorized
    BY <1>2, <2>1 DEF Push, PushAnswered, PushFailed, PushCommitFails
  <2> QED BY <2>2 DEF serverVars
<1>3. CASE Pull
  BY <1>3 DEF Pull, PullRead, PullPage, PullCursorLost, PullRevoked, PullFails,
              serverVars
<1>4. CASE Server
  BY <1>4 DEF Server, ServerProcess, ServerProcessLate, ServerAnswersPull,
              ForeignCommit, RevokeAuthorization, serverVars
<1>5. CASE Crash \/ UNCHANGED vars
  BY <1>5 DEF Crash, vars, serverVars
<1> QED BY <1>1, <1>2, <1>3, <1>4, <1>5 DEF Next
\* What the three lemmas above say of a state, to be used of the next one too.
StagesKnown ==
  /\ StageOfIntents \in [Scopes \X Keys -> Promise!Stages]
  /\ \A i \in DOMAIN outbox :
       /\ Intent(i) \in Scopes \X Keys
       /\ StageOfIntents[Intent(i)] = StageOf(outbox[i].localState)
  /\ \A intent \in Scopes \X Keys :
       \/ StageOfIntents[intent] = "unknown"
       \/ \E i \in DOMAIN outbox : intent = Intent(i)

LEMMA StagesAlwaysKnown == TypeOK /\ Hydratable => StagesKnown
<1> SUFFICES ASSUME TypeOK, Hydratable PROVE StagesKnown
  OBVIOUS
<1>1. ASSUME NEW intent \in Scopes \X Keys, StageOfIntents[intent] # "unknown"
      PROVE  \E i \in DOMAIN outbox : intent = Intent(i)
  BY <1>1, StageOfUnknown
<1> QED BY <1>1, StageOfEvent, StagesAreStages DEF StagesKnown

\* How the stage of an event may change.
LEMMA StageStep ==
  ASSUME NEW old \in OutboxStates, NEW new,
         new = old \/ new \in OutboxTransitions[old],
         StageOf(new) # StageOf(old)
  PROVE  /\ StageOf(old) = "queued"
         /\ \/ StageOf(new) = "done" /\ new \in {"accepted", "duplicate"}
            \/ StageOf(new) = "refused" /\ new = "rejected"
            \/ StageOf(new) = "review"
BY DEF StageOf, OutboxTransitions, OutboxStates, IsBlockingState

\* A step that changes events in place settles some, truthfully.
LEMMA SettleStep ==
  ASSUME TypeOK, [Next]_vars, StagesKnown, StagesKnown', VerdictsHeld',
         authorized' = Scopes, DOMAIN outbox' = DOMAIN outbox, UNCHANGED ledger
  PROVE  Promise!Settle
<1>1. AppliedIntents' = AppliedIntents
  BY DEF AppliedIntents
<1>2. ASSUME NEW intent \in Scopes \X Keys,
             StageOfIntents'[intent] # StageOfIntents[intent]
      PROVE  /\ StageOfIntents[intent] = "queued"
             /\ \/ StageOfIntents'[intent] = "done" /\ intent \in AppliedIntents
                \/ StageOfIntents'[intent] = "refused" /\ intent \notin AppliedIntents
                \/ StageOfIntents'[intent] = "review"
  <2>1. \A i \in DOMAIN outbox : Intent(i)' = Intent(i)
    BY EventsStay DEF Identity, Intent
  <2>2. PICK i \in DOMAIN outbox : intent = Intent(i)
    BY <1>2, <2>1 DEF StagesKnown
  <2>3. /\ intent = Intent(i)'
        /\ StageOfIntents[intent] = StageOf(outbox[i].localState)
        /\ StageOfIntents'[intent] = StageOf(outbox'[i].localState)
    BY <2>1, <2>2 DEF StagesKnown
  <2>4. PICK old, new : old = outbox[i].localState /\ new = outbox'[i].localState
    OBVIOUS
  <2>5. /\ old \in OutboxStates
        /\ new = old \/ new \in OutboxTransitions[old]
    BY <2>4, EventType, EventsStay DEF Entries, EntryStep
  <2>6. /\ StageOf(old) = "queued"
        /\ \/ StageOf(new) = "done" /\ new \in {"accepted", "duplicate"}
           \/ StageOf(new) = "refused" /\ new = "rejected"
           \/ StageOf(new) = "review"
    BY <1>2, <2>3, <2>4, <2>5, StageStep
  <2>7. VerdictTrue(i, new)'
    BY <2>4 DEF VerdictsHeld, VerdictTrue
  <2>8. outbox'[i].scope \in Scopes
    BY NextType, EventType, EventsStay DEF Identity
  <2>9. new \in {"accepted", "duplicate"} => intent \in AppliedIntents
    BY <2>3, <2>7 DEF VerdictTrue, Accepted, Decided, AppliedIntents
  <2>10. new = "rejected" => intent \notin AppliedIntents
    BY <2>3, <2>7, <2>8 DEF VerdictTrue, Decided, AppliedIntents
  <2> QED BY <2>3, <2>4, <2>6, <2>9, <2>10
<1> QED BY <1>1, <1>2 DEF Promise!Settle, StagesKnown

\* Enqueuing an event records its intent.
LEMMA RecordStep ==
  ASSUME TypeOK, [Next]_vars, StagesKnown, StagesKnown', UNCHANGED ledger,
         NEW entry \in Entries, outbox' = Append(outbox, entry), NewEntry(entry)
  PROVE  \E intent \in Scopes \X Keys : Promise!Record(intent)
<1> DEFINE intent == <<entry.scope, entry.key>>
<1> PICK n : n = Len(outbox) + 1
  OBVIOUS
<1>1. /\ DOMAIN outbox = 1..Len(outbox) /\ Len(outbox) \in Nat
      /\ \A i \in DOMAIN outbox : i \in DOMAIN outbox' /\ outbox'[i] = outbox[i]
      /\ \A i \in DOMAIN outbox' : i \in DOMAIN outbox \/ i = n
      /\ n \in DOMAIN outbox' /\ outbox'[n] = entry
  <2>1. outbox \in Seq(Entries)
    BY DEF TypeOK, OutboxTypeOK
  <2> QED BY <2>1, AppendedAt
<1>2. Intent(n)' = intent /\ \A i \in DOMAIN outbox : Intent(i)' = Intent(i)
  BY <1>1 DEF Intent
<1>3. intent \in Scopes \X Keys
  BY DEF Entries
<1>4. \A i \in DOMAIN outbox : Intent(i) # intent
  BY DEF NewEntry, KeyUsed, Intent
<1> HIDE DEF intent
<1>5. StageOfIntents[intent] = "unknown"
  BY <1>3, <1>4 DEF StagesKnown
<1>6. StageOfIntents'[intent] = "queued"
  <2>1. StageOfIntents'[intent] = StageOf("pending")
    BY <1>1, <1>2 DEF StagesKnown, NewEntry
  <2> QED BY <2>1 DEF StageOf, IsBlockingState
<1>7. ASSUME NEW x \in Scopes \X Keys, x # intent
      PROVE  StageOfIntents'[x] = StageOfIntents[x]
  <2>1. ASSUME NEW i \in DOMAIN outbox, x = Intent(i)
        PROVE  StageOfIntents'[x] = StageOfIntents[x]
    BY <1>1, <1>2, <2>1 DEF StagesKnown
  <2>2. CASE \A i \in DOMAIN outbox : x # Intent(i)
    <3>1. \A i \in DOMAIN outbox' : x # Intent(i)'
      BY <1>1, <1>2, <1>7, <2>2
    <3> QED BY <2>2, <3>1 DEF StagesKnown
  <2> QED BY <2>1, <2>2
<1>8. StageOfIntents' = [StageOfIntents EXCEPT ![intent] = "queued"]
  BY <1>3, <1>6, <1>7 DEF StagesKnown
<1>9. AppliedIntents' = AppliedIntents
  BY DEF AppliedIntents
<1>10. Promise!Record(intent)
  BY <1>5, <1>8, <1>9 DEF Promise!Record
<1> QED BY <1>3, <1>10

\* The server accepting an event makes its intent take effect.
LEMMA TakeEffectStep ==
  ASSUME TypeOK, [Next]_vars, StagesKnown, StagesKnown', VerdictsHeld,
         UNCHANGED outbox, NEW i \in DOMAIN outbox, TakesEffect(i)
  PROVE  \E intent \in Scopes \X Keys : Promise!TakeEffect(intent)
<1>1. /\ outbox[i].scope \in authorized /\ ~Decided(i)
      /\ ledger' = Put(ledger, Intent(i), "accepted")
  BY DEF TakesEffect
<1>2. /\ Intent(i) \in Scopes \X Keys
      /\ StageOfIntents[Intent(i)] = StageOf(outbox[i].localState)
  BY DEF StagesKnown
<1>3. AppliedIntents' = AppliedIntents \union {Intent(i)}
  BY <1>1 DEF AppliedIntents, Decided, Put
<1>4. Intent(i) \notin AppliedIntents
  BY <1>1 DEF AppliedIntents, Decided
<1>5. StageOfIntents' = StageOfIntents
  BY DEF StageOfIntents, EventOf
<1>6. outbox[i].localState \notin {"accepted", "duplicate", "rejected"}
  BY <1>1 DEF VerdictsHeld, VerdictTrue, Accepted
<1>7. StageOf(outbox[i].localState) \in {"queued", "review"}
  BY <1>6 DEF StageOf
<1>8. Promise!TakeEffect(Intent(i))
  BY <1>2, <1>3, <1>4, <1>5, <1>7 DEF Promise!TakeEffect
<1> QED BY <1>2, <1>8
\* Each step of the engine, its transport and the server is one of the promise.
LEMMA PromiseStep ==
  ASSUME TypeOK, [Next]_vars, StagesKnown, StagesKnown', VerdictsHeld,
         VerdictsHeld', authorized' = Scopes
  PROVE  [Promise!Next]_<<StageOfIntents, AppliedIntents>>
<1>1. CASE UNCHANGED ledger
  <2>1. ASSUME NEW entry \in Entries, outbox' = Append(outbox, entry), NewEntry(entry)
        PROVE  Promise!Next
    <3>1. \E intent \in Scopes \X Keys : Promise!Record(intent)
      BY <1>1, <2>1, RecordStep
    <3> QED BY <3>1 DEF Promise!Next
  <2>2. CASE DOMAIN outbox' = DOMAIN outbox
    <3>1. Promise!Settle
      BY <1>1, <2>2, SettleStep
    <3> QED BY <3>1 DEF Promise!Next
  <2> QED BY <2>1, <2>2, NextOutboxStep DEF OutboxStep
<1>2. CASE /\ UNCHANGED deviceVars
           /\ \E i \in DOMAIN outbox : TakesEffect(i)
  <2>1. UNCHANGED outbox
    BY <1>2 DEF deviceVars
  <2>2. \E intent \in Scopes \X Keys : Promise!TakeEffect(intent)
    BY <1>2, <2>1, TakeEffectStep
  <2> QED BY <2>2 DEF Promise!Next
<1>3. ASSUME UNCHANGED deviceVars, NEW i \in DOMAIN outbox,
             NEW verdict \in Verdicts \ {"accepted"}, IsRefused(i, verdict)
      PROVE  UNCHANGED <<StageOfIntents, AppliedIntents>>
  <2>1. /\ UNCHANGED outbox
        /\ ~Decided(i) /\ ledger' = Put(ledger, Intent(i), verdict)
    BY <1>3 DEF deviceVars, IsRefused
  <2>2. StageOfIntents' = StageOfIntents
    BY <2>1 DEF StageOfIntents, EventOf
  <2>3. AppliedIntents' = AppliedIntents
    BY <2>1 DEF AppliedIntents, Decided, Put
  <2> QED BY <2>2, <2>3
<1> QED BY <1>1, <1>2, <1>3, NextServerMove DEF ServerMove

\* Nothing is known and nothing has taken effect at the start.
LEMMA PromiseInit == Init => Promise!Init
BY DEF Init, Promise!Init, StageOfIntents, EventOf, AppliedIntents

\* Whatever happens to calls, responses and the process, an intent takes effect
\* at most once and only after it was recorded, and the device says done or
\* refused only of what did or did not take effect: the engine implements
\* SyncPromise, as long as the server revokes no scope.  With a revocation it
\* does not, see the README.
THEOREM PromiseKept ==
  ASSUME "revoke" \notin Faults
  PROVE  Spec => ImplementsPromise
<1>1. Init => Promise!Init /\ authorized = Scopes
  BY PromiseInit DEF Init
<1>2. authorized = Scopes /\ [Next]_vars => (authorized = Scopes)'
  BY AuthorizedStays
<1>3. /\ TypeOK /\ [Next]_vars /\ StagesKnown /\ StagesKnown'
      /\ VerdictsHeld /\ VerdictsHeld' /\ (authorized = Scopes)'
      => [Promise!Next]_<<StageOfIntents, AppliedIntents>>
  BY PromiseStep
<1> QED BY <1>1, <1>2, <1>3, TypeCorrect, HydratableKept, StagesAlwaysKnown,
           VerdictsInvariant, PTL DEF Spec, ImplementsPromise, Promise!Spec
-----------------------------------------------------------------------------
(***************************************************************************)
(* The replica: what a step may do to what the device knows of an entity.  *)
(***************************************************************************)

\* A push is of events of its own scope.
PushScopes ==
  \A w \in Pushers : pushes[w] # Null =>
    \A i \in pushes[w].claimed : outbox[i].scope = pushes[w].scope

LEMMA PushScopesStay ==
  ASSUME TypeOK, [Next]_vars, PushScopes
  PROVE  PushScopes'
<1> SUFFICES ASSUME NEW w \in Pushers, pushes'[w] # Null, NEW i \in pushes'[w].claimed
             PROVE  outbox'[i].scope = pushes'[w].scope
  BY DEF PushScopes
<1>1. ASSUME pushes[w] # Null, i \in pushes[w].claimed,
             pushes'[w].scope = pushes[w].scope
      PROVE  outbox'[i].scope = pushes'[w].scope
  <2>1. i \in DOMAIN outbox
    BY <1>1, ResultsOfClaimed
  <2> QED BY <1>1, <2>1, EventsStay DEF Identity, PushScopes
<1>2. CASE UNCHANGED pushes[w]
  BY <1>1, <1>2
<1>3. ASSUME NEW s \in Scopes, NEW lapsed, NEW due,
             i \in Batch(Eligible(SweptOutbox(s, lapsed), s, due)),
             pushes'[w].scope = s
      PROVE  outbox'[i].scope = pushes'[w].scope
  <2>1. /\ i \in DOMAIN SweptOutbox(s, lapsed)
        /\ SweptOutbox(s, lapsed)[i].scope = s
    BY <1>3 DEF Batch, Eligible
  <2>2. i \in DOMAIN outbox
    BY <2>1 DEF SweptOutbox
  <2>3. outbox[i].scope = s
    BY <2>1, <2>2, EventType, SweptStep DEF SweptOutbox, EntryStep, Identity
  <2> QED BY <1>3, <2>2, <2>3, EventsStay DEF Identity
<1>4. ASSUME NEW s \in Scopes, NEW lapsed, NEW due,
             pushes'[w] = [scope |-> s, results |-> <<>>,
                           claimed |-> Batch(Eligible(SweptOutbox(s, lapsed), s, due))]
      PROVE  outbox'[i].scope = pushes'[w].scope
  <2> DEFINE claimed == Batch(Eligible(SweptOutbox(s, lapsed), s, due))
  <2> HIDE DEF claimed
  <2>1. pushes'[w] = [scope |-> s, results |-> <<>>, claimed |-> claimed]
    BY <1>4 DEF claimed
  <2>2. i \in claimed /\ pushes'[w].scope = s
    BY <2>1
  <2> QED BY <1>3, <2>2 DEF claimed
<1>5. CASE ServerProcess(w)
  BY <1>1, <1>5, ProcessedPush
<1> QED BY <1>2, <1>4, <1>5, NextPushMove DEF PushMove

\* Entity k is restored, or forgotten if it did not exist before, because its
\* pending event has just been rejected.
Undone(k) ==
  /\ k \in DOMAIN replica
  /\ replica[k].pendingEventId \in DOMAIN outbox
  /\ outbox[replica[k].pendingEventId].localState = "sending"
  /\ outbox'[replica[k].pendingEventId].localState = "rejected"
  /\ k \in DOMAIN replica' => replica'[k] = Restored(replica[k])

\* A new event writes entity k.
Written(k) ==
  \E s \in Scopes, key \in Keys, entity \in Entities, operation \in Operations :
    /\ k = <<s, entity>>
    /\ Enqueue(s, key, entity, operation)

\* A page brings entity k up to a change.
Pulled(k) ==
  /\ PullPage
  /\ k \in {pull.scope} \X Entities
  /\ Winning(k) # {}
  /\ replica'[k] = Merged(k, changelog[pull.scope][Max(Winning(k))])

ReplicaMove(k) ==
  \/ k \in DOMAIN replica /\ k \in DOMAIN replica' /\ replica'[k] = replica[k]
  \/ k \notin DOMAIN replica /\ k \notin DOMAIN replica'
  \/ Undone(k)
  \/ k \in DOMAIN replica' /\ Written(k)
  \/ k \in DOMAIN replica' /\ Pulled(k)

\* The outcome of a push undoes what it rejects.
LEMMA RevertedReplica ==
  ASSUME TypeOK, NEW w \in Pushers, NEW learnt, OutcomeOf(w, learnt)
  PROVE  replica' = RevertRejected(pushes[w].scope,
           {i \in Current(w) : Told(w, learnt, i).localState = "rejected"})
<1> DEFINE told == [x \in DOMAIN outbox |->
                      IF x \in Current(w) THEN NextEntryState(outbox[x], learnt[x])
                      ELSE outbox[x]]
<1>1. replica' = RevertRejected(pushes[w].scope,
                   {i \in Current(w) : told[i].localState = "rejected"})
  BY DEF OutcomeOf, ApplyPushOutcome
<1>2. Current(w) \subseteq DOMAIN outbox
  BY ResultsOfClaimed DEF OutcomeOf, Current
<1>3. {i \in Current(w) : told[i].localState = "rejected"}
      = {i \in Current(w) : Told(w, learnt, i).localState = "rejected"}
  BY <1>2 DEF Told
<1> HIDE DEF told
<1> QED BY <1>1, <1>3

\* The outcome of a push touches nothing else.
LEMMA OutcomeReplica ==
  ASSUME TypeOK, NEW w \in Pushers, NEW learnt, OutcomeOf(w, learnt), NEW k
  PROVE  ReplicaMove(k)
<1> DEFINE rejected == {i \in Current(w) : Told(w, learnt, i).localState = "rejected"}
           hit == k[1] = pushes[w].scope /\ replica[k].pendingEventId \in rejected
<1>1. rejected \subseteq DOMAIN outbox
  BY ResultsOfClaimed DEF OutcomeOf, Current
<1>2. ASSUME k \in DOMAIN replica, hit
      PROVE  /\ outbox[replica[k].pendingEventId].localState = "sending"
             /\ outbox'[replica[k].pendingEventId].localState = "rejected"
  <2>1. replica[k].pendingEventId \in DOMAIN outbox
    BY <1>1, <1>2
  <2>2. outbox'[replica[k].pendingEventId] = Told(w, learnt, replica[k].pendingEventId)
    BY <1>2, <2>1, OutcomeEntries
  <2> QED BY <1>2, <2>2 DEF Current
<1>3. replica' = RevertRejected(pushes[w].scope, rejected)
  BY RevertedReplica
<1> HIDE DEF rejected
<1>4. CASE k \in DOMAIN replica /\ hit
  BY <1>1, <1>2, <1>3, <1>4 DEF ReplicaMove, Undone, RevertRejected
<1>5. CASE k \in DOMAIN replica /\ ~hit
  BY <1>3, <1>5 DEF ReplicaMove, RevertRejected
<1>6. CASE k \notin DOMAIN replica
  BY <1>3, <1>6 DEF ReplicaMove, RevertRejected
<1> QED BY <1>4, <1>5, <1>6

\* Whatever is known of an entity changes in one of these ways.
LEMMA NextReplicaMove ==
  ASSUME TypeOK, [Next]_vars, NEW k
  PROVE  ReplicaMove(k)
<1>1. CASE UNCHANGED replica
  BY <1>1 DEF ReplicaMove
<1>2. ASSUME NEW s \in Scopes, NEW key \in Keys, NEW entity \in Entities,
             NEW operation \in Operations, Enqueue(s, key, entity, operation)
      PROVE  ReplicaMove(k)
  <2>1. PICK e : e = <<s, entity>>
    OBVIOUS
  <2>2. replica' = Put(replica, e, OptimisticWrite(e, Len(outbox) + 1, operation))
    BY <1>2, <2>1 DEF Enqueue
  <2>3. CASE k = e
    BY <1>2, <2>1, <2>2, <2>3 DEF Put, ReplicaMove, Written
  <2>4. CASE k # e
    BY <2>2, <2>4 DEF Put, ReplicaMove
  <2> QED BY <2>3, <2>4
<1>3. CASE PullPage
  <2> DEFINE touched == {x \in {pull.scope} \X Entities : Winning(x) # {}}
  <2>1. \/ UNCHANGED replica
        \/ replica' = [x \in DOMAIN replica \union touched |->
                         IF x \in touched
                         THEN Merged(x, changelog[pull.scope][Max(Winning(x))])
                         ELSE replica[x]]
    BY <1>3 DEF PullPage
  <2>2. CASE k \in touched
    BY <1>1, <1>3, <2>1, <2>2 DEF ReplicaMove, Pulled
  <2>3. CASE k \notin touched
    BY <1>1, <2>1, <2>3 DEF ReplicaMove
  <2> QED BY <2>2, <2>3
<1>4. CASE Host
  BY <1>1, <1>2, <1>4 DEF Host, ResolveBlockingEvent, ResetScopeForResync
<1>5. CASE Push
  <2>1. ASSUME NEW w \in Pushers,
               \/ PushAnswered(w)
               \/ \E failure \in {"unavailable", "refused", "call_revoked"} :
                    PushFailed(w, failure)
        PROVE  ReplicaMove(k)
    BY <2>1, PushEnds, OutcomeReplica
  <2> QED BY <1>1, <1>5, <2>1 DEF Push, ClaimBatch, PushCommitFails, deviceVars
<1>6. CASE Pull
  BY <1>1, <1>3, <1>6
     DEF Pull, PullRead, PullCursorLost, PullRevoked, PullFails, deviceVars
<1>7. CASE Server \/ Crash \/ UNCHANGED vars
  BY <1>1, <1>7 DEF Server, ServerProcess, ServerProcessLate, ServerAnswersPull,
     ForeignCommit, RevokeAuthorization, Crash, vars, deviceVars
<1> QED BY <1>4, <1>5, <1>6, <1>7 DEF Next

\* Only enqueuing adds an event.
LEMMA NewEventIsWritten ==
  ASSUME TypeOK, [Next]_vars, NEW i \in DOMAIN outbox' \ DOMAIN outbox
  PROVE  \E s \in Scopes, key \in Keys, entity \in Entities, operation \in Operations :
           /\ Enqueue(s, key, entity, operation)
           /\ outbox'[i].scope = s /\ outbox'[i].entity = entity
           /\ i = Len(outbox) + 1
<1>1. lastLocalSequence \in Nat /\ lastLocalSequence' = lastLocalSequence + 1
  BY EventsStay DEF NewEntry, TypeOK, OutboxTypeOK
<1>2. ~UNCHANGED lastLocalSequence
  BY <1>1
<1>3. \E s \in Scopes, key \in Keys, entity \in Entities, operation \in Operations :
        Enqueue(s, key, entity, operation)
  <2>1. ASSUME NEW w \in Pushers,
               \/ PushAnswered(w)
               \/ \E failure \in {"unavailable", "refused", "call_revoked"} :
                    PushFailed(w, failure)
        PROVE  UNCHANGED lastLocalSequence
    BY <2>1, PushEnds DEF OutcomeOf, ApplyPushOutcome
  <2>2. ~Push
    BY <1>2, <2>1 DEF Push, ClaimBatch, PushCommitFails, deviceVars
  <2>3. ~Pull
    BY <1>2 DEF Pull, PullRead, PullPage, PullCursorLost, PullRevoked, PullFails,
                deviceVars
  <2>4. ~Server /\ ~Crash /\ ~UNCHANGED vars
    BY <1>2 DEF Server, ServerProcess, ServerProcessLate, ServerAnswersPull,
       ForeignCommit, RevokeAuthorization, Crash, vars, deviceVars
  <2>5. Host
    BY <2>2, <2>3, <2>4 DEF Next
  <2> QED BY <1>2, <2>5 DEF Host, ResolveBlockingEvent, ResetScopeForResync
<1>4. PICK s \in Scopes, key \in Keys, entity \in Entities, operation \in Operations :
        Enqueue(s, key, entity, operation)
  BY <1>3
<1>5. PICK entry : /\ outbox' = Append(outbox, entry)
                   /\ entry.scope = s /\ entry.entity = entity
  BY <1>4 DEF Enqueue
<1>6. outbox \in Seq(Entries)
  BY DEF TypeOK, OutboxTypeOK
<1>7. i = Len(outbox) + 1 /\ outbox'[i] = entry
  BY <1>5, <1>6, AppendedAt
<1> QED BY <1>4, <1>5, <1>7

\* An event that becomes rejected while it is the pending one of its entity
\* takes its write along.
LEMMA RejectedIsUndone ==
  ASSUME TypeOK, [Next]_vars, PushScopes, NEW i \in DOMAIN outbox,
         outbox[i].localState # "rejected", outbox'[i].localState = "rejected",
         NEW k \in DOMAIN replica, replica[k].pendingEventId = i,
         k[1] = outbox[i].scope, k \in DOMAIN replica'
  PROVE  replica'[k] = Restored(replica[k])
<1>1. IsTerminalState(outbox'[i].localState) /\ ~IsTerminalState(outbox[i].localState)
  BY EventsStay DEF EntryStep, IsTerminalState
<1>2. PICK w \in Pushers : \E learnt : SettledBy(i, w, learnt)
  BY <1>1, OnlyOutcomesSettle
<1>3. PICK learnt : SettledBy(i, w, learnt)
  BY <1>2
<1>4. i \in {x \in Current(w) : Told(w, learnt, x).localState = "rejected"}
  BY <1>3 DEF SettledBy
<1>5. k[1] = pushes[w].scope
  BY <1>3 DEF SettledBy, OutcomeOf, Current, PushScopes
<1>6. replica' = RevertRejected(pushes[w].scope,
        {x \in Current(w) : Told(w, learnt, x).localState = "rejected"})
  BY <1>3, RevertedReplica DEF SettledBy
<1> QED BY <1>4, <1>5, <1>6 DEF RevertRejected
-----------------------------------------------------------------------------
(***************************************************************************)
(* The pending mark.                                                       *)
(***************************************************************************)

\* Event id may be what is pending for entity k.
MarkOf(k, id) ==
  /\ id \in DOMAIN outbox
  /\ <<outbox[id].scope, outbox[id].entity>> = k
  /\ outbox[id].localState # "rejected"
  /\ \A i \in DOMAIN outbox : i > id => ~SameEntity(i, id)

MarkRight(k) ==
  /\ (replica[k].pendingEventId = Null) <=> (replica[k].revertTo = Null)
  /\ replica[k].pendingEventId # Null => MarkOf(k, replica[k].pendingEventId)

LEMMA MarksAreRight == PendingMarkIsLatest <=> \A k \in DOMAIN replica : MarkRight(k)
BY DEF PendingMarkIsLatest, MarkRight, MarkOf

\* The entities of the replica are pairs, what is known of them records.
LEMMA ReplicaType ==
  ASSUME TypeOK, NEW k \in DOMAIN replica
  PROVE  k \in Scopes \X Entities /\ replica[k] \in ReplicaEntities
BY DEF TypeOK, ReplicaTypeOK

\* A mark stays right until a later event writes the entity.
LEMMA MarkStays ==
  ASSUME TypeOK, [Next]_vars, NEW k, NEW id, MarkOf(k, id),
         outbox'[id].localState # "rejected", ~Written(k)
  PROVE  MarkOf(k, id)'
<1>1. /\ id \in DOMAIN outbox /\ id \in DOMAIN outbox'
      /\ outbox'[id].scope = outbox[id].scope /\ outbox'[id].entity = outbox[id].entity
      /\ k = <<outbox[id].scope, outbox[id].entity>>
  BY EventsStay DEF MarkOf, Identity
<1>2. ASSUME NEW i \in DOMAIN outbox', i > id, SameEntity(i, id)'
      PROVE  FALSE
  <2>1. CASE i \in DOMAIN outbox
    BY <1>1, <1>2, <2>1, SameEntityStays DEF MarkOf
  <2>2. CASE i \notin DOMAIN outbox
    <3>1. PICK s \in Scopes, key \in Keys, entity \in Entities, operation \in Operations :
            /\ Enqueue(s, key, entity, operation)
            /\ outbox'[i].scope = s /\ outbox'[i].entity = entity
      BY <2>2, NewEventIsWritten
    <3>2. k = <<s, entity>>
      BY <1>1, <1>2, <3>1 DEF SameEntity
    <3> QED BY <3>1, <3>2 DEF Written
  <2> QED BY <2>1, <2>2
<1> QED BY <1>1, <1>2 DEF MarkOf

\* A new write is marked as the latest, with something to go back to.
LEMMA WrittenMark ==
  ASSUME TypeOK, NEW k, Written(k)
  PROVE  MarkRight(k)'
<1>1. PICK s \in Scopes, key \in Keys, entity \in Entities, operation \in Operations :
        k = <<s, entity>> /\ Enqueue(s, key, entity, operation)
  BY DEF Written
<1>2. PICK id : id = Len(outbox) + 1
  OBVIOUS
<1>3. replica' = Put(replica, k, OptimisticWrite(k, id, operation))
  BY <1>1, <1>2 DEF Enqueue
<1>4. replica'[k].pendingEventId = id /\ replica'[k].revertTo = RevertFor(k)
  BY <1>3 DEF Put, OptimisticWrite
<1>5. PICK entry : /\ outbox' = Append(outbox, entry)
                   /\ entry.scope = s /\ entry.entity = entity
                   /\ entry.localState = "pending"
  BY <1>1 DEF Enqueue
<1>6. outbox \in Seq(Entries)
  BY DEF TypeOK, OutboxTypeOK
<1>7. /\ Len(outbox) \in Nat /\ DOMAIN outbox = 1..Len(outbox)
      /\ \A i \in DOMAIN outbox' : i \in DOMAIN outbox \/ i = id
      /\ id \in DOMAIN outbox' /\ outbox'[id] = entry
  BY <1>2, <1>5, <1>6, AppendedAt
<1>8. MarkOf(k, id)'
  BY <1>1, <1>2, <1>5, <1>7 DEF MarkOf
<1>9. id # Null
  BY <1>2, <1>7, ConstantsAssumption
<1>10. RevertFor(k) # Null
  <2>1. RevertFor(k) \in Reverts \/ (k \in DOMAIN replica /\ RevertFor(k) # Null)
    <3>1. k \in DOMAIN replica => replica[k] \in ReplicaEntities
      BY ReplicaType
    <3> QED BY <3>1 DEF RevertFor, Reverts, ReplicaEntities, Contents
  <2> QED BY <2>1, RevertAssumption
<1> QED BY <1>4, <1>8, <1>9, <1>10 DEF MarkRight

LEMMA MarksStayRight ==
  ASSUME TypeOK, TypeOK', [Next]_vars, PushScopes, PendingMarkIsLatest
  PROVE  PendingMarkIsLatest'
<1> SUFFICES ASSUME NEW k \in DOMAIN replica' PROVE MarkRight(k)'
  BY MarksAreRight DEF PendingMarkIsLatest, MarkRight, MarkOf
<1>1. ASSUME k \in DOMAIN replica, replica'[k] = Restored(replica[k]), MarkRight(k)
      PROVE  MarkRight(k)'
  <2>1. replica[k] \in ReplicaEntities
    BY <1>1, ReplicaType
  <2>2. replica'[k].pendingEventId = Null /\ replica'[k].revertTo = Null
    BY <1>1, <2>1 DEF Restored, ReplicaEntities, MarkRight
  <2> QED BY <2>2 DEF MarkRight
<1>2. k \in DOMAIN replica => MarkRight(k)
  BY MarksAreRight
<1>3. CASE Written(k)
  BY <1>3, WrittenMark
<1>4. ASSUME k \in DOMAIN replica, replica'[k] = replica[k], ~Written(k)
      PROVE  MarkRight(k)'
  <2>1. CASE replica[k].pendingEventId = Null
    BY <1>2, <1>4, <2>1 DEF MarkRight
  <2>2. CASE replica[k].pendingEventId # Null
    <3>1. PICK id : id = replica[k].pendingEventId
      OBVIOUS
    <3>2. MarkOf(k, id)
      BY <1>2, <1>4, <2>2, <3>1 DEF MarkRight
    <3>3. CASE outbox'[id].localState = "rejected"
      <4>1. id \in DOMAIN outbox /\ k[1] = outbox[id].scope
            /\ outbox[id].localState # "rejected"
        BY <3>2 DEF MarkOf
      <4>2. replica'[k] = Restored(replica[k])
        BY <1>4, <3>1, <3>3, <4>1, RejectedIsUndone
      <4> QED BY <1>1, <1>2, <1>4, <4>2
    <3>4. CASE outbox'[id].localState # "rejected"
      <4>1. MarkOf(k, id)'
        BY <1>4, <3>2, <3>4, MarkStays
      <4> QED BY <1>2, <1>4, <3>1, <4>1 DEF MarkRight
    <3> QED BY <3>3, <3>4
  <2> QED BY <2>1, <2>2
<1>5. CASE Pulled(k)
  <2>1. PICK change : replica'[k] = Merged(k, change)
    BY <1>5 DEF Pulled
  <2>2. UNCHANGED outbox
    BY <1>5 DEF Pulled, PullPage
  <2>3. \/ replica'[k].pendingEventId = Null /\ replica'[k].revertTo = Null
        \/ /\ k \in DOMAIN replica
           /\ replica'[k].pendingEventId = replica[k].pendingEventId
           /\ replica'[k].revertTo = replica[k].revertTo
    BY <2>1 DEF Merged, StillPending
  <2>4. \A id : MarkOf(k, id)' = MarkOf(k, id)
    BY <2>2 DEF MarkOf, SameEntity
  <2> QED BY <1>2, <2>3, <2>4 DEF MarkRight
<1>6. CASE Undone(k)
  BY <1>1, <1>2, <1>6 DEF Undone
<1> QED BY <1>3, <1>4, <1>5, <1>6, NextReplicaMove DEF ReplicaMove

LEMMA MarksInvariant == Spec => [](PushScopes /\ PendingMarkIsLatest)
<1>1. Init => PushScopes /\ PendingMarkIsLatest
  BY DEF Init, PushScopes, PendingMarkIsLatest
<1>2. TypeOK /\ TypeOK' /\ [Next]_vars /\ PushScopes /\ PendingMarkIsLatest
      => (PushScopes /\ PendingMarkIsLatest)'
  BY PushScopesStay, MarksStayRight
<1> QED BY <1>1, <1>2, TypeCorrect, PTL DEF Spec

\* What is marked as pending is the latest event of its entity, still alive,
\* and with something to go back to: whatever is written on top of it, pulled
\* over it or answered meanwhile.
THEOREM MarkIsLatest == Spec => []PendingMarkIsLatest
BY MarksInvariant, PTL
-----------------------------------------------------------------------------
(***************************************************************************)
(* The content shown.                                                      *)
(***************************************************************************)

\* Content that may stay whatever the server still answers: nothing, another
\* device's, or that of an event that took effect.
Lasting(content) ==
  \/ content \in {Null, 0}
  \/ content \in DOMAIN outbox /\ EffectAt(content) # {}

ContentHeld(k) ==
  /\ Lasting(replica[k].snapshot) \/ replica[k].snapshot = replica[k].pendingEventId
  /\ replica[k].revertTo # Null => Lasting(replica[k].revertTo.snapshot)

ContentsHeld == \A k \in DOMAIN replica : ContentHeld(k)

LEMMA LastingStays ==
  ASSUME TypeOK, [Next]_vars, NEW content, Lasting(content)
  PROVE  Lasting(content)'
<1>1. ASSUME content \in DOMAIN outbox, NEW p \in EffectAt(content)
      PROVE  content \in DOMAIN outbox' /\ p \in EffectAt(content)'
  <2>1. content \in DOMAIN outbox' /\ outbox'[content].scope = outbox[content].scope
    BY <1>1, EventsStay DEF Identity
  <2>2. outbox[content].scope \in Scopes
    BY <1>1, EventType
  <2> QED BY <1>1, <2>1, <2>2, ChangelogGrows DEF EffectAt
<1> QED BY <1>1 DEF Lasting

\* The newest change to merge, as a position of the changelog.
LEMMA WinningChange ==
  ASSUME TypeOK, NEW k, Pulled(k)
  PROVE  /\ pull # Null /\ pull.scope \in Scopes /\ k[1] = pull.scope
         /\ Max(Winning(k)) \in Winning(k)
         /\ Max(Winning(k)) \in DOMAIN changelog[pull.scope]
         /\ changelog[pull.scope][Max(Winning(k))] \in Changes
         /\ changelog[pull.scope][Max(Winning(k))].entity = k[2]
<1>1. /\ pull # Null /\ pull.phase = "answered"
      /\ k \in {pull.scope} \X Entities /\ Winning(k) # {}
  BY DEF Pulled, PullPage
<1>2. /\ pull.scope \in Scopes /\ pull.to \in Nat
      /\ changelog[pull.scope] \in Seq(Changes)
      /\ Winning(k) \in SUBSET (1..Len(changelog[pull.scope]))
  BY <1>1, WinningType
<1>3. /\ Len(changelog[pull.scope]) \in Nat
      /\ DOMAIN changelog[pull.scope] = 1..Len(changelog[pull.scope])
  BY <1>2, LenProperties
<1>4. Max(Winning(k)) \in Winning(k)
  BY <1>1, <1>2, <1>3, MaxIsElement
<1>5. k[1] = pull.scope
  BY <1>1
<1>6. Winning(k) \subseteq Newer(k)
  BY DEF Winning
<1>7. changelog[pull.scope][Max(Winning(k))].entity = k[2]
  BY <1>4, <1>5, <1>6 DEF Newer
<1> QED BY <1>1, <1>2, <1>3, <1>4, <1>5, <1>7, ElementOfSeq

LEMMA ContentsStayHeld ==
  ASSUME TypeOK, TypeOK', [Next]_vars, WritersKnown, PendingMarkIsLatest, ContentsHeld
  PROVE  ContentsHeld'
<1> SUFFICES ASSUME NEW k \in DOMAIN replica' PROVE ContentHeld(k)'
  BY DEF ContentsHeld
<1>1. k \in DOMAIN replica => ContentHeld(k) /\ MarkRight(k) /\ replica[k] \in ReplicaEntities
  BY MarksAreRight, ReplicaType DEF ContentsHeld
<1>2. CASE k \in DOMAIN replica /\ replica'[k] = replica[k]
  BY <1>1, <1>2, LastingStays DEF ContentHeld
<1>3. CASE Undone(k)
  <2>1. /\ k \in DOMAIN replica /\ replica'[k] = Restored(replica[k])
        /\ replica[k].pendingEventId # Null
    BY <1>1, <1>3, EventType, ConstantsAssumption DEF Undone
  <2>2. replica[k].revertTo # Null
    BY <1>1, <2>1 DEF MarkRight
  <2>3. /\ replica'[k].snapshot = replica[k].revertTo.snapshot
        /\ replica'[k].revertTo = Null
    BY <1>1, <2>1, <2>2 DEF Restored, ReplicaEntities
  <2> QED BY <1>1, <2>1, <2>2, <2>3, LastingStays DEF ContentHeld
<1>4. CASE Written(k)
  <2>1. PICK s \in Scopes, key \in Keys, entity \in Entities, operation \in Operations :
          k = <<s, entity>> /\ Enqueue(s, key, entity, operation)
    BY <1>4 DEF Written
  <2>2. PICK id : id = Len(outbox) + 1
    OBVIOUS
  <2>3. replica' = Put(replica, k, OptimisticWrite(k, id, operation))
    BY <2>1, <2>2 DEF Enqueue
  <2>4. /\ replica'[k].pendingEventId = id /\ replica'[k].revertTo = RevertFor(k)
        /\ replica'[k].snapshot \in {Null, id}
    BY <2>3 DEF Put, OptimisticWrite
  <2>5. Lasting(RevertFor(k).snapshot)
    <3>1. CASE k \notin DOMAIN replica
      BY <3>1 DEF RevertFor, Lasting
    <3>2. CASE k \in DOMAIN replica /\ replica[k].revertTo # Null
      BY <1>1, <3>2 DEF RevertFor, MarkRight, ContentHeld
    <3>3. CASE k \in DOMAIN replica /\ replica[k].revertTo = Null
      BY <1>1, <3>3 DEF RevertFor, MarkRight, ContentHeld, Lasting
    <3> QED BY <3>1, <3>2, <3>3
  <2>6. Lasting(replica[k].revertTo.snapshot)'
    <3>1. PICK content : content = RevertFor(k).snapshot
      OBVIOUS
    <3>2. Lasting(content)'
      BY <2>5, <3>1, LastingStays
    <3>3. replica'[k].revertTo.snapshot = content
      BY <2>4, <3>1
    <3> QED BY <3>2, <3>3
  <2> QED BY <2>4, <2>6 DEF ContentHeld, Lasting
<1>5. CASE Pulled(k)
  <2>1. PICK change : /\ change = changelog[pull.scope][Max(Winning(k))]
                      /\ replica'[k] = Merged(k, change)
    BY <1>5 DEF Pulled
  <2>2. /\ pull.scope \in Scopes /\ Max(Winning(k)) \in DOMAIN changelog[pull.scope]
        /\ change \in Changes
    BY <1>5, <2>1, WinningChange
  <2>3. Lasting(change.writer)
    <3>1. CASE change.writer = 0
      BY <3>1 DEF Lasting
    <3>2. CASE change.writer # 0
      <4>1. PICK i \in DOMAIN outbox : change.writer = i /\ outbox[i].scope = pull.scope
        BY <2>1, <2>2, <3>2 DEF WritersKnown
      <4>2. Max(Winning(k)) \in EffectAt(i)
        BY <2>1, <2>2, <4>1 DEF EffectAt
      <4> QED BY <4>1, <4>2 DEF Lasting
    <3> QED BY <3>1, <3>2
  <2>4. /\ replica'[k].snapshot \in {Null, change.writer}
        /\ \/ replica'[k].revertTo = Null
           \/ k \in DOMAIN replica /\ replica'[k].revertTo = replica[k].revertTo
    BY <2>1 DEF Merged, StillPending
  <2>5. Lasting(replica[k].snapshot)'
    <3>1. PICK content : content = replica'[k].snapshot
      OBVIOUS
    <3>2. Lasting(content)
      BY <2>3, <2>4, <3>1 DEF Lasting
    <3>3. Lasting(content)'
      BY <3>2, LastingStays
    <3> QED BY <3>1, <3>3
  <2> QED BY <1>1, <2>4, <2>5, LastingStays DEF ContentHeld
<1> QED BY <1>2, <1>3, <1>4, <1>5, NextReplicaMove DEF ReplicaMove

LEMMA ContentsInvariant == Spec => []ContentsHeld
<1>1. Init => ContentsHeld
  BY DEF Init, ContentsHeld
<1>2. /\ TypeOK /\ TypeOK' /\ [Next]_vars /\ WritersKnown /\ PendingMarkIsLatest
      /\ ContentsHeld
      => ContentsHeld'
  BY ContentsStayHeld
<1>3. EffectsInvariant => WritersKnown
  BY DEF EffectsInvariant
<1> QED BY <1>1, <1>2, <1>3, TypeCorrect, EffectsKept, MarkIsLatest, PTL DEF Spec

\* The write of a rejected event is never shown nor kept to go back to, even
\* when other writes pile up on it before it is rejected, unless it did take
\* effect.
THEOREM RejectedNotShown == Spec => []NoRejectedWriteShown
<1>1. TypeOK /\ PendingMarkIsLatest /\ ContentsHeld => NoRejectedWriteShown
  <2> SUFFICES ASSUME TypeOK, PendingMarkIsLatest, ContentsHeld,
                      NEW k \in DOMAIN replica, NEW i \in DOMAIN outbox,
                      \/ i = replica[k].snapshot
                      \/ /\ replica[k].revertTo # Null
                         /\ i = replica[k].revertTo.snapshot,
                      outbox[i].localState = "rejected"
               PROVE  EffectAt(i) # {}
    BY DEF NoRejectedWriteShown
  <2>1. ContentHeld(k) /\ MarkRight(k)
    BY MarksAreRight DEF ContentsHeld
  <2>2. i \notin {Null, 0}
    BY EventType, ConstantsAssumption
  <2>3. i # replica[k].pendingEventId
    BY <2>1, <2>2 DEF MarkRight, MarkOf
  <2> QED BY <2>1, <2>2, <2>3 DEF ContentHeld, Lasting
<1> QED BY <1>1, TypeCorrect, MarkIsLatest, ContentsInvariant, PTL
-----------------------------------------------------------------------------
(***************************************************************************)
(* Deleted entities.                                                       *)
(***************************************************************************)

\* A deleted entity shows nothing and has nothing pending.
TombstonesEmpty ==
  \A k \in DOMAIN replica : replica[k].tombstone =>
    replica[k].snapshot = Null /\ replica[k].pendingEventId = Null

\* What a step may do to a deleted entity: only a newer tombstone replaces it.
LEMMA TombstoneStep ==
  ASSUME TypeOK, TypeOK', [Next]_vars, TombstonesEmpty,
         NEW k \in DOMAIN replica, replica[k].tombstone
  PROVE  /\ k \in DOMAIN replica'
         /\ replica'[k].tombstone
         /\ replica'[k].snapshot = Null
         /\ replica'[k].canonicalVersion >= replica[k].canonicalVersion
<1>1. replica[k] \in ReplicaEntities /\ replica[k].snapshot = Null
      /\ replica[k].pendingEventId = Null
  BY ReplicaType DEF TombstonesEmpty
<1>2. CASE k \in DOMAIN replica' /\ replica'[k] = replica[k]
  BY <1>1, <1>2 DEF ReplicaEntities
<1>3. ~Undone(k)
  BY <1>1, EventType, ConstantsAssumption DEF Undone
<1>4. ~Written(k)
  BY DEF Written, Enqueue
<1>5. CASE k \in DOMAIN replica' /\ Pulled(k)
  <2>1. PICK p, change : /\ p = Max(Winning(k))
                         /\ change = changelog[pull.scope][p]
                         /\ replica'[k] = Merged(k, change)
    BY <1>5 DEF Pulled
  <2>2. p \in Winning(k) /\ k[1] = pull.scope /\ change \in Changes
    BY <1>5, <2>1, WinningChange
  <2>3. p \in Newer(k) /\ change.tombstone
    BY <2>1, <2>2 DEF Winning
  <2>4. change.canonicalVersion > replica[k].canonicalVersion
    BY <2>1, <2>2, <2>3 DEF Newer
  <2>5. /\ replica'[k].tombstone = change.tombstone
        /\ replica'[k].canonicalVersion = change.canonicalVersion
        /\ replica'[k].snapshot = Null
    BY <2>1, <2>3 DEF Merged
  <2>6. replica'[k].canonicalVersion >= replica[k].canonicalVersion
    <3>1. /\ change.canonicalVersion \in Nat
          /\ replica[k].canonicalVersion \in Nat
      BY <1>1, <2>2 DEF ReplicaEntities, Changes, EventIds
    <3>2. PICK old, new : old = replica[k].canonicalVersion /\ new = change.canonicalVersion
      OBVIOUS
    <3> QED BY <2>4, <2>5, <3>1, <3>2
  <2>7. replica'[k].tombstone
    BY <2>3, <2>5, Zenon
  <2> QED BY <1>5, <2>5, <2>6, <2>7
<1> QED BY <1>2, <1>3, <1>4, <1>5, NextReplicaMove DEF ReplicaMove

LEMMA TombstonesStayEmpty ==
  ASSUME TypeOK, TypeOK', [Next]_vars, PendingMarkIsLatest, TombstonesEmpty
  PROVE  TombstonesEmpty'
<1> SUFFICES ASSUME NEW k \in DOMAIN replica', replica'[k].tombstone
             PROVE  replica'[k].snapshot = Null /\ replica'[k].pendingEventId = Null
  BY DEF TombstonesEmpty
<1>1. CASE k \in DOMAIN replica /\ replica'[k] = replica[k]
  BY <1>1 DEF TombstonesEmpty
<1>2. ~Undone(k)
  <2> SUFFICES ASSUME Undone(k) PROVE FALSE
    OBVIOUS
  <2>1. /\ k \in DOMAIN replica /\ replica'[k] = Restored(replica[k])
        /\ replica[k].pendingEventId # Null /\ replica[k] \in ReplicaEntities
    BY EventType, ReplicaType, ConstantsAssumption DEF Undone
  <2>2. replica[k].tombstone
    BY <2>1 DEF Restored, ReplicaEntities
  <2> QED BY <2>1, <2>2 DEF TombstonesEmpty
<1>3. ~Written(k)
  <2> SUFFICES ASSUME Written(k) PROVE FALSE
    OBVIOUS
  <2>1. \E id, operation : replica' = Put(replica, k, OptimisticWrite(k, id, operation))
    BY DEF Written, Enqueue
  <2> QED BY <2>1 DEF Put, OptimisticWrite
<1>4. CASE Pulled(k)
  BY <1>4 DEF Pulled, Merged
<1> QED BY <1>1, <1>2, <1>3, <1>4, NextReplicaMove DEF ReplicaMove

LEMMA TombstonesInvariant == Spec => []TombstonesEmpty
<1>1. Init => TombstonesEmpty
  BY DEF Init, TombstonesEmpty
<1>2. /\ TypeOK /\ TypeOK' /\ [Next]_vars /\ PendingMarkIsLatest
      /\ TombstonesEmpty
      => TombstonesEmpty'
  BY TombstonesStayEmpty
<1> QED BY <1>1, <1>2, TypeCorrect, MarkIsLatest, PTL DEF Spec

\* A deleted entity stays deleted, empty, and never goes back a version:
\* whatever the server sends later and whatever was pending when it went.
THEOREM DeletedStaysDeleted == Spec => TombstonesStay
<1>1. TypeOK /\ TypeOK' /\ [Next]_vars /\ TombstonesEmpty
      => [\A k \in DOMAIN replica : replica[k].tombstone =>
            /\ k \in DOMAIN replica'
            /\ replica'[k].tombstone
            /\ replica'[k].snapshot = Null
            /\ replica'[k].canonicalVersion >= replica[k].canonicalVersion]_replica
  BY TombstoneStep
<1> QED BY <1>1, TypeCorrect, TombstonesInvariant, PTL DEF Spec, TombstonesStay
-----------------------------------------------------------------------------
(***************************************************************************)
(* The pull cursor.  The versions of an entity increase along the          *)
(* changelog, so the newest change of a page supersedes the others.        *)
(***************************************************************************)

ChangesOf(s, entity) == {p \in DOMAIN changelog[s] : changelog[s][p].entity = entity}

VersionsIncrease ==
  \A s \in Scopes : \A p \in DOMAIN changelog[s] :
    /\ changelog[s][p].canonicalVersion
         <= Cardinality(ChangesOf(s, changelog[s][p].entity))
    /\ \A q \in DOMAIN changelog[s] :
         p < q /\ changelog[s][p].entity = changelog[s][q].entity =>
           changelog[s][p].canonicalVersion < changelog[s][q].canonicalVersion

\* Positions of a sequence can be counted, and more of them count more.
LEMMA PositionsCounted ==
  ASSUME NEW S, NEW q \in Seq(S), NEW A, NEW B, A \subseteq B, B \subseteq DOMAIN q
  PROVE  /\ Cardinality(A) \in Nat /\ Cardinality(B) \in Nat
         /\ Cardinality(A) <= Cardinality(B)
         /\ \A x \in B \ A : Cardinality(A) + 1 <= Cardinality(B)
<1>1. DOMAIN q = 1..Len(q) /\ Len(q) \in Nat
  BY LenProperties
<1>2. IsFiniteSet(DOMAIN q)
  BY <1>1, FS_Interval
<1>3. IsFiniteSet(B) /\ IsFiniteSet(A)
  BY <1>2, FS_Subset
<1>4. /\ Cardinality(A) \in Nat /\ Cardinality(B) \in Nat
      /\ Cardinality(A) <= Cardinality(B)
  BY <1>3, FS_CardinalityType, FS_Subset
<1>5. ASSUME NEW x \in B \ A PROVE Cardinality(A) + 1 <= Cardinality(B)
  <2>1. A # B
    OBVIOUS
  <2>2. Cardinality(A) # Cardinality(B)
    BY <1>3, <2>1, FS_Subset
  <2> QED BY <1>4, <2>2
<1> QED BY <1>4, <1>5

LEMMA VersionsStayIncreasing ==
  ASSUME TypeOK, TypeOK', [Next]_vars, VersionsIncrease
  PROVE  VersionsIncrease'
<1> SUFFICES ASSUME NEW s \in Scopes, NEW p \in DOMAIN changelog'[s]
             PROVE  /\ changelog'[s][p].canonicalVersion
                         <= Cardinality({x \in DOMAIN changelog'[s] :
                              changelog'[s][x].entity = changelog'[s][p].entity})
                    /\ \A q \in DOMAIN changelog'[s] :
                         p < q /\ changelog'[s][p].entity = changelog'[s][q].entity =>
                           changelog'[s][p].canonicalVersion
                             < changelog'[s][q].canonicalVersion
  BY DEF VersionsIncrease, ChangesOf
<1> DEFINE of(e) == ChangesOf(s, e)
           later(e) == {x \in DOMAIN changelog'[s] : changelog'[s][x].entity = e}
<1>1. /\ changelog[s] \in Seq(Changes) /\ changelog'[s] \in Seq(Changes)
      /\ \A x \in DOMAIN changelog[s] : changelog[s][x].canonicalVersion \in Nat
      /\ \A x \in DOMAIN changelog'[s] : changelog'[s][x].canonicalVersion \in Nat
  <2>1. changelog[s] \in Seq(Changes) /\ changelog'[s] \in Seq(Changes)
    BY DEF TypeOK, ServerTypeOK
  <2>2. \A c \in Changes : c.canonicalVersion \in Nat
    BY DEF Changes, EventIds
  <2>3. ASSUME NEW q \in Seq(Changes), NEW x \in DOMAIN q PROVE q[x] \in Changes
    BY <2>3, ElementOfSeq, LenProperties
  <2> QED BY <2>1, <2>2, <2>3
<1>2. /\ \A x \in DOMAIN changelog[s] : /\ x \in DOMAIN changelog'[s]
                                        /\ changelog'[s][x] = changelog[s][x]
      /\ \A x \in DOMAIN changelog'[s] :
              x \in DOMAIN changelog[s] \/ NewChange(s, x)
  BY ChangelogGrows
<1>3. ASSUME NEW e
      PROVE  /\ Cardinality(of(e)) \in Nat /\ Cardinality(later(e)) \in Nat
             /\ Cardinality(of(e)) <= Cardinality(later(e))
             /\ \A x \in later(e) \ of(e) : Cardinality(of(e)) + 1 <= Cardinality(later(e))
  <2>1. of(e) \subseteq later(e) /\ later(e) \subseteq DOMAIN changelog'[s]
    BY <1>2 DEF ChangesOf
  <2> HIDE DEF of, later
  <2> QED BY <1>1, <2>1, PositionsCounted
<1>4. ASSUME NEW x \in DOMAIN changelog'[s], NewChange(s, x)
      PROVE  /\ x = Len(changelog[s]) + 1
             /\ x \notin DOMAIN changelog[s]
             /\ changelog'[s][x].canonicalVersion
                  = 1 + Cardinality(of(changelog'[s][x].entity))
  BY <1>1, <1>4, LenProperties DEF NewChange, NextVersion, ChangesOf
<1>5. ASSUME NEW x \in DOMAIN changelog'[s]
      PROVE  changelog'[s][x].canonicalVersion
               <= Cardinality(later(changelog'[s][x].entity))
  <2> PICK e, v : e = changelog'[s][x].entity /\ v = changelog'[s][x].canonicalVersion
    OBVIOUS
  <2>1. CASE x \in DOMAIN changelog[s]
    <3>1. v <= Cardinality(of(e)) /\ v \in Nat
      BY <1>1, <1>2, <2>1 DEF VersionsIncrease
    <3> QED BY <1>3, <3>1
  <2>2. CASE NewChange(s, x)
    <3>1. v = 1 + Cardinality(of(e))
      BY <1>4, <2>2
    <3>2. x \in later(e) \ of(e)
      BY <1>4, <2>2 DEF ChangesOf
    <3> HIDE DEF of, later
    <3> QED BY <1>3, <3>1, <3>2
  <2> QED BY <1>2, <2>1, <2>2
<1>6. ASSUME NEW q \in DOMAIN changelog'[s], p < q,
             changelog'[s][p].entity = changelog'[s][q].entity
      PROVE  changelog'[s][p].canonicalVersion < changelog'[s][q].canonicalVersion
  <2>1. CASE q \in DOMAIN changelog[s]
    <3>1. p \in DOMAIN changelog[s]
      BY <1>1, <1>4, <1>2, <1>6, <2>1, LenProperties
    <3> QED BY <1>2, <1>6, <2>1, <3>1 DEF VersionsIncrease
  <2>2. CASE NewChange(s, q)
    <3> PICK e, v : e = changelog'[s][p].entity /\ v = changelog'[s][p].canonicalVersion
      OBVIOUS
    <3>1. p \in DOMAIN changelog[s]
      BY <1>1, <1>2, <1>4, <1>6, <2>2, LenProperties
    <3>2. v <= Cardinality(of(e)) /\ v \in Nat
      BY <1>1, <1>2, <3>1 DEF VersionsIncrease
    <3>3. changelog'[s][q].canonicalVersion = 1 + Cardinality(of(e))
      BY <1>4, <1>6, <2>2
    <3> HIDE DEF of, later
    <3> QED BY <1>3, <3>2, <3>3
  <2> QED BY <1>2, <2>1, <2>2
<1> QED BY <1>5, <1>6
LEMMA VersionsInvariant == Spec => []VersionsIncrease
<1>1. Init => VersionsIncrease
  BY DEF Init, VersionsIncrease
<1>2. TypeOK /\ TypeOK' /\ [Next]_vars /\ VersionsIncrease => VersionsIncrease'
  BY VersionsStayIncreasing
<1> QED BY <1>1, <1>2, TypeCorrect, PTL DEF Spec

\* What CursorCovered says of a change of entity k.
Covered(k, version) ==
  \/ /\ k \in DOMAIN replica
     /\ replica[k].tombstone \/ replica[k].canonicalVersion >= version
  \/ \E i \in DOMAIN outbox : /\ <<outbox[i].scope, outbox[i].entity>> = k
                              /\ outbox[i].localState = "rejected"

\* A step takes an entity to an older version only by a rejection.
LEMMA CoveredStays ==
  ASSUME TypeOK, TypeOK', [Next]_vars, PendingMarkIsLatest, TombstonesEmpty,
         NEW k, NEW version \in Nat, Covered(k, version)
  PROVE  Covered(k, version)'
<1>1. ASSUME NEW i \in DOMAIN outbox, <<outbox[i].scope, outbox[i].entity>> = k,
             outbox'[i].localState = "rejected"
      PROVE  Covered(k, version)'
  BY <1>1, EventsStay DEF Covered, Identity
<1>2. CASE \E i \in DOMAIN outbox : /\ <<outbox[i].scope, outbox[i].entity>> = k
                                    /\ outbox[i].localState = "rejected"
  <2>1. PICK i \in DOMAIN outbox : /\ <<outbox[i].scope, outbox[i].entity>> = k
                                   /\ outbox[i].localState = "rejected"
    BY <1>2
  <2>2. outbox'[i] = outbox[i]
    BY <2>1, EventsStay DEF EntryStep, IsTerminalState
  <2> QED BY <1>1, <2>1, <2>2
<1>3. CASE k \in DOMAIN replica /\ replica[k].tombstone
  BY <1>3, TombstoneStep DEF Covered
<1>4. CASE k \in DOMAIN replica /\ replica[k].canonicalVersion >= version
  <2>1. replica[k] \in ReplicaEntities /\ MarkRight(k)
    BY <1>4, ReplicaType, MarksAreRight
  <2>2. replica[k].canonicalVersion \in Nat
    BY <2>1 DEF ReplicaEntities
  <2>3. CASE k \in DOMAIN replica' /\ replica'[k] = replica[k]
    BY <1>4, <2>3 DEF Covered
  <2>4. CASE Undone(k)
    <3>1. PICK i : i = replica[k].pendingEventId
      OBVIOUS
    <3>2. /\ i \in DOMAIN outbox /\ i # Null
          /\ outbox'[i].localState = "rejected"
      BY <2>4, <3>1, EventType, ConstantsAssumption DEF Undone
    <3>3. <<outbox[i].scope, outbox[i].entity>> = k
      BY <2>1, <3>1, <3>2 DEF MarkRight, MarkOf
    <3> QED BY <1>1, <3>2, <3>3
  <2>5. CASE Written(k)
    <3>1. PICK id, operation :
            replica' = Put(replica, k, OptimisticWrite(k, id, operation))
      BY <2>5 DEF Written, Enqueue
    <3>2. /\ k \in DOMAIN replica'
          /\ replica'[k].canonicalVersion = replica[k].canonicalVersion
      BY <1>4, <3>1 DEF Put, OptimisticWrite
    <3> QED BY <1>4, <3>2 DEF Covered
  <2>6. CASE k \in DOMAIN replica' /\ Pulled(k)
    <3>1. PICK p, change : /\ p = Max(Winning(k))
                           /\ change = changelog[pull.scope][p]
                           /\ replica'[k] = Merged(k, change)
      BY <2>6 DEF Pulled
    <3>2. p \in Newer(k) /\ k[1] = pull.scope /\ change \in Changes
      BY <2>6, <3>1, WinningChange DEF Winning
    <3>3. change.canonicalVersion > replica[k].canonicalVersion
      BY <1>4, <3>1, <3>2 DEF Newer
    <3>4. replica'[k].canonicalVersion = change.canonicalVersion
      BY <3>1 DEF Merged
    <3>5. change.canonicalVersion \in Nat
      BY <3>2 DEF Changes, EventIds
    <3>6. replica'[k].canonicalVersion >= version
      <4> PICK a, b : a = replica[k].canonicalVersion /\ b = change.canonicalVersion
        OBVIOUS
      <4>1. a \in Nat /\ b \in Nat /\ a >= version /\ b > a
        BY <1>4, <2>2, <3>3, <3>5
      <4>2. b >= version
        BY <4>1
      <4> QED BY <3>4, <4>2
    <3> QED BY <2>6, <3>6 DEF Covered
  <2> QED BY <1>4, <2>3, <2>4, <2>5, <2>6, NextReplicaMove DEF ReplicaMove
<1> QED BY <1>2, <1>3, <1>4 DEF Covered

\* A page is applied, not thrown away.
PageApplied ==
  /\ PullPage
  /\ ScopeOrNew(pull.scope).pullCursor = pull.cursor
  /\ replica' = [k \in DOMAIN replica
                       \union {x \in {pull.scope} \X Entities : Winning(x) # {}} |->
                   IF k \in {x \in {pull.scope} \X Entities : Winning(x) # {}}
                   THEN Merged(k, changelog[pull.scope][Max(Winning(k))])
                   ELSE replica[k]]
  /\ scopes' = Put(scopes, pull.scope, Advanced(pull.scope))

\* Every change of an applied page is covered.
LEMMA PageCovers ==
  ASSUME TypeOK, TypeOK', [Next]_vars, PendingMarkIsLatest, TombstonesEmpty,
         VersionsIncrease, PageApplied,
         NEW s, s = pull.scope,
         NEW p \in PagePositions, NEW change, change = changelog[s][p]
  PROVE  Covered(<<s, change.entity>>, change.canonicalVersion)'
<1> PICK k, version : k = <<s, change.entity>> /\ version = change.canonicalVersion
  OBVIOUS
<1>1. /\ pull # Null /\ pull.phase = "answered"
      /\ pull.cursor \in Nat \union {Null}
      /\ pull.to \in Nat /\ pull.to <= Len(changelog[s])
      /\ s \in Scopes /\ changelog[s] \in Seq(Changes)
  <2>1. pull # Null /\ pull.phase = "answered"
    BY DEF PageApplied, PullPage
  <2>2. /\ pull.cursor \in Nat \union {Null}
        /\ pull.to \in Nat /\ pull.to <= Len(changelog[s])
        /\ s \in Scopes
    BY <2>1 DEF TypeOK, PullTypeOK, PullCalls
  <2> QED BY <2>1, <2>2 DEF TypeOK, ServerTypeOK
<1>2. /\ p \in DOMAIN changelog[s] /\ DOMAIN changelog[s] = 1..Len(changelog[s])
      /\ Len(changelog[s]) \in Nat
  BY <1>1, LenProperties DEF PagePositions
<1>3. change \in Changes
  BY <1>1, <1>2, ElementOfSeq
<1>4. k \in {s} \X Entities /\ k[1] = s /\ k[2] = change.entity /\ version \in Nat
  BY <1>3 DEF Changes, EventIds
<1>5. CASE Covered(k, version)
  <2>1. Covered(k, version)'
    BY <1>4, <1>5, CoveredStays
  <2> QED BY <2>1
<1>6. CASE ~Covered(k, version)
  <2>1. p \in Newer(k)
    <3>1. k \in DOMAIN replica => replica[k].canonicalVersion \in Nat
      BY ReplicaType DEF ReplicaEntities
    <3>2. k \in DOMAIN replica => ~(replica[k].canonicalVersion >= version)
      BY <1>6 DEF Covered
    <3>3. k \in DOMAIN replica => version > replica[k].canonicalVersion
      BY <1>4, <3>1, <3>2
    <3> QED BY <1>4, <3>3 DEF Newer
  <2>2. ~(k \in DOMAIN replica /\ replica[k].tombstone)
    BY <1>6 DEF Covered
  <2>3. CASE {x \in Newer(k) : changelog[s][x].tombstone} = {}
    <3>1. Winning(k) = Newer(k)
      BY <1>4, <2>2, <2>3 DEF Winning
    <3>2. /\ k \in DOMAIN replica'
          /\ replica'[k] = Merged(k, changelog[s][Max(Winning(k))])
      BY <1>4, <2>1, <3>1 DEF PageApplied
    <3>3. PICK m : m = Max(Winning(k))
      OBVIOUS
    <3>4. Winning(k) \in SUBSET (1..Len(changelog[s])) /\ Winning(k) # {}
      BY <1>1, <1>4, <2>1, <3>1, WinningType
    <3>5. m \in Newer(k) /\ m >= p
      BY <1>2, <2>1, <3>1, <3>3, <3>4, MaxIsElement
    <3>6. /\ m \in DOMAIN changelog[s] /\ changelog[s][m].entity = change.entity
          /\ changelog[s][m] \in Changes
      BY <1>1, <1>2, <1>4, <3>1, <3>4, <3>5, ElementOfSeq DEF Newer
    <3>7. changelog[s][m].canonicalVersion >= version
      <4>1. CASE m = p
        BY <1>4, <4>1
      <4>2. CASE p < m
        <5>1. version < changelog[s][m].canonicalVersion
          BY <1>1, <1>2, <3>6, <4>2 DEF VersionsIncrease
        <5>2. changelog[s][m].canonicalVersion \in Nat
          BY <3>6 DEF Changes, EventIds
        <5> QED BY <1>4, <5>1, <5>2
      <4>3. m \in Nat /\ p \in Nat
        BY <1>2, <3>6
      <4> QED BY <3>5, <4>1, <4>2, <4>3
    <3>8. replica'[k].canonicalVersion = changelog[s][m].canonicalVersion
      BY <3>2, <3>3 DEF Merged
    <3>9. Covered(k, version)'
      BY <3>2, <3>7, <3>8 DEF Covered
    <3> QED BY <3>9
  <2>4. CASE {x \in Newer(k) : changelog[s][x].tombstone} # {}
    <3>1. Winning(k) = {x \in Newer(k) : changelog[s][x].tombstone}
      BY <1>4, <2>4 DEF Winning
    <3>2. /\ k \in DOMAIN replica'
          /\ replica'[k] = Merged(k, changelog[s][Max(Winning(k))])
      BY <1>4, <2>4, <3>1 DEF PageApplied
    <3>3. Winning(k) \in SUBSET (1..Len(changelog[s]))
      BY <1>1, <1>4, WinningType
    <3>4. Max(Winning(k)) \in Winning(k)
      BY <1>2, <2>4, <3>1, <3>3, MaxIsElement
    <3>5. changelog[s][Max(Winning(k))].tombstone
      BY <3>1, <3>4
    <3>6. replica'[k].tombstone
      BY <3>2, <3>5 DEF Merged
    <3>7. Covered(k, version)'
      BY <3>2, <3>6 DEF Covered
    <3> QED BY <3>7
  <2> QED BY <2>3, <2>4
<1> QED BY <1>5, <1>6
\* A cursor is past nothing the scope does not have.
CursorInRange ==
  \A s \in DOMAIN scopes :
    scopes[s].pullCursor # Null => scopes[s].pullCursor \in 0..Len(changelog[s])

\* A cursor moves only to the end of an applied page, or is forgotten.
CursorMove(s) ==
  \/ scopes'[s].pullCursor = Null
  \/ s \in DOMAIN scopes /\ scopes'[s].pullCursor = scopes[s].pullCursor
  \/ /\ PageApplied /\ s = pull.scope
     /\ scopes'[s].pullCursor = pull.to

LEMMA NextCursorMove ==
  ASSUME TypeOK, [Next]_vars, NEW s \in DOMAIN scopes'
  PROVE  CursorMove(s)
<1>1. CASE UNCHANGED scopes
  BY <1>1 DEF CursorMove
<1>2. ASSUME NEW x, scopes' = Put(scopes, x, ScopeOrNew(x))
      PROVE  CursorMove(s)
  BY <1>2 DEF CursorMove, Put, ScopeOrNew
<1>3. ASSUME NEW x, x \in Scopes, NEW status, scopes' = ReplaceStatus(x, status)
      PROVE  CursorMove(s)
  <2>1. ScopeOrNew(x) \in ScopeStates
    BY <1>3, ScopeOrNewType DEF TypeOK
  <2>2. scopes' = Put(scopes, x, [ScopeOrNew(x) EXCEPT !.status = status])
    BY <1>3 DEF ReplaceStatus
  <2>3. [ScopeOrNew(x) EXCEPT !.status = status].pullCursor = ScopeOrNew(x).pullCursor
    BY <2>1 DEF ScopeStates
  <2>4. CASE s = x
    <3>1. scopes'[s].pullCursor = ScopeOrNew(s).pullCursor
      BY <2>2, <2>3, <2>4 DEF Put
    <3> QED BY <3>1 DEF ScopeOrNew, CursorMove
  <2>5. CASE s # x
    BY <2>2, <2>5 DEF Put, CursorMove
  <2> QED BY <2>4, <2>5
<1>4. CASE PullPage
  <2>1. pull # Null /\ pull.scope \in Scopes
    BY <1>4 DEF PullPage, TypeOK, PullTypeOK, PullCalls
  <2>2. CASE PageApplied
    <3>1. ScopeOrNew(pull.scope) \in ScopeStates
      BY <2>1, ScopeOrNewType DEF TypeOK
    <3>2. Advanced(pull.scope).pullCursor = pull.to
      BY <3>1 DEF Advanced, ScopeStates
    <3>3. scopes' = Put(scopes, pull.scope, Advanced(pull.scope))
      BY <2>2 DEF PageApplied
    <3> QED BY <2>2, <3>2, <3>3 DEF Put, CursorMove
  <2> QED BY <1>1, <1>4, <2>2 DEF PullPage, PageApplied
<1>5. CASE Host
  <2>1. ASSUME NEW x, ResetScopeForResync(x) PROVE CursorMove(s)
    BY <2>1 DEF ResetScopeForResync, Put, CursorMove
  <2> QED BY <1>1, <1>2, <1>5, <2>1 DEF Host, ResolveBlockingEvent, Enqueue
<1>6. CASE Push
  <2>1. ASSUME NEW w \in Pushers,
               \/ PushAnswered(w)
               \/ \E failure \in {"unavailable", "refused", "call_revoked"} :
                    PushFailed(w, failure)
        PROVE  CursorMove(s)
    <3>1. pushes[w] # Null /\ pushes[w].scope \in Scopes
      <4>1. pushes[w] # Null
        BY <2>1 DEF PushAnswered, PushFailed
      <4> QED BY <4>1 DEF TypeOK, PushesTypeOK, PushCalls
    <3>2. PICK learnt : OutcomeOf(w, learnt)
      BY <2>1, PushEnds
    <3>3. UNCHANGED scopes \/ scopes' = ReplaceStatus(pushes[w].scope, "revoked")
      BY <3>2 DEF OutcomeOf, ApplyPushOutcome
    <3> QED BY <1>1, <1>3, <3>1, <3>3
  <2> QED BY <1>1, <1>6, <2>1 DEF Push, ClaimBatch, PushCommitFails, deviceVars
<1>7. CASE Pull
  <2>1. CASE PullCursorLost \/ PullRevoked
    <3>1. pull # Null /\ pull.scope \in Scopes
      BY <2>1 DEF PullCursorLost, PullRevoked, TypeOK, PullTypeOK, PullCalls
    <3> QED BY <1>3, <2>1, <3>1 DEF PullCursorLost, PullRevoked
  <2> QED BY <1>1, <1>4, <1>7, <2>1 DEF Pull, PullRead, PullFails, deviceVars
<1>8. CASE Server \/ Crash \/ UNCHANGED vars
  BY <1>1, <1>8 DEF Server, ServerProcess, ServerProcessLate, ServerAnswersPull,
     ForeignCommit, RevokeAuthorization, Crash, vars, deviceVars
<1> QED BY <1>5, <1>6, <1>7, <1>8 DEF Next

LEMMA CursorIsCovered ==
  CursorCovered <=>
    \A s \in DOMAIN scopes : scopes[s].pullCursor # Null =>
      \A p \in 1..scopes[s].pullCursor :
        Covered(<<s, changelog[s][p].entity>>, changelog[s][p].canonicalVersion)
BY DEF CursorCovered, Covered

LEMMA CursorStaysCovered ==
  ASSUME TypeOK, TypeOK', [Next]_vars, PendingMarkIsLatest, TombstonesEmpty,
         VersionsIncrease, CursorInRange, CursorCovered
  PROVE  CursorInRange' /\ CursorCovered'
<1> SUFFICES ASSUME NEW s \in DOMAIN scopes', NEW cursor,
                    cursor = scopes'[s].pullCursor, cursor # Null
             PROVE  /\ cursor \in 0..Len(changelog'[s])
                    /\ \A p \in 1..cursor :
                         Covered(<<s, changelog[s][p].entity>>,
                                 changelog[s][p].canonicalVersion)'
  BY DEF CursorInRange, CursorCovered, Covered
<1>1. s \in Scopes /\ changelog[s] \in Seq(Changes) /\ changelog'[s] \in Seq(Changes)
  BY DEF TypeOK, ScopesTypeOK, ServerTypeOK
<1>2. /\ DOMAIN changelog[s] = 1..Len(changelog[s]) /\ Len(changelog[s]) \in Nat
      /\ DOMAIN changelog'[s] = 1..Len(changelog'[s]) /\ Len(changelog'[s]) \in Nat
  BY <1>1, LenProperties
<1>3. \A p \in 1..Len(changelog[s]) :
        p \in 1..Len(changelog'[s]) /\ changelog'[s][p] = changelog[s][p]
  BY <1>1, <1>2, ChangelogGrows
<1>4. Len(changelog[s]) <= Len(changelog'[s])
  <2>1. CASE Len(changelog[s]) = 0
    BY <1>2, <2>1
  <2>2. CASE Len(changelog[s]) # 0
    <3>1. Len(changelog[s]) \in 1..Len(changelog[s])
      BY <1>2, <2>2
    <3> QED BY <1>2, <1>3, <3>1
  <2> QED BY <2>1, <2>2
\* A change the cursor had passed is covered still.
<1>5. ASSUME s \in DOMAIN scopes, scopes[s].pullCursor # Null,
             NEW p \in 1..scopes[s].pullCursor
      PROVE  Covered(<<s, changelog[s][p].entity>>,
                     changelog[s][p].canonicalVersion)'
  <2>1. p \in 1..Len(changelog[s])
    BY <1>2, <1>5 DEF CursorInRange
  <2>2. PICK change : change = changelog[s][p] /\ change = changelog'[s][p]
    BY <1>3, <2>1
  <2>3. change.canonicalVersion \in Nat
    <3>1. change \in Changes
      BY <1>1, <2>1, <2>2, ElementOfSeq
    <3> QED BY <3>1 DEF Changes, EventIds
  <2>4. Covered(<<s, change.entity>>, change.canonicalVersion)
    BY <1>5, <2>2, CursorIsCovered
  <2>5. Covered(<<s, change.entity>>, change.canonicalVersion)'
    BY <2>3, <2>4, CoveredStays
  <2> QED BY <2>2, <2>5 DEF Covered
<1>6. CASE s \in DOMAIN scopes /\ cursor = scopes[s].pullCursor
  <2>1. cursor \in 0..Len(changelog'[s])
    BY <1>2, <1>4, <1>6 DEF CursorInRange
  <2> QED BY <1>5, <1>6, <2>1
<1>7. CASE PageApplied /\ s = pull.scope /\ cursor = pull.to
  <2>1. /\ cursor \in Nat /\ cursor <= Len(changelog[s])
        /\ pull.cursor \in Nat \union {Null}
        /\ UNCHANGED changelog
        /\ ScopeOrNew(s).pullCursor = pull.cursor
    <3>1. pull # Null /\ pull.phase = "answered" /\ UNCHANGED changelog
          /\ ScopeOrNew(s).pullCursor = pull.cursor
      BY <1>7 DEF PageApplied, PullPage, serverVars
    <3> QED BY <1>7, <3>1 DEF TypeOK, PullTypeOK, PullCalls
  <2>2. ASSUME NEW p \in 1..cursor
        PROVE  Covered(<<s, changelog[s][p].entity>>,
                       changelog[s][p].canonicalVersion)'
    <3>1. CASE p \in PagePositions
      <4>1. PICK change : change = changelog[s][p] /\ change = changelog'[s][p]
        BY <2>1
      <4>2. Covered(<<s, change.entity>>, change.canonicalVersion)'
        BY <1>7, <3>1, <4>1, PageCovers
      <4> QED BY <4>1, <4>2 DEF Covered
    <3>2. CASE p \notin PagePositions
      <4>1. pull.cursor # Null /\ p \in 1..pull.cursor
        BY <1>7, <2>1, <2>2, <3>2 DEF PagePositions
      <4>2. s \in DOMAIN scopes /\ scopes[s].pullCursor = pull.cursor
        BY <2>1, <4>1 DEF ScopeOrNew
      <4> QED BY <1>5, <4>1, <4>2
    <3> QED BY <3>1, <3>2
  <2> QED BY <1>2, <2>1, <2>2
<1> QED BY <1>6, <1>7, NextCursorMove DEF CursorMove

\* Whatever the cursor has passed, the replica has or has superseded, unless an
\* event of the entity was rejected: no lost answer, reset, revocation, repeated
\* page or local write makes it skip a change.
THEOREM NothingSkipped == Spec => []CursorCovered
<1>1. Init => CursorInRange /\ CursorCovered
  BY DEF Init, CursorInRange, CursorCovered
<1>2. /\ TypeOK /\ TypeOK' /\ [Next]_vars /\ PendingMarkIsLatest
      /\ TombstonesEmpty /\ VersionsIncrease /\ CursorInRange /\ CursorCovered
      => (CursorInRange /\ CursorCovered)'
  BY CursorStaysCovered
<1> QED BY <1>1, <1>2, TypeCorrect, MarkIsLatest, TombstonesInvariant,
           VersionsInvariant, PTL DEF Spec

=============================================================================
