---------------------------- MODULE OutboxState ----------------------------
(***************************************************************************)
(* The durable outbox entry of the sync engine and its transition function *)
(* (packages/sync-engine/src/outbox-state.ts).  No variables: SyncEngine   *)
(* applies these operators to the entries of its outbox.                   *)
(*                                                                         *)
(* An entry keeps the fields the engine decides on.  leaseUntil and        *)
(* nextAttemptAt are not kept: SyncEngine lets the clock be anywhere and   *)
(* chooses which leases have lapsed and which retries are due.  Codes,     *)
(* outcome metadata and timestamps are left out.                           *)
(***************************************************************************)
EXTENDS Naturals

CONSTANT Null   \* the source's null

OutboxStates == {"pending", "sending", "retry_wait", "accepted",
                 "duplicate", "rejected", "conflict", "manual_review"}

\* Section 7.1 of the sync contract: the allowed state-to-state transitions.
OutboxTransitions ==
  [pending       |-> {"sending", "manual_review"},
   sending       |-> {"accepted", "duplicate", "rejected", "conflict",
                      "manual_review", "retry_wait", "pending"},
   retry_wait    |-> {"sending", "manual_review"},
   accepted      |-> {},
   duplicate     |-> {},
   rejected      |-> {},
   conflict      |-> {"manual_review"},
   manual_review |-> {}]

IsTerminalState(state) == state \in {"accepted", "duplicate", "rejected"}

\* States that stop later events of the same entity until they are resolved.
IsBlockingState(state) == state \in {"conflict", "manual_review"}

(***************************************************************************)
(* One operator per event of transitionOutboxState.  Each is used only     *)
(* where the source's guard holds; otherwise the source throws and the     *)
(* whole local transaction is abandoned.                                   *)
(***************************************************************************)
Claim(entry, attempt) ==
  [entry EXCEPT !.localState = "sending", !.attemptId = attempt,
                !.blockedBy = Null]

LeaseExpired(entry) ==
  [entry EXCEPT !.localState = "pending", !.attemptId = Null]

\* Mutant: a failed delivery is not counted.
Retry_Uncounted(entry) ==
  [entry EXCEPT !.localState = "retry_wait", !.attemptId = Null]

Retry(entry) ==
  [entry EXCEPT !.localState = "retry_wait", !.attemptId = Null,
                !.retryCount = @ + 1]

Result(entry, status) ==
  [entry EXCEPT !.localState = status, !.attemptId = Null,
                !.blockedBy = Null]

Invalidate(entry) ==
  [entry EXCEPT !.localState = "manual_review", !.blockedBy = Null]

Block(entry, blocker) == [entry EXCEPT !.blockedBy = blocker]

Resolve(entry, resolver) == [entry EXCEPT !.resolvedBy = resolver]

=============================================================================
