---------------------------- MODULE SyncPromise ----------------------------
(***************************************************************************)
(* What the sync engine promises of a business intent, whatever happens to *)
(* calls, responses and the process: the intent takes effect at most once  *)
(* and only after it was recorded; the device says it is done only when it *)
(* took effect, and says it was refused only when it did not and will not; *)
(* what was said once stays said; and a recorded intent is never forgotten.*)
(***************************************************************************)
CONSTANT Intents

VARIABLES
  told,    \* what the device knows of each intent
  applied  \* the intents that took effect

Stages == {"unknown", "queued", "done", "refused", "review"}

Init == /\ told = [i \in Intents |-> "unknown"]
        /\ applied = {}

Record(i) ==
  /\ told[i] = "unknown"
  /\ told' = [told EXCEPT ![i] = "queued"]
  /\ UNCHANGED applied

TakeEffect(i) ==
  /\ told[i] \in {"queued", "review"}
  /\ i \notin applied
  /\ applied' = applied \union {i}
  /\ UNCHANGED told

\* One response may settle several intents at once.
Settle ==
  /\ told' \in [Intents -> Stages]
  /\ \A i \in Intents : told'[i] # told[i] =>
       /\ told[i] = "queued"
       /\ \/ told'[i] = "done" /\ i \in applied
          \/ told'[i] = "refused" /\ i \notin applied
          \/ told'[i] = "review"
  /\ UNCHANGED applied

Next == \/ \E i \in Intents : Record(i) \/ TakeEffect(i)
        \/ Settle

Spec == Init /\ [][Next]_<<told, applied>>

=============================================================================
