--------------------------- MODULE MCSyncRevoked ---------------------------
(***************************************************************************)
(* SyncEngine with a memory of the scopes whose revocation the device has  *)
(* been told, to state what must follow from it.                           *)
(***************************************************************************)
EXTENDS SyncProperties

VARIABLE told   \* the scopes that were ever marked revoked

InitTold == Init /\ told = {}

NextTold ==
  /\ Next
  /\ told' = told \union {s \in DOMAIN scopes' : scopes'[s].status = "revoked"}

SpecTold == InitTold /\ [][NextTold]_<<vars, told>>

\* OFFLINE_SYNC_CONTRACT.md section 12: a revocation has to stop new pushes.
\* No push is started in a scope after the device marked it revoked
\* (claimBatch refuses a revoked scope).
RevocationStopsPushes ==
  [][\A w \in Pushers :
       pushes[w] = Null /\ pushes'[w] # Null =>
         pushes'[w].scope \notin told]_<<pushes, told>>

=============================================================================
