------------------------------- MODULE MCSync -------------------------------
(* Instances of SyncEngine for TLC. *)
EXTENDS SyncProperties, TLC

KeySymmetry == Permutations(Keys)

=============================================================================
