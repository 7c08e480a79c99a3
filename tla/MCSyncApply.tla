---------------------------- MODULE MCSyncApply ----------------------------
(* Small instances of SyncApply for TLC. *)
EXTENDS SyncApply, TLC

Symmetry == Permutations(Nodes)

=============================================================================
