--------------------------- MODULE MCWorkspaceLock ---------------------------
(* Small instances of WorkspaceLock for TLC. *)
EXTENDS WorkspaceLock, TLC

Symmetry == Permutations(Processes)

=============================================================================
