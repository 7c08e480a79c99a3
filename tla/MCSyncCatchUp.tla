--------------------------- MODULE MCSyncCatchUp ---------------------------
(* Small instances of SyncCatchUp for TLC. *)
EXTENDS SyncCatchUp

=============================================================================
