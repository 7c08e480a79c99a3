---------------------------- MODULE MCSyncFlush ----------------------------
(* Small instances of SyncFlush for TLC. *)
EXTENDS SyncFlush

=============================================================================
