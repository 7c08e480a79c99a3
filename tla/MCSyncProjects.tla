--------------------------- MODULE MCSyncProjects ---------------------------
(* Small instances of SyncProjects for TLC. *)
EXTENDS SyncProjects

=============================================================================
