---------------------------- MODULE MCSyncQueue ----------------------------
(* The instance of SyncQueue for TLC is in MCSyncQueue.cfg. *)
EXTENDS SyncQueue
=============================================================================
