----------------------------- MODULE MCSemQueue -----------------------------
(* The instance of SemQueue for TLC is in MCSemQueue.cfg. *)
EXTENDS SemQueue
=============================================================================
