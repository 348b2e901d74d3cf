---------------------------- MODULE MCSharedRing ----------------------------
(* An instance of SharedRing for TLC. *)
EXTENDS SharedRing
=============================================================================
