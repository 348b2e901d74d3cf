-------------------------- MODULE MCBounceThreads --------------------------
(* Instances of BounceThreads for TLC. *)
EXTENDS BounceThreads
=============================================================================
