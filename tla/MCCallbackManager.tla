------------------------- MODULE MCCallbackManager -------------------------
(* Instances of CallbackManager for TLC. *)
EXTENDS CallbackManager

\* Names are only compared, and the threads other than Main are alike.
Symmetry == Permutations(Names) \cup Permutations(Threads \ {Main})
=============================================================================
