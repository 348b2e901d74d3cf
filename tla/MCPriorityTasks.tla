-------------------------- MODULE MCPriorityTasks --------------------------
(* The instance of PriorityTasks for TLC is in MCPriorityTasks.cfg. *)
EXTENDS PriorityTasks
=============================================================================
