----------------------------- MODULE MCAgentTasks -----------------------------
(* Instances of AgentTasks, with the queue it implements, for TLC. *)
EXTENDS AgentImplements

=============================================================================
