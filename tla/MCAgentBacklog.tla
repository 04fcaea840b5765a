---------------------------- MODULE MCAgentBacklog --------------------------
(* AgentBacklog for TLC. *)
EXTENDS AgentBacklog
=============================================================================
