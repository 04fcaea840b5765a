-------------------------- MODULE MCAgentTelemetry --------------------------
(* AgentTelemetry for TLC. *)
EXTENDS AgentTelemetry
=============================================================================
