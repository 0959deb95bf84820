-------------------------- MODULE MCAgentLifecycle --------------------------
(* Small instances: two runs and two callers of Close. *)
EXTENDS AgentLifecycle

CONSTANTS r1, r2, c1, c2
=============================================================================
