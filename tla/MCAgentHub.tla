---------------------------- MODULE MCAgentHub -----------------------------
(* AgentHub with a few sockets and heartbeat gaps.                           *)
EXTENDS AgentHub
=============================================================================
