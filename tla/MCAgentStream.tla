---------------------------- MODULE MCAgentStream -----------------------------
(* AgentStream on a small instance. *)
EXTENDS AgentStream
===============================================================================
