---------------------------- MODULE MCAgentClient ----------------------------
(***************************************************************************)
(* AgentClient for TLC; the cfg gives the bounds.                          *)
(***************************************************************************)
EXTENDS AgentClient
=============================================================================
