----------------------------- MODULE MCAgentRpc ------------------------------
(***************************************************************************)
(* Instances of AgentRpc for TLC: two or three calls, channels that fill   *)
(* up with one message, and the calls as model values.                     *)
(***************************************************************************)
EXTENDS AgentRpc

CONSTANTS k1, k2, k3

MCCalls == {k1, k2, k3}
MCPair  == {k1, k2}
MCWatch == {k3}
MCNone  == {}
=============================================================================
