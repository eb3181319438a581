-------------------------- MODULE MCAgentReference --------------------------
(***************************************************************************)
(* Instances of AgentReference for TLC.                                    *)
(***************************************************************************)
EXTENDS AgentReference

CONSTANTS w1, w2, hb, o1
=============================================================================
