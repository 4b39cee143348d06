---------------------------- MODULE MCAgentLoop ----------------------------
(***************************************************************************)
(* AgentLoop for TLC: keys and items are model values of the .cfg files.   *)
(***************************************************************************)
EXTENDS AgentLoop
=============================================================================
