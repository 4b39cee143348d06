---------------------------- MODULE MCSubAgents ----------------------------
(***************************************************************************)
(* SubAgents for TLC: a reader, a writer that says so, a tool that declares *)
(* nothing and does write (bash), and a delegation tool.                   *)
(***************************************************************************)
EXTENDS SubAgents

CONSTANTS look, edit, bash, spawn

MCTools    == {look, edit, bash, spawn}
MCEffects  == [t \in MCTools |-> CASE t = look -> {"read"}
                                   [] t = bash -> {}
                                   [] OTHER    -> {"mutate"}]
MCMutating == {edit, bash, spawn}
MCRuling   == [e \in {"read", "write", "network", "mutate"} |->
                IF e = "write" THEN "deny" ELSE IF e = "network" THEN "ask" ELSE "allow"]
=============================================================================
