---------------------------- MODULE MCProviders ----------------------------
(***************************************************************************)
(* Providers for TLC: the .cfg files give the vendors and the bounds.      *)
(***************************************************************************)
EXTENDS Providers
=============================================================================
