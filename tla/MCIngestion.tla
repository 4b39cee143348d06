---------------------------- MODULE MCIngestion ----------------------------
(***************************************************************************)
(* Ingestion for TLC: the sets of requests, contents and keys are model    *)
(* values of the .cfg files.  No symmetry, as one property is a liveness.  *)
(***************************************************************************)
EXTENDS Ingestion
=============================================================================
