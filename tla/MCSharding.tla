----------------------------- MODULE MCSharding -----------------------------
(***************************************************************************)
(* Sharding for TLC: every document of up to MaxPages pages whose pages    *)
(* are one of a few kinds, with every range and cap.                       *)
(***************************************************************************)
EXTENDS Sharding

CONSTANTS a, b   \* marks

\* Plain pages, an unreadable one, and pages whose marks repeat within the
\* page, on another page, or are empty.
MCPageValues ==
  {NotCandidate, Unreadable, <<a>>, <<b, NoMark, b, a>>}
=============================================================================
