------------------------------- MODULE MCPppd -------------------------------
(***************************************************************************)
(* One option value and one identifier: a packet whose identifier does not *)
(* match is dropped without effect, so that only the matching ones count.  *)
(***************************************************************************)
EXTENDS Pppd
CONSTANTS a
=============================================================================
