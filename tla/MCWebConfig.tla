---------------------------- MODULE MCWebConfig ----------------------------
(* WebConfig with two requests at a time and two values to enter.           *)
EXTENDS WebConfig, TLC

Symmetry == Permutations(CgiProcs) \cup Permutations(Values)
=============================================================================
