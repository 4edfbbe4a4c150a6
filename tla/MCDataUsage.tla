---------------------------- MODULE MCDataUsage ----------------------------
(* DataUsage with two scripts.                                              *)
EXTENDS DataUsage, TLC

CONSTANTS s1, s2

ScriptSymmetry == Permutations({s1, s2})
=============================================================================
