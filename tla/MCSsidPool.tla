----------------------------- MODULE MCSsidPool -----------------------------
(***************************************************************************)
(* Small instances of the session pool. With one process requests do not   *)
(* overlap and the pool implements SessionTable.                           *)
(***************************************************************************)
EXTENDS SsidPool, TLC

Symmetry == Permutations(Procs) \cup Permutations(Tags)
=============================================================================
