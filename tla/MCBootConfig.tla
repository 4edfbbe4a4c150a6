---------------------------- MODULE MCBootConfig ----------------------------
(***************************************************************************)
(* Small instances of the configuration tree: the boot script, the file    *)
(* that a reset keeps, and two callers of init.sh.                         *)
(***************************************************************************)
EXTENDS BootConfig
=============================================================================
