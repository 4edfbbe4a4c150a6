---------------------------- MODULE MCPppMonitor ----------------------------
(***************************************************************************)
(* The connection monitor with the code's own limits: three redials, three *)
(* tolerated weak readings, and at most two pppd processes starting up.    *)
(***************************************************************************)
EXTENDS PppMonitor
=============================================================================
