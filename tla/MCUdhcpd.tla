------------------------------ MODULE MCUdhcpd ------------------------------
(***************************************************************************)
(* Udhcpd with two interchangeable clients. A restart may configure one    *)
(* static lease, inside or outside the block of addresses to give away;    *)
(* no client asks for a lease time of its own.                             *)
(***************************************************************************)
EXTENDS Udhcpd, TLC

MCStaticConfigs == {c :> a : c \in Clients, a \in {1, Last + 1}}

MCAsked == [c \in Clients |-> 0]

\* Clients only differ by name.
Symmetry == Permutations(Clients)
=============================================================================
