----------------------------- MODULE MCPppLink -----------------------------
(***************************************************************************)
(* The router's end wants a and agrees to nothing else; the network's end  *)
(* wants b and may or may not agree to a: acceptance, a Nak that is taken, *)
(* Naks up to the limit and rejection all happen.                          *)
(***************************************************************************)
EXTENDS PppLink, TLC
CONSTANTS dev, net, a, b

MCEnds == {dev, net}
MCProfiles == { dev :> [want |-> a, allow |-> {a}] @@ net :> [want |-> b, allow |-> A] :
                A \in {{a, b}, {b}} }
=============================================================================
