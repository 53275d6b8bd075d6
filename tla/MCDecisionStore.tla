--------------------------- MODULE MCDecisionStore ---------------------------
(* A small installation for TLC: a chat with two decisions in one profile,    *)
(* and a chat with a native call in another; room for one open decision.      *)
EXTENDS DecisionStore, TLC

CONSTANTS p1, p2, c1, c2, d1, d2, n1

MCProfileOf == (c1 :> p1) @@ (c2 :> p2)
MCScopeOf == (d1 :> c1) @@ (d2 :> c1) @@ (n1 :> c2)
=============================================================================
