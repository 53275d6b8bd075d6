--------------------------- MODULE MCInferenceGate ----------------------------
(* Two threads and one decision of a sensitive class; another call of the    *)
(* chat comes and goes.  k2 is the configuration of another node, which does *)
(* not permit the class; k3 is k1 with the feature switched off, which the   *)
(* bound hashes do not show.                                                *)
EXTENDS InferenceGate, TLC

CONSTANTS p1, c1, d1, n1, l1, t1, t2, a0, k1, k2, k3, m1, m2

MCProfileOf == (c1 :> p1)
MCScopeOf == [x \in Calls |-> c1]
MCProcessOf == [t \in Threads |-> a0]
MCCeilingOf == [k \in Configs |-> 1]
MCSealOf == [k \in Configs |-> IF k = k2 THEN k2 ELSE k1]
MCNodeOf == [k \in Configs |-> IF k = k2 THEN m2 ELSE m1]
MCSymmetry == Permutations(Threads)
=============================================================================
