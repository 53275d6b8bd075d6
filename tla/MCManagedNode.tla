---------------------------- MODULE MCManagedNode ----------------------------
(* Two processes; the first has two threads that call its manager.            *)
EXTENDS ManagedNode

CONSTANTS a0, a1, x1, x2, x3

MCHomeOf == [c \in Callers |-> IF c = x3 THEN a1 ELSE a0]

=============================================================================
