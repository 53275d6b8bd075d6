----------------------------- MODULE MCAuditChain -----------------------------
(* Two threads of one process, appending for two chats of a profile.          *)
EXTENDS AuditChain, TLC

CONSTANTS a, w1, w2, s1, s2

MCStoreOf == [w \in Writers |-> a]
MCSymmetry == Permutations({w1, w2}) \cup Permutations({s1, s2})
=============================================================================
