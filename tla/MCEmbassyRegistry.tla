--------------------------- MODULE MCEmbassyRegistry ---------------------------
(***************************************************************************)
(* Instances of EmbassyRegistry: chats c1 and c2 share a project and profile,  *)
(* c3 has another.                                                         *)
(***************************************************************************)
EXTENDS EmbassyRegistry, TLC

CONSTANTS c1, c2, c3

MCOwnerOf == [c \in Chats |-> IF c = c3 THEN "other" ELSE "profile"]
MCSymmetry == Permutations(Ops)

(* Only some schedules of the event loop: a worker that is given the lock runs   *)
(* before anything else does, as it does when nothing else is ready just then.  *)
Prompt ==
  lock # <<>> /\ workers[Head(lock)].pc \in {"lock", "close", "mark"} =>
    workers'[Head(lock)] # workers[Head(lock)]
PromptSpec == RegistryInit /\ [][RegistryNext /\ Prompt]_rvars

=============================================================================
