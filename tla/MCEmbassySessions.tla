-------------------------- MODULE MCEmbassySessions --------------------------
(***************************************************************************)
(* Instances of EmbassySessions.  Identifiers and requests are              *)
(* interchangeable; so are origins, but SessionInit picks one of them.       *)
(***************************************************************************)
EXTENDS EmbassySessions, TLC

Interchangeable == Permutations(Requests) \cup Permutations(Ids)

=============================================================================
