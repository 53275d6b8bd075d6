---------------------------- MODULE MCEmbassyOrigin ----------------------------
(***************************************************************************)
(* Instance of EmbassyOrigin: half-second ticks, a gateway clock that may be   *)
(* ahead by more than the skew that is tolerated.                            *)
(***************************************************************************)
EXTENDS EmbassyOrigin, TLC

MCOffsets == {0, 1, 4}
Interchangeable == Permutations(Calls)

=============================================================================
