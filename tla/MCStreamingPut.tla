-------------------------- MODULE MCStreamingPut --------------------------
(***************************************************************************)
(* Instances of StreamingPut for TLC.                                      *)
(***************************************************************************)
EXTENDS StreamingPut, TLC

CONSTANTS h1, h2, c1, c2, f1

Symmetry == Permutations(Calls) \cup Permutations(Hosts)
=============================================================================
