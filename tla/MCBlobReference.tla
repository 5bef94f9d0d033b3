-------------------------- MODULE MCBlobReference --------------------------
(***************************************************************************)
(* Instances of BlobReference for TLC.                                     *)
(***************************************************************************)
EXTENDS BlobReference, TLC

CONSTANTS h1, h2, c1, c2, f1

Symmetry == Permutations(Calls) \cup Permutations(Hosts)
=============================================================================
