------------------------ MODULE MCTransactionLookup ------------------------
(***************************************************************************)
(* Instances of TransactionLookup for TLC.                                 *)
(***************************************************************************)
EXTENDS TransactionLookup, TLC

CONSTANTS t1, t2, g1, g2

Symmetry == Permutations(Transactions) \cup Permutations(Gets)
=============================================================================
