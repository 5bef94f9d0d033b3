--------------------------- MODULE MCStreamingGet ---------------------------
(***************************************************************************)
(* Instances of StreamingGet for TLC.                                      *)
(***************************************************************************)
EXTENDS StreamingGet

CONSTANTS h1, c1, g1, f1, t1
=============================================================================
