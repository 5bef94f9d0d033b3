--------------------------- MODULE MCLocalService ---------------------------
(***************************************************************************)
(* Instances of LocalService for TLC.                                      *)
(***************************************************************************)
EXTENDS LocalService

CONSTANTS h1, h2, c1, l1, t1
=============================================================================
