-------------------------- MODULE MCSessionStore --------------------------
(***************************************************************************)
(* Instances of SessionStore for TLC, and a check of ByteCount's Total     *)
(* against the sum it stands for.                                          *)
(***************************************************************************)
EXTENDS SessionStore, TLC
LOCAL INSTANCE FiniteSetsExt

CONSTANTS s1, s2, s3

\* Total, a cardinality, is the sum of the values.
ASSUME TotalIsSum ==
    \A f \in [{"a", "b", "c"} -> 0..3] :
        Total(f) = MapThenSumSet(LAMBDA o : f[o], {"a", "b", "c"})

Symmetry == Permutations(Sessions)
=============================================================================
