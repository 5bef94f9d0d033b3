----------------------------- MODULE ByteCount -----------------------------
(***************************************************************************)
(* Counting reserved bytes.                                                *)
(*                                                                         *)
(* The session store keeps ONE number, current_size_, for the bytes that   *)
(* all blobs of all sessions hold.  Every statement about that number      *)
(* compares it with a sum over the blobs.  The sum is written as the       *)
(* cardinality of the set of reserved bytes: byte i of owner o is the pair *)
(* <<o, i>>.  In this form the facts a proof needs (what happens to the    *)
(* sum when one owner gains or loses bytes) follow from the theorems on    *)
(* finite sets, with no induction; ByteCountProofs proves them.            *)
(***************************************************************************)
EXTENDS Naturals, FiniteSets

\* The bytes held under f, a function from owners to sizes.
Bytes(f) == UNION {{o} \X (1..f[o]) : o \in DOMAIN f}

\* The sum of the sizes in f.
Total(f) == Cardinality(Bytes(f))
=============================================================================
