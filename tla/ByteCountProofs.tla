-------------------------- MODULE ByteCountProofs --------------------------
(***************************************************************************)
(* What Total does when every owner is at 0, and when one owner's size     *)
(* grows or shrinks.  These are the only facts about sums that the proofs  *)
(* of the session store and of the upload path use.                        *)
(***************************************************************************)
EXTENDS ByteCount, Integers, FiniteSetTheorems, TLAPS

(* Membership in Bytes(f), pointwise. *)
LEMMA InBytes ==
  ASSUME NEW I, NEW f \in [I -> Nat], NEW o, NEW i
  PROVE  <<o, i>> \in Bytes(f) <=> o \in I /\ i \in 1..f[o]
BY DEF Bytes

(* The bytes of one owner from a+1 to b: a finite set of b-a elements. *)
LEMMA Slice ==
  ASSUME NEW o, NEW a \in Nat, NEW b \in Nat, a <= b
  PROVE  /\ IsFiniteSet({o} \X (a+1..b))
         /\ Cardinality({o} \X (a+1..b)) = b - a
<1>1. IsFiniteSet({o}) /\ Cardinality({o}) = 1
  BY FS_Singleton
<1> DEFINE c == a + 1
<1>2. IsFiniteSet(c..b) /\ Cardinality(c..b) = b - a
  <2>1. c \in Int /\ b \in Int
    OBVIOUS
  <2> HIDE DEF c
  <2>2. /\ IsFiniteSet(c..b)
        /\ Cardinality(c..b) = IF c > b THEN 0 ELSE b - c + 1
    BY <2>1, FS_Interval
  <2> QED BY <2>2 DEF c
<1>3. 1 * (b - a) = b - a
  OBVIOUS
<1> HIDE DEF c
<1>4. /\ IsFiniteSet({o} \X (c..b))
      /\ Cardinality({o} \X (c..b)) = Cardinality({o}) * Cardinality(c..b)
  BY <1>1, <1>2, FS_Product, Zenon
<1>5. Cardinality({o} \X (c..b)) = b - a
  BY <1>1, <1>2, <1>3, <1>4
<1> QED BY <1>4, <1>5 DEF c

(* With nothing held the total is 0. *)
LEMMA TotalZero ==
  ASSUME NEW I, NEW f \in [I -> Nat], \A o \in I : f[o] = 0
  PROVE  IsFiniteSet(Bytes(f)) /\ Total(f) = 0
<1>1. Bytes(f) = {}
  BY DEF Bytes
<1> QED BY <1>1, FS_EmptySet DEF Total

(* One owner gains n bytes: the total grows by n. *)
LEMMA TotalGrow ==
  ASSUME NEW I, NEW f \in [I -> Nat], NEW g \in [I -> Nat],
         NEW o \in I, NEW n \in Nat,
         g[o] = f[o] + n, \A p \in I \ {o} : g[p] = f[p],
         IsFiniteSet(Bytes(f))
  PROVE  IsFiniteSet(Bytes(g)) /\ Total(g) = Total(f) + n
<1> DEFINE S == {o} \X (f[o]+1..g[o])
<1>1. IsFiniteSet(S) /\ Cardinality(S) = n
  <2>1. f[o] \in Nat /\ g[o] \in Nat /\ f[o] <= g[o] /\ g[o] - f[o] = n
    OBVIOUS
  <2> QED BY <2>1, Slice
<1>2. Bytes(g) = Bytes(f) \cup S
  <2>1. ASSUME NEW x \in Bytes(g) PROVE x \in Bytes(f) \cup S
    <3>1. PICK p \in I : x \in {p} \X (1..g[p])
      BY DEF Bytes
    <3>2. PICK i \in 1..g[p] : x = <<p, i>>
      BY <3>1
    <3>3. CASE p # o
      BY <3>2, <3>3, InBytes
    <3>4. CASE p = o /\ i <= f[o]
      <4>1. i \in 1..f[o]
        BY <3>2, <3>4
      <4> QED BY <4>1, <3>2, <3>4, InBytes
    <3>5. CASE p = o /\ i > f[o]
      BY <3>2, <3>5
    <3> QED BY <3>3, <3>4, <3>5, <3>2
  <2>2. ASSUME NEW x \in Bytes(f) PROVE x \in Bytes(g)
    <3>1. PICK p \in I : x \in {p} \X (1..f[p])
      BY DEF Bytes
    <3>2. PICK i \in 1..f[p] : x = <<p, i>>
      BY <3>1
    <3>3. i \in 1..g[p]
      BY <3>2
    <3> QED BY <3>2, <3>3, InBytes
  <2>3. ASSUME NEW x \in S PROVE x \in Bytes(g)
    <3>1. PICK i \in f[o]+1..g[o] : x = <<o, i>>
      OBVIOUS
    <3>2. i \in 1..g[o]
      BY <3>1
    <3> QED BY <3>1, <3>2, InBytes
  <2> QED BY <2>1, <2>2, <2>3
<1>3. Bytes(f) \cap S = {}
  <2>1. SUFFICES ASSUME NEW x \in S, x \in Bytes(f) PROVE FALSE
    OBVIOUS
  <2>2. PICK i \in f[o]+1..g[o] : x = <<o, i>>
    OBVIOUS
  <2>3. i \in 1..f[o]
    BY <2>1, <2>2, InBytes
  <2> QED BY <2>2, <2>3
<1>4. Cardinality(Bytes(f)) \in Nat /\ Cardinality({}) = 0
  BY FS_CardinalityType, FS_EmptySet
<1>5. /\ IsFiniteSet(Bytes(f) \cup S)
      /\ Cardinality(Bytes(f) \cup S)
           = Cardinality(Bytes(f)) + Cardinality(S) - Cardinality(Bytes(f) \cap S)
  BY <1>1, FS_Union
<1>6. Cardinality(Bytes(g)) = Cardinality(Bytes(f)) + n
  <2>1. Cardinality(Bytes(f)) + n - 0 = Cardinality(Bytes(f)) + n
    BY <1>4
  <2> QED BY <2>1, <1>1, <1>2, <1>3, <1>4, <1>5
<1> QED BY <1>2, <1>5, <1>6 DEF Total

(* One owner loses n bytes: the total shrinks by n, and was at least n. *)
LEMMA TotalShrink ==
  ASSUME NEW I, NEW f \in [I -> Nat], NEW g \in [I -> Nat],
         NEW o \in I, NEW n \in Nat,
         f[o] = g[o] + n, \A p \in I \ {o} : g[p] = f[p],
         IsFiniteSet(Bytes(f))
  PROVE  /\ IsFiniteSet(Bytes(g))
         /\ Total(f) = Total(g) + n
         /\ Total(g) \in Nat
<1>1. Bytes(g) \subseteq Bytes(f)
  <2>1. SUFFICES ASSUME NEW x \in Bytes(g) PROVE x \in Bytes(f)
    OBVIOUS
  <2>2. PICK p \in I : x \in {p} \X (1..g[p])
    BY DEF Bytes
  <2>3. PICK i \in 1..g[p] : x = <<p, i>>
    BY <2>2
  <2>4. i \in 1..f[p]
    BY <2>3
  <2> QED BY <2>3, <2>4, InBytes
<1>2. IsFiniteSet(Bytes(g))
  BY <1>1, FS_Subset
<1>3. \A p \in I \ {o} : f[p] = g[p]
  OBVIOUS
<1>4. Total(f) = Total(g) + n
  BY <1>2, <1>3, TotalGrow
<1> QED BY <1>2, <1>4, FS_CardinalityType DEF Total

(* One owner's size is part of the total. *)
LEMMA TotalAtLeast ==
  ASSUME NEW I, NEW f \in [I -> Nat], NEW o \in I, IsFiniteSet(Bytes(f))
  PROVE  Total(f) \in Nat /\ f[o] <= Total(f)
<1> DEFINE g == [f EXCEPT ![o] = 0]
<1>1. g \in [I -> Nat] /\ f[o] = g[o] + f[o] /\ \A p \in I \ {o} : g[p] = f[p]
  OBVIOUS
<1>2. f[o] \in Nat
  OBVIOUS
<1>3. Total(f) = Total(g) + f[o] /\ Total(g) \in Nat
  <2> HIDE DEF g
  <2> QED BY <1>1, <1>2, TotalShrink
<1> QED BY <1>2, <1>3
=============================================================================
