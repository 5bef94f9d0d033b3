------------------------ MODULE SessionStoreProofs ------------------------
(***************************************************************************)
(* For every number of sessions, every quota and every chunk size: the     *)
(* counter of the session store is exact, never exceeds the quota, and     *)
(* reserve and remove behave as one atomic step each.                      *)
(*                                                                         *)
(* The invariant Inv is inductive.  TypeOK alone is not enough: that an    *)
(* exchange may store current + size needs TestedBeforeCas, that remove    *)
(* does not wrap below zero needs AccountingExact, and that the sum is a   *)
(* number at all needs the set of held bytes to be finite.                 *)
(***************************************************************************)
EXTENDS SessionStore, ByteCountProofs

CounterBounded == quota_ # 0 => current_size_ <= quota_

\* A reservation about to exchange has tested the sum it will store.
TestedBeforeCas ==
    \A s \in Sessions : pc[s] = "cas" =>
        /\ quota_ # 0
        /\ current[s] + size[s] <= quota_

Inv ==
    /\ TypeOK
    /\ IsFiniteSet(Bytes(held))
    /\ AccountingExact
    /\ CounterBounded
    /\ TestedBeforeCas

\* The empty store satisfies the invariant.
LEMMA InitInv == Init => Inv
<1> SUFFICES ASSUME Init PROVE Inv
  OBVIOUS
<1>1. TypeOK
  BY NoWrapAssumption, ChunkAssumption, QuotaAssumption DEF Init, TypeOK
<1>2. held \in [Sessions -> Nat] /\ \A s \in Sessions : held[s] = 0
  BY DEF Init
<1>3. IsFiniteSet(Bytes(held)) /\ Total(held) = 0
  BY <1>2, TotalZero
<1>4. AccountingExact /\ CounterBounded /\ TestedBeforeCas
  BY <1>3, QuotaAssumption DEF Init, AccountingExact, CounterBounded, TestedBeforeCas
<1> QED
  BY <1>1, <1>3, <1>4 DEF Inv

-----------------------------------------------------------------------------
(* A successful exchange, or an unlimited grant: s holds size[s] bytes more. *)
LEMMA GrantHeld ==
  ASSUME Inv, NEW s \in Sessions, Granted(s)
  PROVE  /\ held' \in [Sessions -> Nat]
         /\ IsFiniteSet(Bytes(held'))
         /\ Total(held') = Total(held) + size[s]
         /\ Total(held) \in Nat
<1>1. held \in [Sessions -> Nat] /\ size[s] \in Nat /\ IsFiniteSet(Bytes(held))
  BY ChunkAssumption DEF Inv, TypeOK
<1>2. /\ held' \in [Sessions -> Nat]
      /\ held'[s] = held[s] + size[s]
      /\ \A p \in Sessions \ {s} : held'[p] = held[p]
  BY <1>1 DEF Granted
<1>3. Total(held) \in Nat
  BY <1>1, TotalAtLeast
<1> HIDE DEF Granted
<1> QED BY <1>1, <1>2, <1>3, TotalGrow

(* Reading the counter and testing it against the quota. *)
LEMMA TestInv ==
  ASSUME Inv, NEW s \in Sessions, quota_ # 0, Test(s, current_size_),
         UNCHANGED <<current_size_, size, held>>
  PROVE  Inv'
<1>1. current_size_ \in 0..quota_ /\ size[s] \in 0..MaxChunk
  BY QuotaAssumption DEF Inv, TypeOK, CounterBounded
<1>2. Plus(current_size_, size[s]) = current_size_ + size[s]
  BY <1>1, NoWrapAssumption, ChunkAssumption, QuotaAssumption DEF Plus
<1>3. TypeOK'
  BY <1>1 DEF Inv, TypeOK, Test, Fits, Refused
<1>4. AccountingExact' /\ CounterBounded' /\ IsFiniteSet(Bytes(held))'
  BY DEF Inv, AccountingExact, CounterBounded
<1>5. TestedBeforeCas'
  <2>1. SUFFICES ASSUME NEW r \in Sessions, pc'[r] = "cas"
                 PROVE  quota_ # 0 /\ current'[r] + size'[r] <= quota_
    BY DEF TestedBeforeCas
  <2>2. CASE r = s
    <3>1. current'[s] = current_size_ /\ size' = size
      BY DEF Test, Fits, Refused, Inv, TypeOK
    <3>2. Plus(current_size_, size[s]) <= quota_
      BY <2>1, <2>2 DEF Test, Fits, Refused, Inv, TypeOK
    <3> QED BY <3>1, <3>2, <1>1, <1>2, <2>2, QuotaAssumption, ChunkAssumption
  <2>3. CASE r # s
    <3>1. pc[r] = "cas" /\ current'[r] = current[r] /\ size' = size
      BY <2>1, <2>3 DEF Test, Fits, Refused, Inv, TypeOK
    <3> QED BY <3>1 DEF Inv, TestedBeforeCas
  <2> QED BY <2>2, <2>3
<1> QED BY <1>3, <1>4, <1>5 DEF Inv

\* Every instruction of reserve and remove preserves it.
LEMMA NextInv == Inv /\ [Next]_vars => Inv'
<1> SUFFICES ASSUME Inv, [Next]_vars PROVE Inv'
  OBVIOUS
<1> USE QuotaAssumption, ChunkAssumption, NoWrapAssumption
<1>1. ASSUME NEW s \in Sessions, NEW n \in 0..MaxChunk, StartReserve(s, n)
      PROVE  Inv'
  <2>1. TypeOK'
    BY <1>1 DEF Inv, TypeOK, StartReserve
  <2>2. TestedBeforeCas'
    BY <1>1 DEF Inv, TypeOK, StartReserve, TestedBeforeCas
  <2> QED BY <1>1, <2>1, <2>2 DEF Inv, StartReserve, AccountingExact, CounterBounded
<1>2. ASSUME NEW s \in Sessions, Unlimited(s) PROVE Inv'
  <2>1. TypeOK'
    BY <1>2 DEF Inv, TypeOK, Unlimited, Granted
  <2>2. IsFiniteSet(Bytes(held'))
    BY <1>2, GrantHeld DEF Unlimited
  <2>3. AccountingExact' /\ CounterBounded'
    BY <1>2 DEF Inv, Unlimited, AccountingExact, CounterBounded
  <2>4. TestedBeforeCas'
    BY <1>2 DEF Inv, TypeOK, Unlimited, Granted, TestedBeforeCas
  <2> QED BY <2>1, <2>2, <2>3, <2>4 DEF Inv
<1>3. ASSUME NEW s \in Sessions, Load(s) PROVE Inv'
  BY <1>3, TestInv DEF Load
<1>4. ASSUME NEW s \in Sessions, CasSucceeds(s) PROVE Inv'
  <2>1. /\ quota_ # 0
        /\ current[s] = current_size_
        /\ current_size_ \in Nat /\ size[s] \in Nat
        /\ current_size_ + size[s] <= quota_
    BY <1>4 DEF CasSucceeds, Expected, Inv, TypeOK, TestedBeforeCas
  <2>2. current_size_' = current_size_ + size[s]
    BY <1>4, <2>1 DEF CasSucceeds, Expected, Plus
  <2>3. TypeOK'
    BY <1>4, <2>1, <2>2 DEF Inv, TypeOK, CasSucceeds, Expected, Granted
  <2>4. /\ IsFiniteSet(Bytes(held'))
        /\ Total(held') = Total(held) + size[s]
    BY <1>4, GrantHeld DEF CasSucceeds, Expected
  <2>5. AccountingExact'
    BY <2>1, <2>2, <2>4 DEF Inv, AccountingExact
  <2>6. CounterBounded'
    BY <2>1, <2>2 DEF CounterBounded
  <2>7. TestedBeforeCas'
    BY <1>4 DEF Inv, TypeOK, CasSucceeds, Expected, Granted, TestedBeforeCas
  <2> QED BY <2>3, <2>4, <2>5, <2>6, <2>7 DEF Inv
<1>5. ASSUME NEW s \in Sessions, CasFails(s) PROVE Inv'
  <2>1. quota_ # 0
    BY <1>5 DEF CasFails, Expected, Retry, Inv, TestedBeforeCas
  <2> QED BY <1>5, <2>1, TestInv DEF CasFails, Expected, Retry
<1>6. ASSUME NEW s \in Sessions, NEW n \in 1..held[s], Remove(s, n) PROVE Inv'
  <2>1. /\ held \in [Sessions -> Nat] /\ held[s] \in Nat /\ n \in Nat /\ n <= held[s]
        /\ IsFiniteSet(Bytes(held))
    BY DEF Inv, TypeOK
  <2>2. /\ held' \in [Sessions -> Nat]
        /\ held[s] = held'[s] + n
        /\ \A p \in Sessions \ {s} : held'[p] = held[p]
    BY <1>6, <2>1 DEF Remove, CountDown
  <2>3. /\ IsFiniteSet(Bytes(held'))
        /\ Total(held) = Total(held') + n
        /\ Total(held') \in Nat
    BY <2>1, <2>2, TotalShrink
  <2>4. CASE quota_ = 0
    <3>1. current_size_' = current_size_
      BY <1>6, <2>4 DEF Remove, CountDown
    <3> QED BY <1>6, <2>2, <2>3, <2>4, <3>1
          DEF Remove, CountDown, Inv, TypeOK, AccountingExact, CounterBounded, TestedBeforeCas
  <2>5. CASE quota_ # 0
    <3>1. current_size_ = Total(held') + n
      BY <2>3, <2>5 DEF Inv, AccountingExact
    <3>2. current_size_' = Total(held')
      BY <1>6, <2>1, <2>3, <2>5, <3>1 DEF Remove, CountDown, Minus
    <3>3. current_size_' \in 0..Word - 1 /\ current_size_' <= quota_
      BY <2>1, <2>3, <2>5, <3>1, <3>2 DEF Inv, TypeOK, CounterBounded
    <3> QED BY <1>6, <2>2, <2>3, <2>5, <3>2, <3>3
          DEF Remove, CountDown, Inv, TypeOK, AccountingExact, CounterBounded, TestedBeforeCas
  <2> QED BY <2>4, <2>5
<1>7. CASE UNCHANGED vars
  BY <1>7 DEF Inv, TypeOK, AccountingExact, CounterBounded, TestedBeforeCas, vars
<1> QED BY <1>1, <1>2, <1>3, <1>4, <1>5, <1>6, <1>7 DEF Next, Step

(* The inductive invariant holds in every reachable state. *)
THEOREM Invariance == Spec => []Inv
BY InitInv, NextInv, PTL DEF Spec

(* The variables keep their types; in particular the counter never leaves  *)
(* the range of std::size_t (session_store.h:63). *)
THEOREM TypeCorrect == Spec => []TypeOK
<1>1. Inv => TypeOK
  BY DEF Inv
<1> QED BY <1>1, Invariance, PTL

(* The counter is the number of bytes held, under every interleaving of    *)
(* reserve's exchange loop and remove (session_store.h:71-89). *)
THEOREM CounterExact == Spec => []AccountingExact
<1>1. Inv => AccountingExact
  BY DEF Inv
<1> QED BY <1>1, Invariance, PTL

(* All sessions together never hold more than the quota. *)
THEOREM QuotaHolds == Spec => []QuotaRespected
<1>1. Inv => QuotaRespected
  BY DEF Inv, AccountingExact, CounterBounded, QuotaRespected
<1> QED BY <1>1, Invariance, PTL

-----------------------------------------------------------------------------
(* Each step of the store is a step of the abstract counter or a stutter.  *)
LEMMA StepRefines == Inv /\ [Next]_vars => [Abstract!QNext]_(Abstract!qvars)
<1> SUFFICES ASSUME Inv, [Next]_vars PROVE [Abstract!QNext]_(Abstract!qvars)
  OBVIOUS
<1> USE QuotaAssumption, ChunkAssumption, NoWrapAssumption
<1> DEFINE asking == [s \in Sessions |-> pc[s] # "idle"]
<1>1. ASSUME NEW s \in Sessions, NEW n \in 0..MaxChunk, StartReserve(s, n)
      PROVE  Abstract!Ask(s)
  <2>1. asking' = [asking EXCEPT ![s] = TRUE]
    BY <1>1 DEF StartReserve, Inv, TypeOK
  <2> QED BY <1>1, <2>1 DEF StartReserve, Abstract!Ask, Inv, TypeOK
<1>2. ASSUME NEW s \in Sessions, Granted(s), pc[s] # "idle"
      PROVE  asking[s] /\ asking' = [asking EXCEPT ![s] = FALSE]
  BY <1>2 DEF Granted, Inv, TypeOK
<1>3. ASSUME NEW s \in Sessions, Unlimited(s) PROVE Abstract!Grant(s)
  <2>1. current_size_ + 0 = current_size_
    BY DEF Inv, TypeOK
  <2> QED BY <1>2, <1>3, <2>1
       DEF Unlimited, Granted, Abstract!Grant, Abstract!Fits, Abstract!Counted
<1>4. ASSUME NEW s \in Sessions, CasSucceeds(s) PROVE Abstract!Grant(s)
  <2>1. /\ quota_ # 0
        /\ current[s] = current_size_
        /\ current_size_ \in Nat /\ size[s] \in Nat
        /\ current_size_ + size[s] <= quota_
    BY <1>4 DEF CasSucceeds, Expected, Inv, TypeOK, TestedBeforeCas
  <2>2. current_size_' = current_size_ + size[s]
    BY <1>4, <2>1 DEF CasSucceeds, Expected, Plus
  <2>3. asking[s] /\ asking' = [asking EXCEPT ![s] = FALSE]
    BY <1>2, <1>4 DEF CasSucceeds, Expected
  <2> QED BY <1>4, <2>1, <2>2, <2>3
       DEF CasSucceeds, Expected, Granted, Abstract!Grant, Abstract!Fits, Abstract!Counted
<1>5. ASSUME NEW s \in Sessions, pc[s] # "idle", quota_ # 0,
             Test(s, current_size_), UNCHANGED <<current_size_, size, held>>
      PROVE  Abstract!Refuse(s) \/ UNCHANGED Abstract!qvars
  <2>1. current_size_ \in 0..quota_ /\ size[s] \in 0..MaxChunk
    BY <1>5 DEF Inv, TypeOK, CounterBounded
  <2>2. Plus(current_size_, size[s]) = current_size_ + size[s]
    BY <2>1 DEF Plus
  <2>3. CASE ~(current_size_ + size[s] <= quota_)
    <3>1. /\ pc' = [pc EXCEPT ![s] = "idle"]
          /\ result' = [result EXCEPT ![s] = "refused"]
      BY <1>5, <2>2, <2>3 DEF Test, Fits, Refused
    <3>2. asking[s] /\ asking' = [asking EXCEPT ![s] = FALSE]
      BY <1>5, <3>1 DEF Inv, TypeOK
    <3> QED BY <1>5, <2>3, <3>1, <3>2 DEF Abstract!Refuse, Abstract!Fits
  <2>4. CASE current_size_ + size[s] <= quota_
    <3>1. pc' = [pc EXCEPT ![s] = "cas"] /\ result' = result
      BY <1>5, <2>2, <2>4 DEF Test, Fits, Refused
    <3>2. asking' = asking
      BY <1>5, <3>1 DEF Inv, TypeOK
    <3> QED BY <1>5, <3>1, <3>2 DEF Abstract!qvars
  <2> QED BY <2>3, <2>4
<1>6. ASSUME NEW s \in Sessions, Load(s)
      PROVE  Abstract!Refuse(s) \/ UNCHANGED Abstract!qvars
  BY <1>5, <1>6 DEF Load
<1>7. ASSUME NEW s \in Sessions, CasFails(s)
      PROVE  Abstract!Refuse(s) \/ UNCHANGED Abstract!qvars
  <2>1. quota_ # 0
    BY <1>7 DEF CasFails, Expected, Retry, Inv, TestedBeforeCas
  <2> QED BY <1>5, <1>7, <2>1 DEF CasFails, Expected, Retry
<1>8. ASSUME NEW s \in Sessions, NEW n \in 1..held[s], Remove(s, n)
      PROVE  Abstract!GiveBack(s)
  <2>1. held[s] \in Nat /\ n \in Nat /\ n <= held[s] /\ current_size_ \in Nat
    BY DEF Inv, TypeOK
  <2>2. asking' = asking /\ ~asking[s]
    BY <1>8 DEF Remove, CountDown
  <2>3. current_size_' = current_size_ - IF quota_ = 0 THEN 0 ELSE n
    <3>1. CASE quota_ = 0
      BY <1>8, <2>1, <3>1 DEF Remove, CountDown
    <3>2. CASE quota_ # 0
      <4>1. held[s] <= Total(held)
        BY TotalAtLeast DEF Inv, TypeOK
      <4>2. n <= current_size_
        BY <2>1, <3>2, <4>1, TotalAtLeast DEF Inv, AccountingExact, TypeOK
      <4> QED BY <1>8, <2>1, <3>2, <4>2 DEF Remove, CountDown, Minus
    <3> QED BY <3>1, <3>2
  <2> QED BY <1>8, <2>2, <2>3 DEF Remove, CountDown, Abstract!GiveBack, Abstract!Counted
<1>9. CASE UNCHANGED vars
  BY <1>9 DEF vars, Abstract!qvars
<1> HIDE DEF asking
<1> QED BY <1>1, <1>3, <1>4, <1>6, <1>7, <1>8, <1>9 DEF Next, Step, Abstract!QNext

(* The store implements the atomic counter: although reserve loads, tests  *)
(* and exchanges in separate instructions, every grant and every refusal   *)
(* is right at one instant between its call and its return. *)
THEOREM Refinement == Spec => ReservesAtomically
<1>1. Init => Abstract!QInit
  BY DEF Init, Abstract!QInit
<1> QED BY <1>1, Invariance, StepRefines, PTL DEF Spec, ReservesAtomically, Abstract!QSpec
=============================================================================
