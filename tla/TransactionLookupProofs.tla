---------------------- MODULE TransactionLookupProofs ----------------------
(***************************************************************************)
(* For every number of sessions, transactions and Get calls: the registry  *)
(* maps a transaction to a live session of its own, and a Get that found a *)
(* session through a transaction is never told that it has another one.    *)
(*                                                                         *)
(* NeverDenied is not inductive: it needs LookupSound, that between the    *)
(* two lookups the session found keeps the transaction it was found by,    *)
(* which rests on ids never being handed out twice (session_id_ bounds     *)
(* every id in use) and on MapNamesLiveSession at the first lookup.        *)
(***************************************************************************)
EXTENDS TransactionLookup, TLAPS

\* Between the two lookups of a Get call.
LookupSound == \A g \in Gets : lookup[g].at = "check" =>
    /\ lookup[g].session \in 1..session_id_
    /\ transaction_id_opt_[lookup[g].session] = lookup[g].transaction

Inv == TypeOK /\ MapNamesLiveSession /\ LookupSound /\ NeverDenied

\* The empty registry satisfies the invariant.
LEMMA InitInv == Init => Inv
<1> SUFFICES ASSUME Init PROVE Inv
  OBVIOUS
<1>1. TypeOK
  BY MaxSessionsAssumption
     DEF Init, ManagerInit, TypeOK, ManagerTypeOK, Lookups
<1>2. MapNamesLiveSession
  BY DEF Init, ManagerInit, MapNamesLiveSession
<1>3. LookupSound /\ NeverDenied
  BY DEF Init, LookupSound, NeverDenied
<1> QED BY <1>1, <1>2, <1>3 DEF Inv

\* create_session preserves it: the id it takes is in no lookup and no mapping yet.
LEMMA CreateInv == 
  ASSUME Inv, NEW t \in Transactions \cup {NoTransaction}, CreateSession(t), UNCHANGED lookup
  PROVE  Inv'
<1> USE MaxSessionsAssumption, NoTransactionAssumption, NoSessionAssumption
<1>1. /\ session_id_ \in Nat /\ session_id_' = session_id_ + 1
      /\ session_id_' \in Sessions
      /\ session_id_' \notin 1..session_id_
      /\ \A s \in 1..session_id_ : s \in Sessions /\ s \in 1..session_id_'
  BY DEF CreateSession, NextSessionId, Register, GetSessionId, Inv, TypeOK, ManagerTypeOK, Sessions
<1>2. \A s \in 1..session_id_ : transaction_id_opt_'[s] = transaction_id_opt_[s]
  BY <1>1 DEF CreateSession, NextSessionId, Register, GetSessionId, Inv, TypeOK, ManagerTypeOK
<1>3. transaction_id_opt_'[session_id_'] = t
  BY <1>1 DEF CreateSession, NextSessionId, Register, GetSessionId, Inv, TypeOK, ManagerTypeOK
<1>4. TypeOK'
  <2>1. session_id_' \in 0..MaxSessions
    BY <1>1 DEF Sessions
  <2>2. blob_sessions_' \subseteq 1..session_id_'
    BY <1>1 DEF CreateSession, NextSessionId, Register, GetSessionId, Inv, TypeOK, ManagerTypeOK
  <2>3. transaction_id_opt_' \in [Sessions -> Transactions \cup {NoTransaction}]
    BY <1>1 DEF CreateSession, NextSessionId, Register, GetSessionId, Inv, TypeOK, ManagerTypeOK
  <2>4. blob_session_ids_' \in [Transactions -> Sessions \cup {NoSession}]
    BY <1>1 DEF CreateSession, NextSessionId, Register, GetSessionId, Inv, TypeOK, ManagerTypeOK
  <2> QED BY <2>1, <2>2, <2>3, <2>4 DEF Inv, TypeOK, ManagerTypeOK
<1>5. MapNamesLiveSession'
  <2>1. SUFFICES ASSUME NEW u \in Transactions, blob_session_ids_'[u] # NoSession
                 PROVE  /\ blob_session_ids_'[u] \in blob_sessions_'
                        /\ transaction_id_opt_'[blob_session_ids_'[u]] = u
    BY DEF MapNamesLiveSession
  <2>2. CASE u = t /\ blob_session_ids_[t] = NoSession
    <3>1. blob_session_ids_'[u] = session_id_'
      BY <2>2 DEF CreateSession, NextSessionId, Register, GetSessionId, Inv, TypeOK, ManagerTypeOK
    <3> QED BY <2>2, <3>1, <1>3 DEF CreateSession, NextSessionId, Register, GetSessionId
  <2>3. CASE ~(u = t /\ blob_session_ids_[t] = NoSession)
    <3>1. blob_session_ids_'[u] = blob_session_ids_[u]
      BY <2>3 DEF CreateSession, NextSessionId, Register, GetSessionId, Inv, TypeOK, ManagerTypeOK
    <3>2. blob_session_ids_[u] \in blob_sessions_
      BY <2>1, <3>1 DEF Inv, MapNamesLiveSession
    <3>3. transaction_id_opt_[blob_session_ids_[u]] = u
      BY <2>1, <3>1 DEF Inv, MapNamesLiveSession
    <3>4. blob_session_ids_[u] \in 1..session_id_
      BY <3>2 DEF Inv, TypeOK, ManagerTypeOK
    <3> QED BY <3>1, <3>2, <3>3, <3>4, <1>2 DEF CreateSession, NextSessionId, Register, GetSessionId
  <2> QED BY <2>2, <2>3
<1>6. LookupSound' /\ NeverDenied'
  BY <1>1, <1>2 DEF Inv, LookupSound, NeverDenied
<1> QED BY <1>4, <1>5, <1>6 DEF Inv

\* dispose preserves it: the mapping that named the session goes with it.
LEMMA EraseInv ==
  ASSUME Inv, NEW s \in Sessions, EraseSession(s), UNCHANGED lookup
  PROVE  Inv'
<1> USE NoTransactionAssumption, NoSessionAssumption
<1>1. TypeOK'
  BY DEF EraseSession, Unregister, GetSessionId, Inv, TypeOK, ManagerTypeOK
<1>2. MapNamesLiveSession'
  <2>1. SUFFICES ASSUME NEW u \in Transactions, blob_session_ids_'[u] # NoSession
                 PROVE  /\ blob_session_ids_'[u] \in blob_sessions_'
                        /\ transaction_id_opt_'[blob_session_ids_'[u]] = u
    BY DEF MapNamesLiveSession
  <2>2. blob_session_ids_'[u] = blob_session_ids_[u] /\ transaction_id_opt_[s] # u
    BY <2>1 DEF EraseSession, Unregister, GetSessionId, Inv, TypeOK, ManagerTypeOK
  <2>3. /\ blob_session_ids_[u] \in blob_sessions_
        /\ transaction_id_opt_[blob_session_ids_[u]] = u
    BY <2>1, <2>2 DEF Inv, MapNamesLiveSession
  <2> QED BY <2>2, <2>3 DEF EraseSession, Unregister, GetSessionId
<1>3. LookupSound' /\ NeverDenied'
  BY DEF Inv, LookupSound, NeverDenied, EraseSession, Unregister, GetSessionId
<1> QED BY <1>1, <1>2, <1>3 DEF Inv

\* Every step of the registry and of a Get call preserves it.
LEMMA NextInv == Inv /\ [Next]_allVars => Inv'
<1> SUFFICES ASSUME Inv, [Next]_allVars PROVE Inv'
  OBVIOUS
<1>1. CASE HostCreates /\ UNCHANGED lookup
  BY <1>1, CreateInv DEF HostCreates
<1>2. CASE HostErases /\ UNCHANGED lookup
  BY <1>2, EraseInv DEF HostErases
<1>3. ASSUME NEW g \in Gets, NEW t \in Transactions, GetFindsSession(g, t) PROVE Inv'
  <2>1. GetSessionId(t) # NoSession =>
          /\ GetSessionId(t) \in 1..session_id_ /\ GetSessionId(t) \in Sessions
          /\ transaction_id_opt_[GetSessionId(t)] = t
    BY MaxSessionsAssumption
       DEF Inv, MapNamesLiveSession, GetSessionId, TypeOK, ManagerTypeOK, Sessions
  <2>2. TypeOK'
    BY <1>3, <2>1
       DEF Inv, TypeOK, ManagerTypeOK, GetFindsSession, managerVars, Lookups
  <2>3. LookupSound' /\ NeverDenied'
    BY <1>3, <2>1
       DEF Inv, TypeOK, LookupSound, NeverDenied, GetFindsSession, managerVars
  <2>4. MapNamesLiveSession'
    BY <1>3 DEF Inv, MapNamesLiveSession, GetFindsSession, managerVars
  <2> QED BY <2>2, <2>3, <2>4 DEF Inv
<1>4. ASSUME NEW g \in Gets, GetChecksSession(g) PROVE Inv'
  <2> DEFINE verdict == Verdict(lookup[g].session, lookup[g].transaction)
  <2>1. verdict \in {"internal", "allowed"}
    BY <1>4 DEF Verdict, Inv, LookupSound, GetChecksSession
  <2>2. /\ lookup[g] \in Lookups
        /\ lookup' = [lookup EXCEPT ![g] =
             [at |-> verdict, transaction |-> lookup[g].transaction,
              session |-> lookup[g].session]]
        /\ UNCHANGED managerVars
    BY <1>4 DEF GetChecksSession, Inv, TypeOK
  <2> HIDE DEF verdict
  <2>4. TypeOK'
    <3>1. [at |-> verdict, transaction |-> lookup[g].transaction,
           session |-> lookup[g].session] \in Lookups
      BY <2>1, <2>2 DEF Lookups
    <3>2. lookup' \in [Gets -> Lookups]
      BY <2>2, <3>1 DEF Inv, TypeOK
    <3> QED BY <2>2, <3>2 DEF Inv, TypeOK, ManagerTypeOK, managerVars
  <2>5. LookupSound' /\ NeverDenied'
    BY <2>1, <2>2 DEF Inv, TypeOK, LookupSound, NeverDenied, managerVars
  <2>3. MapNamesLiveSession'
    BY <1>4 DEF Inv, MapNamesLiveSession, GetChecksSession, managerVars
  <2> QED BY <2>3, <2>4, <2>5 DEF Inv
<1>5. CASE UNCHANGED allVars
  BY <1>5 DEF Inv, TypeOK, ManagerTypeOK, MapNamesLiveSession, LookupSound, NeverDenied,
              allVars, managerVars
<1> QED BY <1>1, <1>2, <1>3, <1>4, <1>5 DEF Next

(* The inductive invariant holds in every reachable state. *)
THEOREM Invariance == Spec => []Inv
BY InitInv, NextInv, PTL DEF Spec

(* The types of the registry and of the Get calls. *)
THEOREM TypeCorrect == Spec => []TypeOK
<1>1. Inv => TypeOK
  BY DEF Inv
<1> QED BY <1>1, Invariance, PTL

(* blob_session_ids_ never names a session that is gone or that belongs to *)
(* another transaction (session_manager.cpp:33-35 and 50-55), even when a  *)
(* transaction has several sessions. *)
THEOREM MapSound == Spec => []MapNamesLiveSession
<1>1. Inv => MapNamesLiveSession
  BY DEF Inv
<1> QED BY <1>1, Invariance, PTL

(* Get's PERMISSION_DENIED exits at streaming_service.cpp:56-63 are dead    *)
(* code: whatever the host does between the two lookups, the session found *)
(* by the transaction has that transaction, or is gone. *)
THEOREM DeniedUnreachable == Spec => []NeverDenied
<1>1. Inv => NeverDenied
  BY DEF Inv
<1> QED BY <1>1, Invariance, PTL

-----------------------------------------------------------------------------
(* A session id is above every id handed out before. *)
LEMMA StepReuse == Inv /\ [Next]_allVars =>
    \A s \in Sessions :
        s <= session_id_ /\ s \notin blob_sessions_ => s \notin blob_sessions_'
<1> SUFFICES ASSUME Inv, [Next]_allVars, NEW s \in Sessions,
                    s <= session_id_, s \notin blob_sessions_
             PROVE  s \notin blob_sessions_'
  OBVIOUS
<1>1. s \in Nat /\ session_id_ \in Nat
  BY MaxSessionsAssumption DEF Inv, TypeOK, ManagerTypeOK, Sessions
<1>2. ASSUME NEW t, CreateSession(t) PROVE s \notin blob_sessions_'
  BY <1>1, <1>2 DEF CreateSession, NextSessionId, Register, GetSessionId
<1>3. ASSUME NEW r, EraseSession(r) PROVE s \notin blob_sessions_'
  BY <1>3 DEF EraseSession, Unregister, GetSessionId
<1>4. CASE UNCHANGED managerVars
  BY <1>4 DEF managerVars
<1> QED BY <1>2, <1>3, <1>4 DEF Next, HostCreates, HostErases,
              GetFindsSession, GetChecksSession, allVars

(* No session id names two sessions, one after the other                   *)
(* (session_manager.cpp:31): a stale id finds nothing. *)
THEOREM NoReuse == Spec => IdsNeverReused
BY Invariance, StepReuse, PTL DEF Spec, IdsNeverReused
-----------------------------------------------------------------------------
(* The only session of a transaction: what MapNamesLiveSession lacks. *)

\* There is no session initially.
LEMMA InitFinds == Init => TransactionFindsSession
BY DEF Init, ManagerInit, TransactionFindsSession

\* create_session(t): the mapping of t is free if t has no session, and the
\* mappings of other transactions stay.
LEMMA CreateFinds ==
  ASSUME Inv, TransactionFindsSession,
         NEW t \in Transactions \cup {NoTransaction}, CreateSession(t)
  PROVE  TransactionFindsSession'
<1> SUFFICES ASSUME NEW s \in blob_sessions_', transaction_id_opt_'[s] \in Transactions,
                    \A r \in 1..session_id_' :
                       transaction_id_opt_'[r] = transaction_id_opt_'[s] => r = s
             PROVE  blob_session_ids_'[transaction_id_opt_'[s]] = s
  BY DEF TransactionFindsSession, OnlySession, GetSessionId
<1> USE NoTransactionAssumption, NoSessionAssumption, MaxSessionsAssumption
<1>1. /\ session_id_ \in Nat /\ session_id_' = session_id_ + 1
      /\ session_id_' \in Sessions /\ session_id_' \in 1..session_id_'
      /\ transaction_id_opt_'[session_id_'] = t
      /\ \A r \in 1..session_id_ :
            /\ r \in Sessions /\ r \in 1..session_id_' /\ r # session_id_'
            /\ transaction_id_opt_'[r] = transaction_id_opt_[r]
      /\ blob_sessions_ \subseteq 1..session_id_
      /\ blob_session_ids_ \in [Transactions -> Sessions \cup {NoSession}]
  BY DEF CreateSession, NextSessionId, Register, GetSessionId, Inv, TypeOK, ManagerTypeOK, Sessions
<1>2. CASE s = session_id_'
  <2>1. \A r \in blob_sessions_ : transaction_id_opt_[r] # t
    BY <1>1, <1>2
  <2>2. t \in Transactions /\ blob_session_ids_[t] = NoSession
    BY <1>1, <1>2, <2>1 DEF Inv, MapNamesLiveSession
  <2> QED BY <1>1, <1>2, <2>2 DEF CreateSession, NextSessionId, Register, GetSessionId
<1>3. CASE s # session_id_'
  <2>1. s \in blob_sessions_ /\ s \in 1..session_id_
    BY <1>1, <1>3 DEF CreateSession, NextSessionId, Register, GetSessionId
  <2>2. transaction_id_opt_'[s] = transaction_id_opt_[s] /\ t # transaction_id_opt_[s]
    BY <1>1, <1>3, <2>1
  <2>3. \A r \in 1..session_id_ : transaction_id_opt_[r] = transaction_id_opt_[s] => r = s
    BY <1>1, <2>2
  <2>4. blob_session_ids_[transaction_id_opt_[s]] = s
    BY <2>1, <2>2, <2>3 DEF TransactionFindsSession, OnlySession, GetSessionId
  <2> QED BY <1>1, <2>2, <2>4 DEF CreateSession, NextSessionId, Register, GetSessionId
<1> QED BY <1>2, <1>3

\* dispose of another session, which is one of another transaction.
LEMMA EraseFinds ==
  ASSUME Inv, TransactionFindsSession, NEW q \in Sessions, EraseSession(q)
  PROVE  TransactionFindsSession'
<1> SUFFICES ASSUME NEW s \in blob_sessions_', transaction_id_opt_'[s] \in Transactions,
                    \A r \in 1..session_id_' :
                       transaction_id_opt_'[r] = transaction_id_opt_'[s] => r = s
             PROVE  blob_session_ids_'[transaction_id_opt_'[s]] = s
  BY DEF TransactionFindsSession, OnlySession, GetSessionId
<1>1. /\ s \in blob_sessions_ /\ q \in 1..session_id_ /\ s # q
      /\ transaction_id_opt_' = transaction_id_opt_ /\ session_id_' = session_id_
  BY DEF EraseSession, Unregister, GetSessionId, Inv, TypeOK, ManagerTypeOK
<1>2. blob_session_ids_[transaction_id_opt_[s]] = s
  BY <1>1 DEF TransactionFindsSession, OnlySession, GetSessionId
<1>3. transaction_id_opt_[q] # transaction_id_opt_[s]
  BY <1>1
<1> QED BY <1>1, <1>2, <1>3 DEF EraseSession, Unregister, GetSessionId, Inv, TypeOK, ManagerTypeOK

\* The only session of a transaction stays findable over every step.
LEMMA NextFinds ==
  Inv /\ TransactionFindsSession /\ [Next]_allVars => TransactionFindsSession'
<1> SUFFICES ASSUME Inv, TransactionFindsSession, [Next]_allVars
             PROVE  TransactionFindsSession'
  OBVIOUS
<1>1. CASE UNCHANGED managerVars
  BY <1>1 DEF managerVars, TransactionFindsSession, OnlySession, GetSessionId
<1> QED BY <1>1, CreateFinds, EraseFinds DEF Next, HostCreates, HostErases,
              GetFindsSession, GetChecksSession, allVars

(* A transaction for which one session was created reaches it for as long  *)
(* as it lives (session_manager.cpp:67-73).                                *)
THEOREM FindsLiveSession == Spec => []TransactionFindsSession
BY InitInv, NextInv, InitFinds, NextFinds, PTL DEF Spec
=============================================================================
