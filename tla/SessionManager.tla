-------------------------- MODULE SessionManager --------------------------
(***************************************************************************)
(* blob_session_manager: the registry of sessions.                         *)
(*                                                                         *)
(* blob_sessions_ maps a session id to its session, blob_session_ids_ maps *)
(* a transaction id to the session that belongs to it; one mutex guards    *)
(* both, so create_session, dispose and each lookup is one step.  A        *)
(* session object is its id, its optional transaction and its blobs; the   *)
(* blobs are in SessionImpl, which extends this module.  TransactionLookup *)
(* puts the registry together with the Get calls that read it.             *)
(***************************************************************************)
EXTENDS Naturals, FiniteSets

CONSTANTS
    MaxSessions,   \* bound of the model: sessions created by one process
    Transactions,  \* the transaction ids that the host uses
    NoTransaction, \* the empty optional
    NoSession      \* a transaction without a session

ASSUME MaxSessionsAssumption == MaxSessions \in Nat
ASSUME NoTransactionAssumption == NoTransaction \notin Transactions
ASSUME NoSessionAssumption == NoSession \notin Nat

Sessions == 1..MaxSessions

VARIABLES
    session_id_,         \* the last session id handed out
    blob_sessions_,      \* the ids of the live sessions
    transaction_id_opt_, \* transaction_id_opt_[s]: the transaction of s
    blob_session_ids_    \* blob_session_ids_[t]: the session of t

managerVars == <<session_id_, blob_sessions_, transaction_id_opt_, blob_session_ids_>>

ManagerTypeOK ==
    /\ session_id_ \in 0..MaxSessions
    /\ blob_sessions_ \subseteq 1..session_id_
    /\ transaction_id_opt_ \in [Sessions -> Transactions \cup {NoTransaction}]
    /\ blob_session_ids_ \in [Transactions -> Sessions \cup {NoSession}]

ManagerInit ==
    /\ session_id_ = 0
    /\ blob_sessions_ = {}
    /\ transaction_id_opt_ = [s \in Sessions |-> NoTransaction]
    /\ blob_session_ids_ = [t \in Transactions |-> NoSession]

-----------------------------------------------------------------------------
\* get_session_id throws std::out_of_range on NoSession.
GetSessionId(t) == blob_session_ids_[t]

\* Mutants of NextSessionId: the id before the increment, the number of sessions.
SameSessionId == session_id_
CountedSessionId == Cardinality(blob_sessions_) + 1

NextSessionId == session_id_ + 1

\* Mutants of Register: nothing is registered; the session before is.
RegisterNothing(t, s) == UNCHANGED blob_session_ids_
RegisterPrevious(t, s) ==
    blob_session_ids_' = [x \in Transactions |->
        IF x = t /\ GetSessionId(x) = NoSession /\ s # 1 THEN s - 1 ELSE GetSessionId(x)]

\* emplace leaves an existing mapping alone.
Register(t, s) ==
    blob_session_ids_' = [x \in Transactions |->
        IF x = t /\ GetSessionId(x) = NoSession THEN s ELSE GetSessionId(x)]

\* create_session(t): a fresh id.
CreateSession(t) ==
    /\ session_id_ < MaxSessions
    /\ session_id_' = NextSessionId
    /\ blob_sessions_' = blob_sessions_ \cup {NextSessionId}
    /\ transaction_id_opt_' = [transaction_id_opt_ EXCEPT ![NextSessionId] = t]
    /\ Register(t, NextSessionId)

\* Mutant of Unregister: the mapping stays.
UnregisterNothing(t) == UNCHANGED blob_session_ids_

Unregister(t) ==
    blob_session_ids_' = [x \in Transactions |->
        IF x = t THEN NoSession ELSE GetSessionId(x)]

\* dispose(s): the mapping of the session's transaction goes too, whichever
\* session it names.
EraseSession(s) ==
    /\ s \in blob_sessions_
    /\ blob_sessions_' = blob_sessions_ \ {s}
    /\ Unregister(transaction_id_opt_[s])
    /\ UNCHANGED <<session_id_, transaction_id_opt_>>

\* get_session_impl and get_session succeed.
HasSession(s) == s \in blob_sessions_
=============================================================================
