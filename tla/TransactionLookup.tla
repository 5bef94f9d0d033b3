------------------------- MODULE TransactionLookup -------------------------
(***************************************************************************)
(* The registry of sessions, and the Get calls that look a session up      *)
(* through its transaction while the host creates and disposes of sessions *)
(* (streaming_service.cpp:40-64).                                          *)
(*                                                                         *)
(* The streaming service reads the registry with TWO lookups, each under   *)
(* its own lock: get_session_id, then get_session_impl.  lookup is the     *)
(* progress of a Get call through them.                                    *)
(***************************************************************************)
EXTENDS SessionManager

CONSTANT Gets  \* Get calls that name a transaction

VARIABLE lookup  \* lookup[g]: the progress of Get call g

allVars == <<managerVars, lookup>>

Lookups == [at : {"start", "check", "allowed", "no session", "denied", "internal"},
            transaction : Transactions \cup {NoTransaction},
            session : Sessions \cup {NoSession}]

TypeOK == ManagerTypeOK /\ lookup \in [Gets -> Lookups]

Init ==
    /\ ManagerInit
    /\ lookup = [g \in Gets |-> [at |-> "start", transaction |-> NoTransaction,
                                 session |-> NoSession]]

-----------------------------------------------------------------------------
\* Get, part one: which session does the transaction have?  With none, the
\* call goes on without a session (raw_transaction).
GetFindsSession(g, t) ==
    /\ lookup[g].at = "start"
    /\ lookup' = [lookup EXCEPT ![g] =
         IF GetSessionId(t) = NoSession
           THEN [at |-> "no session", transaction |-> t, session |-> NoSession]
           ELSE [at |-> "check", transaction |-> t, session |-> GetSessionId(t)]]
    /\ UNCHANGED managerVars

\* Get, part two: the session's own transaction is compared with the one in
\* the request; a session that is gone by now is an exception.
Verdict(s, t) ==
    IF ~HasSession(s) THEN "internal"
    ELSE IF transaction_id_opt_[s] = t THEN "allowed" ELSE "denied"

GetChecksSession(g) ==
    /\ lookup[g].at = "check"
    /\ lookup' = [lookup EXCEPT ![g] =
         [at |-> Verdict(lookup[g].session, lookup[g].transaction),
          transaction |-> lookup[g].transaction, session |-> lookup[g].session]]
    /\ UNCHANGED managerVars

-----------------------------------------------------------------------------
HostCreates == \E t \in Transactions \cup {NoTransaction} : CreateSession(t)
HostErases == \E s \in Sessions : EraseSession(s)

Next ==
    \/ HostCreates /\ UNCHANGED lookup
    \/ HostErases /\ UNCHANGED lookup
    \/ \E g \in Gets, t \in Transactions : GetFindsSession(g, t)
    \/ \E g \in Gets : GetChecksSession(g)

Spec == Init /\ [][Next]_allVars

-----------------------------------------------------------------------------
\* A transaction is mapped to a live session of its own, even when several
\* sessions were created for one transaction and are disposed of in any order.
MapNamesLiveSession ==
    \A t \in Transactions : blob_session_ids_[t] # NoSession =>
        /\ blob_session_ids_[t] \in blob_sessions_
        /\ transaction_id_opt_[blob_session_ids_[t]] = t

\* The two PERMISSION_DENIED exits of Get's context check are never taken:
\* a session found through its transaction still has it one lock later.
NeverDenied == \A g \in Gets : lookup[g].at # "denied"

\* The id of a session that is gone never names another one, so an id or a
\* reference kept across a dispose cannot reach a stranger's session.
IdsNeverReused == [][\A s \in Sessions :
    s <= session_id_ /\ s \notin blob_sessions_ => s \notin blob_sessions_']_allVars

\* No other session was created for the transaction of s.
OnlySession(s) == \A r \in 1..session_id_ :
    transaction_id_opt_[r] = transaction_id_opt_[s] => r = s

\* A live session that is the only one of its transaction is found through it,
\* whatever sessions of other transactions come and go.
TransactionFindsSession ==
    \A s \in blob_sessions_ : transaction_id_opt_[s] \in Transactions /\ OnlySession(s) =>
        GetSessionId(transaction_id_opt_[s]) = s

\* A Get that found no session for its transaction was right to: the log
\* message says "cannot find any session for the transaction_id"
\* (streaming_service.cpp:44).
NoSessionMeansNone == [][\A g \in Gets :
    lookup'[g].at = "no session" /\ lookup[g].at # "no session" =>
        \A s \in blob_sessions_ : transaction_id_opt_[s] # lookup'[g].transaction]_allVars
=============================================================================
