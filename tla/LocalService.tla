---------------------------- MODULE LocalService ----------------------------
(***************************************************************************)
(* local_service: blobs that are passed as paths of a file system that the *)
(* server and its clients share, next to the uploads of StreamingPut.      *)
(*                                                                         *)
(* Put copies a file of the client into the session store.  It takes an id *)
(* and an entry as an upload does, but it reserves nothing: the entry      *)
(* keeps the size 0 and the quota does not see the copy.  Get answers with *)
(* a path of the data store and looks at no file.  Nothing is caught:      *)
(* gRPC turns an exception that leaves a handler into UNKNOWN.             *)
(***************************************************************************)
EXTENDS StreamingPut

CONSTANTS
    Locals,     \* calls of the local service: one handler thread each
    LocalSizes  \* the lengths of the files that clients put

ASSUME LocalsAssumption == Locals \cap Threads = {}
ASSUME LocalSizesAssumption == LocalSizes \subseteq Nat

VARIABLES
    localAt,      \* localAt[l]: the next step of the handler of l
    localSession, \* localSession[l]: the session whose reference it holds
    localBlob,    \* localBlob[l]: the blob that it creates
    localSize,    \* localSize[l]: the length of the file it has copied
    localStatus   \* localStatus[l]: what it answered

localVars == <<localAt, localSession, localBlob, localSize, localStatus>>

LocalTypeOK ==
    /\ TypeOK
    /\ localAt \in [Locals -> {"start", "tag", "create", "copy", "fill", "done"}]
    /\ localSession \in [Locals -> Sessions \cup {NoSession}]
    /\ localBlob \in [Locals -> BlobIds \cup {NoBlob}]
    /\ localSize \in [Locals -> Nat]
    /\ localStatus \in [Locals -> {"NONE", "OK", "UNAVAILABLE", "NOT_FOUND", "UNKNOWN"}]

LocalInit ==
    /\ Init
    /\ localAt = [l \in Locals |-> "start"]
    /\ localSession = [l \in Locals |-> NoSession]
    /\ localBlob = [l \in Locals |-> NoBlob]
    /\ localSize = [l \in Locals |-> 0]
    /\ localStatus = [l \in Locals |-> "NONE"]

LocalReaches(l, place) == running /\ localAt[l] = place
LocalGoesTo(l, place) ==
    localAt' = [localAt EXCEPT ![l] = place] /\ UNCHANGED <<localSession, localStatus>>
LocalAnswers(l, code) ==
    /\ localAt' = [localAt EXCEPT ![l] = "done"]
    /\ localStatus' = [localStatus EXCEPT ![l] = code]
    /\ localSession' = [localSession EXCEPT ![l] = NoSession]

-----------------------------------------------------------------------------
(* Both operations look the version and the session up. *)

LocalRejected(l) ==
    /\ LocalReaches(l, "start")
    /\ LocalAnswers(l, "UNAVAILABLE")
    /\ UNCHANGED <<localBlob, localSize, vars>>

\* get_session_impl throws.  A Get whose context is a transaction asks for
\* session 0, which is never created, and so ends here as well.
LocalNoSession(l, s) ==
    /\ LocalReaches(l, "start")
    /\ ~HasSession(s)
    /\ LocalAnswers(l, "UNKNOWN")
    /\ UNCHANGED <<localBlob, localSize, vars>>

LocalFindsSession(l, s) ==
    /\ LocalReaches(l, "start")
    /\ HasSession(s)
    /\ \E place \in {"tag", "create"} : localAt' = [localAt EXCEPT ![l] = place]
    /\ localSession' = [localSession EXCEPT ![l] = s]
    /\ UNCHANGED <<localBlob, localSize, localStatus, vars>>

LocalTouches(l) == HasSession(localSession[l]) \/ Residual

\* Get: NOT_FOUND without a transaction or with another tag than expected, else
\* the path that the data store has for the id, whether there is a file or not.
LocalGets(l) ==
    /\ LocalReaches(l, "tag")
    /\ LocalTouches(l)
    /\ \/ LocalAnswers(l, "NOT_FOUND")
       \/ transaction_id_opt_[localSession[l]] # NoTransaction /\ LocalAnswers(l, "OK")
    /\ UNCHANGED <<localBlob, localSize, vars>>

-----------------------------------------------------------------------------
(* Put. *)

LocalCreates(l) ==
    /\ LocalReaches(l, "create")
    /\ LocalTouches(l)
    /\ CanLock(localSession[l])
    /\ blob_id_ < MaxBlobs
    /\ AddEntry(localSession[l], UploadPath(blob_id_'))
    /\ localBlob' = [localBlob EXCEPT ![l] = blob_id_']
    /\ LocalGoesTo(l, "copy")
    /\ UNCHANGED <<localSize, managerVars, running, mtx_, current_size_, files, deleting,
                   hostVars, putVars, crashes>>

\* std::filesystem::copy creates the file, which must not exist, ...
LocalOpens(l) ==
    /\ LocalReaches(l, "copy")
    /\ files[UploadPath(localBlob[l])] = NoFile
    /\ files' = [files EXCEPT ![UploadPath(localBlob[l])] = 0]
    /\ LocalGoesTo(l, "fill")
    /\ UNCHANGED <<localBlob, localSize, managerVars, running, entryVars, mtx_, current_size_,
                   deleting, hostVars, putVars, crashes>>

\* ... or throws: the client's file is not there, or the copy is.
LocalOpenFails(l) ==
    /\ LocalReaches(l, "copy")
    /\ LocalAnswers(l, "UNKNOWN")
    /\ UNCHANGED <<localBlob, localSize, vars>>

\* The bytes follow.  A file that was unlinked meanwhile is on no path.
LocalCopies(l, size) ==
    LET path == UploadPath(localBlob[l]) IN
    /\ LocalReaches(l, "fill")
    /\ localSize' = [localSize EXCEPT ![l] = size]
    /\ files' = IF files[path] = NoFile THEN files ELSE [files EXCEPT ![path] = size]
    /\ UNCHANGED <<localBlob, managerVars, running, blob_id_, blobs_, entry_path, mtx_,
                   current_size_, deleting, hostVars, putVars, crashes>>

\* Mutant of LocalFills: the size goes into the entry, without a reservation.
LocalFillsCredited(l) ==
    /\ LocalAnswers(l, "OK")
    /\ \E size \in LocalSizes : LocalCopies(l, size) /\ Credit(localBlob[l], size)

LocalFills(l) ==
    /\ LocalAnswers(l, "OK")
    /\ \E size \in LocalSizes : LocalCopies(l, size)
    /\ UNCHANGED entry_size

\* The copy stops half-way: its first bytes stay, and so does the entry.
LocalFillThrows(l) ==
    /\ LocalAnswers(l, "UNKNOWN")
    /\ \E size \in LocalSizes : \E part \in 0..size : LocalCopies(l, part)
    /\ UNCHANGED entry_size

-----------------------------------------------------------------------------
LocalServes(l) == LocalGets(l) \/ LocalCreates(l) \/ LocalOpens(l) \/ LocalOpenFails(l)
                  \/ LocalFills(l) \/ LocalFillThrows(l)
LocalStep(l) ==
    \/ LocalRejected(l)
    \/ \E s \in Sessions \cup {NoSession} : LocalNoSession(l, s)
    \/ \E s \in Sessions : LocalFindsSession(l, s)
    \/ LocalServes(l)

StreamStep ==
    \/ \E h \in Hosts : HostStep(h) /\ UNCHANGED <<putVars, crashes>>
    \/ \E c \in Calls : (ClientStep(c) \/ ServerStep(c)) /\ UNCHANGED crashes
    \/ Construct /\ UNCHANGED <<putVars, crashes>>

LocalNext ==
    \/ StreamStep /\ UNCHANGED localVars
    \/ \E l \in Locals : LocalStep(l)

\* Threads inside remove, dispose or a handler are scheduled.  A client that
\* uploads owes nothing: it may never send the next message.  A handler of the
\* local service waits for no client.
LocalSpec ==
    /\ LocalInit /\ [][LocalNext]_<<vars, localVars>>
    /\ \A h \in Hosts : WF_<<vars, localVars>>(
           HostContinues(h) /\ UNCHANGED <<putVars, crashes, localVars>>)
    /\ \A c \in Calls : WF_<<vars, localVars>>(ServerStep(c) /\ UNCHANGED <<crashes, localVars>>)
    /\ \A l \in Locals : WF_<<vars, localVars>>(LocalServes(l))

-----------------------------------------------------------------------------
\* A copy that was acknowledged is on disk in full, or its file was removed or
\* moved by the host: no upload is written over it.
CopyIsComplete == \A l \in Locals : localStatus[l] = "OK" /\ localBlob[l] # NoBlob =>
    files[UploadPath(localBlob[l])] \in {NoFile, localSize[l]}

\* A call of the local service returns: it waits for no client, and a session
\* that is being emptied does not hold it up for ever.
LocalReturns == \A l \in Locals : localAt[l] \notin {"start", "done"} ~> localAt[l] = "done"
=============================================================================
