---------------------------- MODULE StreamingGet ----------------------------
(***************************************************************************)
(* streaming_service::Get, run together with the upload path: downloads    *)
(* while the host removes blobs, disposes of sessions and moves files, and *)
(* while uploads are still being written.                                  *)
(*                                                                         *)
(* A call g is one RPC; getAt[g] is the next thing its handler does.       *)
(* Nothing protects a download from what happens to its file: the path is  *)
(* looked up under the session's mutex, and then looked at three times,    *)
(* with no lock, by exists, by file_size and by the ifstream.              *)
(*                                                                         *)
(* What a request says is an input of the step that reads it: the context  *)
(* at the start, the storage and the blob when the path is looked up, the  *)
(* tag when it is compared.  The files of the data store are HostFiles:    *)
(* its two callbacks (api.h) are the host's.  A crash ends every Get and   *)
(* leaves nothing of it behind, so it is not repeated here.                *)
(***************************************************************************)
EXTENDS StreamingPut

CONSTANTS
    Gets,                 \* Get calls: one handler thread each
    chunk_size_,          \* the bytes of one read
    ReadFails,            \* whether looking at files and reading them may fail
    dev_accept_mock_tag_, \* whether the mock tag is accepted for any blob
    NoPath                \* no path looked up yet

ASSUME GetsAssumption == Gets \cap Threads = {}
ASSUME ChunkSizeAssumption == chunk_size_ \in Nat \ {0}
ASSUME MockTagAssumption == dev_accept_mock_tag_ \in BOOLEAN
ASSUME ReadFailsAssumption == ReadFails \in BOOLEAN
ASSUME NoPathAssumption == NoPath \notin Paths

VARIABLES
    getAt,          \* getAt[g]: the next step of the handler of g
    getTransaction, \* getTransaction[g]: the transaction in the request
    getSession,     \* getSession[g]: the session in the request, or of the
                    \*   transaction; NoSession for a transaction without one
    getPath,        \* getPath[g]: the path it found
    announced,      \* announced[g]: the size it sent in the metadata
    opened,         \* opened[g]: whether its input stream has the file open
    readFailed,     \* readFailed[g]: the stream could not open a file that was
                    \*   there, or a read failed
    sent,           \* sent[g]: the bytes it sent in chunks
    getStatus       \* getStatus[g]: what it answered

getVars == <<getAt, getTransaction, getSession, getPath, announced, opened, readFailed, sent,
             getStatus>>
uploadVars == <<managerVars, sessionVars, putVars, crashes>>

GetStatuses == {"NONE", "OK", "INVALID_ARGUMENT", "UNAVAILABLE", "NOT_FOUND",
                "PERMISSION_DENIED", "INTERNAL"}
GetPlaces == {"start", "check", "lookup", "find", "tag", "exists", "file_size", "open",
              "read", "done"}

GetTypeOK ==
    /\ TypeOK
    /\ getAt \in [Gets -> GetPlaces]
    /\ getTransaction \in [Gets -> Transactions \cup {NoTransaction}]
    /\ getSession \in [Gets -> Sessions \cup {NoSession}]
    /\ getPath \in [Gets -> Paths \cup {NoPath}]
    /\ announced \in [Gets -> Nat]
    /\ opened \in [Gets -> BOOLEAN]
    /\ readFailed \in [Gets -> BOOLEAN]
    /\ sent \in [Gets -> Nat]
    /\ getStatus \in [Gets -> GetStatuses]

GetInit ==
    /\ Init
    /\ getAt = [g \in Gets |-> "start"]
    /\ getTransaction = [g \in Gets |-> NoTransaction]
    /\ getSession = [g \in Gets |-> NoSession]
    /\ getPath = [g \in Gets |-> NoPath]
    /\ announced = [g \in Gets |-> 0]
    /\ opened = [g \in Gets |-> FALSE]
    /\ readFailed = [g \in Gets |-> FALSE]
    /\ sent = [g \in Gets |-> 0]
    /\ getStatus = [g \in Gets |-> "NONE"]

-----------------------------------------------------------------------------
GetReaches(g, place) == running /\ getAt[g] = place
GetGoesTo(g, place) == getAt' = [getAt EXCEPT ![g] = place] /\ UNCHANGED getStatus
GetAnswers(g, code) ==
    /\ getAt' = [getAt EXCEPT ![g] = "done"]
    /\ getStatus' = [getStatus EXCEPT ![g] = code]
KeepsContext == UNCHANGED <<getTransaction, getSession>>
KeepsStream == UNCHANGED <<opened, readFailed, sent>>
KeepsTransfer == UNCHANGED <<getPath, announced>> /\ KeepsStream

\* An API version that the server does not know, or no context.
GetRejected(g) ==
    /\ GetReaches(g, "start")
    /\ \E code \in {"UNAVAILABLE", "INVALID_ARGUMENT"} : GetAnswers(g, code)
    /\ KeepsContext /\ KeepsTransfer

\* The context is a session; whether there is one is not looked at yet.
GetNamesSession(g, s) ==
    /\ GetReaches(g, "start")
    /\ getSession' = [getSession EXCEPT ![g] = s]
    /\ GetGoesTo(g, "lookup")
    /\ UNCHANGED getTransaction /\ KeepsTransfer

\* The context is a transaction: get_session_id, or raw_transaction.
GetNamesTransaction(g, t) ==
    /\ GetReaches(g, "start")
    /\ getTransaction' = [getTransaction EXCEPT ![g] = t]
    /\ getSession' = [getSession EXCEPT ![g] = GetSessionId(t)]
    /\ GetGoesTo(g, IF GetSessionId(t) = NoSession THEN "lookup" ELSE "check")
    /\ KeepsTransfer

\* The session of the transaction is looked up and its transaction compared;
\* std::out_of_range is one of the exceptions that become INTERNAL.
GetChecks(g) ==
    LET s == getSession[g] IN
    /\ GetReaches(g, "check")
    /\ \/ ~HasSession(s) /\ GetAnswers(g, "INTERNAL")
       \/ /\ HasSession(s) /\ transaction_id_opt_[s] # getTransaction[g]
          /\ GetAnswers(g, "PERMISSION_DENIED")
       \/ /\ HasSession(s) /\ transaction_id_opt_[s] = getTransaction[g]
          /\ GetGoesTo(g, "lookup")
    /\ KeepsContext /\ KeepsTransfer

-----------------------------------------------------------------------------
(* The path. *)

\* storage_id is neither of the two storages.
GetNoStorage(g) ==
    /\ GetReaches(g, "lookup")
    /\ GetAnswers(g, "INVALID_ARGUMENT")
    /\ KeepsContext /\ KeepsTransfer

\* SESSION_STORAGE_ID: get_session_impl, unless there is no session.
GetLooksUp(g) ==
    LET s == getSession[g] IN
    /\ GetReaches(g, "lookup")
    /\ \/ s = NoSession /\ GetAnswers(g, "NOT_FOUND")
       \/ s # NoSession /\ ~HasSession(s) /\ GetAnswers(g, "INTERNAL")
       \/ s # NoSession /\ HasSession(s) /\ GetGoesTo(g, "find")
    /\ KeepsContext /\ KeepsTransfer

\* find(b), on the reference that get_session_impl returned.
GetFinds(g, b) ==
    LET s == getSession[g] IN
    /\ GetReaches(g, "find")
    /\ HasSession(s) \/ Residual
    /\ CanLock(s)
    /\ \/ /\ b \in blobs_[s]
          /\ getPath' = [getPath EXCEPT ![g] = entry_path[b]]
          /\ GetGoesTo(g, "tag")
       \/ /\ b \notin blobs_[s]
          /\ GetAnswers(g, "NOT_FOUND")
          /\ UNCHANGED getPath
    /\ KeepsContext /\ UNCHANGED announced /\ KeepsStream

\* LIMESTONE_BLOB_STORE: a file of the data store, if it is there.
GetFindsStored(g, f) ==
    /\ GetReaches(g, "lookup")
    /\ \/ /\ files[HostPath(f)] # NoFile
          /\ getPath' = [getPath EXCEPT ![g] = HostPath(f)]
          /\ GetGoesTo(g, "tag")
       \/ /\ files[HostPath(f)] = NoFile \/ ReadFails
          /\ GetAnswers(g, "NOT_FOUND")
          /\ UNCHANGED getPath
    /\ KeepsContext /\ UNCHANGED announced /\ KeepsStream

\* The tag expected is that of the transaction; without one it is asked of the
\* session, which is looked up once more.
HasTag(g) == getTransaction[g] # NoTransaction \/ HasSession(getSession[g])

GetComparesTag(g) ==
    /\ GetReaches(g, "tag")
    /\ \/ ~HasTag(g) /\ GetAnswers(g, "INTERNAL")
       \/ /\ HasTag(g)
          /\ \E tag \in {"expected", "mock", "other"} :
                IF tag = "expected" \/ (tag = "mock" /\ dev_accept_mock_tag_)
                  THEN GetGoesTo(g, "exists")
                  ELSE GetAnswers(g, "PERMISSION_DENIED")
    /\ KeepsContext /\ KeepsTransfer

-----------------------------------------------------------------------------
(* The data. *)

GetExists(g) ==
    /\ GetReaches(g, "exists")
    /\ \/ files[getPath[g]] # NoFile /\ GetGoesTo(g, "file_size")
       \/ files[getPath[g]] = NoFile /\ GetAnswers(g, "NOT_FOUND")
       \/ ReadFails /\ GetAnswers(g, "INTERNAL")
    /\ KeepsContext /\ KeepsTransfer

\* Mutant of FileSize: the size is that of the buffer.
FileSizeOfBuffer(g) == chunk_size_

FileSize(g) == files[getPath[g]]

\* file_size throws when the file is gone; its value is sent as metadata.
GetAnnounces(g) ==
    /\ GetReaches(g, "file_size")
    /\ \/ /\ files[getPath[g]] # NoFile
          /\ announced' = [announced EXCEPT ![g] = FileSize(g)]
          /\ GetGoesTo(g, "open")
       \/ /\ files[getPath[g]] = NoFile \/ ReadFails
          /\ GetAnswers(g, "INTERNAL")
          /\ UNCHANGED announced
    /\ KeepsContext /\ UNCHANGED getPath /\ KeepsStream

\* The ifstream is not asked whether it opened the file.
GetOpens(g) ==
    /\ GetReaches(g, "open")
    /\ \E ok \in BOOLEAN :
          /\ ok => files[getPath[g]] # NoFile
          /\ ~ok => files[getPath[g]] = NoFile \/ ReadFails
          /\ opened' = [opened EXCEPT ![g] = ok]
          /\ readFailed' = [readFailed EXCEPT ![g] = ~ok /\ files[getPath[g]] # NoFile]
    /\ GetGoesTo(g, "read")
    /\ KeepsContext /\ UNCHANGED <<getPath, announced, sent>>

\* The lengths that an open file may have: an unlinked one keeps its bytes and
\* is still written by the handler that uploads it.
Lengths(p) ==
    IF files[p] # NoFile THEN {files[p]}
    ELSE LET writers == {c \in Calls : p = UploadPath(putBlob[c])} IN
         IF writers = {} THEN {1}
         ELSE UNION {IF FsFails THEN 0..total_size[c] ELSE {total_size[c]} : c \in writers}

Smaller(a, b) == IF a < b THEN a ELSE b

\* Mutant of Full: one chunk, without the loop.
FullNever(g, length) == FALSE

Full(g, length) == length >= sent[g] + chunk_size_

\* One read and, unless it is empty, one chunk.  A short read has met the end
\* of the file and the stream then reads nothing more, even if the file grows.
\* A read that fails ends the data as well; whether the client still takes the
\* chunks is not looked at.
GetReads(g) ==
    /\ GetReaches(g, "read")
    /\ \E length \in IF opened[g] THEN Lengths(getPath[g]) ELSE {0} :
          /\ length >= sent[g]
          /\ \/ /\ sent' = [sent EXCEPT ![g] = Smaller(length, @ + chunk_size_)]
                /\ IF Full(g, length) THEN GetGoesTo(g, "read") ELSE GetAnswers(g, "OK")
                /\ UNCHANGED readFailed
             \/ /\ ReadFails /\ opened[g]
                /\ readFailed' = [readFailed EXCEPT ![g] = TRUE]
                /\ GetAnswers(g, "OK")
                /\ UNCHANGED sent
    /\ KeepsContext /\ UNCHANGED <<getPath, announced, opened>>

-----------------------------------------------------------------------------
GetStep(g) ==
    \/ GetRejected(g)
    \/ \E s \in Sessions : GetNamesSession(g, s)
    \/ \E t \in Transactions : GetNamesTransaction(g, t)
    \/ GetChecks(g)
    \/ GetNoStorage(g) \/ GetLooksUp(g)
    \/ \E b \in BlobIds : GetFinds(g, b)
    \/ \E f \in HostFiles : GetFindsStored(g, f)
    \/ GetComparesTag(g)
    \/ GetExists(g) \/ GetAnnounces(g) \/ GetOpens(g) \/ GetReads(g)

\* The data store removes a blob of its own.
StoreDeletes(f) ==
    /\ files[HostPath(f)] # NoFile
    /\ files' = [files EXCEPT ![HostPath(f)] = NoFile]
    /\ UNCHANGED <<managerVars, running, entryVars, mtx_, current_size_, deleting, hostVars,
                   putVars, crashes>>

UploadStep ==
    \/ \E h \in Hosts : HostStep(h) /\ UNCHANGED <<putVars, crashes>>
    \/ \E c \in Calls : (ClientStep(c) \/ ServerStep(c)) /\ UNCHANGED crashes
    \/ Construct /\ UNCHANGED <<putVars, crashes>>
    \/ \E f \in HostFiles : StoreDeletes(f)

GetNext ==
    \/ UploadStep /\ UNCHANGED getVars
    \/ \E g \in Gets : GetStep(g) /\ UNCHANGED uploadVars

GetSpec == GetInit /\ [][GetNext]_<<vars, getVars>>

-----------------------------------------------------------------------------
\* Once the file is open only a failing read cuts a download short, whatever
\* becomes of the entry, the session and the path meanwhile: the size announced
\* before the open is reached, because ids and so paths are not used twice.
OpenedNeverShort == \A g \in Gets :
    getStatus[g] = "OK" /\ opened[g] /\ ~readFailed[g] => sent[g] >= announced[g]

\* A download whose file is as long at its end as was announced is complete: a
\* client gets another number of bytes than announced only when the file was
\* removed, an upload was writing it, or it could not be read.
WholeIfUntouched == \A g \in Gets :
    getStatus[g] = "OK" /\ ~readFailed[g] /\ files[getPath[g]] = announced[g] =>
        sent[g] = announced[g]

\* The metadata is documented as "the BLOB data size in bytes to download"
\* (blob_relay_streaming.proto:36), and the tests expect a download that is
\* finished with OK to have that size (stream_basic_test.cpp:124).
SentAsAnnounced == \A g \in Gets : getStatus[g] = "OK" => sent[g] = announced[g]
=============================================================================
