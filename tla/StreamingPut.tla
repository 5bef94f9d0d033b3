--------------------------- MODULE StreamingPut ---------------------------
(***************************************************************************)
(* streaming_service::Put together with the sessions it stores into: the   *)
(* upload path of the relay, with the host creating, emptying and          *)
(* disposing of sessions while handlers run, and the process dying.        *)
(*                                                                         *)
(* A call c is one RPC; putAt[c] is the next thing its handler does.       *)
(* "read" is the one place where the handler waits for the client; the     *)
(* client's stream may end there for any reason, a broken connection       *)
(* included, and the handler cannot tell.  All other places are the        *)
(* server's own.  A handler looks its session up once and keeps the        *)
(* reference (streaming_service.cpp:170) to the end of the call.           *)
(*                                                                         *)
(* A chunk is its number of bytes.  The buffering of std::ofstream is      *)
(* abstracted: a write reaches the file in the step that makes it.         *)
(***************************************************************************)
EXTENDS SessionImpl

CONSTANTS
    Chunks,      \* the sizes of the chunks that clients send
    Declared,    \* the sizes that clients put in the metadata
    NoSize,      \* the metadata has no blob_size
    MaxUpload,   \* bound of the model: the bytes that one client sends
    MaxCrashes,  \* bound of the model: how often the process dies
    Residual,    \* whether the memory of a destroyed session still holds its
                 \* last contents; if not, who touches it goes no further
    OrderedUse   \* whether the host keeps uploads to a session apart from
                 \* remove, dispose and file moves on it

ASSUME ChunksAssumption == Chunks \subseteq 0..MaxChunk
ASSUME DeclaredAssumption == Declared \subseteq Nat /\ NoSize \notin Nat
ASSUME OrderedAssumption == OrderedUse \in BOOLEAN /\ Residual \in BOOLEAN
ASSUME PutBoundsAssumption == MaxUpload \in Nat /\ MaxCrashes \in Nat

VARIABLES
    putAt,       \* putAt[c]: the next step of the handler of c
    putSession,  \* putSession[c]: the session whose reference it holds
    putBlob,     \* putBlob[c]: the blob it receives
    declared,    \* declared[c]: the size in the metadata
    chunk,       \* chunk[c]: the size of the chunk in its hands
    total_size,  \* total_size[c]: the bytes it has received
    writable,    \* writable[c]: its output stream is in a good state
    status,      \* status[c]: what it answered
    crashes      \* how often the process died

putVars == <<putAt, putSession, putBlob, declared, chunk, total_size, writable, status>>
vars == <<managerVars, sessionVars, putVars, crashes>>

Statuses == {"NONE", "OK", "INVALID_ARGUMENT", "UNAVAILABLE", "NOT_FOUND",
             "FAILED_PRECONDITION", "RESOURCE_EXHAUSTED", "UNKNOWN"}
Places == {"start", "create", "open", "read", "write", "discard", "unlink", "done"}

TypeOK ==
    /\ SessionTypeOK
    /\ putAt \in [Calls -> Places]
    /\ putSession \in [Calls -> Sessions \cup {NoSession}]
    /\ putBlob \in [Calls -> BlobIds \cup {NoBlob}]
    /\ declared \in [Calls -> Nat \cup {NoSize}]
    /\ chunk \in [Calls -> Nat]
    /\ total_size \in [Calls -> Nat]
    /\ writable \in [Calls -> BOOLEAN]
    /\ status \in [Calls -> Statuses]
    /\ crashes \in 0..MaxCrashes

PutInit ==
    /\ putAt = [c \in Calls |-> "start"]
    /\ putSession = [c \in Calls |-> NoSession]
    /\ putBlob = [c \in Calls |-> NoBlob]
    /\ declared = [c \in Calls |-> NoSize]
    /\ chunk = [c \in Calls |-> 0]
    /\ total_size = [c \in Calls |-> 0]
    /\ writable = [c \in Calls |-> TRUE]
    /\ status = [c \in Calls |-> "NONE"]

Init == SessionInit /\ PutInit /\ crashes = 0

-----------------------------------------------------------------------------
At(c, place) == running /\ putAt[c] = place
Touches(c) == HasSession(putSession[c]) \/ Residual
GoTo(c, place) == putAt' = [putAt EXCEPT ![c] = place] /\ UNCHANGED status

\* The handler returns: its reference to the session and its locals are gone.
\* Which blob it received, and how many bytes, is kept to talk about later.
Answer(c, code) ==
    /\ putAt' = [putAt EXCEPT ![c] = "done"]
    /\ status' = [status EXCEPT ![c] = code]
    /\ putSession' = [putSession EXCEPT ![c] = NoSession]
    /\ declared' = [declared EXCEPT ![c] = NoSize]
    /\ chunk' = [chunk EXCEPT ![c] = 0]
    /\ writable' = [writable EXCEPT ![c] = TRUE]
    /\ UNCHANGED <<putBlob, total_size>>

\* The locals that most steps leave alone.
locals == <<putSession, putBlob, declared, chunk, total_size, writable>>

\* No request, a first message that is not metadata, or an API version that
\* the server does not know.
PutRejected(c) ==
    /\ At(c, "start")
    /\ \E code \in {"INVALID_ARGUMENT", "UNAVAILABLE"} : Answer(c, code)
    /\ UNCHANGED <<managerVars, sessionVars>>

\* get_session_impl throws std::out_of_range.
PutNoSession(c, s) ==
    /\ At(c, "start")
    /\ ~HasSession(s)
    /\ Answer(c, "NOT_FOUND")
    /\ UNCHANGED <<managerVars, sessionVars>>

\* Metadata: the handler keeps the session that it found and the size.
PutStarts(c, s, size) ==
    /\ At(c, "start")
    /\ GoTo(c, "create")
    /\ putSession' = [putSession EXCEPT ![c] = s]
    /\ declared' = [declared EXCEPT ![c] = size]
    /\ UNCHANGED <<managerVars, sessionVars, putBlob, chunk, total_size, writable>>

PutAccepted(c, s, size) == HasSession(s) /\ PutStarts(c, s, size)

\* create_blob_file: an entry of size 0; the file does not exist yet.
PutCreates(c) ==
    /\ At(c, "create")
    /\ Touches(c)
    /\ CanLock(putSession[c])
    /\ blob_id_ < MaxBlobs
    /\ AddEntry(putSession[c], UploadPath(blob_id_'))
    /\ putBlob' = [putBlob EXCEPT ![c] = blob_id_']
    /\ GoTo(c, "open")
    /\ UNCHANGED <<managerVars, running, mtx_, current_size_, files, deleting, hostVars,
                   putSession, declared, chunk, total_size, writable>>

\* std::ofstream creates the file, or truncates it.
PutOpens(c) ==
    /\ At(c, "open")
    /\ files' = [files EXCEPT ![UploadPath(putBlob[c])] = 0]
    /\ GoTo(c, "read")
    /\ UNCHANGED <<managerVars, running, entryVars, mtx_, current_size_, deleting, hostVars,
                   locals>>

PutOpenFails(c) ==
    /\ At(c, "open")
    /\ FsFails
    /\ Answer(c, "FAILED_PRECONDITION")
    /\ UNCHANGED <<managerVars, sessionVars>>

\* Mutant of Credit: the size in the entry is not increased.
CreditNothing(b, n) == UNCHANGED entry_size

Credit(b, n) == entry_size' = [entry_size EXCEPT ![b] = Plus(@, n)]

\* reserve_session_store: a chunk that fits is counted and then added to the
\* entry; blobs_.at throws, after the counting, when the entry is gone.
PutReserves(c, n) ==
    /\ At(c, "read")
    /\ Touches(c)
    /\ CanLock(putSession[c])
    /\ CanReserve(n)
    /\ CountUp(n)
    /\ \/ /\ putBlob[c] \in blobs_[putSession[c]]
          /\ Credit(putBlob[c], n)
          /\ chunk' = [chunk EXCEPT ![c] = n]
          /\ GoTo(c, "write")
          /\ UNCHANGED <<putSession, putBlob, declared, total_size, writable>>
       \/ /\ putBlob[c] \notin blobs_[putSession[c]]
          /\ Answer(c, "NOT_FOUND")
          /\ UNCHANGED entry_size
    /\ UNCHANGED <<managerVars, running, blob_id_, blobs_, entry_path, mtx_, files, deleting,
                   hostVars>>

PutRefused(c, n) ==
    /\ At(c, "read")
    /\ Touches(c)
    /\ CanLock(putSession[c])
    /\ ~CanReserve(n)
    /\ chunk' = [chunk EXCEPT ![c] = n]
    /\ GoTo(c, "discard")
    /\ UNCHANGED <<managerVars, sessionVars, putSession, putBlob, declared, total_size,
                   writable>>

\* A message that is not a chunk: the file and the entry stay.
PutNotChunk(c) ==
    /\ At(c, "read")
    /\ Answer(c, "INVALID_ARGUMENT")
    /\ UNCHANGED <<managerVars, sessionVars>>

\* Mutant of GoodAfter: the error of a write is cleared before the next one.
GoodAfterCleared(c, n) == TRUE

\* The stream after a write of which n bytes reached the file.
GoodAfter(c, n) == writable[c] /\ n = chunk[c]

\* The write is not checked.  One that fails may leave a part of the chunk, and
\* the stream ignores further ones.  The bytes of a file that was unlinked
\* meanwhile are not on any path.
PutWrites(c) ==
    LET path == UploadPath(putBlob[c]) IN
    /\ At(c, "write")
    /\ \E n \in 0..chunk[c] :
          /\ ~writable[c] => n = 0
          /\ n < chunk[c] => FsFails \/ ~writable[c]
          /\ writable' = [writable EXCEPT ![c] = GoodAfter(c, n)]
          /\ files' = IF files[path] = NoFile THEN files
                        ELSE [files EXCEPT ![path] = @ + n]
    /\ total_size' = [total_size EXCEPT ![c] = @ + chunk[c]]
    /\ chunk' = [chunk EXCEPT ![c] = 0]
    /\ GoTo(c, "read")
    /\ UNCHANGED <<managerVars, running, entryVars, mtx_, current_size_, deleting, hostVars,
                   putSession, putBlob, declared>>

\* The stream of chunks ends; compute_tag reads the session.
PutEnds(c) ==
    /\ At(c, "read")
    /\ Touches(c)
    /\ declared[c] \in {NoSize, total_size[c]}
    /\ Answer(c, "OK")
    /\ UNCHANGED <<managerVars, sessionVars>>

\* OpenSSL refuses the tag, when the file is complete and closed: the exception
\* is not std::out_of_range, and the file and the entry stay.
PutTagThrows(c) ==
    /\ At(c, "read")
    /\ CryptoFails
    /\ Touches(c)
    /\ declared[c] \in {NoSize, total_size[c]}
    /\ Answer(c, "UNKNOWN")
    /\ UNCHANGED <<managerVars, sessionVars>>

\* It ends at another size than the one declared: the file is removed.
PutMismatches(c) ==
    /\ At(c, "read")
    /\ declared[c] \notin {NoSize, total_size[c]}
    /\ Unlink(UploadPath(putBlob[c]))
    /\ Answer(c, "INVALID_ARGUMENT")
    /\ UNCHANGED <<managerVars, running, entryVars, mtx_, current_size_, deleting, hostVars>>

\* The file system refuses: filesystem_error is not std::out_of_range.
PutMismatchThrows(c) ==
    /\ At(c, "read")
    /\ FsFails
    /\ declared[c] \notin {NoSize, total_size[c]}
    /\ Answer(c, "UNKNOWN")
    /\ UNCHANGED <<managerVars, sessionVars>>

-----------------------------------------------------------------------------
(* delete_blob_file after a refusal. *)

PutGivesBack(c) ==
    /\ At(c, "discard")
    /\ Touches(c)
    /\ GiveBack(c, putSession[c], putBlob[c])
    /\ GoTo(c, "unlink")
    /\ UNCHANGED <<managerVars, running, entryVars, files, hostVars, locals>>

PutSkips(c) ==
    /\ At(c, "discard")
    /\ Touches(c)
    /\ CanLock(putSession[c])
    /\ putBlob[c] \notin blobs_[putSession[c]]
    /\ Answer(c, "RESOURCE_EXHAUSTED")
    /\ UNCHANGED <<managerVars, sessionVars>>

PutUnlinks(c) ==
    /\ At(c, "unlink")
    /\ Touches(c)
    /\ UnlinkAndErase(c, putSession[c])
    /\ Answer(c, "RESOURCE_EXHAUSTED")
    /\ UNCHANGED <<managerVars, running, blob_id_, entry_path, current_size_, hostVars>>

PutUnlinkThrows(c) ==
    /\ At(c, "unlink")
    /\ Touches(c)
    /\ UnlinkThrows(c, putSession[c])
    /\ Answer(c, "UNKNOWN")
    /\ UNCHANGED <<managerVars, running, blob_id_, entry_path, current_size_, files, hostVars>>

-----------------------------------------------------------------------------
(* The whole upload path. *)

\* The handler of c has work to do in session s.
WorksIn(c, s) == putAt[c] \notin {"start", "done"} /\ putSession[c] = s

\* What the host promises when it keeps uploads apart from the rest.
HostMayDisturb(s) == OrderedUse => \A c \in Calls : ~WorksIn(c, s)
MayUpload(s) == OrderedUse => \A h \in Hosts : hostSession[h] # s

HostStep(h) ==
    \/ \E t \in Transactions \cup {NoTransaction} : HostCreates(h, t)
    \/ \E s \in Sessions :
          \/ \E f \in HostFiles : HostAdds(h, s, f)
          \/ HostMayDisturb(s) /\ \E b \in BlobIds : HostMovesFile(h, s, b)
          \/ HostMayDisturb(s) /\ \E ids \in SUBSET BlobIds : HostRemoves(h, s, ids)
          \/ HostMayDisturb(s) /\ HostDisposes(h, s)
    \/ HostContinues(h)
    \/ HostUnlinkThrows(h)

\* What the client decides.
ClientStep(c) ==
    \/ PutRejected(c)
    \/ \E s \in Sessions :
          \/ PutNoSession(c, s)
          \/ MayUpload(s) /\ \E size \in Declared \cup {NoSize} : PutAccepted(c, s, size)
    \/ \E n \in Chunks :
          total_size[c] + n <= MaxUpload /\ (PutReserves(c, n) \/ PutRefused(c, n))
    \/ PutNotChunk(c) \/ PutEnds(c) \/ PutTagThrows(c)
    \/ PutMismatches(c) \/ PutMismatchThrows(c)

\* What the handler does without the client.
ServerStep(c) ==
    \/ PutCreates(c) \/ PutOpens(c) \/ PutOpenFails(c) \/ PutWrites(c)
    \/ PutGivesBack(c) \/ PutSkips(c) \/ PutUnlinks(c) \/ PutUnlinkThrows(c)

\* The process dies, and every call with it; its client may call again.
Crash ==
    /\ crashes < MaxCrashes
    /\ crashes' = crashes + 1
    /\ Forget
    /\ putAt' = [c \in Calls |-> "start"]
    /\ putSession' = [c \in Calls |-> NoSession]
    /\ putBlob' = [c \in Calls |-> NoBlob]
    /\ declared' = [c \in Calls |-> NoSize]
    /\ chunk' = [c \in Calls |-> 0]
    /\ total_size' = [c \in Calls |-> 0]
    /\ writable' = [c \in Calls |-> TRUE]
    /\ status' = [c \in Calls |-> "NONE"]

Next ==
    \/ \E h \in Hosts : HostStep(h) /\ UNCHANGED <<putVars, crashes>>
    \/ \E c \in Calls : (ClientStep(c) \/ ServerStep(c)) /\ UNCHANGED crashes
    \/ (Construct \/ ConstructFails) /\ UNCHANGED <<putVars, crashes>>
    \/ Crash

Spec == Init /\ [][Next]_vars

-----------------------------------------------------------------------------
(* Properties under any interleaving of host and handlers. *)

\* No two sessions share a blob id, and no two handlers write one file.
EntryOnce ==
    /\ \A s \in Sessions, r \in Sessions : s # r => blobs_[s] \cap blobs_[r] = {}
    /\ \A c \in Calls, d \in Calls : c # d /\ putBlob[c] # NoBlob => putBlob[c] # putBlob[d]

\* The bytes of the entries, less those that a thread deleting the entry has
\* given back already.
Reserved == [b \in BlobIds |->
    IF \E t \in Threads : deleting[t] = b THEN 0 ELSE entry_size[b]]

\* The counter never falls below the bytes of the entries and never exceeds
\* the quota: no upload is let in on bytes that others still hold, and none
\* is given back twice.
NeverUndercounted == quota_ # 0 =>
    /\ Total(Reserved) <= current_size_
    /\ current_size_ <= quota_

\* Every byte on disk was reserved first: a file of the store is no longer
\* than the size in its entry, at any instant, deleted or not.
BytesCovered == running => \A b \in BlobIds :
    files[UploadPath(b)] # NoFile => files[UploadPath(b)] <= entry_size[b]

OnDisk == [b \in BlobIds |->
    IF files[UploadPath(b)] = NoFile THEN 0 ELSE files[UploadPath(b)]]

\* The disk usage that the quota is there to bound: it is within the quota
\* whenever no deletion is between giving back and unlinking.
DiskWithinQuota ==
    quota_ # 0 /\ running /\ (\A t \in Threads : deleting[t] = NoBlob)
        => Total(OnDisk) <= quota_

\* An upload that was acknowledged is on disk with all its bytes, or its file
\* was removed or moved by the host: no handler truncates or deletes it.
AcknowledgedIsComplete == \A c \in Calls : status[c] = "OK" =>
    files[UploadPath(putBlob[c])] \in {NoFile, total_size[c]}

Short(c) == status[c] = "OK" /\ files[UploadPath(putBlob[c])] \notin {NoFile, total_size[c]}

\* An acknowledged upload is short of its bytes only because a write of its own
\* failed before: no other failure and no race makes it so, then or later.
ShortOnlyByFailedWrite == [][\A c \in Calls :
    ~Short(c) /\ Short(c)' => ~writable[c]]_vars

\* An acknowledged upload leaves its session only by the host's hand.
OnlyHostDeletesAcknowledged == [][\A c \in Calls :
    /\ status[c] = "OK"
    /\ \E s \in Sessions : putBlob[c] \in blobs_[s] \ blobs_'[s]
    => ~running' \/ \E h \in Hosts : deleting[h] = putBlob[c]]_vars

\* The entries B of session s and the files behind them stay as they are.
LeftAlone(s, B) == \A b \in B :
    /\ b \in blobs_'[s]
    /\ entry_path'[b] = entry_path[b]
    /\ entry_size'[b] = entry_size[b]
    /\ files'[entry_path[b]] = files[entry_path[b]]

\* A handler changes nothing in a live session but its own blob in its own
\* session.  One whose session was disposed of has none among the live ones: as
\* long as the memory of a destroyed session keeps its contents, whatever the
\* handler still does with it disturbs no other.
HandlerContained == [][\A c \in Calls, s \in blob_sessions_ :
    running' /\ putAt'[c] # putAt[c] =>
        IF s = putSession[c] THEN LeftAlone(s, blobs_[s] \ {putBlob[c]})
        ELSE /\ LeftAlone(s, blobs_[s])
             /\ blobs_'[s] = blobs_[s]
             /\ mtx_'[s] = mtx_[s]]_vars

\* A restarted process starts with an empty store: no file of an id that it
\* has not issued, so no upload is stored over the remains of another.
CleanStart == running => \A b \in BlobIds :
    files[UploadPath(b)] # NoFile => b <= blob_id_

-----------------------------------------------------------------------------
(* The life of a blob, as BlobLife tells it. *)

\* The blob has an entry in a live session, and data or a handler about to open
\* its file.
Kept(b) ==
    /\ \E s \in blob_sessions_ : b \in blobs_[s]
    /\ \/ files[entry_path[b]] # NoFile
       \/ \E c \in Calls : putBlob[c] = b /\ putAt[c] = "open"

Phase == [b \in BlobIds |->
    IF b > blob_id_ THEN "unissued"
    ELSE IF ~Kept(b) THEN "gone"
    ELSE IF \E c \in Calls : putBlob[c] = b /\ putAt[c] # "done" THEN "receiving"
    ELSE IF \E c \in Calls : putBlob[c] = b /\ status[c] # "OK" THEN "partial"
    ELSE "stored"]

Length == [b \in BlobIds |->
    IF Phase[b] \in {"unissued", "gone"} \/ files[entry_path[b]] = NoFile THEN 0
    ELSE files[entry_path[b]]]

Life == INSTANCE BlobLife WITH issued <- blob_id_, phase <- Phase, length <- Length

\* Ids are issued in order, the data of a blob only grows while its handler
\* receives it and is fixed from then on, and no blob comes back: whatever the
\* host does meanwhile, no step of one handler touches what another one stored.
ImplementsBlobLife == Life!LifeSpec

-----------------------------------------------------------------------------
(* Properties of a host that keeps uploads and the rest apart. *)

\* The counter is the number of bytes in entries: nothing leaks.
CountedExactly == quota_ # 0 => current_size_ = Total(Reserved)

\* Every file of the store and every byte that is counted belong to an entry of a
\* live session, whose disposal will free them: those of an upload that was
\* broken off, and of one whose file was deleted because its size was wrong, too.
NothingOrphaned == running => \A b \in BlobIds :
    files[UploadPath(b)] # NoFile \/ entry_size[b] # 0 =>
        \E s \in blob_sessions_ : b \in blobs_[s]

\* Blobs that are lost in one step were one file: a host that adds a file to two
\* sessions loses both blobs with it, and nothing else is lost with another blob.
LostWithOneFile == [][running' => \A a, b \in BlobIds :
    Kept(a) /\ ~Kept(a)' /\ Kept(b) /\ ~Kept(b)' => entry_path[a] = entry_path[b]]_vars

\* An upload refused for lack of space leaves neither an entry nor a file.
ExhaustedLeavesNothing == \A c \in Calls : status[c] = "RESOURCE_EXHAUSTED" =>
    /\ files[UploadPath(putBlob[c])] = NoFile
    /\ \A s \in Sessions : putBlob[c] \notin blobs_[s]

\* A chunk is refused only when the entries and it together exceed the quota.
RefusalJustified == [][\A c \in Calls :
    putAt[c] = "read" /\ putAt'[c] = "discard" =>
        Total(Reserved) + chunk'[c] > quota_]_vars

-----------------------------------------------------------------------------
(* What comments and tests say of the program and the code does not do.    *)

Quiet == running /\ (\A c \in Calls : putAt[c] \in {"start", "done"})
                 /\ (\A h \in Hosts : hostAt[h] = "idle")

\* dispose is documented to "release all resources associated with" the
\* session (session.h:61): with no call under way, no file is left behind
\* that belongs to no live session.
DisposeReleasesAll == Quiet => \A b \in BlobIds : files[UploadPath(b)] # NoFile =>
    \E s \in blob_sessions_ : b \in blobs_[s]

-----------------------------------------------------------------------------
(* Liveness. *)

\* remove and dispose return, whatever the handlers do.
HostReturns == \A h \in Hosts : hostAt[h] # "idle" ~> hostAt[h] = "idle"

\* A handler answers, or waits for its client: it is never stuck on a mutex.
HandlerReturns == \A c \in Calls :
    putAt[c] \notin {"start", "read", "done"} ~> putAt[c] \in {"start", "read", "done"}
=============================================================================
