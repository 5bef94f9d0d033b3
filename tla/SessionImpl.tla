---------------------------- MODULE SessionImpl ----------------------------
(***************************************************************************)
(* blob_session_impl and blob_session: the blobs of each session, the      *)
(* files behind them, and the operations that the host calls.              *)
(*                                                                         *)
(* Every method of a session runs under the session's mutex, so it is one  *)
(* step, with one exception: delete_blob_file first gives the bytes back   *)
(* to the counter that ALL sessions share and then unlinks the file, and   *)
(* calls of other sessions run in between.  The byte counter is used as    *)
(* QuotaCounter describes it: reserve and remove are one step each, which  *)
(* SessionStore is shown to implement.                                     *)
(*                                                                         *)
(* The map blobs_ of a session is kept as three functions: the keys of     *)
(* session s are blobs_[s], and the path and the size of blob b are        *)
(* entry_path[b] and entry_size[b].  One process never gives two blobs the *)
(* same id (EntryOnce), so the pair needs no session in its index.  A file *)
(* is its number of bytes.                                                 *)
(*                                                                         *)
(* The object of a session that was disposed of is gone, but a handler may *)
(* still hold a reference to it.  What it then does is undefined; the      *)
(* model has two outcomes, chosen by the constant Residual of StreamingPut *)
(* and by Crash: the memory still holds its last contents (blobs_[s] stays *)
(* as it was), or the process dies.                                        *)
(***************************************************************************)
EXTENDS SessionManager, ByteCount, Integers

CONSTANTS
    MaxBlobs,   \* bound of the model: blob ids issued by one process
    Hosts,      \* threads of the host that use sessions
    Calls,      \* Put calls: one handler thread each
    HostFiles,  \* files of the host, outside the session store
    quota_,     \* the limit in bytes, 0 for none
    Word,       \* the number of values of std::size_t
    MaxChunk,   \* the largest chunk
    FsFails,    \* whether operations of the file system may fail
    CryptoFails, \* whether operations of OpenSSL may fail
    HostMoves,  \* whether the host moves or deletes files of its sessions
    NoFile,     \* no file at a path
    Unlocked    \* the owner of a mutex that is free

Threads == Hosts \cup Calls
BlobIds == 1..MaxBlobs
NoBlob == 0

ASSUME BlobsAssumption == MaxBlobs \in Nat
ASSUME StoreAssumption ==
    /\ quota_ \in Nat
    /\ MaxChunk \in Nat
    /\ Word \in Nat
    /\ quota_ + MaxChunk < Word
ASSUME ThreadsAssumption == Hosts \cap Calls = {} /\ Unlocked \notin Threads
ASSUME NoFileAssumption == NoFile \notin Nat
ASSUME SwitchAssumption == {FsFails, CryptoFails, HostMoves} \subseteq BOOLEAN

\* Mutant of UploadPath: the name has no id.
UploadPathOfPrefix(b) == <<"upload", 1>>

\* blob_session_store::create_blob_file: directory / "upload_<id>"
UploadPath(b) == <<"upload", b>>
UploadPaths == {UploadPath(b) : b \in BlobIds}
HostPath(f) == <<"host", f>>
Paths == UploadPaths \cup {HostPath(f) : f \in HostFiles}

VARIABLES
    running,       \* the process is up and its session manager constructed
    blob_id_,      \* the last blob id issued
    blobs_,        \* blobs_[s]: the ids of the entries of session s
    entry_path,    \* entry_path[b]: the path in the entry of b
    entry_size,    \* entry_size[b]: the size in the entry of b
    mtx_,          \* mtx_[s]: the owner of the mutex of s
    current_size_, \* the counter of the session store
    files,         \* files[p]: the number of bytes of the file at p
    deleting,      \* deleting[t]: the blob whose bytes t has given back and
                   \*   whose file it has not yet unlinked
    hostAt,        \* hostAt[h]: what host thread h is in the middle of
    hostSession,   \* hostSession[h]: the session it works on
    todo           \* todo[h]: the ids it has still to delete

entryVars == <<blob_id_, blobs_, entry_path, entry_size>>
hostVars == <<hostAt, hostSession, todo>>
sessionVars == <<running, entryVars, mtx_, current_size_, files, deleting, hostVars>>

SessionTypeOK ==
    /\ ManagerTypeOK
    /\ running \in BOOLEAN
    /\ blob_id_ \in 0..MaxBlobs
    /\ blobs_ \in [Sessions -> SUBSET BlobIds]
    /\ entry_path \in [BlobIds -> Paths]
    /\ entry_size \in [BlobIds -> 0..Word - 1]
    /\ mtx_ \in [Sessions -> Threads \cup {Unlocked}]
    /\ current_size_ \in 0..Word - 1
    /\ files \in [Paths -> Nat \cup {NoFile}]
    /\ deleting \in [Threads -> BlobIds \cup {NoBlob}]
    /\ hostAt \in [Hosts -> {"idle", "removing", "disposing"}]
    /\ hostSession \in [Hosts -> Sessions \cup {NoSession}]
    /\ todo \in [Hosts -> SUBSET BlobIds]

\* A process that is not up; an earlier one may have left files behind.
SessionInit ==
    /\ ManagerInit
    /\ running = FALSE
    /\ blob_id_ = 0
    /\ blobs_ = [s \in Sessions |-> {}]
    /\ entry_path = [b \in BlobIds |-> UploadPath(b)]
    /\ entry_size = [b \in BlobIds |-> 0]
    /\ mtx_ = [s \in Sessions |-> Unlocked]
    /\ current_size_ = 0
    /\ \E left \in SUBSET UploadPaths :
          files = [p \in Paths |-> IF p \in UploadPaths \ left THEN NoFile ELSE 1]
    /\ deleting = [t \in Threads |-> NoBlob]
    /\ hostAt = [h \in Hosts |-> "idle"]
    /\ hostSession = [h \in Hosts |-> NoSession]
    /\ todo = [h \in Hosts |-> {}]

-----------------------------------------------------------------------------
(* The session store, one step per call. *)

Plus(a, b) == IF a + b < Word THEN a + b ELSE a + b - Word
Minus(a, b) == IF b <= a THEN a - b ELSE a + Word - b

\* Mutant of CanReserve: the limit itself is refused.
CanReserveBelow(n) == quota_ = 0 \/ Plus(current_size_, n) < quota_

CanReserve(n) == quota_ = 0 \/ Plus(current_size_, n) <= quota_
CountUp(n) == current_size_' = IF quota_ = 0 THEN current_size_ ELSE Plus(current_size_, n)

\* Mutant of CountDown: the bytes of a deleted blob are kept.
CountDownNothing(n) == UNCHANGED current_size_

CountDown(n) == current_size_' = IF quota_ = 0 THEN current_size_ ELSE Minus(current_size_, n)

-----------------------------------------------------------------------------
(* The methods of a session, as used by host threads and handlers. *)

\* blobs_.emplace(b, (path, 0)).
Emplace(s, b, path) ==
    /\ blobs_' = [blobs_ EXCEPT ![s] = @ \cup {b}]
    /\ entry_path' = [entry_path EXCEPT ![b] = path]
    /\ entry_size' = [entry_size EXCEPT ![b] = 0]

\* Mutants of AddEntry: the id before the increment; ids counted per session.
AddEntryPostIncrement(s, path) ==
    blob_id_' = blob_id_ + 1 /\ Emplace(s, blob_id_, path)
AddEntryPerSession(s, path) ==
    blob_id_' = Cardinality(blobs_[s]) + 1 /\ Emplace(s, blob_id_', path)

\* get_new_blob_id, and an entry for the id.
AddEntry(s, path) == blob_id_' = blob_id_ + 1 /\ Emplace(s, blob_id_ + 1, path)

\* Mutant of EraseEntry: an entry is kept when there is no file to delete.
EraseEntryOfFile(s, b) ==
    IF files[entry_path[b]] = NoFile
      THEN UNCHANGED <<blobs_, entry_size>>
      ELSE /\ blobs_' = [blobs_ EXCEPT ![s] = @ \ {b}]
           /\ entry_size' = [entry_size EXCEPT ![b] = 0]

EraseEntry(s, b) ==
    /\ blobs_' = [blobs_ EXCEPT ![s] = @ \ {b}]
    /\ entry_size' = [entry_size EXCEPT ![b] = 0]

CanLock(s) == mtx_[s] = Unlocked

\* Mutant of Lock: the mutex is not taken.
LockNothing(t, s) == UNCHANGED mtx_

Lock(t, s) == CanLock(s) /\ mtx_' = [mtx_ EXCEPT ![s] = t]

\* delete_blob_file(b) finds the entry and decreases the counter.
GiveBack(t, s, b) ==
    /\ Lock(t, s)
    /\ b \in blobs_[s]
    /\ CountDown(entry_size[b])
    /\ deleting' = [deleting EXCEPT ![t] = b]

\* Mutant of Unlock: the mutex is not released.
UnlockNothing(t, s) == deleting' = [deleting EXCEPT ![t] = NoBlob] /\ UNCHANGED mtx_

Unlock(t, s) ==
    /\ mtx_' = [mtx_ EXCEPT ![s] = Unlocked]
    /\ deleting' = [deleting EXCEPT ![t] = NoBlob]

\* Mutant of Unlink: the file stays.
UnlinkNothing(p) == UNCHANGED files

Unlink(p) == files' = [files EXCEPT ![p] = NoFile]

\* It removes the file, if it is still there, and the entry.
UnlinkAndErase(t, s) ==
    /\ deleting[t] # NoBlob
    /\ Unlink(entry_path[deleting[t]])
    /\ EraseEntry(s, deleting[t])
    /\ Unlock(t, s)

\* The file system refuses: the exception leaves the entry in place.
UnlinkThrows(t, s) ==
    /\ FsFails
    /\ deleting[t] # NoBlob
    /\ Unlock(t, s)
    /\ UNCHANGED <<blobs_, entry_size>>

-----------------------------------------------------------------------------
(* The host.  A thread uses sessions that exist and that no thread is      *)
(* disposing of: "After calling this method, the session becomes invalid". *)

MayUse(h, s) ==
    /\ running
    /\ hostAt[h] = "idle"
    /\ HasSession(s)
    /\ \A g \in Hosts : hostAt[g] = "disposing" => hostSession[g] # s

HostCreates(h, t) ==
    /\ running
    /\ hostAt[h] = "idle"
    /\ CreateSession(t)
    /\ UNCHANGED sessionVars

\* add(path): the id is taken before the file is looked for, and is lost when the
\* file is not there or exists or canonical throws; a path is not added twice to
\* one session.
HostAdds(h, s, f) ==
    /\ MayUse(h, s)
    /\ CanLock(s)
    /\ blob_id_ < MaxBlobs
    /\ \A b \in blobs_[s] : entry_path[b] # HostPath(f)
    /\ \/ files[HostPath(f)] # NoFile /\ AddEntry(s, HostPath(f))
       \/ /\ files[HostPath(f)] = NoFile \/ FsFails
          /\ blob_id_' = blob_id_ + 1
          /\ UNCHANGED <<blobs_, entry_path, entry_size>>
    /\ UNCHANGED <<managerVars, running, mtx_, current_size_, files, deleting, hostVars>>

\* The host moves away a file whose path find() gave it.
HostMovesFile(h, s, b) ==
    /\ HostMoves
    /\ MayUse(h, s)
    /\ CanLock(s)
    /\ b \in blobs_[s]
    /\ files[entry_path[b]] # NoFile
    /\ Unlink(entry_path[b])
    /\ UNCHANGED <<managerVars, running, entryVars, mtx_, current_size_, deleting, hostVars>>

HostStarts(h, s, what, ids) ==
    /\ hostAt' = [hostAt EXCEPT ![h] = what]
    /\ hostSession' = [hostSession EXCEPT ![h] = s]
    /\ todo' = [todo EXCEPT ![h] = ids]
    /\ UNCHANGED <<managerVars, running, entryVars, mtx_, current_size_, files, deleting>>

HostStops(h) ==
    /\ hostAt' = [hostAt EXCEPT ![h] = "idle"]
    /\ hostSession' = [hostSession EXCEPT ![h] = NoSession]
    /\ todo' = [todo EXCEPT ![h] = {}]

\* remove(begin, end), with ids that the process has issued.
HostRemoves(h, s, ids) ==
    /\ MayUse(h, s)
    /\ ids # {} /\ \A b \in ids : b <= blob_id_
    /\ HostStarts(h, s, "removing", ids)

\* Mutant of Entries: nothing is found, so a session is dropped with its files.
NoEntries(s) == {}

Entries(s) == blobs_[s]

\* dispose() takes the ids from entries(), under the lock; it is called once,
\* when no other host thread is at work on the session.
HostDisposes(h, s) ==
    /\ MayUse(h, s)
    /\ CanLock(s)
    /\ \A g \in Hosts : hostSession[g] # s
    /\ HostStarts(h, s, "disposing", Entries(s))

\* The ids are deleted one by one: dispose in the order of the map, remove in
\* the order of the caller's vector, which may be any.
IsNext(h, b) ==
    /\ b \in todo[h]
    /\ hostAt[h] = "disposing" => \A c \in todo[h] : b <= c

HostGivesBack(h) ==
    /\ running
    /\ deleting[h] = NoBlob
    /\ \E b \in BlobIds : IsNext(h, b) /\ GiveBack(h, hostSession[h], b)
    /\ UNCHANGED <<managerVars, running, entryVars, files, hostVars>>

\* delete_blob_file does nothing for an id that is not in the session.
HostSkips(h) ==
    /\ running
    /\ deleting[h] = NoBlob
    /\ \E b \in BlobIds :
          /\ IsNext(h, b)
          /\ CanLock(hostSession[h])
          /\ b \notin blobs_[hostSession[h]]
          /\ todo' = [todo EXCEPT ![h] = @ \ {b}]
    /\ UNCHANGED <<managerVars, running, entryVars, mtx_, current_size_, files, deleting,
                   hostAt, hostSession>>

HostUnlinks(h) ==
    /\ running
    /\ UnlinkAndErase(h, hostSession[h])
    /\ todo' = [todo EXCEPT ![h] = @ \ {deleting[h]}]
    /\ UNCHANGED <<managerVars, running, blob_id_, entry_path, current_size_,
                   hostAt, hostSession>>

\* The exception ends remove or dispose; the session stays in the manager.
HostUnlinkThrows(h) ==
    /\ running
    /\ UnlinkThrows(h, hostSession[h])
    /\ HostStops(h)
    /\ UNCHANGED <<managerVars, running, blob_id_, entry_path, current_size_, files>>

HostRemoved(h) ==
    /\ running
    /\ hostAt[h] = "removing"
    /\ todo[h] = {}
    /\ HostStops(h)
    /\ UNCHANGED <<managerVars, running, entryVars, mtx_, current_size_, files, deleting>>

\* manager_.dispose: the session leaves the registry and its object dies.
HostErases(h) ==
    /\ running
    /\ hostAt[h] = "disposing"
    /\ todo[h] = {}
    /\ EraseSession(hostSession[h])
    /\ HostStops(h)
    /\ UNCHANGED <<running, entryVars, mtx_, current_size_, files, deleting>>

\* What a host thread does on its own once it is inside remove or dispose.
HostContinues(h) ==
    HostGivesBack(h) \/ HostSkips(h) \/ HostUnlinks(h) \/ HostRemoved(h) \/ HostErases(h)

-----------------------------------------------------------------------------
(* The process. *)

\* Mutant of EmptyDirectory: files that are found stay.
LeaveDirectory(gone) == UNCHANGED files

EmptyDirectory(gone) == files' = [p \in Paths |-> IF p \in gone THEN NoFile ELSE files[p]]

\* blob_session_store's constructor removes every file it finds in the
\* directory; the rest of the state is initialised.
Construct ==
    /\ ~running
    /\ running' = TRUE
    /\ EmptyDirectory(UploadPaths)
    /\ UNCHANGED <<managerVars, entryVars, mtx_, current_size_, deleting, hostVars>>

\* A file that cannot be removed: the constructor throws, with some files gone,
\* or with none when it does not like the directory.
\* Without random bytes for its key tag_generator throws, with all of them gone.
ConstructFails ==
    /\ ~running
    /\ \/ FsFails /\ \E gone \in SUBSET UploadPaths : EmptyDirectory(gone)
       \/ CryptoFails /\ EmptyDirectory(UploadPaths)
    /\ UNCHANGED <<managerVars, running, entryVars, mtx_, current_size_, deleting, hostVars>>

\* The process dies: its memory is lost, the files stay.
Forget ==
    /\ running
    /\ running' = FALSE
    /\ session_id_' = 0
    /\ blob_sessions_' = {}
    /\ transaction_id_opt_' = [s \in Sessions |-> NoTransaction]
    /\ blob_session_ids_' = [t \in Transactions |-> NoSession]
    /\ blob_id_' = 0
    /\ blobs_' = [s \in Sessions |-> {}]
    /\ entry_path' = [b \in BlobIds |-> UploadPath(b)]
    /\ entry_size' = [b \in BlobIds |-> 0]
    /\ mtx_' = [s \in Sessions |-> Unlocked]
    /\ current_size_' = 0
    /\ deleting' = [t \in Threads |-> NoBlob]
    /\ hostAt' = [h \in Hosts |-> "idle"]
    /\ hostSession' = [h \in Hosts |-> NoSession]
    /\ todo' = [h \in Hosts |-> {}]
    /\ UNCHANGED files
=============================================================================
