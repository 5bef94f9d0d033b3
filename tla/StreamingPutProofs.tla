------------------------ MODULE StreamingPutProofs ------------------------
(***************************************************************************)
(* For every number of host threads, handlers, sessions, blobs and chunk   *)
(* sizes, and in every interleaving of them: the byte counter of the       *)
(* session store covers the entries of all sessions, every byte on disk    *)
(* was reserved first, and so the disk usage is within the quota; after a  *)
(* crash, a new process starts with an empty store.                        *)
(*                                                                         *)
(* None of these is inductive.  The invariant is built up in five parts,   *)
(* each proved with the help of those before it:                           *)
(*   StructInv   places, mutexes and ids: a thread between giving back and *)
(*               unlinking owns the mutex of its session and the entry is  *)
(*               still there, and no id is in two hands;                   *)
(*   NeverUndercounted   each step moves the counter by at least what it   *)
(*               moves the entries: needs LockInv, or bytes given back by  *)
(*               one thread would be given back by a second;               *)
(*   FileInv     a file belongs to an id that this process issued: needs   *)
(*               IdInv and the constructor that clears the directory;      *)
(*   SizeInv     an entry has no more bytes than its handler received;     *)
(*   CoverInv    a file, with the chunk in its handler's hands, is no      *)
(*               longer than its entry: needs all of the above.            *)
(* NeverUndercounted assumes a file system that does not fail: an unlink   *)
(* that throws leaves an entry whose bytes are given back twice.  CoverInv *)
(* needs only that no entry wraps: either because NeverUndercounted holds, *)
(* or because no upload is as long as 2^64 bytes (SizeInv).                *)
(***************************************************************************)
EXTENDS StreamingPut, ByteCountProofs

-----------------------------------------------------------------------------
(* The parts of the invariant. *)

\* The session that thread t works on.
ThreadSession(t) == IF t \in Hosts THEN hostSession[t] ELSE putSession[t]

\* A handler past its lookup has a session, past create_blob_file a blob; a
\* thread is between giving back and unlinking only inside delete_blob_file.
PlaceInv ==
    /\ \A c \in Calls :
          /\ putAt[c] \notin {"start", "done"} => putSession[c] \in Sessions
          /\ putAt[c] \notin {"start", "create", "done"} => putBlob[c] \in BlobIds
          /\ deleting[c] # NoBlob => putAt[c] = "unlink"
    /\ \A h \in Hosts :
          /\ hostAt[h] # "idle" => hostSession[h] \in Sessions
          /\ hostAt[h] = "idle" => todo[h] = {}
          /\ deleting[h] # NoBlob => deleting[h] \in todo[h]

\* Such a thread owns the mutex of its session, and the entry is still there.
LockInv == \A t \in Threads : deleting[t] # NoBlob =>
    /\ mtx_[ThreadSession(t)] = t
    /\ deleting[t] \in blobs_[ThreadSession(t)]

\* Blob ids are issued once: in no two sessions and to no two handlers.
IdInv ==
    /\ \A s \in Sessions : \A b \in blobs_[s] : b <= blob_id_
    /\ \A c \in Calls : putBlob[c] <= blob_id_
    /\ EntryOnce

StructInv == TypeOK /\ PlaceInv /\ LockInv /\ IdInv

-----------------------------------------------------------------------------
(* Types. *)

\* The initial states have their types.
LEMMA InitType == Init => TypeOK
<1> SUFFICES ASSUME Init PROVE TypeOK
  OBVIOUS
<1> USE MaxSessionsAssumption, BlobsAssumption, StoreAssumption, PutBoundsAssumption
    DEF BlobIds, NoBlob
<1>1. ManagerTypeOK
  BY DEF Init, SessionInit, ManagerInit, ManagerTypeOK
<1>2. \A b \in BlobIds : UploadPath(b) \in Paths
  BY DEF Paths, UploadPaths
<1>3. files \in [Paths -> Nat \cup {NoFile}]
  BY DEF Init, SessionInit
<1>4. 0 \in 0..Word - 1 /\ 0 \in 0..MaxBlobs /\ {} \in SUBSET BlobIds
  OBVIOUS
<1>5. /\ entry_path \in [BlobIds -> Paths]
      /\ entry_size \in [BlobIds -> 0..Word - 1]
      /\ blobs_ \in [Sessions -> SUBSET BlobIds]
  <2> HIDE DEF BlobIds
  <2> QED BY <1>2, <1>4 DEF Init, SessionInit
<1>6. /\ mtx_ \in [Sessions -> Threads \cup {Unlocked}]
      /\ deleting \in [Threads -> BlobIds \cup {NoBlob}]
      /\ hostAt \in [Hosts -> {"idle", "removing", "disposing"}]
      /\ hostSession \in [Hosts -> Sessions \cup {NoSession}]
      /\ todo \in [Hosts -> SUBSET BlobIds]
  BY <1>4 DEF Init, SessionInit
<1>7. SessionTypeOK
  BY <1>1, <1>3, <1>4, <1>5, <1>6 DEF Init, SessionInit, SessionTypeOK
<1> QED BY <1>7 DEF Init, PutInit, TypeOK, Places, Statuses

\* Unsigned addition and subtraction stay within the word.
LEMMA Arithmetic ==
  ASSUME NEW a \in 0..Word - 1, NEW b \in 0..Word - 1
  PROVE  Plus(a, b) \in 0..Word - 1 /\ Minus(a, b) \in 0..Word - 1
BY StoreAssumption DEF Plus, Minus

\* So does the counter, counted up or down.
LEMMA CountType ==
  ASSUME NEW n \in 0..Word - 1, TypeOK, CountUp(n) \/ CountDown(n)
  PROVE  current_size_' \in 0..Word - 1
<1>1. current_size_ \in 0..Word - 1
  BY DEF TypeOK, SessionTypeOK
<1>2. Plus(current_size_, n) \in 0..Word - 1 /\ Minus(current_size_, n) \in 0..Word - 1
  BY <1>1, Arithmetic
<1> QED BY <1>1, <1>2 DEF CountUp, CountDown

\* create_session and dispose keep the types of the registry.
LEMMA ManagerType ==
  ASSUME ManagerTypeOK,
         \/ \E t \in Transactions \cup {NoTransaction} : CreateSession(t)
         \/ \E s \in Sessions : EraseSession(s)
  PROVE  ManagerTypeOK'
<1>1. ASSUME NEW t \in Transactions \cup {NoTransaction}, CreateSession(t)
      PROVE  ManagerTypeOK'
  <2>1. /\ session_id_ \in Nat /\ session_id_' = session_id_ + 1
        /\ session_id_' \in Sessions
    BY <1>1, MaxSessionsAssumption DEF CreateSession, NextSessionId, Register, GetSessionId, ManagerTypeOK, Sessions
  <2>2. session_id_' \in 0..MaxSessions /\ blob_sessions_' \subseteq 1..session_id_'
    BY <1>1, <2>1, MaxSessionsAssumption DEF CreateSession, NextSessionId, Register, GetSessionId, ManagerTypeOK, Sessions
  <2>3. transaction_id_opt_' \in [Sessions -> Transactions \cup {NoTransaction}]
    BY <1>1, <2>1 DEF CreateSession, NextSessionId, Register, GetSessionId, ManagerTypeOK
  <2>4. blob_session_ids_' \in [Transactions -> Sessions \cup {NoSession}]
    BY <1>1, <2>1 DEF CreateSession, NextSessionId, Register, GetSessionId, ManagerTypeOK
  <2> QED BY <2>2, <2>3, <2>4 DEF ManagerTypeOK
<1>2. ASSUME NEW s \in Sessions, EraseSession(s) PROVE ManagerTypeOK'
  BY <1>2 DEF EraseSession, Unregister, GetSessionId, ManagerTypeOK
<1> QED BY <1>1, <1>2

\* A new entry has the type of an entry.
LEMMA EntryType ==
  ASSUME TypeOK, NEW s, NEW path \in Paths, blob_id_ < MaxBlobs, AddEntry(s, path)
  PROVE  /\ blob_id_' \in 0..MaxBlobs /\ blob_id_' \in BlobIds
         /\ blobs_' \in [Sessions -> SUBSET BlobIds]
         /\ entry_path' \in [BlobIds -> Paths]
         /\ entry_size' \in [BlobIds -> 0..Word - 1]
<1>1. blob_id_' \in 0..MaxBlobs /\ blob_id_' \in BlobIds
  BY BlobsAssumption DEF TypeOK, SessionTypeOK, AddEntry, BlobIds, Emplace
<1>2. 0 \in 0..Word - 1
  BY StoreAssumption
<1> QED BY <1>1, <1>2 DEF TypeOK, SessionTypeOK, AddEntry, Emplace

\* Every step of a host thread keeps the types.
LEMMA HostType ==
  ASSUME TypeOK, NEW h \in Hosts, HostStep(h), UNCHANGED <<putVars, crashes>>
  PROVE  TypeOK'
<1> USE DEF TypeOK, SessionTypeOK, putVars
<1>1. ASSUME NEW t \in Transactions \cup {NoTransaction}, HostCreates(h, t) PROVE TypeOK'
  <2>1. ManagerTypeOK'
    BY <1>1, ManagerType DEF HostCreates
  <2> QED BY <1>1, <2>1 DEF HostCreates, sessionVars, entryVars, hostVars
<1>2. ASSUME NEW s \in Sessions, NEW f \in HostFiles, HostAdds(h, s, f) PROVE TypeOK'
  <2>1. ManagerTypeOK'
    BY <1>2 DEF HostAdds, ManagerTypeOK, managerVars
  <2>2. HostPath(f) \in Paths
    BY DEF Paths
  <2>3. /\ blob_id_' \in 0..MaxBlobs
        /\ blobs_' \in [Sessions -> SUBSET BlobIds]
        /\ entry_path' \in [BlobIds -> Paths]
        /\ entry_size' \in [BlobIds -> 0..Word - 1]
    <3>1. CASE AddEntry(s, HostPath(f))
      BY <1>2, <2>2, <3>1, EntryType DEF HostAdds
    <3>2. CASE blob_id_' = blob_id_ + 1 /\ UNCHANGED <<blobs_, entry_path, entry_size>>
      BY <1>2, <3>2, BlobsAssumption DEF HostAdds
    <3> QED BY <1>2, <3>1, <3>2 DEF HostAdds
  <2> QED BY <1>2, <2>1, <2>3 DEF HostAdds, hostVars
<1>3. ASSUME NEW s \in Sessions, NEW b \in BlobIds, HostMovesFile(h, s, b) PROVE TypeOK'
  BY <1>3 DEF HostMovesFile, ManagerTypeOK, managerVars, entryVars, hostVars, Unlink
<1>4. ASSUME NEW s \in Sessions, NEW ids \in SUBSET BlobIds, HostRemoves(h, s, ids)
      PROVE  TypeOK'
  BY <1>4 DEF HostRemoves, HostStarts, ManagerTypeOK, managerVars, entryVars
<1>5. ASSUME NEW s \in Sessions, HostDisposes(h, s) PROVE TypeOK'
  BY <1>5 DEF HostDisposes, HostStarts, ManagerTypeOK, managerVars, entryVars, Entries
<1>6. CASE HostGivesBack(h)
  <2>1. PICK b \in BlobIds : GiveBack(h, hostSession[h], b)
    BY <1>6 DEF HostGivesBack
  <2>2. current_size_' \in 0..Word - 1
    BY <2>1, CountType DEF GiveBack, Lock
  <2>3. mtx_' \in [Sessions -> Threads \cup {Unlocked}] /\ deleting' \in [Threads -> BlobIds \cup {NoBlob}]
    BY <2>1 DEF GiveBack, Threads, Lock
  <2> QED BY <1>6, <2>2, <2>3 DEF HostGivesBack, ManagerTypeOK, managerVars, entryVars, hostVars
<1>7. CASE HostSkips(h)
  BY <1>7 DEF HostSkips, ManagerTypeOK, managerVars, entryVars
<1>8. CASE HostUnlinks(h)
  <2>1. 0 \in 0..Word - 1
    BY StoreAssumption
  <2>2. /\ files' \in [Paths -> Nat \cup {NoFile}]
        /\ blobs_' \in [Sessions -> SUBSET BlobIds]
        /\ entry_size' \in [BlobIds -> 0..Word - 1]
        /\ todo' \in [Hosts -> SUBSET BlobIds]
    BY <1>8, <2>1 DEF HostUnlinks, UnlinkAndErase, Unlink, EraseEntry
  <2>3. /\ mtx_' \in [Sessions -> Threads \cup {Unlocked}]
        /\ deleting' \in [Threads -> BlobIds \cup {NoBlob}]
    BY <1>8 DEF HostUnlinks, UnlinkAndErase, Unlock, Unlink, EraseEntry
  <2> QED BY <1>8, <2>2, <2>3 DEF HostUnlinks, ManagerTypeOK, managerVars
<1>9. CASE HostUnlinkThrows(h)
  BY <1>9 DEF HostUnlinkThrows, UnlinkThrows, Unlock, HostStops, ManagerTypeOK,
              managerVars, entryVars
<1>10. CASE HostRemoved(h)
  BY <1>10 DEF HostRemoved, HostStops, ManagerTypeOK, managerVars, entryVars
<1>11. CASE HostErases(h)
  <2>1. ManagerTypeOK'
    <3>1. hostSession[h] \in Sessions
      <4>1. hostSession[h] \in 1..session_id_ /\ session_id_ \in 0..MaxSessions
        BY <1>11 DEF HostErases, EraseSession, Unregister, GetSessionId, ManagerTypeOK
      <4> QED BY <4>1, MaxSessionsAssumption DEF Sessions
    <3> QED BY <1>11, <3>1, ManagerType DEF HostErases
  <2> QED BY <1>11, <2>1 DEF HostErases, HostStops, entryVars
<1> QED BY <1>1, <1>2, <1>3, <1>4, <1>5, <1>6, <1>7, <1>8, <1>9, <1>10, <1>11
       DEF HostStep, HostContinues

\* n bytes reach the file of the handler, if it is on its path.
PartWritten(c, n) ==
    LET path == UploadPath(putBlob[c]) IN
    /\ n <= chunk[c]
    /\ files' = files \/ (files[path] # NoFile /\ files' = [files EXCEPT ![path] = files[path] + n])

\* A write adds no more than the chunk.
LEMMA WriteReaches ==
  ASSUME TypeOK, NEW c \in Calls, PutWrites(c)
  PROVE  \E n \in Nat : PartWritten(c, n)
<1>1. PICK n \in 0..chunk[c] :
         files' = IF files[UploadPath(putBlob[c])] = NoFile THEN files
                   ELSE [files EXCEPT ![UploadPath(putBlob[c])] = @ + n]
  BY DEF PutWrites
<1>2. chunk[c] \in Nat
  BY DEF TypeOK
<1>3. n \in Nat /\ n <= chunk[c]
  BY <1>2
<1> QED BY <1>1, <1>3 DEF PartWritten

\* The handler's own variables after it answers or goes on.
LEMMA AnswerType ==
  ASSUME TypeOK, NEW c \in Calls, NEW code \in Statuses, Answer(c, code)
  PROVE  /\ putAt' \in [Calls -> Places]
         /\ putSession' \in [Calls -> Sessions \cup {NoSession}]
         /\ putBlob' \in [Calls -> BlobIds \cup {NoBlob}]
         /\ declared' \in [Calls -> Nat \cup {NoSize}]
         /\ chunk' \in [Calls -> Nat]
         /\ total_size' \in [Calls -> Nat]
         /\ writable' \in [Calls -> BOOLEAN]
         /\ status' \in [Calls -> Statuses]
<1>1. "done" \in Places
  BY DEF Places
<1> QED BY <1>1 DEF TypeOK, Answer

\* A handler that goes on is at a place of the code.
LEMMA GoToType ==
  ASSUME TypeOK, NEW c \in Calls, NEW place \in Places, GoTo(c, place)
  PROVE  /\ putAt' \in [Calls -> Places]
         /\ status' \in [Calls -> Statuses]
BY DEF TypeOK, GoTo

\* Every step of a handler that the client causes keeps the types.
LEMMA ClientType ==
  ASSUME TypeOK, NEW c \in Calls, ClientStep(c), UNCHANGED crashes
  PROVE  TypeOK'
<1> USE DEF TypeOK, SessionTypeOK
<1>1. ASSUME NEW code \in Statuses, Answer(c, code), UNCHANGED <<managerVars, sessionVars>>
      PROVE  TypeOK'
  <2> HIDE DEF TypeOK
  <2>1. SessionTypeOK'
    BY <1>1 DEF TypeOK, ManagerTypeOK, managerVars, sessionVars, entryVars, hostVars
  <2> QED BY <1>1, <2>1, AnswerType DEF TypeOK
<1>2. CASE PutRejected(c)
  BY <1>1, <1>2 DEF PutRejected, Statuses
<1>3. ASSUME NEW s \in Sessions, PutNoSession(c, s) PROVE TypeOK'
  BY <1>1, <1>3 DEF PutNoSession, Statuses
<1>4. ASSUME NEW s \in Sessions, NEW size \in Declared \cup {NoSize}, PutAccepted(c, s, size)
      PROVE  TypeOK'
  <2>1. size \in Nat \cup {NoSize} /\ "create" \in Places
    BY DeclaredAssumption DEF Places
  <2>2. /\ putAt' \in [Calls -> Places]
        /\ status' \in [Calls -> Statuses]
    BY <1>4, <2>1, GoToType DEF PutAccepted, PutStarts
  <2> QED BY <1>4, <2>1, <2>2 DEF PutAccepted, ManagerTypeOK, managerVars, sessionVars,
     PutStarts,
              entryVars, hostVars
<1>5. ASSUME NEW n \in Chunks, PutReserves(c, n) PROVE TypeOK'
  <2>1. n \in Nat /\ n \in 0..Word - 1
    BY ChunksAssumption, StoreAssumption
  <2>2. current_size_' \in 0..Word - 1
    BY <1>5, <2>1, CountType DEF PutReserves, Credit
  <2>3. /\ ManagerTypeOK'
        /\ UNCHANGED <<running, blob_id_, blobs_, entry_path, mtx_, files, deleting,
                       hostAt, hostSession, todo>>
    BY <1>5 DEF PutReserves, ManagerTypeOK, managerVars, hostVars, Credit
  <2>4. CASE Answer(c, "NOT_FOUND") /\ UNCHANGED entry_size
    <3>1. "NOT_FOUND" \in Statuses
      BY DEF Statuses
    <3> QED BY <2>2, <2>3, <2>4, <3>1, AnswerType
  <2>5. CASE /\ entry_size' = [entry_size EXCEPT ![putBlob[c]] = Plus(@, n)]
             /\ chunk' = [chunk EXCEPT ![c] = n]
             /\ GoTo(c, "write")
             /\ UNCHANGED <<putSession, putBlob, declared, total_size, writable>>
    <3>1. \A b \in BlobIds : Plus(entry_size[b], n) \in 0..Word - 1
      BY <2>1, Arithmetic
    <3>2. entry_size' \in [BlobIds -> 0..Word - 1]
      BY <2>5, <3>1
    <3>3. "write" \in Places
      BY DEF Places
    <3>4. putAt' \in [Calls -> Places] /\ status' \in [Calls -> Statuses]
      BY <2>5, <3>3, GoToType
    <3> QED BY <2>1, <2>2, <2>3, <2>5, <3>2, <3>4
  <2> QED BY <1>5, <2>4, <2>5 DEF PutReserves, Credit
<1>6. ASSUME NEW n \in Chunks, PutRefused(c, n) PROVE TypeOK'
  <2>1. n \in Nat /\ "discard" \in Places
    BY ChunksAssumption DEF Places
  <2>2. putAt' \in [Calls -> Places] /\ status' \in [Calls -> Statuses]
    BY <1>6, <2>1, GoToType DEF PutRefused
  <2> QED BY <1>6, <2>1, <2>2 DEF PutRefused, ManagerTypeOK, managerVars, sessionVars,
              entryVars, hostVars
<1>7. CASE PutNotChunk(c)
  BY <1>1, <1>7 DEF PutNotChunk, Statuses
<1>8. CASE PutEnds(c)
  BY <1>1, <1>8 DEF PutEnds, Statuses
<1>t. CASE PutTagThrows(c)
  BY <1>1, <1>t DEF PutTagThrows, Statuses
<1>9. CASE PutMismatches(c)
  <2>1. files' \in [Paths -> Nat \cup {NoFile}]
    BY <1>9 DEF PutMismatches, Unlink
  <2>2. "INVALID_ARGUMENT" \in Statuses
    BY DEF Statuses
  <2>3. /\ ManagerTypeOK'
        /\ UNCHANGED <<running, entryVars, mtx_, current_size_, deleting, hostVars>>
    BY <1>9 DEF PutMismatches, ManagerTypeOK, managerVars, Unlink
  <2> QED BY <1>9, <2>1, <2>2, <2>3, AnswerType DEF PutMismatches, entryVars, hostVars, Unlink
<1>10. CASE PutMismatchThrows(c)
  BY <1>1, <1>10 DEF PutMismatchThrows, Statuses
<1> QED BY <1>t, <1>2, <1>3, <1>4, <1>5, <1>6, <1>7, <1>8, <1>9, <1>10 DEF ClientStep

\* Every step of a handler on its own keeps the types.
LEMMA ServerType ==
  ASSUME TypeOK, PlaceInv, NEW c \in Calls, ServerStep(c), UNCHANGED crashes
  PROVE  TypeOK'
<1> USE DEF TypeOK, SessionTypeOK
<1>1. CASE PutCreates(c)
  <2>1. UploadPath(blob_id_') \in Paths
    BY <1>1, BlobsAssumption DEF PutCreates, AddEntry, Paths, UploadPaths, BlobIds, Emplace
  <2>2. /\ blob_id_' \in 0..MaxBlobs /\ blob_id_' \in BlobIds
        /\ blobs_' \in [Sessions -> SUBSET BlobIds]
        /\ entry_path' \in [BlobIds -> Paths]
        /\ entry_size' \in [BlobIds -> 0..Word - 1]
    BY <1>1, <2>1, EntryType DEF PutCreates
  <2>3. "open" \in Places
    BY DEF Places
  <2>4. putAt' \in [Calls -> Places] /\ status' \in [Calls -> Statuses]
    BY <1>1, <2>3, GoToType DEF PutCreates
  <2> QED BY <1>1, <2>2, <2>4 DEF PutCreates, ManagerTypeOK, managerVars, hostVars
<1>2. CASE PutOpens(c)
  <2>1. files' \in [Paths -> Nat \cup {NoFile}] /\ "read" \in Places
    BY <1>2 DEF PutOpens, Places
  <2>2. putAt' \in [Calls -> Places] /\ status' \in [Calls -> Statuses]
    BY <1>2, <2>1, GoToType DEF PutOpens
  <2> QED BY <1>2, <2>1, <2>2 DEF PutOpens, ManagerTypeOK, managerVars, entryVars, hostVars, locals
<1>3. ASSUME NEW code \in Statuses, Answer(c, code), UNCHANGED <<managerVars, sessionVars>>
      PROVE  TypeOK'
  <2> HIDE DEF TypeOK
  <2>1. SessionTypeOK'
    BY <1>3 DEF TypeOK, ManagerTypeOK, managerVars, sessionVars, entryVars, hostVars
  <2> QED BY <1>3, <2>1, AnswerType DEF TypeOK
<1>4. CASE PutOpenFails(c)
  BY <1>3, <1>4 DEF PutOpenFails, Statuses
<1>5. CASE PutWrites(c)
  <2>1. "read" \in Places
    BY DEF Places
  <2>2. putAt' \in [Calls -> Places] /\ status' \in [Calls -> Statuses]
    BY <1>5, <2>1, GoToType DEF PutWrites
  <2>3. /\ chunk' \in [Calls -> Nat]
        /\ total_size' \in [Calls -> Nat]
        /\ writable' \in [Calls -> BOOLEAN]
    BY <1>5 DEF PutWrites, GoodAfter
  <2>4. files' \in [Paths -> Nat \cup {NoFile}]
    <3> DEFINE path == UploadPath(putBlob[c])
    <3>1. PICK n \in Nat : PartWritten(c, n)
      <4> HIDE DEF TypeOK
      <4> QED BY <1>5, WriteReaches
    <3>2. CASE files' = files
      BY <3>2
    <3>3. CASE files[path] # NoFile /\ files' = [files EXCEPT ![path] = files[path] + n]
      <4>1. files \in [Paths -> Nat \cup {NoFile}]
        OBVIOUS
      <4> HIDE DEF path, TypeOK, SessionTypeOK
      <4>2. path \in Paths => files[path] + n \in Nat
        BY <3>3, <4>1
      <4> QED BY <3>3, <4>1, <4>2
    <3> QED BY <3>1, <3>2, <3>3 DEF PartWritten
  <2> QED BY <1>5, <2>2, <2>3, <2>4 DEF PutWrites, ManagerTypeOK, managerVars, entryVars, hostVars
<1>6. CASE PutGivesBack(c)
  <2>1. GiveBack(c, putSession[c], putBlob[c]) /\ "unlink" \in Places
    BY <1>6 DEF PutGivesBack, Places
  <2>2. putSession[c] \in Sessions \cup {NoSession} /\ putBlob[c] \in BlobIds \cup {NoBlob}
    OBVIOUS
  <2>3. current_size_' \in 0..Word - 1
    <3>1. CASE putBlob[c] \in BlobIds
      BY <2>1, <3>1, CountType DEF GiveBack, Lock
    <3>2. CASE putBlob[c] \notin BlobIds
      <4>1. putBlob[c] \in blobs_[putSession[c]] /\ putSession[c] \in Sessions
        BY <1>6, <2>1 DEF GiveBack, PutGivesBack, At, PlaceInv, Lock
      <4> QED BY <3>2, <4>1
    <3> QED BY <3>1, <3>2
  <2>4. /\ mtx_' \in [Sessions -> Threads \cup {Unlocked}]
        /\ deleting' \in [Threads -> BlobIds \cup {NoBlob}]
    BY <2>1, <2>2 DEF GiveBack, Threads, Lock
  <2>5. putAt' \in [Calls -> Places] /\ status' \in [Calls -> Statuses]
    BY <1>6, <2>1, GoToType DEF PutGivesBack
  <2> QED BY <1>6, <2>3, <2>4, <2>5 DEF PutGivesBack, ManagerTypeOK, managerVars, entryVars, hostVars, locals
<1>7. CASE PutSkips(c)
  BY <1>3, <1>7 DEF PutSkips, Statuses
<1>8. CASE PutUnlinks(c)
  <2>1. 0 \in 0..Word - 1 /\ "RESOURCE_EXHAUSTED" \in Statuses
    BY StoreAssumption DEF Statuses
  <2>2. /\ files' \in [Paths -> Nat \cup {NoFile}]
        /\ blobs_' \in [Sessions -> SUBSET BlobIds]
        /\ entry_size' \in [BlobIds -> 0..Word - 1]
    BY <1>8, <2>1 DEF PutUnlinks, UnlinkAndErase, Unlink, EraseEntry
  <2>3. /\ mtx_' \in [Sessions -> Threads \cup {Unlocked}]
        /\ deleting' \in [Threads -> BlobIds \cup {NoBlob}]
    BY <1>8 DEF PutUnlinks, UnlinkAndErase, Unlock, Unlink, EraseEntry
  <2>4. /\ ManagerTypeOK'
        /\ UNCHANGED <<running, blob_id_, entry_path, current_size_, hostAt, hostSession, todo>>
        /\ Answer(c, "RESOURCE_EXHAUSTED")
    BY <1>8 DEF PutUnlinks, ManagerTypeOK, managerVars, hostVars
  <2> QED BY <2>1, <2>2, <2>3, <2>4, AnswerType
<1>9. CASE PutUnlinkThrows(c)
  <2>1. "UNKNOWN" \in Statuses
    BY DEF Statuses
  <2>2. /\ mtx_' \in [Sessions -> Threads \cup {Unlocked}]
        /\ deleting' \in [Threads -> BlobIds \cup {NoBlob}]
    BY <1>9 DEF PutUnlinkThrows, UnlinkThrows, Unlock
  <2>3. /\ ManagerTypeOK'
        /\ UNCHANGED <<running, blob_id_, blobs_, entry_path, entry_size, current_size_, files,
                       hostAt, hostSession, todo>>
        /\ Answer(c, "UNKNOWN")
    BY <1>9 DEF PutUnlinkThrows, UnlinkThrows, ManagerTypeOK, managerVars, entryVars, hostVars
  <2> QED BY <2>1, <2>2, <2>3, AnswerType
<1> QED BY <1>1, <1>2, <1>4, <1>5, <1>6, <1>7, <1>8, <1>9 DEF ServerStep

\* A crash resets the memory to values of the right types.
LEMMA CrashType ==
  ASSUME TypeOK, Crash
  PROVE  TypeOK'
<1> USE MaxSessionsAssumption, BlobsAssumption, StoreAssumption, PutBoundsAssumption
<1>1. ManagerTypeOK'
  BY DEF Crash, Forget, ManagerTypeOK
<1>2. \A b \in BlobIds : UploadPath(b) \in Paths
  BY DEF Paths, UploadPaths
<1>3. 0 \in 0..Word - 1 /\ 0 \in 0..MaxBlobs
  OBVIOUS
<1>4. SessionTypeOK'
  BY <1>1, <1>2, <1>3 DEF Crash, Forget, TypeOK, SessionTypeOK
<1>5. crashes' \in 0..MaxCrashes
  BY DEF Crash, TypeOK
<1> QED BY <1>4, <1>5 DEF Crash, TypeOK, Places, Statuses

\* Types, over every step.
LEMMA NextType == TypeOK /\ PlaceInv /\ [Next]_vars => TypeOK'
<1> SUFFICES ASSUME TypeOK, PlaceInv, [Next]_vars PROVE TypeOK'
  OBVIOUS
<1>1. CASE (Construct \/ ConstructFails) /\ UNCHANGED <<putVars, crashes>>
  <2>1. files' \in [Paths -> Nat \cup {NoFile}]
    BY <1>1 DEF Construct, ConstructFails, TypeOK, SessionTypeOK, EmptyDirectory
  <2> QED BY <1>1, <2>1 DEF Construct, ConstructFails, TypeOK, SessionTypeOK,
     ManagerTypeOK, EmptyDirectory,
              managerVars, entryVars, hostVars, putVars
<1>2. CASE UNCHANGED vars
  BY <1>2 DEF TypeOK, SessionTypeOK, ManagerTypeOK, vars, managerVars, sessionVars, entryVars,
              hostVars, putVars
<1> QED BY <1>1, <1>2, HostType, ClientType, ServerType, CrashType DEF Next

-----------------------------------------------------------------------------
(* Mutexes and entries: what each critical section does to LockInv. *)

\* Every thread inside delete_blob_file, t excepted, stays with its session.
SameSessions(t) == \A u \in Threads \ {t} :
    deleting[u] # NoBlob => ThreadSession(u)' = ThreadSession(u)

\* A thread inside delete_blob_file works on a session.
LEMMA DeletingSession ==
  ASSUME PlaceInv, NEW u \in Threads, deleting[u] # NoBlob
  PROVE  ThreadSession(u) \in Sessions
BY DEF PlaceInv, ThreadSession, Threads

\* Entries are added, no mutex moves.
LEMMA LockFrame ==
  ASSUME PlaceInv, LockInv, UNCHANGED <<mtx_, deleting>>,
         \A r \in Sessions : blobs_[r] \subseteq blobs_'[r],
         \A u \in Threads : deleting[u] # NoBlob => ThreadSession(u)' = ThreadSession(u)
  PROVE  LockInv'
<1>1. SUFFICES ASSUME NEW u \in Threads, deleting[u] # NoBlob
               PROVE  /\ mtx_[ThreadSession(u)'] = u
                      /\ deleting[u] \in blobs_'[ThreadSession(u)']
  BY DEF LockInv
<1>2. /\ ThreadSession(u)' = ThreadSession(u)
      /\ mtx_[ThreadSession(u)] = u
      /\ deleting[u] \in blobs_[ThreadSession(u)]
  BY <1>1 DEF LockInv
<1>3. ThreadSession(u) \in Sessions
  BY <1>1, DeletingSession
<1> QED BY <1>2, <1>3

\* A thread enters delete_blob_file: it now owns the mutex, which no other did.
LEMMA LockGiveBack ==
  ASSUME TypeOK, PlaceInv, LockInv, NEW t \in Threads, NEW s \in Sessions, NEW b \in BlobIds,
         ThreadSession(t)' = s, SameSessions(t), GiveBack(t, s, b), UNCHANGED blobs_
  PROVE  LockInv'
<1>1. SUFFICES ASSUME NEW u \in Threads, deleting'[u] # NoBlob
               PROVE  /\ mtx_'[ThreadSession(u)'] = u
                      /\ deleting'[u] \in blobs_[ThreadSession(u)']
  BY DEF LockInv
<1>2. mtx_ \in [Sessions -> Threads \cup {Unlocked}] /\ deleting \in [Threads -> BlobIds \cup {NoBlob}]
  BY DEF TypeOK, SessionTypeOK
<1>3. CASE u = t
  BY <1>2, <1>3 DEF GiveBack, Lock
<1>4. CASE u # t
  <2>1. deleting'[u] = deleting[u] /\ deleting[u] # NoBlob
    BY <1>1, <1>2, <1>4 DEF GiveBack, Lock
  <2>2. /\ ThreadSession(u)' = ThreadSession(u)
        /\ mtx_[ThreadSession(u)] = u
        /\ deleting[u] \in blobs_[ThreadSession(u)]
    BY <2>1, <1>4 DEF LockInv, SameSessions
  <2>3. ThreadSession(u) \in Sessions
    BY <2>1, DeletingSession
  <2>4. ThreadSession(u) # s
    BY <2>2, ThreadsAssumption DEF GiveBack, CanLock, Lock
  <2>5. mtx_'[ThreadSession(u)] = mtx_[ThreadSession(u)]
    BY <1>2, <2>3, <2>4 DEF GiveBack, Lock
  <2> QED BY <2>1, <2>2, <2>5
<1> QED BY <1>3, <1>4

\* The end of delete_blob_file, with or without success.
LEMMA LockUnlock ==
  ASSUME TypeOK, PlaceInv, LockInv, NEW t \in Threads, deleting[t] # NoBlob,
         SameSessions(t), Unlock(t, ThreadSession(t)),
         \A r \in Sessions \ {ThreadSession(t)} : blobs_'[r] = blobs_[r]
  PROVE  LockInv'
<1>1. SUFFICES ASSUME NEW u \in Threads, deleting'[u] # NoBlob
               PROVE  /\ mtx_'[ThreadSession(u)'] = u
                      /\ deleting'[u] \in blobs_'[ThreadSession(u)']
  BY DEF LockInv
<1>2. mtx_ \in [Sessions -> Threads \cup {Unlocked}] /\ deleting \in [Threads -> BlobIds \cup {NoBlob}]
  BY DEF TypeOK, SessionTypeOK
<1>3. u # t /\ deleting'[u] = deleting[u] /\ deleting[u] # NoBlob
  BY <1>1, <1>2 DEF Unlock
<1>4. /\ ThreadSession(u)' = ThreadSession(u)
      /\ mtx_[ThreadSession(u)] = u
      /\ deleting[u] \in blobs_[ThreadSession(u)]
  BY <1>3 DEF LockInv, SameSessions
<1>5. mtx_[ThreadSession(t)] = t
  BY DEF LockInv
<1>6. ThreadSession(u) # ThreadSession(t) /\ ThreadSession(u) \in Sessions
  BY <1>3, <1>4, <1>5, DeletingSession
<1>7. mtx_'[ThreadSession(u)] = mtx_[ThreadSession(u)]
  BY <1>2, <1>6 DEF Unlock
<1> QED BY <1>3, <1>4, <1>6, <1>7

-----------------------------------------------------------------------------
(* Ids. *)

\* No id is taken and no entry is added.
LEMMA IdFrame ==
  ASSUME IdInv, UNCHANGED <<blob_id_, putBlob>>,
         \A s \in Sessions : blobs_'[s] \subseteq blobs_[s]
  PROVE  IdInv'
BY DEF IdInv, EntryOnce

\* An id is taken, and possibly an entry made under it.
LEMMA IdTaken ==
  ASSUME TypeOK, IdInv, blob_id_' = blob_id_ + 1, UNCHANGED putBlob,
         NEW r \in Sessions,
         \A s \in Sessions \ {r} : blobs_'[s] = blobs_[s],
         blobs_'[r] \subseteq blobs_[r] \cup {blob_id_'}
  PROVE  IdInv'
<1>1. blob_id_ \in Nat /\ \A s \in Sessions : blobs_[s] \subseteq Nat
  BY DEF TypeOK, SessionTypeOK, BlobIds
<1>2. \A c \in Calls : putBlob[c] \in Nat
  BY DEF TypeOK, BlobIds, NoBlob
<1>3. \A s \in Sessions : blob_id_' \notin blobs_[s]
  BY <1>1 DEF IdInv
<1>4. \A s \in Sessions : \A b \in blobs_'[s] : b <= blob_id_'
  BY <1>1 DEF IdInv
<1>5. \A c \in Calls : putBlob[c] <= blob_id_'
  BY <1>1, <1>2 DEF IdInv
<1>6. \A s \in Sessions, q \in Sessions : s # q => blobs_'[s] \cap blobs_'[q] = {}
  <2>1. SUFFICES ASSUME NEW s \in Sessions, NEW q \in Sessions, s # q
                 PROVE  blobs_'[s] \cap blobs_'[q] = {}
    OBVIOUS
  <2>2. blobs_[s] \cap blobs_[q] = {}
    BY <2>1 DEF IdInv, EntryOnce
  <2> QED BY <2>1, <2>2, <1>3
<1> QED BY <1>4, <1>5, <1>6 DEF IdInv, EntryOnce

\* A handler takes one.
LEMMA IdGiven ==
  ASSUME TypeOK, IdInv, NEW c \in Calls, NEW r \in Sessions, NEW path, AddEntry(r, path),
         putBlob' = [putBlob EXCEPT ![c] = blob_id_']
  PROVE  IdInv'
<1>1. blob_id_ \in Nat /\ blob_id_' = blob_id_ + 1 /\ \A s \in Sessions : blobs_[s] \subseteq Nat
  BY DEF TypeOK, SessionTypeOK, BlobIds, AddEntry, Emplace
<1>2. \A d \in Calls : putBlob[d] \in Nat /\ putBlob[d] <= blob_id_
  BY DEF TypeOK, BlobIds, NoBlob, IdInv
<1>3. \A s \in Sessions : blob_id_' \notin blobs_[s]
  BY <1>1 DEF IdInv
<1>4. /\ \A s \in Sessions \ {r} : blobs_'[s] = blobs_[s]
      /\ blobs_'[r] = blobs_[r] \cup {blob_id_'}
  BY DEF AddEntry, TypeOK, SessionTypeOK, Emplace
<1>5. /\ putBlob'[c] = blob_id_'
      /\ \A d \in Calls \ {c} : putBlob'[d] = putBlob[d]
  BY DEF TypeOK
<1>6. \A s \in Sessions : \A b \in blobs_'[s] : b <= blob_id_'
  BY <1>1, <1>4 DEF IdInv
<1>7. \A d \in Calls : putBlob'[d] <= blob_id_'
  BY <1>1, <1>2, <1>5
<1>8. \A s \in Sessions, q \in Sessions : s # q => blobs_'[s] \cap blobs_'[q] = {}
  <2>1. SUFFICES ASSUME NEW s \in Sessions, NEW q \in Sessions, s # q
                 PROVE  blobs_'[s] \cap blobs_'[q] = {}
    OBVIOUS
  <2>2. blobs_[s] \cap blobs_[q] = {}
    BY <2>1 DEF IdInv, EntryOnce
  <2> QED BY <2>1, <2>2, <1>3, <1>4
<1>9. \A d \in Calls, e \in Calls : d # e /\ putBlob'[d] # NoBlob => putBlob'[d] # putBlob'[e]
  <2>1. SUFFICES ASSUME NEW d \in Calls, NEW e \in Calls, d # e, putBlob'[d] # NoBlob
                 PROVE  putBlob'[d] # putBlob'[e]
    OBVIOUS
  <2>2. CASE d = c \/ e = c
    BY <2>1, <2>2, <1>1, <1>2, <1>5
  <2>3. CASE d # c /\ e # c
    BY <2>1, <2>3, <1>5 DEF IdInv, EntryOnce
  <2> QED BY <2>2, <2>3
<1> QED BY <1>6, <1>7, <1>8, <1>9 DEF IdInv, EntryOnce

-----------------------------------------------------------------------------
(* The structural invariant, host steps. *)

\* Every step of a host thread preserves the structural invariant.
LEMMA HostStruct ==
  ASSUME StructInv, NEW h \in Hosts, HostStep(h), UNCHANGED <<putVars, crashes>>
  PROVE  PlaceInv' /\ LockInv' /\ IdInv'
<1> USE DEF StructInv
<1>0. /\ h \in Threads /\ UNCHANGED <<putAt, putSession, putBlob>>
      /\ ThreadSession(h) = hostSession[h] /\ ThreadSession(h)' = hostSession'[h]
      /\ \A c \in Calls : c \in Threads /\ c \notin Hosts
  BY ThreadsAssumption DEF Threads, putVars, ThreadSession
<1>a. /\ hostAt \in [Hosts -> {"idle", "removing", "disposing"}]
      /\ hostSession \in [Hosts -> Sessions \cup {NoSession}]
      /\ todo \in [Hosts -> SUBSET BlobIds]
      /\ deleting \in [Threads -> BlobIds \cup {NoBlob}]
      /\ blobs_ \in [Sessions -> SUBSET BlobIds]
  BY DEF TypeOK, SessionTypeOK
\* Steps that leave the host's place, the mutexes and the deletions alone.
<1>b. ASSUME UNCHANGED <<hostVars, mtx_, deleting>>,
             \A r \in Sessions : blobs_[r] \subseteq blobs_'[r]
      PROVE  PlaceInv' /\ LockInv'
  <2>1. PlaceInv'
    BY <1>0, <1>b DEF PlaceInv, hostVars
  <2>2. \A u \in Threads : ThreadSession(u)' = ThreadSession(u)
    BY <1>0, <1>b DEF ThreadSession, hostVars
  <2> QED BY <1>b, <2>1, <2>2, LockFrame
<1>c. ASSUME UNCHANGED entryVars PROVE IdInv'
  BY <1>0, <1>c, IdFrame DEF entryVars
\* Steps that move only host h, outside delete_blob_file.
<1>d. ASSUME deleting[h] = NoBlob, UNCHANGED <<mtx_, deleting, blobs_>>,
             \A g \in Hosts \ {h} : hostSession'[g] = hostSession[g]
      PROVE  LockInv'
  <2>1. \A u \in Threads : deleting[u] # NoBlob => ThreadSession(u)' = ThreadSession(u)
    BY <1>0, <1>d DEF ThreadSession
  <2> QED BY <1>d, <2>1, LockFrame
<1>1. ASSUME NEW t \in Transactions \cup {NoTransaction}, HostCreates(h, t)
      PROVE  PlaceInv' /\ LockInv' /\ IdInv'
  BY <1>1, <1>b, <1>c DEF HostCreates, sessionVars, entryVars
<1>2. ASSUME NEW s \in Sessions, NEW f \in HostFiles, HostAdds(h, s, f)
      PROVE  PlaceInv' /\ LockInv' /\ IdInv'
  <2>1. /\ blob_id_' = blob_id_ + 1
        /\ \A r \in Sessions \ {s} : blobs_'[r] = blobs_[r]
        /\ blobs_[s] \subseteq blobs_'[s]
        /\ blobs_'[s] \subseteq blobs_[s] \cup {blob_id_'}
    BY <1>2, <1>a DEF HostAdds, AddEntry, Emplace
  <2>2. \A r \in Sessions : blobs_[r] \subseteq blobs_'[r]
    BY <2>1
  <2>3. IdInv'
    BY <2>1, <1>0, IdTaken
  <2> QED BY <1>2, <2>2, <2>3, <1>b DEF HostAdds
<1>3. ASSUME NEW s \in Sessions, NEW b \in BlobIds, HostMovesFile(h, s, b)
      PROVE  PlaceInv' /\ LockInv' /\ IdInv'
  BY <1>3, <1>b, <1>c DEF HostMovesFile, entryVars, Unlink
<1>4. ASSUME NEW s \in Sessions, NEW ids \in SUBSET BlobIds, NEW what \in {"removing", "disposing"},
             hostAt[h] = "idle", HostStarts(h, s, what, ids)
      PROVE  PlaceInv' /\ LockInv' /\ IdInv'
  <2>1. deleting[h] = NoBlob
    BY <1>4 DEF PlaceInv
  <2>2. PlaceInv'
    BY <1>0, <1>a, <1>4, <2>1 DEF PlaceInv, HostStarts
  <2>3. LockInv'
    BY <1>a, <1>4, <1>d, <2>1 DEF HostStarts, entryVars
  <2> QED BY <1>4, <1>c, <2>2, <2>3 DEF HostStarts
<1>5. ASSUME NEW s \in Sessions, NEW ids \in SUBSET BlobIds, HostRemoves(h, s, ids)
      PROVE  PlaceInv' /\ LockInv' /\ IdInv'
  BY <1>4, <1>5 DEF HostRemoves, MayUse
<1>6. ASSUME NEW s \in Sessions, HostDisposes(h, s)
      PROVE  PlaceInv' /\ LockInv' /\ IdInv'
  <2>1. blobs_[s] \in SUBSET BlobIds
    BY <1>a
  <2> QED BY <1>4, <1>6, <2>1 DEF HostDisposes, MayUse, Entries
<1>7. CASE HostGivesBack(h)
  <2>1. PICK b \in BlobIds : IsNext(h, b) /\ GiveBack(h, hostSession[h], b)
    BY <1>7 DEF HostGivesBack
  <2>2. b \in todo[h] /\ hostAt[h] # "idle" /\ hostSession[h] \in Sessions
    BY <2>1 DEF IsNext, PlaceInv
  <2>3. UNCHANGED <<entryVars, hostVars>>
    BY <1>7 DEF HostGivesBack
  <2>4. /\ deleting'[h] = b
        /\ \A u \in Threads \ {h} : deleting'[u] = deleting[u]
    BY <1>0, <1>a, <2>1 DEF GiveBack, Lock
  <2>5. PlaceInv'
    BY <1>0, <2>2, <2>3, <2>4 DEF PlaceInv, hostVars, Threads
  <2>6. SameSessions(h) /\ UNCHANGED blobs_
    BY <1>0, <2>3 DEF SameSessions, ThreadSession, hostVars, entryVars
  <2>7. ThreadSession(h)' = hostSession[h]
    BY <1>0, <2>3 DEF hostVars
  <2>8. LockInv'
    BY <1>0, <2>1, <2>2, <2>6, <2>7, LockGiveBack
  <2> QED BY <2>3, <2>5, <2>8, <1>c
<1>8. CASE HostSkips(h)
  <2>1. /\ deleting[h] = NoBlob
        /\ UNCHANGED <<entryVars, mtx_, deleting, hostAt, hostSession>>
        /\ todo'[h] \subseteq todo[h]
        /\ \A g \in Hosts \ {h} : todo'[g] = todo[g]
    BY <1>8, <1>a DEF HostSkips
  <2>2. PlaceInv'
    BY <1>0, <2>1 DEF PlaceInv
  <2> QED BY <2>1, <2>2, <1>c, <1>d DEF entryVars
<1>9. ASSUME deleting[h] # NoBlob, Unlock(h, hostSession[h]),
             \A r \in Sessions \ {hostSession[h]} : blobs_'[r] = blobs_[r],
             \A g \in Hosts \ {h} : /\ hostAt'[g] = hostAt[g]
                                     /\ hostSession'[g] = hostSession[g]
                                     /\ todo'[g] = todo[g],
             hostAt'[h] # "idle" => hostSession'[h] \in Sessions,
             hostAt'[h] = "idle" => todo'[h] = {}
      PROVE  PlaceInv' /\ LockInv'
  <2>1. /\ deleting'[h] = NoBlob
        /\ \A u \in Threads \ {h} : deleting'[u] = deleting[u]
    BY <1>0, <1>a, <1>9 DEF Unlock
  <2>2. PlaceInv'
    BY <1>0, <1>9, <2>1 DEF PlaceInv, Threads
  <2>3. SameSessions(h)
    BY <1>0, <1>9 DEF SameSessions, ThreadSession
  <2> QED BY <1>0, <1>9, <2>2, <2>3, LockUnlock
<1>10. CASE HostUnlinks(h)
  <2>1. /\ deleting[h] # NoBlob
        /\ Unlock(h, hostSession[h])
        /\ UNCHANGED <<hostAt, hostSession, blob_id_>>
        /\ todo' = [todo EXCEPT ![h] = @ \ {deleting[h]}]
        /\ blobs_' = [blobs_ EXCEPT ![hostSession[h]] = @ \ {deleting[h]}]
    BY <1>10 DEF HostUnlinks, UnlinkAndErase, Unlink, EraseEntry
  <2>2. todo'[h] \subseteq todo[h] /\ \A g \in Hosts \ {h} : todo'[g] = todo[g]
    BY <2>1, <1>a
  <2>3. /\ \A r \in Sessions \ {hostSession[h]} : blobs_'[r] = blobs_[r]
        /\ \A r \in Sessions : blobs_'[r] \subseteq blobs_[r]
    BY <2>1, <1>a
  <2>4. /\ hostAt'[h] # "idle" => hostSession'[h] \in Sessions
        /\ hostAt'[h] = "idle" => todo'[h] = {}
    BY <2>1, <2>2 DEF PlaceInv
  <2>5. PlaceInv' /\ LockInv'
    BY <2>1, <2>2, <2>3, <2>4, <1>9
  <2> QED BY <1>0, <2>1, <2>3, <2>5, IdFrame
<1>11. CASE HostUnlinkThrows(h)
  <2>1. /\ deleting[h] # NoBlob
        /\ Unlock(h, hostSession[h])
        /\ HostStops(h)
        /\ UNCHANGED entryVars
    BY <1>11 DEF HostUnlinkThrows, UnlinkThrows, entryVars
  <2>2. /\ hostAt'[h] = "idle" /\ todo'[h] = {}
        /\ \A g \in Hosts \ {h} : /\ hostAt'[g] = hostAt[g]
                                   /\ hostSession'[g] = hostSession[g]
                                   /\ todo'[g] = todo[g]
    BY <2>1, <1>a DEF HostStops
  <2> QED BY <2>1, <2>2, <1>9, <1>c DEF entryVars
<1>12. ASSUME todo[h] = {}, HostStops(h), UNCHANGED <<entryVars, mtx_, deleting>>
       PROVE  PlaceInv' /\ LockInv' /\ IdInv'
  <2>1. deleting[h] = NoBlob
    BY <1>12 DEF PlaceInv
  <2>2. /\ hostAt'[h] = "idle" /\ todo'[h] = {}
        /\ \A g \in Hosts \ {h} : /\ hostAt'[g] = hostAt[g]
                                   /\ hostSession'[g] = hostSession[g]
                                   /\ todo'[g] = todo[g]
    BY <1>12, <1>a DEF HostStops
  <2>3. PlaceInv'
    BY <1>0, <1>12, <2>1, <2>2 DEF PlaceInv
  <2> QED BY <1>12, <2>1, <2>2, <2>3, <1>c, <1>d DEF entryVars
<1>13. CASE HostRemoved(h)
  BY <1>12, <1>13 DEF HostRemoved
<1>14. CASE HostErases(h)
  BY <1>12, <1>14 DEF HostErases
<1> QED BY <1>1, <1>2, <1>3, <1>5, <1>6, <1>7, <1>8, <1>10, <1>11, <1>13, <1>14
       DEF HostStep, HostContinues
-----------------------------------------------------------------------------
(* The structural invariant, handler steps. *)

\* A handler outside delete_blob_file takes a step.
LEMMA HandlerMoves ==
  ASSUME StructInv, NEW c \in Calls, deleting[c] = NoBlob,
         UNCHANGED <<hostVars, mtx_, deleting>>,
         \A r \in Sessions : blobs_[r] \subseteq blobs_'[r],
         \A d \in Calls \ {c} : /\ putAt'[d] = putAt[d]
                                /\ putSession'[d] = putSession[d]
                                /\ putBlob'[d] = putBlob[d],
         putAt'[c] \notin {"start", "done"} => putSession'[c] \in Sessions,
         putAt'[c] \notin {"start", "create", "done"} => putBlob'[c] \in BlobIds
  PROVE  PlaceInv' /\ LockInv'
<1>1. PlaceInv'
  BY DEF StructInv, PlaceInv, hostVars
<1>2. \A u \in Threads : deleting[u] # NoBlob => ThreadSession(u)' = ThreadSession(u)
  BY DEF ThreadSession, Threads, hostVars
<1> QED BY <1>1, <1>2, LockFrame DEF StructInv

\* It answers.
LEMMA HandlerAnswers ==
  ASSUME StructInv, NEW c \in Calls, NEW code, Answer(c, code),
         deleting[c] = NoBlob, UNCHANGED <<hostVars, mtx_, deleting, blobs_, blob_id_>>
  PROVE  PlaceInv' /\ LockInv' /\ IdInv'
<1>1. /\ putAt \in [Calls -> Places]
      /\ putSession \in [Calls -> Sessions \cup {NoSession}]
  BY DEF StructInv, TypeOK
<1>2. /\ putAt'[c] = "done"
      /\ putBlob' = putBlob
      /\ \A d \in Calls \ {c} : putAt'[d] = putAt[d] /\ putSession'[d] = putSession[d]
  BY <1>1 DEF Answer
<1>3. PlaceInv' /\ LockInv'
  BY <1>2, HandlerMoves
<1>4. IdInv'
  BY <1>2, IdFrame DEF StructInv
<1> QED BY <1>3, <1>4

\* It goes on to another place of its own.
LEMMA HandlerGoesOn ==
  ASSUME StructInv, NEW c \in Calls, NEW place, GoTo(c, place),
         putAt[c] \notin {"start", "create", "done"},
         deleting[c] = NoBlob,
         UNCHANGED <<hostVars, mtx_, deleting, blobs_, blob_id_, putSession, putBlob>>
  PROVE  PlaceInv' /\ LockInv' /\ IdInv'
<1>1. putAt \in [Calls -> Places]
  BY DEF StructInv, TypeOK
<1>2. \A d \in Calls \ {c} : putAt'[d] = putAt[d]
  BY <1>1 DEF GoTo
<1>3. putSession[c] \in Sessions /\ putBlob[c] \in BlobIds
  BY DEF StructInv, PlaceInv
<1>4. PlaceInv' /\ LockInv'
  BY <1>2, <1>3, HandlerMoves
<1>5. IdInv'
  BY IdFrame DEF StructInv
<1> QED BY <1>4, <1>5

\* Every step of a handler that the client causes preserves it.
LEMMA ClientStruct ==
  ASSUME StructInv, NEW c \in Calls, ClientStep(c)
  PROVE  PlaceInv' /\ LockInv' /\ IdInv'
<1>1. putAt[c] \in {"start", "read"} => deleting[c] = NoBlob
  BY DEF StructInv, PlaceInv
<1>2. ASSUME NEW code, Answer(c, code), putAt[c] \in {"start", "read"},
             UNCHANGED <<hostVars, mtx_, deleting, blobs_, blob_id_>>
      PROVE  PlaceInv' /\ LockInv' /\ IdInv'
  BY <1>1, <1>2, HandlerAnswers
<1>3. ASSUME NEW place, GoTo(c, place), putAt[c] = "read",
             UNCHANGED <<hostVars, mtx_, deleting, blobs_, blob_id_, putSession, putBlob>>
      PROVE  PlaceInv' /\ LockInv' /\ IdInv'
  BY <1>1, <1>3, HandlerGoesOn
<1>4. CASE PutRejected(c)
  BY <1>2, <1>4 DEF PutRejected, At, sessionVars, entryVars
<1>5. ASSUME NEW s \in Sessions, PutNoSession(c, s) PROVE PlaceInv' /\ LockInv' /\ IdInv'
  BY <1>2, <1>5 DEF PutNoSession, At, sessionVars, entryVars
<1>6. ASSUME NEW s \in Sessions, NEW size, PutAccepted(c, s, size)
      PROVE  PlaceInv' /\ LockInv' /\ IdInv'
  <2>1. /\ putAt \in [Calls -> Places]
        /\ putSession \in [Calls -> Sessions \cup {NoSession}]
    BY DEF StructInv, TypeOK
  <2>2. /\ putAt'[c] = "create" /\ putSession'[c] = s /\ putBlob' = putBlob
        /\ \A d \in Calls \ {c} : putAt'[d] = putAt[d] /\ putSession'[d] = putSession[d]
    BY <1>6, <2>1 DEF PutAccepted, GoTo, PutStarts
  <2>3. UNCHANGED <<hostVars, mtx_, deleting, blobs_, blob_id_>> /\ deleting[c] = NoBlob
    BY <1>1, <1>6 DEF PutAccepted, At, sessionVars, entryVars, PutStarts
  <2>4. PlaceInv' /\ LockInv'
    BY <2>2, <2>3, HandlerMoves
  <2>5. IdInv'
    BY <2>2, <2>3, IdFrame DEF StructInv
  <2> QED BY <2>4, <2>5
<1>7. ASSUME NEW n \in Chunks, PutReserves(c, n) PROVE PlaceInv' /\ LockInv' /\ IdInv'
  BY <1>2, <1>3, <1>7 DEF PutReserves, At, Credit
<1>8. ASSUME NEW n \in Chunks, PutRefused(c, n) PROVE PlaceInv' /\ LockInv' /\ IdInv'
  BY <1>3, <1>8 DEF PutRefused, At, sessionVars, entryVars
<1>9. CASE PutNotChunk(c)
  BY <1>2, <1>9 DEF PutNotChunk, At, sessionVars, entryVars
<1>10. CASE PutEnds(c)
  BY <1>2, <1>10 DEF PutEnds, At, sessionVars, entryVars
<1>t. CASE PutTagThrows(c)
  BY <1>2, <1>t DEF PutTagThrows, At, sessionVars, entryVars
<1>11. CASE PutMismatches(c)
  BY <1>2, <1>11 DEF PutMismatches, At, entryVars, Unlink
<1>12. CASE PutMismatchThrows(c)
  BY <1>2, <1>12 DEF PutMismatchThrows, At, sessionVars, entryVars
<1> QED BY <1>t, <1>4, <1>5, <1>6, <1>7, <1>8, <1>9, <1>10, <1>11, <1>12 DEF ClientStep

\* Every step of a handler on its own preserves it.
LEMMA ServerStruct ==
  ASSUME StructInv, NEW c \in Calls, ServerStep(c)
  PROVE  PlaceInv' /\ LockInv' /\ IdInv'
<1>0. /\ c \in Threads /\ c \notin Hosts
      /\ ThreadSession(c) = putSession[c] /\ ThreadSession(c)' = putSession'[c]
      /\ putAt[c] # "unlink" => deleting[c] = NoBlob
      /\ putAt \in [Calls -> Places]
      /\ putSession \in [Calls -> Sessions \cup {NoSession}]
      /\ putBlob \in [Calls -> BlobIds \cup {NoBlob}]
      /\ deleting \in [Threads -> BlobIds \cup {NoBlob}]
      /\ blobs_ \in [Sessions -> SUBSET BlobIds]
  BY ThreadsAssumption DEF Threads, ThreadSession, StructInv, PlaceInv, TypeOK, SessionTypeOK
<1>1. CASE PutCreates(c)
  <2>1. putSession[c] \in Sessions /\ putAt[c] = "create"
    BY <1>1 DEF PutCreates, At, StructInv, PlaceInv
  <2>2. /\ AddEntry(putSession[c], UploadPath(blob_id_')) /\ blob_id_ < MaxBlobs
        /\ putBlob' = [putBlob EXCEPT ![c] = blob_id_']
        /\ GoTo(c, "open")
        /\ UNCHANGED <<hostVars, mtx_, deleting, putSession>>
    BY <1>1 DEF PutCreates
  <2>3. blob_id_' \in BlobIds
    BY <2>2, BlobsAssumption DEF AddEntry, StructInv, TypeOK, SessionTypeOK, BlobIds, Emplace
  <2>4. /\ putAt'[c] = "open" /\ putBlob'[c] = blob_id_'
        /\ \A d \in Calls \ {c} : putAt'[d] = putAt[d] /\ putBlob'[d] = putBlob[d]
    BY <1>0, <2>2 DEF GoTo
  <2>5. \A r \in Sessions : blobs_[r] \subseteq blobs_'[r]
    BY <1>0, <2>2 DEF AddEntry, Emplace
  <2>6. PlaceInv' /\ LockInv'
    BY <1>0, <2>1, <2>2, <2>3, <2>4, <2>5, HandlerMoves
  <2>7. IdInv'
    BY <2>1, <2>2, IdGiven DEF StructInv
  <2> QED BY <2>6, <2>7
<1>2. CASE PutOpens(c)
  BY <1>0, <1>2, HandlerGoesOn DEF PutOpens, At, entryVars, locals
<1>3. CASE PutOpenFails(c)
  BY <1>0, <1>3, HandlerAnswers DEF PutOpenFails, At, sessionVars, entryVars
<1>4. CASE PutWrites(c)
  BY <1>0, <1>4, HandlerGoesOn DEF PutWrites, At, entryVars
<1>5. CASE PutGivesBack(c)
  <2>1. /\ putAt[c] = "discard" /\ GoTo(c, "unlink")
        /\ GiveBack(c, putSession[c], putBlob[c])
        /\ UNCHANGED <<entryVars, hostVars, putSession, putBlob>>
    BY <1>5 DEF PutGivesBack, At, locals
  <2>2. putSession[c] \in Sessions /\ putBlob[c] \in BlobIds
    BY <2>1 DEF StructInv, PlaceInv
  <2>3. /\ putAt'[c] = "unlink"
        /\ \A d \in Calls \ {c} : putAt'[d] = putAt[d]
        /\ \A u \in Threads \ {c} : deleting'[u] = deleting[u]
    BY <1>0, <2>1 DEF GoTo, GiveBack, Lock
  <2>4. PlaceInv'
    BY <1>0, <2>1, <2>2, <2>3 DEF StructInv, PlaceInv, hostVars, Threads
  <2>5. SameSessions(c) /\ UNCHANGED blobs_
    BY <2>1 DEF SameSessions, ThreadSession, hostVars, entryVars
  <2>6. ThreadSession(c)' = putSession[c]
    BY <1>0, <2>1
  <2>7. LockInv'
    BY <1>0, <2>1, <2>2, <2>5, <2>6, LockGiveBack DEF StructInv
  <2>8. IdInv'
    BY <2>1, IdFrame DEF StructInv, entryVars
  <2> QED BY <2>4, <2>7, <2>8
<1>6. CASE PutSkips(c)
  BY <1>0, <1>6, HandlerAnswers DEF PutSkips, At, sessionVars, entryVars
<1>7. ASSUME NEW code, Answer(c, code), deleting[c] # NoBlob, Unlock(c, putSession[c]),
             UNCHANGED <<hostVars, blob_id_>>,
             \A r \in Sessions \ {putSession[c]} : blobs_'[r] = blobs_[r],
             \A r \in Sessions : blobs_'[r] \subseteq blobs_[r]
      PROVE  PlaceInv' /\ LockInv' /\ IdInv'
  <2>1. /\ putAt'[c] = "done" /\ putBlob' = putBlob
        /\ \A d \in Calls \ {c} : putAt'[d] = putAt[d] /\ putSession'[d] = putSession[d]
    BY <1>0, <1>7 DEF Answer
  <2>2. /\ deleting'[c] = NoBlob
        /\ \A u \in Threads \ {c} : deleting'[u] = deleting[u]
    BY <1>0, <1>7 DEF Unlock
  <2>3. PlaceInv'
    BY <1>0, <1>7, <2>1, <2>2 DEF StructInv, PlaceInv, hostVars, Threads
  <2>4. SameSessions(c)
    BY <1>7, <2>1 DEF SameSessions, ThreadSession, hostVars, Threads
  <2>5. LockInv'
    BY <1>0, <1>7, <2>4, LockUnlock DEF StructInv
  <2>6. IdInv'
    BY <1>7, <2>1, IdFrame DEF StructInv
  <2> QED BY <2>3, <2>5, <2>6
<1>8. CASE PutUnlinks(c)
  <2>1. blobs_' = [blobs_ EXCEPT ![putSession[c]] = @ \ {deleting[c]}]
    BY <1>8 DEF PutUnlinks, UnlinkAndErase, Unlink, EraseEntry
  <2>2. /\ \A r \in Sessions \ {putSession[c]} : blobs_'[r] = blobs_[r]
        /\ \A r \in Sessions : blobs_'[r] \subseteq blobs_[r]
    BY <1>0, <2>1
  <2>3. /\ Answer(c, "RESOURCE_EXHAUSTED") /\ deleting[c] # NoBlob
        /\ Unlock(c, putSession[c]) /\ UNCHANGED <<hostVars, blob_id_>>
    BY <1>8 DEF PutUnlinks, UnlinkAndErase, Unlink, EraseEntry
  <2> QED BY <1>7, <2>2, <2>3
<1>9. CASE PutUnlinkThrows(c)
  BY <1>7, <1>9 DEF PutUnlinkThrows, UnlinkThrows, entryVars
<1> QED BY <1>1, <1>2, <1>3, <1>4, <1>5, <1>6, <1>8, <1>9 DEF ServerStep

-----------------------------------------------------------------------------
(* The structural invariant and what follows from it. *)

\* The structural invariant holds initially.
LEMMA InitStruct == Init => StructInv
<1> SUFFICES ASSUME Init PROVE StructInv
  OBVIOUS
<1>1. PlaceInv
  BY ThreadsAssumption DEF Init, SessionInit, PutInit, PlaceInv, NoBlob, Threads
<1>2. LockInv
  BY DEF Init, SessionInit, LockInv
<1>3. IdInv
  BY DEF Init, SessionInit, PutInit, IdInv, EntryOnce, NoBlob
<1> QED BY <1>1, <1>2, <1>3, InitType DEF StructInv

\* The structural invariant is inductive.
LEMMA NextStruct == StructInv /\ [Next]_vars => StructInv'
<1> SUFFICES ASSUME StructInv, [Next]_vars PROVE StructInv'
  OBVIOUS
<1>1. TypeOK'
  BY NextType DEF StructInv
<1>2. CASE (Construct \/ ConstructFails) /\ UNCHANGED <<putVars, crashes>>
  <2>1. UNCHANGED <<entryVars, mtx_, deleting, hostVars, putAt, putSession, putBlob>>
    BY <1>2 DEF Construct, ConstructFails, putVars, EmptyDirectory
  <2>2. PlaceInv' /\ LockInv' /\ IdInv'
    BY <2>1 DEF StructInv, PlaceInv, LockInv, IdInv, EntryOnce, ThreadSession, entryVars, hostVars
  <2> QED BY <1>1, <2>2 DEF StructInv
<1>3. CASE UNCHANGED vars
  <2>1. UNCHANGED <<entryVars, mtx_, deleting, hostVars, putAt, putSession, putBlob>>
    BY <1>3 DEF vars, sessionVars, putVars
  <2>2. PlaceInv' /\ LockInv' /\ IdInv'
    BY <2>1 DEF StructInv, PlaceInv, LockInv, IdInv, EntryOnce, ThreadSession, entryVars, hostVars
  <2> QED BY <1>1, <2>2 DEF StructInv
<1>4. CASE Crash
  <2>1. PlaceInv'
    BY <1>4, ThreadsAssumption DEF Crash, Forget, PlaceInv, NoBlob, Threads
  <2>2. LockInv'
    BY <1>4 DEF Crash, Forget, LockInv
  <2>3. IdInv'
    BY <1>4 DEF Crash, Forget, IdInv, EntryOnce, NoBlob
  <2> QED BY <1>1, <2>1, <2>2, <2>3 DEF StructInv
<1> QED BY <1>1, <1>2, <1>3, <1>4, HostStruct, ClientStruct, ServerStruct DEF Next, StructInv

\* Places, mutexes and ids are as delete_blob_file and get_new_blob_id mean them
\* to be, in every reachable state, failures and crashes included.
THEOREM StructInvariance == Spec => []StructInv
<1> QED BY InitStruct, NextStruct, PTL DEF Spec

\* Every state of the upload path has its type: in particular the byte
\* counter and the sizes stay below 2^w for every number of threads, sessions
\* and chunks, failures of the file system and crashes included.
THEOREM TypeCorrect == Spec => []TypeOK
<1>1. StructInv => TypeOK
  BY DEF StructInv
<1> QED BY <1>1, StructInvariance, PTL

\* get_new_blob_id: no blob is in two sessions and no two handlers write the
\* same file, however the host and the handlers interleave.
THEOREM BlobsUnique == Spec => []EntryOnce
<1>1. StructInv => EntryOnce
  BY DEF StructInv, IdInv
<1> QED BY <1>1, StructInvariance, PTL
-----------------------------------------------------------------------------
(* The byte counter.                                                       *)

ReservedTypeOK ==
    /\ Reserved \in [BlobIds -> Nat]
    /\ \A b \in BlobIds : Reserved[b] <= entry_size[b]
    /\ IsFiniteSet(Bytes(Reserved))

\* What the entries hold is a finite set of bytes.
LEMMA ReservedType == TypeOK => ReservedTypeOK
<1> SUFFICES ASSUME TypeOK PROVE ReservedTypeOK
  OBVIOUS
<1>1. entry_size \in [BlobIds -> 0..Word - 1] /\ Word \in Nat
  BY StoreAssumption DEF TypeOK, SessionTypeOK
<1>2. \A b \in BlobIds : entry_size[b] \in Nat /\ entry_size[b] <= Word
  BY <1>1
<1>3. /\ Reserved \in [BlobIds -> Nat]
      /\ \A b \in BlobIds : Reserved[b] <= entry_size[b]
  BY <1>2 DEF Reserved
<1>4. IsFiniteSet(BlobIds) /\ IsFiniteSet(1..Word)
  BY <1>1, BlobsAssumption, FS_Interval DEF BlobIds
<1>5. IsFiniteSet(BlobIds \X (1..Word))
  BY <1>4, FS_Product
<1>6. Bytes(Reserved) \subseteq BlobIds \X (1..Word)
  <2>1. SUFFICES ASSUME NEW o \in BlobIds, NEW i \in 1..Reserved[o] PROVE i \in 1..Word
    BY <1>3 DEF Bytes
  <2>2. Reserved[o] \in Nat /\ Reserved[o] <= Word
    <3>1. Reserved[o] \in Nat /\ entry_size[o] \in Nat
      BY <1>2, <1>3
    <3>2. Reserved[o] <= entry_size[o] /\ entry_size[o] <= Word
      BY <1>2, <1>3
    <3> QED BY <1>1, <3>1, <3>2
  <2> QED BY <1>1, <2>2
<1>7. IsFiniteSet(Bytes(Reserved))
  BY <1>5, <1>6, FS_Subset
<1> QED BY <1>3, <1>7 DEF ReservedTypeOK

\* The same, one step later.
LEMMA ReservedTypeNext == TypeOK' => ReservedTypeOK'
BY ReservedType, PTL

\* An entry that can be locked is not being deleted.
LEMMA BeingDeleted ==
  ASSUME StructInv, NEW s \in Sessions, NEW b \in BlobIds, b \in blobs_[s], CanLock(s)
  PROVE  ~(\E t \in Threads : deleting[t] = b)
<1>1. SUFFICES ASSUME NEW t \in Threads, deleting[t] = b PROVE FALSE
  OBVIOUS
<1>2. deleting[t] # NoBlob
  BY <1>1, BlobsAssumption DEF BlobIds, NoBlob
<1>3. mtx_[ThreadSession(t)] = t /\ b \in blobs_[ThreadSession(t)]
  BY <1>1, <1>2 DEF StructInv, LockInv
<1>4. ThreadSession(t) \in Sessions
  BY <1>2, DeletingSession DEF StructInv
<1>5. ThreadSession(t) = s
  BY <1>3, <1>4 DEF StructInv, IdInv, EntryOnce
<1> QED BY <1>3, <1>5, ThreadsAssumption DEF CanLock

\* The bytes of an entry that can be locked are all reserved.
LEMMA NotDeleting ==
  ASSUME StructInv, NEW s \in Sessions, NEW b \in BlobIds, b \in blobs_[s], CanLock(s)
  PROVE  Reserved[b] = entry_size[b]
BY BeingDeleted DEF Reserved

\* With a quota, a reservation that passes the test adds without wrapping.
LEMMA ReserveExact ==
  ASSUME TypeOK, NeverUndercounted, quota_ # 0, NEW n \in 0..MaxChunk, CanReserve(n), CountUp(n)
  PROVE  current_size_' = current_size_ + n /\ current_size_' <= quota_
<1>1. current_size_ \in Nat /\ current_size_ <= quota_
  BY StoreAssumption DEF TypeOK, SessionTypeOK, NeverUndercounted
<1>2. Plus(current_size_, n) = current_size_ + n
  BY <1>1, StoreAssumption DEF Plus
<1> QED BY <1>2 DEF CountUp, CanReserve

\* The counter and the entries stay, and no thread enters or leaves
\* delete_blob_file.
LEMMA CountFrame ==
  ASSUME NeverUndercounted, UNCHANGED <<entry_size, deleting, current_size_>>
  PROVE  NeverUndercounted'
<1>1. Reserved' = Reserved
  BY DEF Reserved
<1> QED BY <1>1 DEF NeverUndercounted

\* One entry comes to hold n bytes less and the counter falls by no more.
LEMMA CountShrinks ==
  ASSUME TypeOK, TypeOK', NeverUndercounted, NEW b \in BlobIds, NEW n \in Nat, NEW m \in 0..n,
         Reserved[b] = Reserved'[b] + n,
         \A p \in BlobIds \ {b} : Reserved'[p] = Reserved[p],
         quota_ # 0 => current_size_' = current_size_ - m
  PROVE  NeverUndercounted'
<1> DEFINE old == Reserved
           new == Reserved'
<1>1. /\ old \in [BlobIds -> Nat] /\ new \in [BlobIds -> Nat]
      /\ IsFiniteSet(Bytes(old))
      /\ old[b] = new[b] + n
      /\ \A p \in BlobIds \ {b} : new[p] = old[p]
  BY ReservedType, ReservedTypeNext DEF ReservedTypeOK
<1>2. Total(old) = Total(new) + n /\ Total(new) \in Nat
  <2> HIDE DEF old, new
  <2> QED BY <1>1, TotalShrink
<1>3. SUFFICES ASSUME quota_ # 0
               PROVE  Total(new) <= current_size_' /\ current_size_' <= quota_
  BY DEF NeverUndercounted
<1>4. Total(old) <= current_size_ /\ current_size_ <= quota_
  BY <1>3 DEF NeverUndercounted
<1>5. current_size_ \in Nat /\ m \in Nat /\ m <= n /\ current_size_' = current_size_ - m
  BY <1>3, StoreAssumption DEF TypeOK, SessionTypeOK
<1> HIDE DEF new, old
<1> QED BY <1>2, <1>4, <1>5, StoreAssumption

\* One entry comes to hold n bytes more, at most, and the counter rises by n,
\* below the quota.
LEMMA CountGrows ==
  ASSUME TypeOK, TypeOK', NeverUndercounted, NEW b \in BlobIds, NEW n \in Nat,
         Reserved'[b] = Reserved[b] + n,
         \A p \in BlobIds \ {b} : Reserved'[p] = Reserved[p],
         quota_ # 0 => current_size_' = current_size_ + n /\ current_size_' <= quota_
  PROVE  NeverUndercounted'
<1> DEFINE old == Reserved
           new == Reserved'
<1>1. /\ old \in [BlobIds -> Nat] /\ new \in [BlobIds -> Nat]
      /\ IsFiniteSet(Bytes(old))
      /\ new[b] = old[b] + n
      /\ \A p \in BlobIds \ {b} : new[p] = old[p]
  BY ReservedType, ReservedTypeNext DEF ReservedTypeOK
<1>2. Total(new) = Total(old) + n /\ Total(old) \in Nat
  <2> HIDE DEF old, new
  <2> QED BY <1>1, TotalGrow, TotalAtLeast
<1>3. SUFFICES ASSUME quota_ # 0
               PROVE  Total(new) <= current_size_' /\ current_size_' <= quota_
  BY DEF NeverUndercounted
<1>4. Total(old) <= current_size_ /\ current_size_' = current_size_ + n /\ current_size_' <= quota_
  BY <1>3 DEF NeverUndercounted
<1>5. current_size_ \in Nat
  BY StoreAssumption DEF TypeOK, SessionTypeOK
<1> HIDE DEF new, old
<1> QED BY <1>2, <1>4, <1>5

\* The size of one entry is reset.
LEMMA CountEntry ==
  ASSUME TypeOK, TypeOK', NeverUndercounted, NEW s, NEW path, AddEntry(s, path),
         blob_id_ < MaxBlobs, UNCHANGED <<deleting, current_size_>>
  PROVE  NeverUndercounted'
<1>1. blob_id_' \in BlobIds /\ entry_size' = [entry_size EXCEPT ![blob_id_'] = 0]
  BY BlobsAssumption DEF AddEntry, TypeOK, SessionTypeOK, BlobIds, Emplace
<1> DEFINE b == blob_id_'
<1>2. entry_size'[b] = 0 /\ \A p \in BlobIds \ {b} : entry_size'[p] = entry_size[p]
  BY <1>1 DEF TypeOK, SessionTypeOK
<1>3. Reserved'[b] = 0 /\ \A p \in BlobIds \ {b} : Reserved'[p] = Reserved[p]
  BY <1>1, <1>2 DEF Reserved
<1>4. Reserved[b] \in Nat /\ Reserved[b] = Reserved'[b] + Reserved[b]
  BY <1>1, <1>3, ReservedType DEF ReservedTypeOK
<1>5. current_size_ \in Nat /\ 0 \in 0..Reserved[b]
  BY <1>4, StoreAssumption DEF TypeOK, SessionTypeOK
<1>6. current_size_' = current_size_ - 0
  BY <1>5
<1> HIDE DEF b
<1> QED BY <1>1, <1>3, <1>4, <1>5, <1>6, CountShrinks DEF b

\* With a quota, the size of an entry grows without wrapping too.
LEMMA EntryExact ==
  ASSUME StructInv, NeverUndercounted, quota_ # 0, NEW s \in Sessions, NEW b \in BlobIds,
         b \in blobs_[s], CanLock(s), NEW n \in 0..MaxChunk
  PROVE  Plus(entry_size[b], n) = entry_size[b] + n
<1>1. Reserved[b] = entry_size[b]
  BY NotDeleting
<1>2. Reserved \in [BlobIds -> Nat] /\ Reserved[b] <= Total(Reserved) /\ Total(Reserved) \in Nat
  BY ReservedType, TotalAtLeast DEF ReservedTypeOK, StructInv
<1>3. Total(Reserved) <= current_size_ /\ current_size_ <= quota_ /\ current_size_ \in Nat
  BY StoreAssumption DEF NeverUndercounted, StructInv, TypeOK, SessionTypeOK
<1>4. entry_size[b] \in Nat
  BY <1>1, <1>2
<1>5. entry_size[b] <= quota_
  BY <1>1, <1>2, <1>3, <1>4, StoreAssumption
<1> QED BY <1>4, <1>5, StoreAssumption DEF Plus

\* reserve_session_store on an entry that exists.
LEMMA CountReserved ==
  ASSUME StructInv, TypeOK', NeverUndercounted, NEW s \in Sessions, NEW b \in BlobIds,
         b \in blobs_[s], CanLock(s), NEW n \in 0..MaxChunk, CanReserve(n), CountUp(n),
         entry_size' = [entry_size EXCEPT ![b] = Plus(@, n)], UNCHANGED deleting
  PROVE  NeverUndercounted'
<1>1. SUFFICES ASSUME quota_ # 0 PROVE NeverUndercounted'
  BY DEF NeverUndercounted
<1>2. current_size_' = current_size_ + n /\ current_size_' <= quota_
  BY <1>1, ReserveExact DEF StructInv
<1>3. Reserved[b] = entry_size[b] /\ ~(\E t \in Threads : deleting[t] = b)
  BY BeingDeleted, NotDeleting
<1>4. Plus(entry_size[b], n) = entry_size[b] + n
  BY <1>1, EntryExact
<1>5. entry_size \in [BlobIds -> 0..Word - 1]
  BY DEF StructInv, TypeOK, SessionTypeOK
<1>6. entry_size'[b] = entry_size[b] + n /\ \A p \in BlobIds \ {b} : entry_size'[p] = entry_size[p]
  BY <1>4, <1>5
<1>7. /\ Reserved'[b] = Reserved[b] + n
      /\ \A p \in BlobIds \ {b} : Reserved'[p] = Reserved[p]
  BY <1>3, <1>6 DEF Reserved
<1>8. n \in Nat
  BY StoreAssumption
<1> QED BY <1>2, <1>7, <1>8, CountGrows DEF StructInv

\* A reservation whose entry is gone: the bytes stay counted.
LEMMA CountLost ==
  ASSUME StructInv, TypeOK', NeverUndercounted, NEW n \in 0..MaxChunk, CanReserve(n), CountUp(n),
         UNCHANGED <<entry_size, deleting>>
  PROVE  NeverUndercounted'
<1>1. SUFFICES ASSUME quota_ # 0
               PROVE  Total(Reserved) <= current_size_' /\ current_size_' <= quota_
  <2>1. Reserved' = Reserved
    BY DEF Reserved
  <2> QED BY <1>1, <2>1 DEF NeverUndercounted
<1>2. current_size_' = current_size_ + n /\ current_size_' <= quota_
  BY <1>1, ReserveExact DEF StructInv
<1>3. /\ current_size_ \in Nat /\ n \in Nat
      /\ Total(Reserved) <= current_size_
  BY <1>1, StoreAssumption DEF NeverUndercounted, StructInv, TypeOK, SessionTypeOK
<1>4. Total(Reserved) \in Nat
  BY ReservedType, FS_CardinalityType DEF ReservedTypeOK, StructInv, Total
<1> QED BY <1>2, <1>3, <1>4

\* delete_blob_file gives the bytes back: they are no longer reserved.
LEMMA CountGivenBack ==
  ASSUME StructInv, TypeOK', NeverUndercounted, NEW t \in Threads, deleting[t] = NoBlob,
         NEW s \in Sessions, NEW b \in BlobIds, GiveBack(t, s, b), UNCHANGED entry_size
  PROVE  NeverUndercounted'
<1>1. b \in blobs_[s] /\ CanLock(s)
  BY DEF GiveBack, Lock
<1>2. Reserved[b] = entry_size[b]
  BY <1>1, NotDeleting
<1>3. /\ deleting'[t] = b
      /\ \A u \in Threads \ {t} : deleting'[u] = deleting[u]
  BY DEF GiveBack, StructInv, TypeOK, SessionTypeOK, Lock
<1>4. \A p \in BlobIds : p # NoBlob
  BY DEF BlobIds, NoBlob
<1>5. Reserved'[b] = 0 /\ \A p \in BlobIds \ {b} : Reserved'[p] = Reserved[p]
  BY <1>3, <1>4 DEF Reserved
<1>6. Reserved \in [BlobIds -> Nat] /\ Reserved[b] <= Total(Reserved) /\ Total(Reserved) \in Nat
  BY ReservedType, TotalAtLeast DEF ReservedTypeOK, StructInv
<1>7. Reserved[b] \in Nat /\ Reserved[b] = Reserved'[b] + Reserved[b] /\ Reserved[b] \in 0..Reserved[b]
  BY <1>5, <1>6
<1>8. quota_ # 0 => current_size_' = current_size_ - Reserved[b]
  <2>1. SUFFICES ASSUME quota_ # 0 PROVE current_size_' = current_size_ - Reserved[b]
    OBVIOUS
  <2>2. current_size_ \in Nat /\ Total(Reserved) <= current_size_
    BY <2>1, StoreAssumption DEF NeverUndercounted, StructInv, TypeOK, SessionTypeOK
  <2>3. Reserved[b] <= current_size_
    BY <1>6, <1>7, <2>2
  <2> QED BY <1>2, <2>1, <2>3 DEF GiveBack, CountDown, Minus, Lock
<1> QED BY <1>5, <1>7, <1>8, CountShrinks DEF StructInv

\* It unlinks the file and erases the entry, whose bytes are back already.
LEMMA CountErased ==
  ASSUME StructInv, NeverUndercounted, NEW t \in Threads, NEW s, UnlinkAndErase(t, s),
         UNCHANGED current_size_
  PROVE  NeverUndercounted'
<1>1. /\ deleting[t] \in BlobIds
      /\ deleting'[t] = NoBlob /\ \A u \in Threads \ {t} : deleting'[u] = deleting[u]
      /\ entry_size'[deleting[t]] = 0
      /\ \A p \in BlobIds \ {deleting[t]} : entry_size'[p] = entry_size[p]
  BY DEF UnlinkAndErase, Unlock, StructInv, TypeOK, SessionTypeOK, Unlink, EraseEntry
<1>2. \A p \in BlobIds : p # NoBlob
  BY DEF BlobIds, NoBlob
<1>3. \A p \in BlobIds : Reserved'[p] = Reserved[p]
  BY <1>1, <1>2 DEF Reserved
<1>4. Reserved' = Reserved
  BY <1>3 DEF Reserved
<1> QED BY <1>4 DEF NeverUndercounted

\* The counter, over every step but an unlink that fails.
LEMMA InitCount == Init => NeverUndercounted
<1> SUFFICES ASSUME Init PROVE NeverUndercounted
  OBVIOUS
<1>1. Reserved \in [BlobIds -> Nat] /\ \A b \in BlobIds : Reserved[b] = 0
  BY DEF Init, SessionInit, Reserved
<1>2. Total(Reserved) = 0
  BY <1>1, TotalZero
<1> QED BY <1>2, StoreAssumption DEF Init, SessionInit, NeverUndercounted

\* The counter, over the steps of a host thread.
LEMMA HostCount ==
  ASSUME StructInv, TypeOK', NeverUndercounted,
         NEW h \in Hosts, HostStep(h), ~HostUnlinkThrows(h)
  PROVE  NeverUndercounted'
<1>1. ASSUME NEW t, HostCreates(h, t) PROVE NeverUndercounted'
  BY <1>1, CountFrame DEF HostCreates, sessionVars, entryVars
<1>2. ASSUME NEW s, NEW f, HostAdds(h, s, f) PROVE NeverUndercounted'
  BY <1>2, CountFrame, CountEntry DEF HostAdds, StructInv
<1>3. ASSUME NEW s, NEW b, HostMovesFile(h, s, b) PROVE NeverUndercounted'
  BY <1>3, CountFrame DEF HostMovesFile, entryVars, Unlink
<1>4. ASSUME NEW s, NEW ids, HostRemoves(h, s, ids) PROVE NeverUndercounted'
  BY <1>4, CountFrame DEF HostRemoves, HostStarts, entryVars
<1>5. ASSUME NEW s, HostDisposes(h, s) PROVE NeverUndercounted'
  BY <1>5, CountFrame DEF HostDisposes, HostStarts, entryVars, Entries
<1>6. CASE HostGivesBack(h)
  <2>1. PICK b \in BlobIds : IsNext(h, b) /\ GiveBack(h, hostSession[h], b)
    BY <1>6 DEF HostGivesBack
  <2>2. hostSession[h] \in Sessions /\ h \in Threads /\ deleting[h] = NoBlob
    BY <1>6, <2>1 DEF HostGivesBack, IsNext, StructInv, PlaceInv, Threads
  <2>3. UNCHANGED entry_size
    BY <1>6 DEF HostGivesBack, entryVars
  <2> QED BY <2>1, <2>2, <2>3, CountGivenBack
<1>7. CASE HostSkips(h)
  BY <1>7, CountFrame DEF HostSkips, entryVars
<1>8. CASE HostUnlinks(h)
  BY <1>8, CountErased DEF HostUnlinks, Threads
<1>10. CASE HostRemoved(h)
  BY <1>10, CountFrame DEF HostRemoved, entryVars
<1>11. CASE HostErases(h)
  BY <1>11, CountFrame DEF HostErases, entryVars
<1> QED BY <1>1, <1>2, <1>3, <1>4, <1>5, <1>6, <1>7, <1>8, <1>10, <1>11
       DEF HostStep, HostContinues

\* The counter, over the steps of a handler that the client causes.
LEMMA ClientCount ==
  ASSUME StructInv, TypeOK', NeverUndercounted, NEW c \in Calls, ClientStep(c)
  PROVE  NeverUndercounted'
<1>1. CASE PutRejected(c)
  BY <1>1, CountFrame DEF PutRejected, sessionVars, entryVars
<1>2. ASSUME NEW s, PutNoSession(c, s) PROVE NeverUndercounted'
  BY <1>2, CountFrame DEF PutNoSession, sessionVars, entryVars
<1>3. ASSUME NEW s, NEW size, PutAccepted(c, s, size) PROVE NeverUndercounted'
  BY <1>3, CountFrame DEF PutAccepted, sessionVars, entryVars, PutStarts
<1>4. ASSUME NEW n \in Chunks, PutReserves(c, n) PROVE NeverUndercounted'
  <2>1. n \in 0..MaxChunk
    BY ChunksAssumption
  <2>2. putSession[c] \in Sessions /\ putBlob[c] \in BlobIds
    BY <1>4 DEF PutReserves, At, StructInv, PlaceInv, Credit
  <2>3. CASE UNCHANGED entry_size
    BY <1>4, <2>1, <2>3, CountLost DEF PutReserves, Credit
  <2>4. CASE /\ putBlob[c] \in blobs_[putSession[c]]
             /\ entry_size' = [entry_size EXCEPT ![putBlob[c]] = Plus(@, n)]
    BY <1>4, <2>1, <2>2, <2>4, CountReserved DEF PutReserves, Credit
  <2> QED BY <1>4, <2>3, <2>4 DEF PutReserves, Credit
<1>5. ASSUME NEW n, PutRefused(c, n) PROVE NeverUndercounted'
  BY <1>5, CountFrame DEF PutRefused, sessionVars, entryVars
<1>6. CASE PutNotChunk(c)
  BY <1>6, CountFrame DEF PutNotChunk, sessionVars, entryVars
<1>7. CASE PutEnds(c)
  BY <1>7, CountFrame DEF PutEnds, sessionVars, entryVars
<1>t. CASE PutTagThrows(c)
  BY <1>t, CountFrame DEF PutTagThrows, sessionVars, entryVars
<1>8. CASE PutMismatches(c)
  BY <1>8, CountFrame DEF PutMismatches, entryVars, Unlink
<1>9. CASE PutMismatchThrows(c)
  BY <1>9, CountFrame DEF PutMismatchThrows, sessionVars, entryVars
<1> QED BY <1>t, <1>1, <1>2, <1>3, <1>4, <1>5, <1>6, <1>7, <1>8, <1>9 DEF ClientStep

\* The counter, over the steps of a handler on its own.
LEMMA ServerCount ==
  ASSUME StructInv, TypeOK', NeverUndercounted,
         NEW c \in Calls, ServerStep(c), ~PutUnlinkThrows(c)
  PROVE  NeverUndercounted'
<1>1. CASE PutCreates(c)
  BY <1>1, CountEntry DEF PutCreates, StructInv
<1>2. CASE PutOpens(c)
  BY <1>2, CountFrame DEF PutOpens, entryVars
<1>3. CASE PutOpenFails(c)
  BY <1>3, CountFrame DEF PutOpenFails, sessionVars, entryVars
<1>4. CASE PutWrites(c)
  BY <1>4, CountFrame DEF PutWrites, entryVars
<1>5. CASE PutGivesBack(c)
  <2>1. /\ putSession[c] \in Sessions /\ putBlob[c] \in BlobIds
        /\ c \in Threads /\ deleting[c] = NoBlob
    BY <1>5 DEF PutGivesBack, At, StructInv, PlaceInv, Threads
  <2> QED BY <1>5, <2>1, CountGivenBack DEF PutGivesBack, entryVars
<1>6. CASE PutSkips(c)
  BY <1>6, CountFrame DEF PutSkips, sessionVars, entryVars
<1>7. CASE PutUnlinks(c)
  BY <1>7, CountErased DEF PutUnlinks, Threads
<1> QED BY <1>1, <1>2, <1>3, <1>4, <1>5, <1>6, <1>7 DEF ServerStep

\* An unlink fails, after the bytes were given back.
FailedUnlink == (\E h \in Hosts : HostUnlinkThrows(h)) \/ (\E c \in Calls : PutUnlinkThrows(c))

\* The counter, over every other step.
LEMMA CountStep ==
  ASSUME StructInv, NeverUndercounted, [Next]_vars, ~FailedUnlink
  PROVE  NeverUndercounted'
<1>1. TypeOK'
  BY NextType DEF StructInv
<1>2. CASE (Construct \/ ConstructFails) /\ UNCHANGED <<putVars, crashes>>
  BY <1>2, CountFrame DEF Construct, ConstructFails, entryVars, EmptyDirectory
<1>3. CASE Crash
  <2>1. /\ current_size_' = 0 /\ entry_size' = [b \in BlobIds |-> 0]
    BY <1>3 DEF Crash, Forget
  <2> DEFINE new == Reserved'
  <2>2. new \in [BlobIds -> Nat] /\ \A b \in BlobIds : new[b] = 0
    BY <2>1 DEF Reserved
  <2>3. Total(new) = 0
    <3> HIDE DEF new
    <3> QED BY <2>2, TotalZero
  <2> QED BY <2>1, <2>3, StoreAssumption DEF NeverUndercounted
<1>4. CASE UNCHANGED vars
  BY <1>4, CountFrame DEF vars, sessionVars, entryVars
<1> QED BY <1>1, <1>2, <1>3, <1>4, HostCount, ClientCount, ServerCount DEF Next, FailedUnlink

\* A file system that works knows no other steps.
LEMMA NextCount ==
  ASSUME ~FsFails
  PROVE  StructInv /\ NeverUndercounted /\ [Next]_vars => NeverUndercounted'
BY CountStep DEF FailedUnlink, HostUnlinkThrows, PutUnlinkThrows, UnlinkThrows

\* While the file system works, the bytes of the entries never exceed the
\* counter, nor the counter the quota: for every number of host threads,
\* handlers, sessions and chunks, with sessions disposed of under the handlers
\* and with crashes.
THEOREM CounterSafe ==
  ASSUME ~FsFails
  PROVE  Spec => []NeverUndercounted
<1>1. Init => StructInv /\ NeverUndercounted
  BY InitStruct, InitCount
<1>2. StructInv /\ NeverUndercounted /\ [Next]_vars => (StructInv /\ NeverUndercounted)'
  BY NextStruct, NextCount
<1> QED BY <1>1, <1>2, PTL DEF Spec

-----------------------------------------------------------------------------
(* The files of the store.                                                 *)

\* Only ids that were issued have a file; the entry of a blob that a handler
\* receives names the upload file of its id, and no other entry has one.
FileInv ==
    /\ CleanStart
    /\ \A s \in Sessions : \A b \in blobs_[s] :
          \/ entry_path[b] = UploadPath(b)
          \/ files[UploadPath(b)] = NoFile /\ \A c \in Calls : putBlob[c] # b

\* create_blob_file: one path per id.
LEMMA UploadPathOK ==
  /\ \A b \in BlobIds : UploadPath(b) \in Paths /\ UploadPath(b) \in UploadPaths
  /\ \A a \in BlobIds, b \in BlobIds : UploadPath(a) = UploadPath(b) => a = b
BY DEF UploadPath, UploadPaths, Paths

\* Files are only removed, and no entry is added.
LEMMA FileFrame ==
  ASSUME FileInv, UNCHANGED <<running, blob_id_, entry_path, putBlob>>,
         \A b \in BlobIds : files'[UploadPath(b)] \in {files[UploadPath(b)], NoFile},
         blobs_ \in [Sessions -> SUBSET BlobIds],
         \A s \in Sessions : blobs_'[s] \subseteq blobs_[s]
  PROVE  FileInv'
<1>1. CleanStart'
  BY DEF FileInv, CleanStart
<1>2. SUFFICES ASSUME NEW s \in Sessions, NEW b \in blobs_'[s]
               PROVE  \/ entry_path[b] = UploadPath(b)
                      \/ files'[UploadPath(b)] = NoFile /\ \A c \in Calls : putBlob[c] # b
  BY <1>1 DEF FileInv
<1>3. b \in blobs_[s] /\ b \in BlobIds
  BY <1>2
<1> QED BY <1>3 DEF FileInv

\* An entry is added for a blob of the host, or for the handler that gets its id.
LEMMA FileEntry ==
  ASSUME StructInv, FileInv, running, UNCHANGED <<running, files>>,
         NEW s \in Sessions, NEW path, AddEntry(s, path), blob_id_ < MaxBlobs,
         \/ UNCHANGED putBlob
         \/ /\ path = UploadPath(blob_id_')
            /\ \A c \in Calls : putBlob'[c] \in {putBlob[c], blob_id_'}
  PROVE  FileInv'
<1>1. /\ blob_id_ \in Nat /\ blob_id_' = blob_id_ + 1 /\ blob_id_' \in BlobIds
      /\ BlobIds \subseteq Nat
  BY BlobsAssumption DEF AddEntry, StructInv, TypeOK, SessionTypeOK, BlobIds, Emplace
<1>2. files[UploadPath(blob_id_')] = NoFile
  BY <1>1 DEF FileInv, CleanStart
<1>3. CleanStart'
  <2>1. \A b \in BlobIds : b <= blob_id_ => b <= blob_id_'
    BY <1>1
  <2> QED BY <2>1 DEF FileInv, CleanStart
<1>4. /\ entry_path'[blob_id_'] = path
      /\ \A b \in BlobIds \ {blob_id_'} : entry_path'[b] = entry_path[b]
      /\ \A r \in Sessions : blobs_'[r] \subseteq blobs_[r] \cup {blob_id_'}
      /\ blobs_ \in [Sessions -> SUBSET BlobIds]
  BY <1>1 DEF AddEntry, StructInv, TypeOK, SessionTypeOK, Emplace
<1>5. \A c \in Calls : putBlob[c] # blob_id_'
  BY <1>1 DEF StructInv, IdInv, TypeOK, NoBlob
<1>6. SUFFICES ASSUME NEW r \in Sessions, NEW b \in blobs_'[r]
               PROVE  \/ entry_path'[b] = UploadPath(b)
                      \/ files[UploadPath(b)] = NoFile /\ \A c \in Calls : putBlob'[c] # b
  BY <1>3 DEF FileInv
<1>7. CASE b = blob_id_'
  <2>1. CASE UNCHANGED putBlob
    BY <1>2, <1>5, <1>7, <2>1
  <2>2. CASE path = UploadPath(blob_id_')
    BY <1>4, <1>7, <2>2
  <2> QED BY <2>1, <2>2
<1>8. CASE b # blob_id_'
  <2>1. b \in blobs_[r] /\ b \in BlobIds /\ entry_path'[b] = entry_path[b]
    BY <1>4, <1>6, <1>8
  <2>2. \A c \in Calls : putBlob[c] # b => putBlob'[c] # b
    BY <1>8
  <2> QED BY <2>1, <2>2 DEF FileInv
<1> QED BY <1>7, <1>8

\* A handler opens, or writes, the file of its own blob.
LEMMA FileWritten ==
  ASSUME StructInv, FileInv, NEW c \in Calls, putBlob[c] \in BlobIds,
         UNCHANGED <<running, blob_id_, entry_path, blobs_, putBlob>>,
         \A b \in BlobIds \ {putBlob[c]} : files'[UploadPath(b)] = files[UploadPath(b)]
  PROVE  FileInv'
<1>1. putBlob[c] <= blob_id_ /\ blobs_ \in [Sessions -> SUBSET BlobIds]
  BY DEF StructInv, IdInv, TypeOK, SessionTypeOK
<1>2. CleanStart'
  BY <1>1 DEF FileInv, CleanStart
<1>3. SUFFICES ASSUME NEW s \in Sessions, NEW b \in blobs_[s]
               PROVE  \/ entry_path[b] = UploadPath(b)
                      \/ files'[UploadPath(b)] = NoFile /\ \A d \in Calls : putBlob[d] # b
  BY <1>2 DEF FileInv
<1>4. b \in BlobIds
  BY <1>1
<1> QED BY <1>4 DEF FileInv

\* What unlinking does to the files of the store.
LEMMA Unlinked ==
  ASSUME TypeOK, NEW p, files' = [files EXCEPT ![p] = NoFile]
  PROVE  \A b \in BlobIds : files'[UploadPath(b)] \in {files[UploadPath(b)], NoFile}
<1>1. SUFFICES ASSUME NEW b \in BlobIds
               PROVE  files'[UploadPath(b)] \in {files[UploadPath(b)], NoFile}
  OBVIOUS
<1>2. UploadPath(b) \in Paths
  BY UploadPathOK
<1> QED BY <1>2 DEF TypeOK, SessionTypeOK

\* Files of the store have ids that were issued: the steps of a host thread.
LEMMA HostFile ==
  ASSUME StructInv, FileInv, NEW h \in Hosts, HostStep(h), UNCHANGED putVars
  PROVE  FileInv'
<1>0. UNCHANGED putBlob /\ blobs_ \in [Sessions -> SUBSET BlobIds]
  BY DEF putVars, StructInv, TypeOK, SessionTypeOK
<1>f. ASSUME UNCHANGED <<running, entryVars, files>> PROVE FileInv'
  BY <1>0, <1>f, FileFrame DEF entryVars
<1>1. ASSUME NEW t, HostCreates(h, t) PROVE FileInv'
  BY <1>1, <1>f DEF HostCreates, sessionVars
<1>2. ASSUME NEW s \in Sessions, NEW f \in HostFiles, HostAdds(h, s, f) PROVE FileInv'
  <2>1. CASE AddEntry(s, HostPath(f))
    BY <1>0, <1>2, <2>1, FileEntry DEF HostAdds, MayUse
  <2>2. CASE blob_id_' = blob_id_ + 1 /\ UNCHANGED <<blobs_, entry_path, entry_size>>
    <3>1. \A b \in BlobIds : b <= blob_id_ => b <= blob_id_'
      BY <2>2 DEF StructInv, TypeOK, SessionTypeOK, BlobIds
    <3>2. UNCHANGED <<running, files>>
      BY <1>2 DEF HostAdds
    <3> QED BY <1>0, <2>2, <3>1, <3>2 DEF FileInv, CleanStart
  <2> QED BY <1>2, <2>1, <2>2 DEF HostAdds
<1>3. ASSUME NEW s, NEW b, HostMovesFile(h, s, b) PROVE FileInv'
  <2>1. \A a \in BlobIds : files'[UploadPath(a)] \in {files[UploadPath(a)], NoFile}
    BY <1>3, Unlinked DEF HostMovesFile, StructInv, Unlink
  <2> QED BY <1>0, <1>3, <2>1, FileFrame DEF HostMovesFile, entryVars, Unlink
<1>4. ASSUME NEW s, NEW ids, HostRemoves(h, s, ids) PROVE FileInv'
  BY <1>4, <1>f DEF HostRemoves, HostStarts
<1>5. ASSUME NEW s, HostDisposes(h, s) PROVE FileInv'
  BY <1>5, <1>f DEF HostDisposes, HostStarts, Entries
<1>6. CASE HostGivesBack(h)
  BY <1>6, <1>f DEF HostGivesBack
<1>7. CASE HostSkips(h)
  BY <1>7, <1>f DEF HostSkips
<1>8. CASE HostUnlinks(h)
  <2>1. \A a \in BlobIds : files'[UploadPath(a)] \in {files[UploadPath(a)], NoFile}
    BY <1>8, Unlinked DEF HostUnlinks, UnlinkAndErase, StructInv, Unlink, EraseEntry
  <2>2. \A r \in Sessions : blobs_'[r] \subseteq blobs_[r]
    BY <1>0, <1>8 DEF HostUnlinks, UnlinkAndErase, Unlink, EraseEntry
  <2> QED BY <1>0, <1>8, <2>1, <2>2, FileFrame DEF HostUnlinks
<1>9. CASE HostUnlinkThrows(h)
  BY <1>9, <1>f DEF HostUnlinkThrows, UnlinkThrows, entryVars
<1>10. CASE HostRemoved(h)
  BY <1>10, <1>f DEF HostRemoved
<1>11. CASE HostErases(h)
  BY <1>11, <1>f DEF HostErases
<1> QED BY <1>1, <1>2, <1>3, <1>4, <1>5, <1>6, <1>7, <1>8, <1>9, <1>10, <1>11
       DEF HostStep, HostContinues

\* The same, over the steps of a handler.
LEMMA HandlerFile ==
  ASSUME StructInv, FileInv, NEW c \in Calls, ClientStep(c) \/ ServerStep(c)
  PROVE  FileInv'
<1>0. /\ blobs_ \in [Sessions -> SUBSET BlobIds]
      /\ putBlob \in [Calls -> BlobIds \cup {NoBlob}]
      /\ files \in [Paths -> Nat \cup {NoFile}]
  BY DEF StructInv, TypeOK, SessionTypeOK
<1>f. ASSUME UNCHANGED <<running, blob_id_, blobs_, entry_path, files, putBlob>> PROVE FileInv'
  BY <1>0, <1>f, FileFrame
<1>a. ASSUME NEW code, Answer(c, code), UNCHANGED sessionVars PROVE FileInv'
  BY <1>a, <1>f DEF Answer, sessionVars, entryVars
<1>1. CASE PutRejected(c)
  BY <1>1, <1>a DEF PutRejected
<1>2. ASSUME NEW s, PutNoSession(c, s) PROVE FileInv'
  BY <1>2, <1>a DEF PutNoSession
<1>3. ASSUME NEW s, NEW size, PutAccepted(c, s, size) PROVE FileInv'
  BY <1>3, <1>f DEF PutAccepted, sessionVars, entryVars, PutStarts
<1>4. ASSUME NEW n, PutReserves(c, n) PROVE FileInv'
  BY <1>4, <1>f DEF PutReserves, Answer, Credit
<1>5. ASSUME NEW n, PutRefused(c, n) PROVE FileInv'
  BY <1>5, <1>f DEF PutRefused, sessionVars, entryVars
<1>6. CASE PutNotChunk(c)
  BY <1>6, <1>a DEF PutNotChunk
<1>7. CASE PutEnds(c)
  BY <1>7, <1>a DEF PutEnds
<1>t. CASE PutTagThrows(c)
  BY <1>t, <1>a DEF PutTagThrows
<1>8. CASE PutMismatches(c)
  <2>1. \A a \in BlobIds : files'[UploadPath(a)] \in {files[UploadPath(a)], NoFile}
    BY <1>8, Unlinked DEF PutMismatches, StructInv, Unlink
  <2> QED BY <1>0, <1>8, <2>1, FileFrame DEF PutMismatches, Answer, entryVars, Unlink
<1>9. CASE PutMismatchThrows(c)
  BY <1>9, <1>a DEF PutMismatchThrows
<1>10. CASE PutCreates(c)
  <2>1. putSession[c] \in Sessions /\ running
    BY <1>10 DEF PutCreates, At, StructInv, PlaceInv
  <2>2. \A d \in Calls : putBlob'[d] \in {putBlob[d], blob_id_'}
    BY <1>0, <1>10 DEF PutCreates
  <2> QED BY <1>10, <2>1, <2>2, FileEntry DEF PutCreates
<1>11. CASE PutOpens(c)
  <2>1. putBlob[c] \in BlobIds
    BY <1>11 DEF PutOpens, At, StructInv, PlaceInv
  <2>2. files' = [files EXCEPT ![UploadPath(putBlob[c])] = 0]
    BY <1>11 DEF PutOpens
  <2>3. \A b \in BlobIds \ {putBlob[c]} : files'[UploadPath(b)] = files[UploadPath(b)]
    BY <1>0, <2>1, <2>2, UploadPathOK
  <2> QED BY <1>11, <2>1, <2>3, FileWritten DEF PutOpens, entryVars, locals
<1>12. CASE PutOpenFails(c)
  BY <1>12, <1>a DEF PutOpenFails
<1>13. CASE PutWrites(c)
  <2>1. putBlob[c] \in BlobIds
    BY <1>13 DEF PutWrites, At, StructInv, PlaceInv
  <2>2. PICK n \in Nat : PartWritten(c, n)
    BY <1>13, WriteReaches DEF StructInv
  <2>3. \A b \in BlobIds \ {putBlob[c]} : files'[UploadPath(b)] = files[UploadPath(b)]
    BY <1>0, <2>1, <2>2, UploadPathOK DEF PartWritten
  <2> QED BY <1>13, <2>1, <2>3, FileWritten DEF PutWrites, entryVars
<1>14. CASE PutGivesBack(c)
  BY <1>14, <1>f DEF PutGivesBack, entryVars, locals
<1>15. CASE PutSkips(c)
  BY <1>15, <1>a DEF PutSkips
<1>16. CASE PutUnlinks(c)
  <2>1. \A a \in BlobIds : files'[UploadPath(a)] \in {files[UploadPath(a)], NoFile}
    BY <1>16, Unlinked DEF PutUnlinks, UnlinkAndErase, StructInv, Unlink, EraseEntry
  <2>2. \A r \in Sessions : blobs_'[r] \subseteq blobs_[r]
    BY <1>0, <1>16 DEF PutUnlinks, UnlinkAndErase, Unlink, EraseEntry
  <2> QED BY <1>0, <1>16, <2>1, <2>2, FileFrame DEF PutUnlinks, Answer
<1>17. CASE PutUnlinkThrows(c)
  BY <1>17, <1>f DEF PutUnlinkThrows, UnlinkThrows, Answer, entryVars
<1> QED BY <1>t, <1>1, <1>2, <1>3, <1>4, <1>5, <1>6, <1>7, <1>8, <1>9, <1>10, <1>11, <1>12, <1>13,
           <1>14, <1>15, <1>16, <1>17 DEF ClientStep, ServerStep

\* Before a process is up nothing is claimed of the files.
LEMMA InitFile == Init => FileInv
BY DEF Init, SessionInit, FileInv, CleanStart

\* The invariant on files is inductive, crashes and restarts included.
LEMMA NextFile == StructInv /\ FileInv /\ [Next]_vars => FileInv'
<1> SUFFICES ASSUME StructInv, FileInv, [Next]_vars PROVE FileInv'
  OBVIOUS
<1>0. blobs_ \in [Sessions -> SUBSET BlobIds]
  BY DEF StructInv, TypeOK, SessionTypeOK
<1>1. CASE Construct /\ UNCHANGED <<putVars, crashes>>
  <2>1. \A b \in BlobIds : files'[UploadPath(b)] = NoFile
    BY <1>1, UploadPathOK DEF Construct, EmptyDirectory
  <2>2. UNCHANGED <<blobs_, entry_path, putBlob>>
    BY <1>1 DEF Construct, entryVars, putVars, EmptyDirectory
  <2> QED BY <1>0, <2>1, <2>2 DEF FileInv, CleanStart
<1>2. CASE ConstructFails /\ UNCHANGED <<putVars, crashes>>
  <2>1. \A b \in BlobIds : files'[UploadPath(b)] \in {files[UploadPath(b)], NoFile}
    BY <1>2, UploadPathOK DEF ConstructFails, EmptyDirectory
  <2>2. UNCHANGED <<running, entryVars, putBlob>>
    BY <1>2 DEF ConstructFails, putVars, EmptyDirectory
  <2> QED BY <1>0, <2>1, <2>2, FileFrame DEF entryVars
<1>3. CASE Crash
  BY <1>3 DEF Crash, Forget, FileInv, CleanStart
<1>4. CASE UNCHANGED vars
  <2>1. UNCHANGED <<running, entryVars, files, putBlob>>
    BY <1>4 DEF vars, sessionVars, putVars
  <2> QED BY <1>0, <2>1, FileFrame DEF entryVars
<1> QED BY <1>1, <1>2, <1>3, <1>4, HostFile, HandlerFile DEF Next

\* blob_session_store's constructor: a process that is up has no file of an
\* id it has not issued, whatever earlier processes left in the directory,
\* however they died, and even if the file system fails.
THEOREM RestartClean == Spec => []CleanStart
<1>1. Init => StructInv /\ FileInv
  BY InitStruct, InitFile
<1>2. StructInv /\ FileInv /\ [Next]_vars => (StructInv /\ FileInv)'
  BY NextStruct, NextFile
<1>3. StructInv /\ FileInv => CleanStart
  BY DEF FileInv
<1> QED BY <1>1, <1>2, <1>3, PTL DEF Spec

-----------------------------------------------------------------------------
(* The bytes on disk.                                                      *)

\* What a handler has had room reserved for: what it received, and the chunk that
\* it is about to write.
Received(c) == total_size[c] + IF putAt[c] = "write" THEN chunk[c] ELSE 0

\* An entry has no more than its upload, and an upload keeps to its bound.
SizeInv == \A c \in Calls :
    /\ Received(c) <= MaxUpload
    /\ putBlob[c] \in BlobIds => entry_size[putBlob[c]] <= Received(c)

\* Entries are reset at most, and the handlers have received what they had.
LEMMA SizeFrame ==
  ASSUME StructInv, SizeInv,
         \A b \in BlobIds : entry_size'[b] \in {entry_size[b], 0},
         \A c \in Calls :
            /\ Received(c)' = Received(c)
            /\ \/ putBlob'[c] = putBlob[c]
               \/ putBlob'[c] \in BlobIds => entry_size'[putBlob'[c]] = 0
  PROVE  SizeInv'
<1>1. SUFFICES ASSUME NEW c \in Calls
               PROVE  /\ Received(c)' <= MaxUpload
                      /\ putBlob'[c] \in BlobIds => entry_size'[putBlob'[c]] <= Received(c)'
  BY DEF SizeInv
<1>2. Received(c) \in Nat
  BY DEF Received, StructInv, TypeOK
<1>3. Received(c)' = Received(c) /\ Received(c) <= MaxUpload
  BY DEF SizeInv
<1>4. ASSUME putBlob'[c] \in BlobIds
      PROVE  entry_size'[putBlob'[c]] <= Received(c)
  <2>1. CASE putBlob'[c] = putBlob[c]
    <3>1. entry_size[putBlob[c]] <= Received(c)
      BY <1>4, <2>1 DEF SizeInv
    <3>2. entry_size'[putBlob[c]] \in {entry_size[putBlob[c]], 0}
      BY <1>4, <2>1
    <3> QED BY <1>2, <2>1, <3>1, <3>2
  <2>2. CASE entry_size'[putBlob'[c]] = 0
    BY <1>2, <2>2
  <2> QED BY <1>4, <2>1, <2>2
<1> QED BY <1>3, <1>4

\* What host threads and handlers do to entries without reserving.
LEMMA EntryReset ==
  ASSUME TypeOK
  PROVE  /\ \A s, b, path : Emplace(s, b, path) =>
              \A a \in BlobIds : entry_size'[a] \in {entry_size[a], 0}
         /\ \A t, s : UnlinkAndErase(t, s) =>
              \A a \in BlobIds : entry_size'[a] \in {entry_size[a], 0}
<1>1. entry_size \in [BlobIds -> 0..Word - 1]
  BY DEF TypeOK, SessionTypeOK
<1> QED BY <1>1 DEF Emplace, UnlinkAndErase, EraseEntry

\* The bounds of entries and uploads: the steps of a host thread.
LEMMA HostSize ==
  ASSUME StructInv, SizeInv, NEW h \in Hosts, HostStep(h), UNCHANGED putVars
  PROVE  SizeInv'
<1>1. \A c \in Calls : Received(c)' = Received(c) /\ putBlob'[c] = putBlob[c]
  BY DEF putVars, Received
<1>2. \A b \in BlobIds : entry_size'[b] \in {entry_size[b], 0}
  <2>1. ASSUME NEW s \in Sessions, NEW f \in HostFiles, HostAdds(h, s, f)
        PROVE  \A b \in BlobIds : entry_size'[b] \in {entry_size[b], 0}
    BY <2>1, EntryReset DEF HostAdds, AddEntry, StructInv
  <2>2. CASE HostUnlinks(h)
    BY <2>2, EntryReset DEF HostUnlinks, StructInv
  <2>3. CASE UNCHANGED entry_size
    BY <2>3
  <2> QED BY <2>1, <2>2, <2>3
       DEF HostStep, HostContinues, HostCreates, sessionVars, entryVars, HostMovesFile, HostRemoves,
           HostDisposes, HostStarts, HostGivesBack, HostSkips, HostUnlinkThrows, UnlinkThrows,
           HostRemoved, HostErases, Entries
<1> QED BY <1>1, <1>2, SizeFrame

\* The same, over the steps of a handler.
LEMMA HandlerSize ==
  ASSUME StructInv, SizeInv, NEW c \in Calls, ClientStep(c) \/ ServerStep(c)
  PROVE  SizeInv'
<1>0. /\ putAt \in [Calls -> Places]
      /\ putBlob \in [Calls -> BlobIds \cup {NoBlob}]
      /\ chunk \in [Calls -> Nat] /\ total_size \in [Calls -> Nat]
      /\ entry_size \in [BlobIds -> 0..Word - 1]
  BY DEF StructInv, TypeOK, SessionTypeOK
<1>k. ASSUME putAt[c] # "write", putAt'[c] # "write", UNCHANGED total_size,
             \A d \in Calls \ {c} : putAt'[d] = putAt[d] /\ chunk'[d] = chunk[d]
      PROVE  \A d \in Calls : Received(d)' = Received(d)
  BY <1>0, <1>k DEF Received
<1>a. ASSUME NEW code, Answer(c, code), putAt[c] # "write",
             \A b \in BlobIds : entry_size'[b] \in {entry_size[b], 0}
      PROVE  SizeInv'
  <2>1. /\ putAt'[c] # "write" /\ UNCHANGED <<total_size, putBlob>>
        /\ \A d \in Calls \ {c} : putAt'[d] = putAt[d] /\ chunk'[d] = chunk[d]
    BY <1>0, <1>a DEF Answer
  <2> QED BY <1>a, <1>k, <2>1, SizeFrame
<1>g. ASSUME NEW place, GoTo(c, place), place # "write", putAt[c] # "write", UNCHANGED total_size,
             \A d \in Calls \ {c} : chunk'[d] = chunk[d]
      PROVE  \A d \in Calls : Received(d)' = Received(d)
  BY <1>0, <1>g, <1>k DEF GoTo
<1>1. CASE PutRejected(c) \/ PutNotChunk(c) \/ PutEnds(c) \/ PutTagThrows(c) \/ PutMismatches(c)
           \/ PutMismatchThrows(c) \/ PutOpenFails(c) \/ PutSkips(c)
  BY <1>1, <1>a DEF PutRejected, PutNotChunk, PutEnds, PutTagThrows, PutMismatches,
     PutMismatchThrows, PutOpenFails, PutSkips, At, sessionVars, entryVars
<1>2. ASSUME NEW s, PutNoSession(c, s) PROVE SizeInv'
  BY <1>2, <1>a DEF PutNoSession, At, sessionVars, entryVars
<1>3. CASE PutUnlinks(c)
  <2>1. Answer(c, "RESOURCE_EXHAUSTED") /\ putAt[c] # "write" /\ UnlinkAndErase(c, putSession[c])
    BY <1>3 DEF PutUnlinks, At
  <2> QED BY <1>a, <2>1, EntryReset DEF StructInv
<1>4. CASE PutUnlinkThrows(c)
  BY <1>4, <1>a DEF PutUnlinkThrows, UnlinkThrows, At
<1>5. ASSUME NEW s, NEW size, PutAccepted(c, s, size) PROVE SizeInv'
  <2>1. GoTo(c, "create") /\ putAt[c] # "write" /\ UNCHANGED <<total_size, chunk, putBlob, entry_size>>
    BY <1>5 DEF PutAccepted, PutStarts, At, sessionVars, entryVars
  <2> QED BY <1>g, <2>1, SizeFrame
<1>6. ASSUME NEW n \in Chunks, total_size[c] + n <= MaxUpload, PutReserves(c, n) PROVE SizeInv'
  <2>1. putAt[c] = "read" /\ putBlob[c] \in BlobIds
    BY <1>6 DEF PutReserves, At, StructInv, PlaceInv
  <2>2. CASE Answer(c, "NOT_FOUND") /\ UNCHANGED entry_size
    BY <1>a, <2>1, <2>2
  <2>3. CASE /\ Credit(putBlob[c], n)
             /\ chunk' = [chunk EXCEPT ![c] = n]
             /\ GoTo(c, "write")
             /\ UNCHANGED <<putSession, putBlob, declared, total_size, writable>>
    <3>1. n \in Nat
      BY ChunksAssumption, StoreAssumption
    <3>2. /\ Received(c) = total_size[c] /\ Received(c)' = total_size[c] + n
          /\ total_size[c] \in Nat /\ entry_size[putBlob[c]] \in Nat
      BY <1>0, <2>1, <2>3, <3>1, StoreAssumption DEF Received, GoTo
    <3>3. entry_size'[putBlob[c]] <= entry_size[putBlob[c]] + n
      BY <1>0, <2>1, <2>3, <3>1, <3>2, StoreAssumption DEF Credit, Plus
    <3>4. entry_size[putBlob[c]] <= Received(c)
      BY <2>1 DEF SizeInv
    <3>5. entry_size'[putBlob[c]] \in Int
      BY <1>0, <2>1, <2>3, <3>1, <3>2, StoreAssumption DEF Credit, Plus
    <3>6. Received(c)' <= MaxUpload /\ entry_size'[putBlob[c]] <= Received(c)'
      BY <1>6, <3>1, <3>2, <3>3, <3>4, <3>5
    <3>7. ASSUME NEW d \in Calls \ {c}
          PROVE  /\ Received(d)' <= MaxUpload
                 /\ putBlob[d] \in BlobIds => entry_size'[putBlob[d]] <= Received(d)'
      <4>1. Received(d)' = Received(d)
        BY <1>0, <2>3, <3>7 DEF Received, GoTo
      <4>2. putBlob[d] # putBlob[c]
        BY <2>1, <3>7 DEF StructInv, IdInv, EntryOnce, BlobIds, NoBlob
      <4>3. putBlob[d] \in BlobIds => entry_size'[putBlob[d]] = entry_size[putBlob[d]]
        BY <1>0, <2>1, <2>3, <4>2 DEF Credit
      <4> QED BY <3>7, <4>1, <4>3 DEF SizeInv
    <3> QED BY <2>3, <3>6, <3>7 DEF SizeInv
  <2> QED BY <1>6, <2>2, <2>3 DEF PutReserves
<1>7. ASSUME NEW n, PutRefused(c, n) PROVE SizeInv'
  <2>1. /\ GoTo(c, "discard") /\ putAt[c] # "write" /\ UNCHANGED <<total_size, putBlob, entry_size>>
        /\ \A d \in Calls \ {c} : chunk'[d] = chunk[d]
    BY <1>0, <1>7 DEF PutRefused, At, sessionVars, entryVars
  <2> QED BY <1>g, <2>1, SizeFrame
<1>8. CASE PutCreates(c)
  <2>1. /\ GoTo(c, "open") /\ putAt[c] # "write" /\ UNCHANGED <<total_size, chunk>>
        /\ Emplace(putSession[c], blob_id_ + 1, UploadPath(blob_id_'))
        /\ putBlob' = [putBlob EXCEPT ![c] = blob_id_ + 1]
    BY <1>8 DEF PutCreates, At, AddEntry
  <2>2. \A b \in BlobIds : entry_size'[b] \in {entry_size[b], 0}
    BY <2>1, EntryReset DEF StructInv
  <2>3. \A d \in Calls : \/ putBlob'[d] = putBlob[d]
                         \/ putBlob'[d] \in BlobIds => entry_size'[putBlob'[d]] = 0
    BY <1>0, <2>1 DEF Emplace
  <2>4. \A d \in Calls : Received(d)' = Received(d)
    BY <1>g, <2>1
  <2> QED BY <2>2, <2>3, <2>4, SizeFrame
<1>9. CASE PutOpens(c)
  <2>1. GoTo(c, "read") /\ putAt[c] # "write" /\ UNCHANGED <<total_size, chunk, putBlob, entry_size>>
    BY <1>9 DEF PutOpens, At, locals, entryVars
  <2> QED BY <1>g, <2>1, SizeFrame
<1>10. CASE PutGivesBack(c)
  <2>1. GoTo(c, "unlink") /\ putAt[c] # "write" /\ UNCHANGED <<total_size, chunk, putBlob, entry_size>>
    BY <1>10 DEF PutGivesBack, At, locals, entryVars
  <2> QED BY <1>g, <2>1, SizeFrame
<1>11. CASE PutWrites(c)
  <2>1. /\ GoTo(c, "read") /\ putAt[c] = "write" /\ UNCHANGED <<putBlob, entry_size>>
        /\ total_size' = [total_size EXCEPT ![c] = @ + chunk[c]]
        /\ chunk' = [chunk EXCEPT ![c] = 0]
    BY <1>11 DEF PutWrites, At, entryVars
  <2>2. \A d \in Calls : Received(d)' = Received(d)
    BY <1>0, <2>1 DEF Received, GoTo
  <2> QED BY <2>1, <2>2, SizeFrame
<1> QED BY <1>1, <1>2, <1>3, <1>4, <1>5, <1>6, <1>7, <1>8, <1>9, <1>10, <1>11
       DEF ClientStep, ServerStep

\* No handler has received anything initially.
LEMMA InitSize == Init => SizeInv
BY PutBoundsAssumption DEF Init, SessionInit, PutInit, SizeInv, Received, BlobIds, NoBlob

\* The bounds are kept by every step, failures and crashes included.
LEMMA NextSize == StructInv /\ SizeInv /\ [Next]_vars => SizeInv'
<1> SUFFICES ASSUME StructInv, SizeInv, [Next]_vars PROVE SizeInv'
  OBVIOUS
<1>1. CASE (Construct \/ ConstructFails) /\ UNCHANGED <<putVars, crashes>>
  <2>1. UNCHANGED <<entry_size, putVars>>
    BY <1>1 DEF Construct, ConstructFails, entryVars
  <2> QED BY <2>1, SizeFrame DEF putVars, Received
<1>2. CASE Crash
  BY <1>2, PutBoundsAssumption DEF Crash, Forget, SizeInv, Received, BlobIds, NoBlob
<1>3. CASE UNCHANGED vars
  BY <1>3, SizeFrame DEF vars, sessionVars, entryVars, putVars, Received
<1> QED BY <1>1, <1>2, <1>3, HostSize, HandlerSize DEF Next

-----------------------------------------------------------------------------
\* The size of an entry does not wrap: the quota bounds it as long as the counter
\* is not short, or no client sends so much.
SizesFit == (quota_ # 0 /\ ~FsFails) \/ MaxUpload < Word

\* While sizes fit: a file is no longer than the size in its entry, and a chunk
\* that is reserved and not yet written has room there as well.
CoverInv == SizesFit =>
    /\ BytesCovered
    /\ \A c \in Calls : putAt[c] = "write" /\ files[UploadPath(putBlob[c])] # NoFile =>
          files[UploadPath(putBlob[c])] + chunk[c] <= entry_size[putBlob[c]]

\* Files are only removed, sizes stay, and no handler gets a chunk to write.
LEMMA CoverFrame ==
  ASSUME StructInv, CoverInv, UNCHANGED <<running, entry_size>>,
         \A b \in BlobIds : files'[UploadPath(b)] \in {files[UploadPath(b)], NoFile},
         \A c \in Calls : putAt'[c] = "write" =>
            /\ putAt[c] = "write"
            /\ putBlob'[c] = putBlob[c]
            /\ chunk'[c] = chunk[c]
  PROVE  CoverInv'
<1>1. SUFFICES ASSUME SizesFit
               PROVE  BytesCovered' /\ \A c \in Calls :
                        putAt'[c] = "write" /\ files'[UploadPath(putBlob'[c])] # NoFile =>
                          files'[UploadPath(putBlob'[c])] + chunk'[c] <= entry_size[putBlob'[c]]
  BY DEF CoverInv
<1>2. BytesCovered'
  BY <1>1 DEF CoverInv, BytesCovered
<1>3. \A c \in Calls : putAt[c] = "write" => putBlob[c] \in BlobIds
  BY DEF StructInv, PlaceInv
<1>4. ASSUME NEW c \in Calls, putAt'[c] = "write", files'[UploadPath(putBlob'[c])] # NoFile
      PROVE  files'[UploadPath(putBlob'[c])] + chunk'[c] <= entry_size[putBlob'[c]]
  <2>1. /\ putAt[c] = "write" /\ putBlob'[c] = putBlob[c] /\ chunk'[c] = chunk[c]
        /\ putBlob[c] \in BlobIds
    BY <1>3, <1>4
  <2>2. files'[UploadPath(putBlob[c])] = files[UploadPath(putBlob[c])]
    BY <1>4, <2>1
  <2> QED BY <1>1, <1>4, <2>1, <2>2 DEF CoverInv
<1> QED BY <1>2, <1>4

\* One blob changes, which no handler but c receives.
LEMMA CoverOne ==
  ASSUME StructInv, CoverInv, UNCHANGED running, NEW o \in BlobIds,
         \A b \in BlobIds \ {o} : /\ files'[UploadPath(b)] = files[UploadPath(b)]
                                  /\ entry_size'[b] = entry_size[b],
         files'[UploadPath(o)] # NoFile /\ SizesFit =>
           files'[UploadPath(o)] <= entry_size'[o],
         \A c \in Calls : putAt'[c] = "write" =>
            \/ /\ putAt[c] = "write"
               /\ putBlob'[c] = putBlob[c] /\ putBlob[c] # o
               /\ chunk'[c] = chunk[c]
            \/ /\ putBlob'[c] = o
               /\ files'[UploadPath(o)] # NoFile /\ SizesFit =>
                     files'[UploadPath(o)] + chunk'[c] <= entry_size'[o]
  PROVE  CoverInv'
<1>1. SUFFICES ASSUME SizesFit
               PROVE  BytesCovered' /\ \A c \in Calls :
                        putAt'[c] = "write" /\ files'[UploadPath(putBlob'[c])] # NoFile =>
                          files'[UploadPath(putBlob'[c])] + chunk'[c] <= entry_size'[putBlob'[c]]
  BY DEF CoverInv
<1>2. BytesCovered'
  <2>1. SUFFICES ASSUME running, NEW b \in BlobIds, files'[UploadPath(b)] # NoFile
                 PROVE  files'[UploadPath(b)] <= entry_size'[b]
    BY DEF BytesCovered
  <2>2. CASE b = o
    BY <1>1, <2>1, <2>2
  <2>3. CASE b # o
    BY <1>1, <2>1, <2>3 DEF CoverInv, BytesCovered
  <2> QED BY <2>2, <2>3
<1>3. \A c \in Calls : putAt[c] = "write" => putBlob[c] \in BlobIds
  BY DEF StructInv, PlaceInv
<1>4. ASSUME NEW c \in Calls, putAt'[c] = "write", files'[UploadPath(putBlob'[c])] # NoFile
      PROVE  files'[UploadPath(putBlob'[c])] + chunk'[c] <= entry_size'[putBlob'[c]]
  <2>1. CASE /\ putAt[c] = "write"
             /\ putBlob'[c] = putBlob[c] /\ putBlob[c] # o
             /\ chunk'[c] = chunk[c]
    <3>1. putBlob[c] \in BlobIds \ {o}
      BY <1>3, <2>1
    <3>2. /\ files'[UploadPath(putBlob[c])] = files[UploadPath(putBlob[c])]
          /\ entry_size'[putBlob[c]] = entry_size[putBlob[c]]
      BY <3>1
    <3> QED BY <1>1, <1>4, <2>1, <3>2 DEF CoverInv
  <2>2. CASE /\ putBlob'[c] = o
             /\ files'[UploadPath(o)] # NoFile /\ SizesFit =>
                   files'[UploadPath(o)] + chunk'[c] <= entry_size'[o]
    BY <1>1, <1>4, <2>2
  <2> QED BY <1>4, <2>1, <2>2
<1> QED BY <1>2, <1>4

\* A new entry of size 0: its id has no file yet.
LEMMA CoverEntry ==
  ASSUME StructInv, FileInv, CoverInv, running, UNCHANGED <<running, files>>,
         NEW s, NEW path, AddEntry(s, path), blob_id_ < MaxBlobs,
         \A c \in Calls : putAt'[c] = "write" =>
            /\ putAt[c] = "write"
            /\ putBlob'[c] = putBlob[c]
            /\ chunk'[c] = chunk[c]
  PROVE  CoverInv'
<1>1. blob_id_' \in BlobIds /\ blob_id_ \in Nat /\ blob_id_' = blob_id_ + 1
  BY BlobsAssumption DEF AddEntry, StructInv, TypeOK, SessionTypeOK, BlobIds, Emplace
<1>2. files[UploadPath(blob_id_')] = NoFile
  BY <1>1 DEF FileInv, CleanStart, BlobIds
<1>3. \A b \in BlobIds \ {blob_id_'} : entry_size'[b] = entry_size[b]
  BY DEF AddEntry, StructInv, TypeOK, SessionTypeOK, Emplace
<1>4. \A c \in Calls : putBlob[c] # blob_id_'
  BY <1>1 DEF StructInv, IdInv, TypeOK, BlobIds, NoBlob
<1> QED BY <1>1, <1>2, <1>3, <1>4, CoverOne

\* The end of delete_blob_file: the file of the blob is gone with its entry.
LEMMA CoverErased ==
  ASSUME StructInv, FileInv, CoverInv, UNCHANGED running,
         NEW t \in Threads, UnlinkAndErase(t, ThreadSession(t)),
         \A c \in Calls : putAt'[c] = "write" =>
            /\ putAt[c] = "write"
            /\ putBlob'[c] = putBlob[c]
            /\ chunk'[c] = chunk[c]
  PROVE  CoverInv'
<1> DEFINE o == deleting[t]
<1>1. o \in BlobIds /\ o \in blobs_[ThreadSession(t)] /\ ThreadSession(t) \in Sessions
  BY DeletingSession DEF UnlinkAndErase, StructInv, TypeOK, SessionTypeOK, LockInv, Unlink,
     EraseEntry
<1>2. files \in [Paths -> Nat \cup {NoFile}] /\ files' = [files EXCEPT ![entry_path[o]] = NoFile]
  BY DEF UnlinkAndErase, StructInv, TypeOK, SessionTypeOK, Unlink, EraseEntry
<1>3. entry_size'[o] = 0 /\ \A b \in BlobIds \ {o} : entry_size'[b] = entry_size[b]
  BY <1>1 DEF UnlinkAndErase, StructInv, TypeOK, SessionTypeOK, Unlink, EraseEntry
<1>4. \A b \in BlobIds : files'[UploadPath(b)] \in {files[UploadPath(b)], NoFile}
  BY <1>2, Unlinked DEF StructInv
<1>5. files'[UploadPath(o)] = NoFile
  <2>1. CASE entry_path[o] = UploadPath(o)
    BY <1>1, <1>2, <2>1, UploadPathOK
  <2>2. CASE files[UploadPath(o)] = NoFile
    BY <1>1, <1>4, <2>2
  <2> QED BY <1>1, <2>1, <2>2 DEF FileInv
<1>6. SUFFICES ASSUME SizesFit
               PROVE  BytesCovered' /\ \A c \in Calls :
                        putAt'[c] = "write" /\ files'[UploadPath(putBlob'[c])] # NoFile =>
                          files'[UploadPath(putBlob'[c])] + chunk'[c] <= entry_size'[putBlob'[c]]
  BY DEF CoverInv
<1> HIDE DEF o
<1>7. BytesCovered'
  <2>1. SUFFICES ASSUME running, NEW b \in BlobIds, files'[UploadPath(b)] # NoFile
                 PROVE  files'[UploadPath(b)] <= entry_size'[b]
    BY DEF BytesCovered
  <2>2. b # o /\ files'[UploadPath(b)] = files[UploadPath(b)] /\ entry_size'[b] = entry_size[b]
    BY <1>3, <1>4, <1>5, <2>1
  <2> QED BY <1>6, <2>1, <2>2 DEF CoverInv, BytesCovered
<1>8. ASSUME NEW c \in Calls, putAt'[c] = "write", files'[UploadPath(putBlob'[c])] # NoFile
      PROVE  files'[UploadPath(putBlob'[c])] + chunk'[c] <= entry_size'[putBlob'[c]]
  <2>1. /\ putAt[c] = "write" /\ putBlob'[c] = putBlob[c] /\ chunk'[c] = chunk[c]
        /\ putBlob[c] \in BlobIds
    BY <1>8 DEF StructInv, PlaceInv
  <2>2. /\ putBlob[c] # o
        /\ files'[UploadPath(putBlob[c])] = files[UploadPath(putBlob[c])]
        /\ entry_size'[putBlob[c]] = entry_size[putBlob[c]]
    BY <1>3, <1>4, <1>5, <1>8, <2>1
  <2> QED BY <1>6, <1>8, <2>1, <2>2 DEF CoverInv
<1> QED BY <1>7, <1>8

\* Files are no longer than their entries: the steps of a host thread.
LEMMA HostCover ==
  ASSUME StructInv, FileInv, CoverInv, NEW h \in Hosts, HostStep(h), UNCHANGED putVars
  PROVE  CoverInv'
<1>0. UNCHANGED <<putAt, putBlob, chunk>>
  BY DEF putVars
<1>f. ASSUME UNCHANGED <<running, entry_size, files>> PROVE CoverInv'
  BY <1>0, <1>f, CoverFrame
<1>1. ASSUME NEW t, HostCreates(h, t) PROVE CoverInv'
  BY <1>1, <1>f DEF HostCreates, sessionVars, entryVars
<1>2. ASSUME NEW s \in Sessions, NEW f \in HostFiles, HostAdds(h, s, f) PROVE CoverInv'
  BY <1>0, <1>2, <1>f, CoverEntry DEF HostAdds, MayUse
<1>3. ASSUME NEW s, NEW b, HostMovesFile(h, s, b) PROVE CoverInv'
  <2>1. \A a \in BlobIds : files'[UploadPath(a)] \in {files[UploadPath(a)], NoFile}
    BY <1>3, Unlinked DEF HostMovesFile, StructInv, Unlink
  <2> QED BY <1>0, <1>3, <2>1, CoverFrame DEF HostMovesFile, entryVars, Unlink
<1>4. ASSUME NEW s, NEW ids, HostRemoves(h, s, ids) PROVE CoverInv'
  BY <1>4, <1>f DEF HostRemoves, HostStarts, entryVars
<1>5. ASSUME NEW s, HostDisposes(h, s) PROVE CoverInv'
  BY <1>5, <1>f DEF HostDisposes, HostStarts, entryVars, Entries
<1>6. CASE HostGivesBack(h)
  BY <1>6, <1>f DEF HostGivesBack, entryVars
<1>7. CASE HostSkips(h)
  BY <1>7, <1>f DEF HostSkips, entryVars
<1>8. CASE HostUnlinks(h)
  BY <1>0, <1>8, CoverErased DEF HostUnlinks, Threads, ThreadSession
<1>9. CASE HostUnlinkThrows(h)
  BY <1>9, <1>f DEF HostUnlinkThrows, UnlinkThrows, entryVars
<1>10. CASE HostRemoved(h)
  BY <1>10, <1>f DEF HostRemoved, entryVars
<1>11. CASE HostErases(h)
  BY <1>11, <1>f DEF HostErases, entryVars
<1> QED BY <1>1, <1>2, <1>3, <1>4, <1>5, <1>6, <1>7, <1>8, <1>9, <1>10, <1>11
       DEF HostStep, HostContinues

\* The same, over the steps of a handler.
LEMMA HandlerCover ==
  ASSUME StructInv, ~FsFails => NeverUndercounted, FileInv, SizeInv, CoverInv,
         NEW c \in Calls, ClientStep(c) \/ ServerStep(c)
  PROVE  CoverInv'
<1>0. /\ putAt \in [Calls -> Places]
      /\ putBlob \in [Calls -> BlobIds \cup {NoBlob}]
      /\ chunk \in [Calls -> Nat]
      /\ files \in [Paths -> Nat \cup {NoFile}]
      /\ entry_size \in [BlobIds -> 0..Word - 1]
  BY DEF StructInv, TypeOK, SessionTypeOK
\* What an answer, or a step to a place other than "write", does to the writes.
<1>w. ASSUME NEW code, Answer(c, code)
      PROVE  \A d \in Calls : putAt'[d] = "write" =>
               putAt[d] = "write" /\ putBlob'[d] = putBlob[d] /\ chunk'[d] = chunk[d]
  BY <1>0, <1>w DEF Answer
<1>g. ASSUME NEW place, GoTo(c, place), place # "write", UNCHANGED putBlob,
             \A d \in Calls \ {c} : chunk'[d] = chunk[d]
      PROVE  \A d \in Calls : putAt'[d] = "write" =>
               putAt[d] = "write" /\ putBlob'[d] = putBlob[d] /\ chunk'[d] = chunk[d]
  BY <1>0, <1>g DEF GoTo
<1>a. ASSUME NEW code, Answer(c, code), UNCHANGED sessionVars PROVE CoverInv'
  BY <1>a, <1>w, CoverFrame DEF sessionVars, entryVars
<1>b. ASSUME NEW place, GoTo(c, place), place # "write",
             UNCHANGED <<putBlob, running, entry_size, files>>,
             \A d \in Calls \ {c} : chunk'[d] = chunk[d]
      PROVE  CoverInv'
  BY <1>b, <1>g, CoverFrame
<1>o. ASSUME putBlob[c] \in BlobIds
      PROVE  \A d \in Calls \ {c} : putBlob[d] # putBlob[c]
  BY <1>o DEF StructInv, IdInv, EntryOnce, BlobIds, NoBlob
<1>1. CASE PutRejected(c)
  BY <1>1, <1>a DEF PutRejected
<1>2. ASSUME NEW s, PutNoSession(c, s) PROVE CoverInv'
  BY <1>2, <1>a DEF PutNoSession
<1>3. ASSUME NEW s, NEW size, PutAccepted(c, s, size) PROVE CoverInv'
  BY <1>3, <1>b DEF PutAccepted, sessionVars, entryVars, PutStarts
<1>4. ASSUME NEW n \in Chunks, total_size[c] + n <= MaxUpload, PutReserves(c, n) PROVE CoverInv'
  <2>1. /\ putAt[c] = "read" /\ running /\ putSession[c] \in Sessions /\ putBlob[c] \in BlobIds
        /\ UNCHANGED <<running, files, deleting>>
        /\ n \in 0..MaxChunk /\ n \in Nat
    BY <1>4, ChunksAssumption, StoreAssumption DEF PutReserves, At, StructInv, PlaceInv, Credit
  <2>2. CASE Answer(c, "NOT_FOUND") /\ UNCHANGED entry_size
    BY <1>w, <2>1, <2>2, CoverFrame
  <2>3. CASE /\ putBlob[c] \in blobs_[putSession[c]]
             /\ entry_size' = [entry_size EXCEPT ![putBlob[c]] = Plus(@, n)]
             /\ chunk' = [chunk EXCEPT ![c] = n]
             /\ GoTo(c, "write")
             /\ UNCHANGED <<putSession, putBlob, declared, total_size, writable>>
    <3>1. SizesFit => Plus(entry_size[putBlob[c]], n) = entry_size[putBlob[c]] + n
      <4>1. CASE quota_ # 0 /\ ~FsFails
        BY <1>4, <2>1, <2>3, <4>1, EntryExact DEF PutReserves
      <4>2. CASE MaxUpload < Word
        <5>1. entry_size[putBlob[c]] \in Nat /\ total_size[c] \in Nat
          BY <1>0, <2>1, StoreAssumption DEF StructInv, TypeOK
        <5>2. entry_size[putBlob[c]] <= total_size[c]
          BY <2>1, <5>1 DEF SizeInv, Received
        <5> QED BY <1>4, <2>1, <4>2, <5>1, <5>2, StoreAssumption, PutBoundsAssumption DEF Plus
      <4> QED BY <4>1, <4>2 DEF SizesFit
    <3>2. /\ entry_size'[putBlob[c]] = Plus(entry_size[putBlob[c]], n)
          /\ \A b \in BlobIds \ {putBlob[c]} : entry_size'[b] = entry_size[b]
          /\ chunk'[c] = n
          /\ \A d \in Calls \ {c} : chunk'[d] = chunk[d] /\ putAt'[d] = putAt[d]
      BY <1>0, <2>1, <2>3 DEF GoTo
    <3>3. ASSUME SizesFit, files[UploadPath(putBlob[c])] # NoFile
          PROVE  /\ files[UploadPath(putBlob[c])] \in Nat
                 /\ entry_size[putBlob[c]] \in Nat
                 /\ files[UploadPath(putBlob[c])] <= entry_size[putBlob[c]]
      <4>1. files[UploadPath(putBlob[c])] \in Nat
        BY <1>0, <2>1, <3>3, UploadPathOK
      <4>2. entry_size[putBlob[c]] \in Nat
        BY <1>0, <2>1, StoreAssumption
      <4> QED BY <2>1, <3>3, <4>1, <4>2 DEF CoverInv, BytesCovered
    <3>4. ASSUME SizesFit, files[UploadPath(putBlob[c])] # NoFile
          PROVE  /\ files[UploadPath(putBlob[c])] <= entry_size'[putBlob[c]]
                 /\ files[UploadPath(putBlob[c])] + n <= entry_size'[putBlob[c]]
      <4>1. entry_size'[putBlob[c]] = entry_size[putBlob[c]] + n
        BY <3>1, <3>2, <3>4
      <4> QED BY <2>1, <3>3, <3>4, <4>1
    <3>5. \A d \in Calls \ {c} : putBlob[d] # putBlob[c]
      BY <1>o, <2>1
    <3>6. \A d \in Calls : putAt'[d] = "write" =>
            \/ /\ putAt[d] = "write"
               /\ putBlob'[d] = putBlob[d] /\ putBlob[d] # putBlob[c]
               /\ chunk'[d] = chunk[d]
            \/ /\ putBlob'[d] = putBlob[c]
               /\ files'[UploadPath(putBlob[c])] # NoFile /\ SizesFit =>
                     files'[UploadPath(putBlob[c])] + chunk'[d] <= entry_size'[putBlob[c]]
      BY <2>1, <2>3, <3>2, <3>4, <3>5
    <3>7. files'[UploadPath(putBlob[c])] # NoFile /\ SizesFit =>
            files'[UploadPath(putBlob[c])] <= entry_size'[putBlob[c]]
      BY <2>1, <3>4
    <3> QED BY <2>1, <3>2, <3>6, <3>7, CoverOne
  <2> QED BY <1>4, <2>2, <2>3 DEF PutReserves, Credit
<1>5. ASSUME NEW n, PutRefused(c, n) PROVE CoverInv'
  <2>1. \A d \in Calls \ {c} : chunk'[d] = chunk[d]
    BY <1>0, <1>5 DEF PutRefused
  <2> QED BY <1>5, <1>b, <2>1 DEF PutRefused, sessionVars, entryVars
<1>6. CASE PutNotChunk(c)
  BY <1>6, <1>a DEF PutNotChunk
<1>7. CASE PutEnds(c)
  BY <1>7, <1>a DEF PutEnds
<1>t. CASE PutTagThrows(c)
  BY <1>t, <1>a DEF PutTagThrows
<1>8. CASE PutMismatches(c)
  <2>1. \A a \in BlobIds : files'[UploadPath(a)] \in {files[UploadPath(a)], NoFile}
    BY <1>8, Unlinked DEF PutMismatches, StructInv, Unlink
  <2> QED BY <1>8, <1>w, <2>1, CoverFrame DEF PutMismatches, entryVars, Unlink
<1>9. CASE PutMismatchThrows(c)
  BY <1>9, <1>a DEF PutMismatchThrows
<1>10. CASE PutCreates(c)
  <2>1. running /\ AddEntry(putSession[c], UploadPath(blob_id_')) /\ blob_id_ < MaxBlobs
        /\ UNCHANGED <<running, files, chunk>>
    BY <1>10 DEF PutCreates, At
  <2>2. \A d \in Calls : putAt'[d] = "write" =>
           putAt[d] = "write" /\ putBlob'[d] = putBlob[d] /\ chunk'[d] = chunk[d]
    BY <1>0, <1>10 DEF PutCreates, GoTo
  <2> QED BY <2>1, <2>2, CoverEntry
<1>11. CASE PutOpens(c)
  <2>1. putBlob[c] \in BlobIds /\ UNCHANGED <<running, entry_size, putBlob, chunk>>
        /\ files' = [files EXCEPT ![UploadPath(putBlob[c])] = 0] /\ GoTo(c, "read")
    BY <1>11 DEF PutOpens, At, StructInv, PlaceInv, entryVars, locals
  <2>2. /\ files'[UploadPath(putBlob[c])] = 0
        /\ \A b \in BlobIds \ {putBlob[c]} : files'[UploadPath(b)] = files[UploadPath(b)]
    BY <1>0, <2>1, UploadPathOK
  <2>3. 0 <= entry_size[putBlob[c]]
    BY <1>0, <2>1, StoreAssumption
  <2>4. \A d \in Calls : putAt'[d] = "write" =>
           putAt[d] = "write" /\ putBlob'[d] = putBlob[d] /\ chunk'[d] = chunk[d] /\ d # c
    BY <1>0, <2>1 DEF GoTo
  <2>5. \A d \in Calls \ {c} : putBlob[d] # putBlob[c]
    BY <1>o, <2>1
  <2> QED BY <2>1, <2>2, <2>3, <2>4, <2>5, CoverOne
<1>12. CASE PutOpenFails(c)
  BY <1>12, <1>a DEF PutOpenFails
<1>13. CASE PutWrites(c)
  <2>1. /\ putBlob[c] \in BlobIds /\ UNCHANGED <<running, entry_size, putBlob>>
        /\ GoTo(c, "read") /\ running /\ putAt[c] = "write"
        /\ chunk' = [chunk EXCEPT ![c] = 0]
    BY <1>13 DEF PutWrites, At, StructInv, PlaceInv, entryVars
  <2> DEFINE path == UploadPath(putBlob[c])
  <2>2. PICK n \in Nat : PartWritten(c, n)
    BY <1>13, WriteReaches DEF StructInv
  <2>3. path \in Paths /\ \A b \in BlobIds \ {putBlob[c]} : UploadPath(b) # path
    BY <2>1, UploadPathOK
  <2>4. \A b \in BlobIds \ {putBlob[c]} : files'[UploadPath(b)] = files[UploadPath(b)]
    BY <1>0, <2>2, <2>3, UploadPathOK DEF PartWritten
  <2>5. ASSUME files'[path] # NoFile, SizesFit PROVE files'[path] <= entry_size[putBlob[c]]
    <3>1. files[path] # NoFile
      BY <2>2, <2>5 DEF PartWritten
    <3>2. files[path] + chunk[c] <= entry_size[putBlob[c]] /\ files[path] <= entry_size[putBlob[c]]
      BY <2>1, <2>5, <3>1 DEF CoverInv, BytesCovered
    <3>3. files'[path] = files[path] \/ (n <= chunk[c] /\ files'[path] = files[path] + n)
      BY <1>0, <2>2, <2>3 DEF PartWritten
    <3>4. files[path] \in Nat /\ chunk[c] \in Nat /\ entry_size[putBlob[c]] \in Nat
      BY <1>0, <2>1, <2>3, <3>1, StoreAssumption DEF StructInv, TypeOK, SessionTypeOK
    <3> HIDE DEF path
    <3> QED BY <3>2, <3>3, <3>4
  <2>6. \A d \in Calls : putAt'[d] = "write" =>
           putAt[d] = "write" /\ putBlob'[d] = putBlob[d] /\ chunk'[d] = chunk[d] /\ d # c
    BY <1>0, <2>1 DEF GoTo
  <2>7. \A d \in Calls \ {c} : putBlob[d] # putBlob[c]
    BY <1>o, <2>1
  <2> QED BY <2>1, <2>4, <2>5, <2>6, <2>7, CoverOne
<1>14. CASE PutGivesBack(c)
  BY <1>14, <1>b DEF PutGivesBack, entryVars, locals
<1>15. CASE PutSkips(c)
  BY <1>15, <1>a DEF PutSkips
<1>16. CASE PutUnlinks(c)
  <2>1. c \in Threads /\ ThreadSession(c) = putSession[c]
    BY ThreadsAssumption DEF Threads, ThreadSession
  <2>2. /\ UNCHANGED running /\ UnlinkAndErase(c, putSession[c])
        /\ Answer(c, "RESOURCE_EXHAUSTED")
    BY <1>16 DEF PutUnlinks
  <2> QED BY <1>w, <2>1, <2>2, CoverErased
<1>17. CASE PutUnlinkThrows(c)
  BY <1>17, <1>w, CoverFrame DEF PutUnlinkThrows, UnlinkThrows, entryVars
<1> QED BY <1>t, <1>1, <1>2, <1>3, <1>4, <1>5, <1>6, <1>7, <1>8, <1>9, <1>10, <1>11, <1>12, <1>13,
           <1>14, <1>15, <1>16, <1>17 DEF ClientStep, ServerStep

\* No handler has a chunk to write initially.
LEMMA InitCover == Init => CoverInv
BY DEF Init, SessionInit, PutInit, CoverInv, BytesCovered

\* The invariant on file sizes is inductive.
LEMMA NextCover ==
  StructInv /\ (~FsFails => NeverUndercounted) /\ FileInv /\ SizeInv /\ CoverInv /\ [Next]_vars
    => CoverInv'
<1> SUFFICES ASSUME StructInv, ~FsFails => NeverUndercounted, FileInv, SizeInv, CoverInv, [Next]_vars
             PROVE  CoverInv'
  OBVIOUS
<1>1. CASE Construct /\ UNCHANGED <<putVars, crashes>>
  <2>1. \A b \in BlobIds : files'[UploadPath(b)] = NoFile
    BY <1>1, UploadPathOK DEF Construct, EmptyDirectory
  <2>2. \A c \in Calls : putAt'[c] = "write" => putBlob'[c] \in BlobIds
    BY <1>1 DEF putVars, StructInv, PlaceInv
  <2> QED BY <2>1, <2>2 DEF CoverInv, BytesCovered
<1>2. CASE ConstructFails /\ UNCHANGED <<putVars, crashes>>
  <2>1. \A b \in BlobIds : files'[UploadPath(b)] \in {files[UploadPath(b)], NoFile}
    BY <1>2, UploadPathOK DEF ConstructFails, EmptyDirectory
  <2>2. UNCHANGED <<running, entry_size, putAt, putBlob, chunk>>
    BY <1>2 DEF ConstructFails, entryVars, putVars, EmptyDirectory
  <2> QED BY <2>1, <2>2, CoverFrame
<1>3. CASE Crash
  BY <1>3 DEF Crash, Forget, CoverInv, BytesCovered
<1>4. CASE UNCHANGED vars
  <2>1. UNCHANGED <<running, entry_size, files, putAt, putBlob, chunk>>
    BY <1>4 DEF vars, sessionVars, entryVars, putVars
  <2> QED BY <2>1, CoverFrame
<1> QED BY <1>1, <1>2, <1>3, <1>4, HostCover, HandlerCover DEF Next

\* The whole invariant of the upload path.
UploadInv == StructInv /\ (~FsFails => NeverUndercounted) /\ FileInv /\ SizeInv /\ CoverInv

\* All parts of the invariant together hold in every reachable state.
LEMMA UploadInvariance == Spec => []UploadInv
<1>1. Init => UploadInv
  BY InitStruct, InitCount, InitFile, InitSize, InitCover DEF UploadInv
<1>2. UploadInv /\ [Next]_vars => UploadInv'
  BY NextStruct, NextCount, NextFile, NextSize, NextCover DEF UploadInv
<1> QED BY <1>1, <1>2, PTL DEF Spec

\* reserve_session_store before ofstream::write: no byte is on disk that was
\* not reserved, in any interleaving of handlers with remove, dispose and file
\* moves of the host, and with deletions that fail and give the same bytes back
\* twice.  Only 2^64 bytes in one upload could make its entry wrap, and even they
\* do not while a quota is in force and the file system works.
THEOREM DiskCovered ==
  ASSUME MaxUpload < Word \/ (quota_ # 0 /\ ~FsFails)
  PROVE  Spec => []BytesCovered
<1>1. UploadInv => BytesCovered
  BY DEF UploadInv, CoverInv, SizesFit
<1> QED BY <1>1, UploadInvariance, PTL

\* What the quota is for: the files of the store are within it whenever no
\* delete_blob_file is between giving the bytes back and unlinking.
THEOREM DiskBounded ==
  ASSUME ~FsFails
  PROVE  Spec => []DiskWithinQuota
<1>1. UploadInv => DiskWithinQuota
  <2>1. SUFFICES ASSUME UploadInv, quota_ # 0, running, \A t \in Threads : deleting[t] = NoBlob
                 PROVE  Total(OnDisk) <= quota_
    BY DEF DiskWithinQuota
  <2>2. /\ Total(Reserved) <= current_size_ /\ current_size_ <= quota_ /\ current_size_ \in Nat
        /\ ReservedTypeOK
    BY <2>1, ReservedType, StoreAssumption
       DEF UploadInv, NeverUndercounted, StructInv, TypeOK, SessionTypeOK
  <2>3. \A b \in BlobIds : Reserved[b] = entry_size[b]
    BY <2>1, BlobsAssumption DEF Reserved, BlobIds, NoBlob
  <2>4. \A b \in BlobIds : OnDisk[b] \in Nat /\ OnDisk[b] <= Reserved[b]
    <3>1. SUFFICES ASSUME NEW b \in BlobIds PROVE OnDisk[b] \in Nat /\ OnDisk[b] <= Reserved[b]
      OBVIOUS
    <3>2. files[UploadPath(b)] \in Nat \cup {NoFile}
      BY <2>1, UploadPathOK DEF UploadInv, StructInv, TypeOK, SessionTypeOK
    <3>3. CASE files[UploadPath(b)] = NoFile
      <4>1. OnDisk[b] = 0
        BY <3>3 DEF OnDisk
      <4>2. Reserved[b] \in Nat
        BY <2>2 DEF ReservedTypeOK
      <4> QED BY <4>1, <4>2
    <3>4. CASE files[UploadPath(b)] # NoFile
      <4>1. OnDisk[b] = files[UploadPath(b)]
        BY <3>4 DEF OnDisk
      <4> QED BY <2>1, <2>3, <3>2, <3>4, <4>1 DEF UploadInv, CoverInv, SizesFit, BytesCovered
    <3> QED BY <3>3, <3>4
  <2>5. OnDisk \in [BlobIds -> Nat]
    BY <2>4 DEF OnDisk
  <2>6. Bytes(OnDisk) \subseteq Bytes(Reserved)
    <3>1. SUFFICES ASSUME NEW b \in BlobIds, NEW i \in 1..OnDisk[b] PROVE i \in 1..Reserved[b]
      BY <2>2, <2>5 DEF Bytes, ReservedTypeOK
    <3>2. Reserved[b] \in Nat
      BY <2>2 DEF ReservedTypeOK
    <3> QED BY <2>4, <3>1, <3>2
  <2>7. /\ Total(OnDisk) <= Total(Reserved)
        /\ Total(OnDisk) \in Nat /\ Total(Reserved) \in Nat
    BY <2>2, <2>6, FS_Subset, FS_CardinalityType DEF ReservedTypeOK, Total
  <2> QED BY <2>2, <2>7, StoreAssumption
<1> QED BY <1>1, UploadInvariance, PTL
=============================================================================
