-------------------------- MODULE StoredBlobProofs --------------------------
(***************************************************************************)
(* What becomes of the blob of an upload: who writes its file, who takes   *)
(* its entry away, what its client's reference stands for.                 *)
(*                                                                         *)
(* An id belongs to one handler (EntryOnce), and only that handler makes   *)
(* the file of the id, or makes it longer; when it has answered, the file  *)
(* does not change until it goes (SettledStep).  Four results follow:      *)
(*   acknowledged uploads are kept, and whole unless a write of their own  *)
(*     failed;                                                             *)
(*   a handler changes nothing in a live session but its own blob;         *)
(*   a reference that the host accepts is one of the living process, since *)
(*     no process has the key of an earlier one (KeyInv), and stands for   *)
(*     the upload it was given for;                                        *)
(*   StreamingPut implements BlobLife: every step but a few makes blobs go,*)
(*     or nothing (GoneStep); the others issue one id, write one file or   *)
(*     end one upload.  What this needs besides is LifeInv: where the paths*)
(*     of entries lie, that a session not created has no entries, that a   *)
(*     handler about to open its file has none, and that ids are forgotten *)
(*     with the process.                                                   *)
(***************************************************************************)
EXTENDS BlobReference, StreamingPutProofs

-----------------------------------------------------------------------------
(* What a step leaves alone. *)

\* The locals of d, and what it is deleting.
SameHandler(d) ==
    /\ putAt'[d] = putAt[d]
    /\ putSession'[d] = putSession[d]
    /\ putBlob'[d] = putBlob[d]
    /\ total_size'[d] = total_size[d]
    /\ writable'[d] = writable[d]
    /\ status'[d] = status[d]
    /\ deleting'[d] = deleting[d]

\* Whatever files go, what is left of the one at p, and of b, is what it was.
OnlyGoes(p) == files'[p] \in {files[p], NoFile}
NoNewData(b) == OnlyGoes(UploadPath(b))

\* No entry is made for b, and an entry that it has keeps its path.
NoNewEntry(b) ==
    /\ entry_path'[b] = entry_path[b]
    /\ \A s \in Sessions : b \in blobs_'[s] => b \in blobs_[s]

\* A step of one handler leaves the others alone.
LEMMA HandlerAlone ==
  ASSUME TypeOK, NEW c \in Calls, ClientStep(c) \/ ServerStep(c), NEW d \in Calls, d # c
  PROVE  running /\ running' /\ UNCHANGED managerVars /\ SameHandler(d)
<1>0. /\ putAt \in [Calls -> Places]
      /\ putSession \in [Calls -> Sessions \cup {NoSession}]
      /\ putBlob \in [Calls -> BlobIds \cup {NoBlob}]
      /\ total_size \in [Calls -> Nat]
      /\ writable \in [Calls -> BOOLEAN]
      /\ status \in [Calls -> Statuses]
      /\ deleting \in [Threads -> BlobIds \cup {NoBlob}]
      /\ d \in Threads /\ c \in Threads
  BY DEF TypeOK, SessionTypeOK, Threads
<1>a. ASSUME NEW code, Answer(c, code), running, UNCHANGED <<managerVars, running, deleting>>
      PROVE  running /\ running' /\ UNCHANGED managerVars /\ SameHandler(d)
  BY <1>0, <1>a DEF Answer, SameHandler
<1>g. ASSUME NEW place, GoTo(c, place), running,
             UNCHANGED <<managerVars, running, deleting, putSession, putBlob, total_size, writable>>
      PROVE  running /\ running' /\ UNCHANGED managerVars /\ SameHandler(d)
  BY <1>0, <1>g DEF GoTo, SameHandler
<1>1. CASE PutRejected(c)
  BY <1>1, <1>a DEF PutRejected, At, sessionVars
<1>2. ASSUME NEW s, PutNoSession(c, s)
      PROVE  running /\ running' /\ UNCHANGED managerVars /\ SameHandler(d)
  BY <1>2, <1>a DEF PutNoSession, At, sessionVars
<1>3. ASSUME NEW s, NEW size, PutAccepted(c, s, size)
      PROVE  running /\ running' /\ UNCHANGED managerVars /\ SameHandler(d)
  BY <1>0, <1>3 DEF PutAccepted, PutStarts, At, sessionVars, GoTo, SameHandler
<1>4. ASSUME NEW n, PutReserves(c, n)
      PROVE  running /\ running' /\ UNCHANGED managerVars /\ SameHandler(d)
  BY <1>4, <1>a, <1>g DEF PutReserves, At
<1>5. ASSUME NEW n, PutRefused(c, n)
      PROVE  running /\ running' /\ UNCHANGED managerVars /\ SameHandler(d)
  BY <1>5, <1>g DEF PutRefused, At, sessionVars
<1>6. CASE PutNotChunk(c)
  BY <1>6, <1>a DEF PutNotChunk, At, sessionVars
<1>7. CASE PutEnds(c)
  BY <1>7, <1>a DEF PutEnds, At, sessionVars
<1>8. CASE PutTagThrows(c)
  BY <1>8, <1>a DEF PutTagThrows, At, sessionVars
<1>9. CASE PutMismatches(c)
  BY <1>9, <1>a DEF PutMismatches, At
<1>10. CASE PutMismatchThrows(c)
  BY <1>10, <1>a DEF PutMismatchThrows, At, sessionVars
<1>11. CASE PutCreates(c)
  BY <1>0, <1>11 DEF PutCreates, At, GoTo, SameHandler
<1>12. CASE PutOpens(c)
  BY <1>12, <1>g DEF PutOpens, At, locals
<1>13. CASE PutOpenFails(c)
  BY <1>13, <1>a DEF PutOpenFails, At, sessionVars
<1>14. CASE PutWrites(c)
  <2>1. \E n : writable' = [writable EXCEPT ![c] = GoodAfter(c, n)]
    BY <1>14 DEF PutWrites
  <2>2. /\ total_size' = [total_size EXCEPT ![c] = @ + chunk[c]]
        /\ GoTo(c, "read") /\ running
        /\ UNCHANGED <<managerVars, running, deleting, putSession, putBlob>>
    BY <1>14 DEF PutWrites, At
  <2> QED BY <1>0, <2>1, <2>2 DEF GoTo, SameHandler
<1>15. CASE PutGivesBack(c)
  BY <1>0, <1>15 DEF PutGivesBack, At, GoTo, GiveBack, locals, SameHandler
<1>16. CASE PutSkips(c)
  BY <1>16, <1>a DEF PutSkips, At, sessionVars
<1>17. CASE PutUnlinks(c)
  BY <1>0, <1>17 DEF PutUnlinks, At, UnlinkAndErase, Unlock, Answer, SameHandler
<1>18. CASE PutUnlinkThrows(c)
  BY <1>0, <1>18 DEF PutUnlinkThrows, At, UnlinkThrows, Unlock, Answer, SameHandler
<1> QED BY <1>1, <1>2, <1>3, <1>4, <1>5, <1>6, <1>7, <1>8, <1>9, <1>10, <1>11, <1>12, <1>13,
           <1>14, <1>15, <1>16, <1>17, <1>18 DEF ClientStep, ServerStep

\* A step of a host thread leaves all handlers alone.
LEMMA HostAlone ==
  ASSUME TypeOK, NEW h \in Hosts, HostStep(h), UNCHANGED putVars, NEW d \in Calls
  PROVE  running /\ running' /\ SameHandler(d)
<1>0. /\ deleting \in [Threads -> BlobIds \cup {NoBlob}]
      /\ d \in Threads /\ h \in Threads /\ h # d
  BY ThreadsAssumption DEF TypeOK, SessionTypeOK, Threads
<1>1. SUFFICES running /\ running' /\ deleting'[d] = deleting[d]
  BY DEF SameHandler, putVars
<1>2. ASSUME NEW t, HostCreates(h, t) PROVE running /\ running' /\ deleting'[d] = deleting[d]
  BY <1>2 DEF HostCreates, sessionVars
<1>3. ASSUME NEW s, NEW f, HostAdds(h, s, f)
      PROVE  running /\ running' /\ deleting'[d] = deleting[d]
  BY <1>3 DEF HostAdds, MayUse
<1>4. ASSUME NEW s, NEW b, HostMovesFile(h, s, b)
      PROVE  running /\ running' /\ deleting'[d] = deleting[d]
  BY <1>4 DEF HostMovesFile, MayUse
<1>5. ASSUME NEW s, NEW ids, HostRemoves(h, s, ids)
      PROVE  running /\ running' /\ deleting'[d] = deleting[d]
  BY <1>5 DEF HostRemoves, HostStarts, MayUse
<1>6. ASSUME NEW s, HostDisposes(h, s) PROVE running /\ running' /\ deleting'[d] = deleting[d]
  BY <1>6 DEF HostDisposes, HostStarts, MayUse
<1>7. CASE HostGivesBack(h)
  BY <1>0, <1>7 DEF HostGivesBack, GiveBack
<1>8. CASE HostSkips(h)
  BY <1>8 DEF HostSkips
<1>9. CASE HostUnlinks(h)
  BY <1>0, <1>9 DEF HostUnlinks, UnlinkAndErase, Unlock
<1>10. CASE HostUnlinkThrows(h)
  BY <1>0, <1>10 DEF HostUnlinkThrows, UnlinkThrows, Unlock
<1>11. CASE HostRemoved(h)
  BY <1>11 DEF HostRemoved
<1>12. CASE HostErases(h)
  BY <1>12 DEF HostErases
<1> QED BY <1>2, <1>3, <1>4, <1>5, <1>6, <1>7, <1>8, <1>9, <1>10, <1>11, <1>12
       DEF HostStep, HostContinues

-----------------------------------------------------------------------------
(* Files and entries of blobs that a step is not about. *)

\* An entry made under the next id is no entry of b.
LEMMA EntryOfNext ==
  ASSUME TypeOK, NEW s, NEW path, AddEntry(s, path), NEW b \in BlobIds, b # blob_id_ + 1
  PROVE  NoNewEntry(b)
BY DEF AddEntry, Emplace, NoNewEntry, TypeOK, SessionTypeOK

\* One that is taken away is none either.
LEMMA EntryErased ==
  ASSUME TypeOK, NEW s, NEW a, EraseEntry(s, a), UNCHANGED entry_path, NEW b \in BlobIds
  PROVE  NoNewEntry(b)
BY DEF EraseEntry, NoNewEntry, TypeOK, SessionTypeOK

\* Only the handler of a blob makes its file, or makes it longer; only the step
\* that takes its id makes its entry.
LEMMA HandlerChanges ==
  ASSUME StructInv, NEW c \in Calls, ClientStep(c) \/ ServerStep(c)
  PROVE  /\ \A p \in Paths : p # UploadPath(putBlob[c]) => OnlyGoes(p)
         /\ \A b \in BlobIds : b # blob_id_ + 1 => NoNewEntry(b)
<1>0. files \in [Paths -> Nat \cup {NoFile}] /\ TypeOK
  BY DEF StructInv, TypeOK, SessionTypeOK
<1> DEFINE Goal == /\ \A p \in Paths : p # UploadPath(putBlob[c]) => OnlyGoes(p)
                   /\ \A b \in BlobIds : b # blob_id_ + 1 => NoNewEntry(b)
<1>f. ASSUME UNCHANGED <<files, blobs_, entry_path>> PROVE Goal
  BY <1>f DEF OnlyGoes, NoNewEntry
<1>u. ASSUME NEW q, Unlink(q) PROVE \A p \in Paths : OnlyGoes(p)
  BY <1>0, <1>u DEF Unlink, OnlyGoes
<1>p. ASSUME putBlob[c] \in BlobIds,
             \/ files' = files
             \/ \E n : files' = [files EXCEPT ![UploadPath(putBlob[c])] = n],
             UNCHANGED <<blobs_, entry_path>>
      PROVE  Goal
  BY <1>0, <1>p DEF OnlyGoes, NoNewEntry
<1>1. CASE PutRejected(c)
  BY <1>1, <1>f DEF PutRejected, sessionVars, entryVars
<1>2. ASSUME NEW s, PutNoSession(c, s) PROVE Goal
  BY <1>2, <1>f DEF PutNoSession, sessionVars, entryVars
<1>3. ASSUME NEW s, NEW size, PutAccepted(c, s, size) PROVE Goal
  BY <1>3, <1>f DEF PutAccepted, PutStarts, sessionVars, entryVars
<1>4. ASSUME NEW n, PutReserves(c, n) PROVE Goal
  BY <1>4, <1>f DEF PutReserves
<1>5. ASSUME NEW n, PutRefused(c, n) PROVE Goal
  BY <1>5, <1>f DEF PutRefused, sessionVars, entryVars
<1>6. CASE PutNotChunk(c)
  BY <1>6, <1>f DEF PutNotChunk, sessionVars, entryVars
<1>7. CASE PutEnds(c)
  BY <1>7, <1>f DEF PutEnds, sessionVars, entryVars
<1>8. CASE PutTagThrows(c)
  BY <1>8, <1>f DEF PutTagThrows, sessionVars, entryVars
<1>9. CASE PutMismatches(c)
  BY <1>u, <1>9 DEF PutMismatches, entryVars, NoNewEntry
<1>10. CASE PutMismatchThrows(c)
  BY <1>10, <1>f DEF PutMismatchThrows, sessionVars, entryVars
<1>11. CASE PutCreates(c)
  BY <1>0, <1>11, EntryOfNext DEF PutCreates, OnlyGoes
<1>12. CASE PutOpens(c)
  <2>1. putBlob[c] \in BlobIds
    BY <1>12 DEF PutOpens, At, StructInv, PlaceInv
  <2> QED BY <1>12, <1>p, <2>1 DEF PutOpens, entryVars
<1>13. CASE PutOpenFails(c)
  BY <1>13, <1>f DEF PutOpenFails, sessionVars, entryVars
<1>14. CASE PutWrites(c)
  <2>1. putBlob[c] \in BlobIds
    BY <1>14 DEF PutWrites, At, StructInv, PlaceInv
  <2>2. PICK n \in Nat : PartWritten(c, n)
    BY <1>0, <1>14, WriteReaches
  <2> QED BY <1>14, <1>p, <2>1, <2>2 DEF PutWrites, PartWritten, entryVars
<1>15. CASE PutGivesBack(c)
  BY <1>15, <1>f DEF PutGivesBack, entryVars
<1>16. CASE PutSkips(c)
  BY <1>16, <1>f DEF PutSkips, sessionVars, entryVars
<1>17. CASE PutUnlinks(c)
  <2>1. \A p \in Paths : OnlyGoes(p)
    BY <1>u, <1>17 DEF PutUnlinks, UnlinkAndErase
  <2>2. \A b \in BlobIds : NoNewEntry(b)
    BY <1>0, <1>17, EntryErased DEF PutUnlinks, UnlinkAndErase
  <2> QED BY <2>1, <2>2
<1>18. CASE PutUnlinkThrows(c)
  BY <1>18, <1>f DEF PutUnlinkThrows, UnlinkThrows
<1> QED BY <1>1, <1>2, <1>3, <1>4, <1>5, <1>6, <1>7, <1>8, <1>9, <1>10, <1>11, <1>12, <1>13,
           <1>14, <1>15, <1>16, <1>17, <1>18 DEF ClientStep, ServerStep

\* So it leaves the data of other blobs alone.
LEMMA HandlerData ==
  ASSUME StructInv, NEW c \in Calls, ClientStep(c) \/ ServerStep(c), NEW b \in BlobIds
  PROVE  /\ putBlob[c] # b => NoNewData(b)
         /\ b # blob_id_ + 1 => NoNewEntry(b)
<1>1. UploadPath(b) \in Paths /\ (putBlob[c] # b => UploadPath(b) # UploadPath(putBlob[c]))
  BY UploadPathOK DEF UploadPath
<1> QED BY <1>1, HandlerChanges DEF NoNewData

\* The host makes no file in the store, and entries only under the next id.
LEMMA HostChanges ==
  ASSUME StructInv, NEW h \in Hosts, HostStep(h)
  PROVE  /\ \A p \in Paths : OnlyGoes(p)
         /\ \A b \in BlobIds : b # blob_id_ + 1 => NoNewEntry(b)
<1>0. files \in [Paths -> Nat \cup {NoFile}] /\ TypeOK
  BY DEF StructInv, TypeOK, SessionTypeOK
<1> DEFINE Goal == /\ \A p \in Paths : OnlyGoes(p)
                   /\ \A b \in BlobIds : b # blob_id_ + 1 => NoNewEntry(b)
<1>f. ASSUME UNCHANGED <<files, blobs_, entry_path>> PROVE Goal
  BY <1>f DEF OnlyGoes, NoNewEntry
<1>u. ASSUME NEW q, Unlink(q) PROVE \A p \in Paths : OnlyGoes(p)
  BY <1>0, <1>u DEF Unlink, OnlyGoes
<1>1. ASSUME NEW t, HostCreates(h, t) PROVE Goal
  BY <1>1, <1>f DEF HostCreates, sessionVars, entryVars
<1>2. ASSUME NEW s, NEW f, HostAdds(h, s, f) PROVE Goal
  <2>1. CASE AddEntry(s, HostPath(f))
    BY <1>0, <1>2, <2>1, EntryOfNext DEF HostAdds, OnlyGoes
  <2>2. CASE UNCHANGED <<blobs_, entry_path, entry_size>>
    BY <1>2, <1>f, <2>2 DEF HostAdds
  <2> QED BY <1>2, <2>1, <2>2 DEF HostAdds
<1>3. ASSUME NEW s, NEW a, HostMovesFile(h, s, a) PROVE Goal
  BY <1>u, <1>3 DEF HostMovesFile, entryVars, NoNewEntry
<1>4. ASSUME NEW s, NEW ids, HostRemoves(h, s, ids) PROVE Goal
  BY <1>4, <1>f DEF HostRemoves, HostStarts, entryVars
<1>5. ASSUME NEW s, HostDisposes(h, s) PROVE Goal
  BY <1>5, <1>f DEF HostDisposes, HostStarts, entryVars
<1>6. CASE HostGivesBack(h)
  BY <1>6, <1>f DEF HostGivesBack, entryVars
<1>7. CASE HostSkips(h)
  BY <1>7, <1>f DEF HostSkips, entryVars
<1>8. CASE HostUnlinks(h)
  <2>1. \A p \in Paths : OnlyGoes(p)
    BY <1>u, <1>8 DEF HostUnlinks, UnlinkAndErase
  <2>2. \A b \in BlobIds : NoNewEntry(b)
    BY <1>0, <1>8, EntryErased DEF HostUnlinks, UnlinkAndErase
  <2> QED BY <2>1, <2>2
<1>9. CASE HostUnlinkThrows(h)
  BY <1>9, <1>f DEF HostUnlinkThrows, UnlinkThrows
<1>10. CASE HostRemoved(h)
  BY <1>10, <1>f DEF HostRemoved, entryVars
<1>11. CASE HostErases(h)
  BY <1>11, <1>f DEF HostErases, entryVars
<1> QED BY <1>1, <1>2, <1>3, <1>4, <1>5, <1>6, <1>7, <1>8, <1>9, <1>10, <1>11
       DEF HostStep, HostContinues

\* Nor does a host thread, and it takes no new id for itself.
LEMMA HostData ==
  ASSUME StructInv, NEW h \in Hosts, HostStep(h), NEW b \in BlobIds
  PROVE  /\ NoNewData(b)
         /\ b # blob_id_ + 1 => NoNewEntry(b)
BY HostChanges, UploadPathOK DEF NoNewData

\* Ids are taken in order, by steps of a process that is up.
LEMMA IdsGrow ==
  ASSUME StructInv, [Next]_vars, ~Crash
  PROVE  blob_id_' \in {blob_id_, blob_id_ + 1}
<1>1. ASSUME NEW h \in Hosts, HostStep(h) PROVE blob_id_' \in {blob_id_, blob_id_ + 1}
  BY <1>1 DEF HostStep, HostContinues, HostCreates, HostAdds, AddEntry, HostMovesFile, HostRemoves,
     HostDisposes, HostStarts, HostGivesBack, HostSkips, HostUnlinks, HostUnlinkThrows, HostRemoved,
     HostErases, sessionVars, entryVars
<1>2. ASSUME NEW c \in Calls, ClientStep(c) PROVE blob_id_' = blob_id_
  BY <1>2 DEF ClientStep, PutRejected, PutNoSession, PutAccepted, PutStarts, PutReserves, PutRefused,
     PutNotChunk, PutEnds, PutTagThrows, PutMismatches, PutMismatchThrows, sessionVars, entryVars
<1>3. ASSUME NEW c \in Calls, ServerStep(c) PROVE blob_id_' \in {blob_id_, blob_id_ + 1}
  BY <1>3 DEF ServerStep, PutCreates, AddEntry, PutOpens, PutOpenFails, PutWrites, PutGivesBack,
     PutSkips, PutUnlinks, PutUnlinkThrows, sessionVars, entryVars
<1>4. ASSUME Construct \/ ConstructFails PROVE blob_id_' = blob_id_
  BY <1>4 DEF Construct, ConstructFails, entryVars
<1> QED BY <1>1, <1>2, <1>3, <1>4 DEF Next, vars, sessionVars, entryVars

\* The id b has been issued, and no handler is at work on it any more.
Settled(b) == b <= blob_id_ /\ \A c \in Calls : putBlob[c] = b => putAt[c] = "done"

\* A handler that has answered does nothing more.
LEMMA DoneIsDone ==
  ASSUME NEW c \in Calls, ClientStep(c) \/ ServerStep(c)
  PROVE  putAt[c] # "done"
BY DEF ClientStep, ServerStep, PutRejected, PutNoSession, PutAccepted, PutStarts, PutReserves,
   PutRefused, PutNotChunk, PutEnds, PutTagThrows, PutMismatches, PutMismatchThrows, PutCreates,
   PutOpens, PutOpenFails, PutWrites, PutGivesBack, PutSkips, PutUnlinks, PutUnlinkThrows, At

\* Only create_blob_file gives a handler another blob: the next one.
LEMMA BlobOfHandler ==
  ASSUME TypeOK, NEW c \in Calls, ClientStep(c) \/ ServerStep(c)
  PROVE  \/ putBlob'[c] = putBlob[c]
         \/ putAt[c] = "create" /\ putBlob'[c] = blob_id_ + 1
<1>1. CASE PutCreates(c)
  BY <1>1 DEF PutCreates, At, AddEntry, TypeOK
<1>2. ASSUME ClientStep(c) PROVE putBlob' = putBlob
  BY <1>2 DEF ClientStep, PutRejected, PutNoSession, PutAccepted, PutStarts, PutReserves, PutRefused,
     PutNotChunk, PutEnds, PutTagThrows, PutMismatches, PutMismatchThrows, Answer
<1>3. ASSUME ServerStep(c), ~PutCreates(c) PROVE putBlob' = putBlob
  BY <1>3 DEF ServerStep, PutOpens, PutOpenFails, PutWrites, PutGivesBack, PutSkips, PutUnlinks,
     PutUnlinkThrows, Answer, locals
<1> QED BY <1>1, <1>2, <1>3

\* From then on its file stays as it is or goes, and so does its entry.
LEMMA SettledStep ==
  ASSUME StructInv, [Next]_vars, running, running', NEW b \in BlobIds, Settled(b)
  PROVE  Settled(b)' /\ NoNewData(b) /\ NoNewEntry(b)
<1>0. blob_id_ \in Nat /\ BlobIds \subseteq Nat /\ b # blob_id_ + 1 /\ TypeOK
  BY DEF StructInv, TypeOK, SessionTypeOK, BlobIds, Settled
<1>1. ~Crash /\ ~Construct /\ ~ConstructFails
  BY DEF Crash, Forget, Construct, ConstructFails
<1>2. b <= blob_id_'
  BY <1>0, <1>1, IdsGrow DEF Settled
<1>3. ASSUME NEW h \in Hosts, HostStep(h), UNCHANGED <<putVars, crashes>>
      PROVE  Settled(b)' /\ NoNewData(b) /\ NoNewEntry(b)
  BY <1>0, <1>2, <1>3, HostData DEF Settled, putVars
<1>4. ASSUME NEW c \in Calls, ClientStep(c) \/ ServerStep(c)
      PROVE  Settled(b)' /\ NoNewData(b) /\ NoNewEntry(b)
  <2>1. putBlob[c] # b
    BY <1>4, DoneIsDone DEF Settled
  <2>2. NoNewData(b) /\ NoNewEntry(b)
    BY <1>0, <1>4, <2>1, HandlerData
  <2>3. putBlob'[c] # b
    BY <1>0, <1>4, <2>1, BlobOfHandler
  <2>4. \A d \in Calls \ {c} : putBlob'[d] = putBlob[d] /\ putAt'[d] = putAt[d]
    BY <1>0, <1>4, HandlerAlone DEF SameHandler
  <2> QED BY <1>2, <2>2, <2>3, <2>4 DEF Settled
<1>5. CASE UNCHANGED vars
  BY <1>5 DEF vars, putVars, sessionVars, entryVars, Settled, NoNewData, OnlyGoes,
     NoNewEntry
<1> QED BY <1>1, <1>3, <1>4, <1>5 DEF Next

-----------------------------------------------------------------------------
(* Handlers and their blobs. *)

\* A handler deletes only its own blob, has answered when it has acknowledged,
\* and the entry of its blob is in no session but its own.
HandlerOwns(c) ==
    /\ deleting[c] # NoBlob => deleting[c] = putBlob[c]
    /\ status[c] = "OK" => putAt[c] = "done" /\ putBlob[c] \in BlobIds
    /\ putAt[c] \notin {"start", "create", "done"} =>
          \A s \in Sessions : putBlob[c] \in blobs_[s] => s = putSession[c]
OwnInv == \A c \in Calls : HandlerOwns(c)

\* It holds when no call has begun.
LEMMA InitOwn == Init => OwnInv
BY DEF Init, SessionInit, PutInit, OwnInv, HandlerOwns, Threads

\* Others do not disturb it.
LEMMA OwnFrame ==
  ASSUME StructInv, NEW d \in Calls, HandlerOwns(d), SameHandler(d),
         putBlob[d] \in BlobIds => (putBlob[d] # blob_id_ + 1 => NoNewEntry(putBlob[d]))
  PROVE  HandlerOwns(d)'
<1>1. putAt[d] \notin {"start", "create", "done"} =>
         putBlob[d] \in BlobIds /\ putBlob[d] # blob_id_ + 1
  BY DEF StructInv, PlaceInv, IdInv, TypeOK, SessionTypeOK, BlobIds
<1> QED BY <1>1 DEF HandlerOwns, SameHandler, NoNewEntry

\* A handler keeps it by each of its own steps.
LEMMA OwnStep ==
  ASSUME StructInv, NEW c \in Calls, HandlerOwns(c), ClientStep(c) \/ ServerStep(c)
  PROVE  HandlerOwns(c)'
<1>0. /\ putAt \in [Calls -> Places]
      /\ status \in [Calls -> Statuses]
      /\ putSession \in [Calls -> Sessions \cup {NoSession}]
      /\ putBlob \in [Calls -> BlobIds \cup {NoBlob}]
      /\ deleting \in [Threads -> BlobIds \cup {NoBlob}]
      /\ blobs_ \in [Sessions -> SUBSET BlobIds]
      /\ c \in Threads
      /\ deleting[c] # NoBlob => putAt[c] = "unlink"
      /\ TypeOK
  BY DEF StructInv, TypeOK, SessionTypeOK, PlaceInv, Threads
<1>a. ASSUME NEW code, Answer(c, code), code # "OK", deleting'[c] \in {deleting[c], NoBlob}
      PROVE  HandlerOwns(c)'
  BY <1>0, <1>a DEF Answer, HandlerOwns
<1>g. ASSUME NEW place, GoTo(c, place), place \in Places \ {"start", "create", "done"},
             UNCHANGED <<deleting, blobs_, putSession, putBlob>>,
             putAt[c] \notin {"start", "create", "done"}
      PROVE  HandlerOwns(c)'
  BY <1>0, <1>g DEF GoTo, HandlerOwns
<1>1. CASE PutRejected(c)
  BY <1>1, <1>a DEF PutRejected, sessionVars
<1>2. ASSUME NEW s, PutNoSession(c, s) PROVE HandlerOwns(c)'
  BY <1>2, <1>a DEF PutNoSession, sessionVars
<1>3. ASSUME NEW s, NEW size, PutAccepted(c, s, size) PROVE HandlerOwns(c)'
  BY <1>0, <1>3 DEF PutAccepted, PutStarts, At, GoTo, sessionVars, HandlerOwns
<1>4. ASSUME NEW n, PutReserves(c, n) PROVE HandlerOwns(c)'
  BY <1>4, <1>a, <1>g DEF PutReserves, At, Places
<1>5. ASSUME NEW n, PutRefused(c, n) PROVE HandlerOwns(c)'
  BY <1>5, <1>g DEF PutRefused, At, sessionVars, entryVars, Places
<1>6. CASE PutNotChunk(c)
  BY <1>6, <1>a DEF PutNotChunk, sessionVars
<1>7. CASE PutEnds(c)
  BY <1>0, <1>7 DEF PutEnds, At, Answer, sessionVars, HandlerOwns, StructInv, PlaceInv
<1>8. CASE PutTagThrows(c)
  BY <1>8, <1>a DEF PutTagThrows, sessionVars
<1>9. CASE PutMismatches(c)
  BY <1>9, <1>a DEF PutMismatches
<1>10. CASE PutMismatchThrows(c)
  BY <1>10, <1>a DEF PutMismatchThrows, sessionVars
<1>11. CASE PutCreates(c)
  <2>1. \A s \in Sessions : blob_id_ + 1 \notin blobs_[s]
    BY DEF StructInv, IdInv, TypeOK, SessionTypeOK, BlobIds
  <2>2. putBlob'[c] = blob_id_ + 1
    BY <1>0, <1>11 DEF PutCreates, AddEntry
  <2>3. \A s \in Sessions : blob_id_ + 1 \in blobs_'[s] => s = putSession[c]
    BY <1>0, <1>11, <2>1 DEF PutCreates, AddEntry, Emplace
  <2>4. /\ deleting' = deleting /\ deleting[c] = NoBlob /\ status' = status
        /\ putSession' = putSession /\ putAt'[c] = "open" /\ putAt[c] = "create"
    BY <1>0, <1>11 DEF PutCreates, At, GoTo
  <2> QED BY <2>2, <2>3, <2>4 DEF HandlerOwns
<1>12. CASE PutOpens(c)
  BY <1>12, <1>g DEF PutOpens, At, locals, entryVars, Places
<1>13. CASE PutOpenFails(c)
  BY <1>13, <1>a DEF PutOpenFails, sessionVars
<1>14. CASE PutWrites(c)
  BY <1>14, <1>g DEF PutWrites, At, entryVars, Places
<1>15. CASE PutGivesBack(c)
  BY <1>0, <1>15 DEF PutGivesBack, At, GoTo, GiveBack, locals, entryVars, HandlerOwns
<1>16. CASE PutSkips(c)
  BY <1>16, <1>a DEF PutSkips, sessionVars
<1>17. CASE PutUnlinks(c)
  BY <1>0, <1>17, <1>a DEF PutUnlinks, UnlinkAndErase, Unlock
<1>18. CASE PutUnlinkThrows(c)
  BY <1>0, <1>18, <1>a DEF PutUnlinkThrows, UnlinkThrows, Unlock
<1> QED BY <1>1, <1>2, <1>3, <1>4, <1>5, <1>6, <1>7, <1>8, <1>9, <1>10, <1>11, <1>12, <1>13,
           <1>14, <1>15, <1>16, <1>17, <1>18 DEF ClientStep, ServerStep

\* The invariant is inductive, crashes included.
LEMMA NextOwn == StructInv /\ OwnInv /\ [Next]_vars => OwnInv'
<1> SUFFICES ASSUME StructInv, OwnInv, [Next]_vars PROVE OwnInv'
  OBVIOUS
<1>0. TypeOK
  BY DEF StructInv
<1>1. ASSUME NEW h \in Hosts, HostStep(h), UNCHANGED <<putVars, crashes>> PROVE OwnInv'
  BY <1>0, <1>1, HostAlone, HostData, OwnFrame DEF OwnInv
<1>2. ASSUME NEW c \in Calls, ClientStep(c) \/ ServerStep(c) PROVE OwnInv'
  BY <1>0, <1>2, HandlerAlone, HandlerData, OwnFrame, OwnStep DEF OwnInv
<1>3. CASE Crash
  BY <1>3 DEF Crash, Forget, OwnInv, HandlerOwns, Threads
<1>4. CASE \/ (Construct \/ ConstructFails) /\ UNCHANGED <<putVars, crashes>>
          \/ UNCHANGED vars
  BY <1>4 DEF Construct, ConstructFails, vars, putVars, sessionVars, entryVars, OwnInv, HandlerOwns
<1> QED BY <1>1, <1>2, <1>3, <1>4 DEF Next

\* An entry goes when a host thread that gave its bytes back unlinks its file.
LEMMA HostTakes ==
  ASSUME TypeOK, NEW h \in Hosts, HostStep(h), NEW s \in Sessions, NEW b \in blobs_[s] \ blobs_'[s]
  PROVE  deleting[h] = b
<1>0. blobs_ \in [Sessions -> SUBSET BlobIds]
  BY DEF TypeOK, SessionTypeOK
<1>f. blobs_' # blobs_
  BY DEF TypeOK
<1>1. ASSUME NEW r, NEW path, AddEntry(r, path) PROVE FALSE
  BY <1>0, <1>1 DEF AddEntry, Emplace
<1>2. CASE HostUnlinks(h)
  BY <1>0, <1>2 DEF HostUnlinks, UnlinkAndErase, EraseEntry
<1>3. CASE ~HostUnlinks(h)
  BY <1>1, <1>f, <1>3 DEF HostStep, HostContinues, HostCreates, HostAdds, HostMovesFile, HostRemoves,
     HostDisposes, HostStarts, HostGivesBack, HostSkips, HostUnlinkThrows, UnlinkThrows,
     HostRemoved, HostErases, sessionVars, entryVars
<1> QED BY <1>2, <1>3

\* A handler takes only what it is deleting.
LEMMA HandlerTakes ==
  ASSUME TypeOK, NEW c \in Calls, ClientStep(c) \/ ServerStep(c),
         NEW s \in Sessions, NEW b \in blobs_[s] \ blobs_'[s]
  PROVE  deleting[c] = b
<1>0. blobs_ \in [Sessions -> SUBSET BlobIds]
  BY DEF TypeOK, SessionTypeOK
<1>1. blobs_' # blobs_
  OBVIOUS
<1>2. ~PutCreates(c)
  BY <1>0 DEF PutCreates, AddEntry, Emplace
<1>3. CASE PutUnlinks(c)
  BY <1>0, <1>3 DEF PutUnlinks, UnlinkAndErase, EraseEntry
<1>4. ASSUME ClientStep(c) PROVE FALSE
  BY <1>1, <1>4 DEF ClientStep, PutRejected, PutNoSession, PutAccepted, PutStarts, PutReserves,
     PutRefused, PutNotChunk, PutEnds, PutTagThrows, PutMismatches, PutMismatchThrows,
     sessionVars, entryVars
<1>5. ASSUME ServerStep(c), ~PutUnlinks(c) PROVE FALSE
  BY <1>1, <1>2, <1>5 DEF ServerStep, PutOpens, PutOpenFails, PutWrites, PutGivesBack, PutSkips,
     PutUnlinkThrows, UnlinkThrows, sessionVars, entryVars
<1> QED BY <1>3, <1>4, <1>5

\* The step of OnlyHostDeletesAcknowledged.
LEMMA HostDeletes ==
  ASSUME StructInv, OwnInv, [Next]_vars, NEW c \in Calls, status[c] = "OK", running',
         NEW s \in Sessions, putBlob[c] \in blobs_[s] \ blobs_'[s]
  PROVE  \E h \in Hosts : deleting[h] = putBlob[c]
<1>0. TypeOK /\ putBlob[c] \in BlobIds /\ putBlob[c] # NoBlob /\ putAt[c] = "done"
  BY DEF StructInv, OwnInv, HandlerOwns, BlobIds, NoBlob
<1>1. blobs_' # blobs_
  OBVIOUS
<1>2. ASSUME NEW h \in Hosts, HostStep(h) PROVE deleting[h] = putBlob[c]
  BY <1>0, <1>2, HostTakes
<1>3. ASSUME NEW d \in Calls, ClientStep(d) \/ ServerStep(d) PROVE FALSE
  <2>1. deleting[d] = putBlob[c]
    BY <1>0, <1>3, HandlerTakes
  <2>2. putBlob[d] = putBlob[c]
    BY <1>0, <2>1 DEF OwnInv, HandlerOwns
  <2>3. d = c
    BY <1>0, <2>2 DEF StructInv, IdInv, EntryOnce
  <2> QED BY <1>0, <1>3, <2>3, DoneIsDone
<1>4. ~Construct /\ ~ConstructFails /\ ~Crash /\ ~UNCHANGED vars
  BY <1>1 DEF Construct, ConstructFails, Crash, Forget, vars, sessionVars, entryVars
<1> QED BY <1>2, <1>3, <1>4 DEF Next

\* delete_blob_file after a refusal takes the refused upload away and nothing
\* else: an upload that was acknowledged leaves its session only by the host's
\* hand, however many handlers are refused meanwhile, and failures included.
THEOREM AcknowledgedKept == Spec => OnlyHostDeletesAcknowledged
<1>1. Init => StructInv /\ OwnInv
  BY InitStruct, InitOwn
<1>2. StructInv /\ OwnInv /\ [Next]_vars => (StructInv /\ OwnInv)'
  BY NextStruct, NextOwn
<1>3. StructInv /\ OwnInv /\ [Next]_vars =>
        [\A c \in Calls :
          /\ status[c] = "OK"
          /\ \E s \in Sessions : putBlob[c] \in blobs_[s] \ blobs_'[s]
          => ~running' \/ \E h \in Hosts : deleting[h] = putBlob[c]]_vars
  BY HostDeletes
<1> QED BY <1>1, <1>2, <1>3, PTL DEF Spec, OnlyHostDeletesAcknowledged

-----------------------------------------------------------------------------
(* The data of an upload. *)

\* A handler that receives has written all that it has received, unless the
\* file went or a write failed; on a file system that works none fails, and a
\* handler that has acknowledged has written it all.
HandlerWhole(c) ==
    /\ ~FsFails => writable[c]
    /\ putAt[c] \in {"start", "create", "open"} => writable[c] /\ total_size[c] = 0
    /\ \/ putAt[c] \in {"read", "write"} /\ writable[c]
       \/ status[c] = "OK" /\ ~FsFails
       => files[UploadPath(putBlob[c])] \in {NoFile, total_size[c]}
WholeInv == \A c \in Calls : HandlerWhole(c)

\* No handler has answered yet.
LEMMA InitWhole == Init => WholeInv
BY DEF Init, PutInit, WholeInv, HandlerWhole

\* Nobody else writes the file.
LEMMA WholeFrame ==
  ASSUME StructInv, OwnInv, NEW d \in Calls, HandlerWhole(d), SameHandler(d),
         putBlob[d] \in BlobIds => NoNewData(putBlob[d])
  PROVE  HandlerWhole(d)'
<1>1. putAt[d] \in {"read", "write"} \/ status[d] = "OK" => putBlob[d] \in BlobIds
  BY DEF StructInv, PlaceInv, OwnInv, HandlerOwns
<1> QED BY <1>1 DEF HandlerWhole, SameHandler, NoNewData, OnlyGoes

\* The handler itself keeps count of what it writes.
LEMMA WholeStep ==
  ASSUME StructInv, OwnInv, NEW c \in Calls, HandlerWhole(c), ClientStep(c) \/ ServerStep(c)
  PROVE  HandlerWhole(c)'
<1>0. /\ putAt \in [Calls -> Places]
      /\ status \in [Calls -> Statuses]
      /\ total_size \in [Calls -> Nat]
      /\ chunk \in [Calls -> Nat]
      /\ writable \in [Calls -> BOOLEAN]
      /\ files \in [Paths -> Nat \cup {NoFile}]
      /\ status[c] # "OK"
  BY DoneIsDone DEF StructInv, TypeOK, SessionTypeOK, OwnInv, HandlerOwns
<1>p. putAt[c] \notin {"start", "create", "done"} => UploadPath(putBlob[c]) \in Paths
  BY UploadPathOK DEF StructInv, PlaceInv
<1>a. ASSUME NEW code, Answer(c, code), code # "OK" PROVE HandlerWhole(c)'
  BY <1>0, <1>a DEF Answer, HandlerWhole
<1>d. ASSUME NEW place, GoTo(c, place), place \in {"discard", "unlink"}, UNCHANGED writable
      PROVE  HandlerWhole(c)'
  BY <1>0, <1>d DEF GoTo, HandlerWhole, Places
<1>1. CASE PutRejected(c)
  BY <1>1, <1>a DEF PutRejected
<1>2. ASSUME NEW s, PutNoSession(c, s) PROVE HandlerWhole(c)'
  BY <1>2, <1>a DEF PutNoSession
<1>3. ASSUME NEW s, NEW size, PutAccepted(c, s, size) PROVE HandlerWhole(c)'
  BY <1>0, <1>3 DEF PutAccepted, PutStarts, At, GoTo, HandlerWhole
<1>4. ASSUME NEW n, PutReserves(c, n) PROVE HandlerWhole(c)'
  <2>1. CASE GoTo(c, "write") /\ UNCHANGED <<files, putBlob, total_size, writable>>
    BY <1>0, <1>4, <2>1 DEF PutReserves, At, GoTo, HandlerWhole
  <2> QED BY <1>4, <1>a, <2>1 DEF PutReserves
<1>5. ASSUME NEW n, PutRefused(c, n) PROVE HandlerWhole(c)'
  BY <1>5, <1>d DEF PutRefused
<1>6. CASE PutNotChunk(c)
  BY <1>6, <1>a DEF PutNotChunk
<1>7. CASE PutEnds(c)
  BY <1>0, <1>7 DEF PutEnds, At, Answer, sessionVars, HandlerWhole
<1>8. CASE PutTagThrows(c)
  BY <1>8, <1>a DEF PutTagThrows
<1>9. CASE PutMismatches(c)
  BY <1>9, <1>a DEF PutMismatches
<1>10. CASE PutMismatchThrows(c)
  BY <1>10, <1>a DEF PutMismatchThrows
<1>11. CASE PutCreates(c)
  BY <1>0, <1>11 DEF PutCreates, At, GoTo, HandlerWhole
<1>12. CASE PutOpens(c)
  BY <1>0, <1>p, <1>12 DEF PutOpens, At, GoTo, locals, HandlerWhole
<1>13. CASE PutOpenFails(c)
  BY <1>13, <1>a DEF PutOpenFails
<1>14. CASE PutWrites(c)
  <2> DEFINE path == UploadPath(putBlob[c])
  <2>1. /\ putAt[c] = "write" /\ GoTo(c, "read") /\ UNCHANGED putBlob
        /\ total_size' = [total_size EXCEPT ![c] = @ + chunk[c]]
    BY <1>14 DEF PutWrites, At
  <2>2. PICK n \in 0..chunk[c] :
          /\ n < chunk[c] => FsFails \/ ~writable[c]
          /\ writable' = [writable EXCEPT ![c] = GoodAfter(c, n)]
          /\ files' = IF files[path] = NoFile THEN files
                        ELSE [files EXCEPT ![path] = @ + n]
    BY <1>14 DEF PutWrites
  <2>3. path \in Paths /\ chunk[c] \in Nat
    BY <1>0, <1>p, <2>1
  <2>4. putAt'[c] = "read" /\ status'[c] # "OK" /\ UploadPath(putBlob[c])' = path
    BY <1>0, <2>1 DEF GoTo, UploadPath
  <2>5. writable'[c] <=> writable[c] /\ n = chunk[c]
    BY <1>0, <2>2 DEF GoodAfter
  <2>6. ~FsFails => writable'[c]
    BY <2>2, <2>3, <2>5 DEF HandlerWhole
  <2>7. ASSUME writable'[c] PROVE files'[path] \in {NoFile, total_size'[c]}
    <3>1. files[path] \in {NoFile, total_size[c]} /\ n = chunk[c]
      BY <2>1, <2>5, <2>7 DEF HandlerWhole
    <3> HIDE DEF path
    <3> QED BY <1>0, <2>1, <2>2, <2>3, <3>1
  <2> QED BY <2>4, <2>6, <2>7 DEF HandlerWhole
<1>15. CASE PutGivesBack(c)
  BY <1>15, <1>d DEF PutGivesBack, locals
<1>16. CASE PutSkips(c)
  BY <1>16, <1>a DEF PutSkips
<1>17. CASE PutUnlinks(c)
  BY <1>17, <1>a DEF PutUnlinks
<1>18. CASE PutUnlinkThrows(c)
  BY <1>18, <1>a DEF PutUnlinkThrows
<1> QED BY <1>1, <1>2, <1>3, <1>4, <1>5, <1>6, <1>7, <1>8, <1>9, <1>10, <1>11, <1>12, <1>13,
           <1>14, <1>15, <1>16, <1>17, <1>18 DEF ClientStep, ServerStep

\* The constructor takes files away and makes none.
LEMMA ConstructData ==
  ASSUME TypeOK, Construct \/ ConstructFails, NEW b \in BlobIds
  PROVE  NoNewData(b)
BY UploadPathOK DEF TypeOK, SessionTypeOK, Construct, ConstructFails, EmptyDirectory, NoNewData,
   OnlyGoes

\* Whoever makes a step, a handler is left alone with its data, unless the step
\* is its own or the process dies.
LEMMA StepOfAnother ==
  ASSUME StructInv, [Next]_vars, NEW d \in Calls, ~ClientStep(d), ~ServerStep(d), ~Crash
  PROVE  SameHandler(d) /\ (putBlob[d] \in BlobIds => NoNewData(putBlob[d]))
<1>0. TypeOK
  BY DEF StructInv
<1>1. CASE \E h \in Hosts : HostStep(h) /\ UNCHANGED <<putVars, crashes>>
  BY <1>0, <1>1, HostAlone, HostData
<1>2. ASSUME NEW c \in Calls, ClientStep(c) \/ ServerStep(c)
      PROVE  SameHandler(d) /\ (putBlob[d] \in BlobIds => NoNewData(putBlob[d]))
  <2>1. d # c /\ SameHandler(d)
    BY <1>0, <1>2, HandlerAlone
  <2>2. putBlob[d] \in BlobIds => putBlob[d] # putBlob[c]
    BY <2>1 DEF StructInv, IdInv, EntryOnce, BlobIds, NoBlob
  <2> QED BY <1>2, <2>1, <2>2, HandlerData
<1>3. CASE (Construct \/ ConstructFails) /\ UNCHANGED <<putVars, crashes>>
  <2>1. SameHandler(d)
    BY <1>3 DEF Construct, ConstructFails, putVars, SameHandler
  <2> QED BY <1>0, <1>3, <2>1, ConstructData
<1>4. CASE UNCHANGED vars
  BY <1>4 DEF vars, putVars, sessionVars, SameHandler, NoNewData, OnlyGoes
<1> QED BY <1>1, <1>2, <1>3, <1>4 DEF Next

\* The invariant is inductive, failures and crashes included.
LEMMA NextWhole == StructInv /\ OwnInv /\ WholeInv /\ [Next]_vars => WholeInv'
<1> SUFFICES ASSUME StructInv, OwnInv, WholeInv, [Next]_vars, NEW d \in Calls
             PROVE  HandlerWhole(d)'
  BY DEF WholeInv
<1>1. HandlerWhole(d)
  BY DEF WholeInv
<1>2. CASE ClientStep(d) \/ ServerStep(d)
  BY <1>1, <1>2, WholeStep
<1>3. CASE Crash
  BY <1>3 DEF Crash, HandlerWhole
<1>4. CASE ~ClientStep(d) /\ ~ServerStep(d) /\ ~Crash
  BY <1>1, <1>4, StepOfAnother, WholeFrame
<1> QED BY <1>2, <1>3, <1>4

\* Of the handler's own steps only one acknowledges, and it writes nothing.
LEMMA AcknowledgingStep ==
  ASSUME TypeOK, NEW c \in Calls, ClientStep(c) \/ ServerStep(c), status'[c] = "OK"
  PROVE  \/ status[c] = "OK"
         \/ putAt[c] = "read" /\ UNCHANGED <<files, putBlob, total_size>>
<1>0. status \in [Calls -> Statuses]
  BY DEF TypeOK
<1>a. ASSUME NEW code, Answer(c, code) PROVE code = "OK"
  BY <1>0, <1>a DEF Answer
<1>g. ASSUME NEW place, GoTo(c, place) PROVE status[c] = "OK"
  BY <1>g DEF GoTo
<1>1. CASE PutEnds(c)
  BY <1>1 DEF PutEnds, At, Answer, sessionVars
<1>2. CASE ClientStep(c) /\ ~PutEnds(c)
  BY <1>2, <1>a, <1>g DEF ClientStep, PutRejected, PutNoSession, PutAccepted, PutStarts,
     PutReserves, PutRefused, PutNotChunk, PutTagThrows, PutMismatches, PutMismatchThrows
<1>3. CASE ServerStep(c)
  BY <1>3, <1>a, <1>g DEF ServerStep, PutCreates, PutOpens, PutOpenFails, PutWrites, PutGivesBack,
     PutSkips, PutUnlinks, PutUnlinkThrows
<1> QED BY <1>1, <1>2, <1>3

\* An upload becomes short in its own last step, after a write that failed.
LEMMA ShortStep ==
  ASSUME StructInv, OwnInv, WholeInv, [Next]_vars, NEW c \in Calls, ~Short(c), Short(c)'
  PROVE  ~writable[c]
<1>1. status'[c] = "OK" /\ files'[UploadPath(putBlob'[c])] \notin {NoFile, total_size'[c]}
  BY DEF Short, UploadPath
<1>2. CASE ClientStep(c) \/ ServerStep(c)
  <2>1. putAt[c] = "read" /\ UNCHANGED <<files, putBlob, total_size>>
    BY <1>1, <1>2, AcknowledgingStep, DoneIsDone DEF StructInv, OwnInv, HandlerOwns
  <2> QED BY <1>1, <2>1 DEF WholeInv, HandlerWhole
<1>3. CASE Crash
  BY <1>1, <1>3 DEF Crash
<1>4. CASE ~ClientStep(c) /\ ~ServerStep(c) /\ ~Crash
  <2>1. SameHandler(c) /\ (putBlob[c] \in BlobIds => NoNewData(putBlob[c]))
    BY <1>4, StepOfAnother
  <2> QED BY <1>1, <2>1 DEF Short, SameHandler, NoNewData, OnlyGoes, OwnInv, HandlerOwns
<1> QED BY <1>2, <1>3, <1>4

\* An acknowledged upload is short of bytes only when a write of its own failed;
\* neither another handler, nor the host, nor any other failure makes it so.
THEOREM ShortOnlyByItself == Spec => ShortOnlyByFailedWrite
<1>1. Init => StructInv /\ OwnInv /\ WholeInv
  BY InitStruct, InitOwn, InitWhole
<1>2. StructInv /\ OwnInv /\ WholeInv /\ [Next]_vars => (StructInv /\ OwnInv /\ WholeInv)'
  BY NextStruct, NextOwn, NextWhole
<1>3. StructInv /\ OwnInv /\ WholeInv /\ [Next]_vars =>
        [\A c \in Calls : ~Short(c) /\ Short(c)' => ~writable[c]]_vars
  BY ShortStep
<1> QED BY <1>1, <1>2, <1>3, PTL DEF Spec, ShortOnlyByFailedWrite

\* On a file system that works an acknowledged upload is on disk with all its
\* bytes until the host removes or moves it: no other upload, no refusal and no
\* restart leaves a part of it, for any number of handlers and sessions.
THEOREM AcknowledgedWhole ==
  ASSUME ~FsFails
  PROVE  Spec => []AcknowledgedIsComplete
<1>1. Init => StructInv /\ OwnInv /\ WholeInv
  BY InitStruct, InitOwn, InitWhole
<1>2. StructInv /\ OwnInv /\ WholeInv /\ [Next]_vars => (StructInv /\ OwnInv /\ WholeInv)'
  BY NextStruct, NextOwn, NextWhole
<1>3. WholeInv => AcknowledgedIsComplete
  BY DEF WholeInv, HandlerWhole, AcknowledgedIsComplete
<1> QED BY <1>1, <1>2, <1>3, PTL DEF Spec

-----------------------------------------------------------------------------
(* References: the invariant. *)

\* A reference of the process with key k.
GivenUnder(r, k) ==
    /\ r.blob \in BlobIds
    /\ r.tag = <<k, r.blob, r.session>>

\* Every reference was given under a key that has been drawn.
KeyInv ==
    /\ hmac_secret_key_ \in Nat
    /\ \A r \in references : \E k \in Nat : k <= hmac_secret_key_ /\ GivenUnder(r, k)

\* The blob of r is settled, and what is left of its file and of its entry is
\* what its handler left.
Unchanged(r) ==
    /\ Settled(r.blob)
    /\ files[UploadPath(r.blob)] \in {NoFile, r.length}
    /\ \A s \in Sessions : r.blob \in blobs_[s] =>
          s = r.session /\ entry_path[r.blob] = UploadPath(r.blob)

\* So it is for the references of the living process.
LivingInv == running =>
    \A r \in references : GivenUnder(r, hmac_secret_key_) => Unchanged(r)

ReferenceInv == StructInv /\ FileInv /\ OwnInv /\ KeyInv /\ LivingInv

\* The first process has issued nothing, and no client holds a reference.
LEMMA InitReference == RefInit => ReferenceInv
<1> SUFFICES ASSUME RefInit PROVE ReferenceInv
  OBVIOUS
<1>1. StructInv /\ FileInv /\ OwnInv
  BY InitStruct, InitFile, InitOwn DEF RefInit
<1>2. KeyInv /\ LivingInv
  BY DEF RefInit, Init, SessionInit, KeyInv, LivingInv
<1> QED BY <1>1, <1>2 DEF ReferenceInv

-----------------------------------------------------------------------------
(* References: the steps. *)

\* A call that is acknowledged in this step ends its stream of chunks.
LEMMA AcknowledgedEnds ==
  ASSUME StructInv, [Next]_vars, NEW c \in Calls, Acknowledged(c)
  PROVE  PutEnds(c)
<1>0. TypeOK /\ status[c] # "OK" /\ status'[c] = "OK"
  BY DEF StructInv, Acknowledged
<1>1. ASSUME NEW h \in Hosts, HostStep(h), UNCHANGED <<putVars, crashes>> PROVE FALSE
  BY <1>0, <1>1 DEF putVars
<1>2. (Construct \/ ConstructFails) /\ UNCHANGED <<putVars, crashes>> => FALSE
  BY <1>0 DEF putVars
<1>3. Crash => FALSE
  BY <1>0 DEF Crash
<1>4. UNCHANGED vars => FALSE
  BY <1>0 DEF vars, putVars
<1>5. PICK d \in Calls : ClientStep(d) \/ ServerStep(d)
  BY <1>1, <1>2, <1>3, <1>4 DEF Next
<1>6. d = c
  BY <1>0, <1>5, HandlerAlone DEF SameHandler
<1>a. ASSUME NEW code, code # "OK", Answer(c, code) PROVE FALSE
  BY <1>0, <1>a DEF Answer, TypeOK
<1>g. ASSUME NEW place, GoTo(c, place) PROVE FALSE
  BY <1>0, <1>g DEF GoTo
<1>7. ASSUME ClientStep(c) PROVE PutEnds(c)
  BY <1>7, <1>a, <1>g DEF ClientStep, PutRejected, PutNoSession, PutAccepted, PutStarts, PutReserves,
     PutRefused, PutNotChunk, PutTagThrows, PutMismatches, PutMismatchThrows
<1>8. ~ServerStep(c)
  BY <1>a, <1>g DEF ServerStep, PutCreates, PutOpens, PutOpenFails, PutWrites, PutGivesBack, PutSkips,
     PutUnlinks, PutUnlinkThrows
<1> QED BY <1>5, <1>6, <1>7, <1>8

\* Its reference is one under the key of the process, and nobody will write to
\* its file again.
LEMMA NewReference ==
  ASSUME ReferenceInv, [Next]_vars, NEW c \in Calls, Acknowledged(c), NEW r, r = Reference(c)
  PROVE  /\ running /\ running'
         /\ GivenUnder(r, hmac_secret_key_)
         /\ Unchanged(r)'
<1>1. PutEnds(c)
  BY AcknowledgedEnds DEF ReferenceInv
<1>2. /\ running /\ running' /\ putAt[c] = "read" /\ Answer(c, "OK")
      /\ UNCHANGED <<blob_id_, blobs_, entry_path, files>>
  BY <1>1 DEF PutEnds, At, sessionVars, entryVars
<1>3. /\ putAt'[c] = "done" /\ putBlob' = putBlob
      /\ \A d \in Calls \ {c} : putAt'[d] = putAt[d]
  BY <1>2 DEF Answer, ReferenceInv, StructInv, TypeOK
<1>4. putBlob[c] \in BlobIds /\ putBlob[c] # NoBlob /\ putBlob[c] <= blob_id_
  BY <1>2 DEF ReferenceInv, StructInv, PlaceInv, IdInv, BlobIds, NoBlob
<1>5. GivenUnder(r, hmac_secret_key_)
  BY <1>4 DEF GivenUnder, Reference, generate_reference_tag
<1>6. \A d \in Calls : putBlob[d] = putBlob[c] => d = c
  BY <1>4 DEF ReferenceInv, StructInv, IdInv, EntryOnce
<1>7. \A s \in Sessions : putBlob[c] \in blobs_[s] =>
        s = putSession[c] /\ entry_path[putBlob[c]] = UploadPath(putBlob[c])
  BY <1>2 DEF ReferenceInv, OwnInv, HandlerOwns, FileInv
<1>8. /\ r.blob = putBlob[c] /\ r.session = putSession[c]
      /\ r.length = files[UploadPath(putBlob[c])]
  BY DEF Reference
<1>9. Settled(r.blob)'
  BY <1>2, <1>3, <1>4, <1>6, <1>8 DEF Settled
<1>10. files'[UploadPath(r.blob)] = r.length
  BY <1>2, <1>8
<1>11. \A s \in Sessions : r.blob \in blobs_'[s] =>
         s = r.session /\ entry_path'[r.blob] = UploadPath(r.blob)
  BY <1>2, <1>7, <1>8
<1> QED BY <1>2, <1>5, <1>9, <1>10, <1>11 DEF Unchanged, UploadPath

\* The references of the living process stay what they are.
LEMMA OldReference ==
  ASSUME ReferenceInv, [Next]_vars, running, running', NEW r, r.blob \in BlobIds, Unchanged(r)
  PROVE  Unchanged(r)'
<1>1. Settled(r.blob)' /\ NoNewData(r.blob) /\ NoNewEntry(r.blob)
  BY SettledStep DEF ReferenceInv, Unchanged
<1> QED BY <1>1 DEF Unchanged, NoNewData, OnlyGoes, NoNewEntry, UploadPath

\* The invariant is inductive.
LEMMA NextReference == ReferenceInv /\ [RefNext]_refVars => ReferenceInv'
<1> SUFFICES ASSUME ReferenceInv, [RefNext]_refVars PROVE ReferenceInv'
  OBVIOUS
<1>1. [Next]_vars
  BY DEF RefNext, refVars
<1>2. (StructInv /\ FileInv /\ OwnInv)'
  BY <1>1, NextStruct, NextFile, NextOwn DEF ReferenceInv
<1>3. CASE UNCHANGED refVars
  BY <1>2, <1>3 DEF refVars, vars, putVars, sessionVars, entryVars, ReferenceInv, KeyInv, LivingInv,
     Unchanged, Settled
<1>4. CASE RefNext
  <2>1. /\ hmac_secret_key_ \in Nat
        /\ hmac_secret_key_' \in {hmac_secret_key_, hmac_secret_key_ + 1}
        /\ running /\ running' => hmac_secret_key_' = hmac_secret_key_
        /\ ~running /\ running' => hmac_secret_key_' = hmac_secret_key_ + 1
    BY <1>4 DEF RefNext, DrawsKey, RandomKey, ReferenceInv, KeyInv
  <2>2. \A r \in references' \ references : \E c \in Calls : Acknowledged(c) /\ r = Reference(c)
    BY <1>4 DEF RefNext, HandsOut
  <2>3. ASSUME NEW r \in references', r \notin references
        PROVE  running /\ running' /\ GivenUnder(r, hmac_secret_key_) /\ Unchanged(r)'
    BY <1>1, <2>2, <2>3, NewReference
  <2>4. KeyInv'
    <3>1. SUFFICES ASSUME NEW r \in references'
                   PROVE  \E k \in Nat : k <= hmac_secret_key_' /\ GivenUnder(r, k)
      BY <2>1 DEF KeyInv, GivenUnder
    <3>2. PICK k \in Nat : k <= hmac_secret_key_ /\ GivenUnder(r, k)
      BY <2>1, <2>3 DEF ReferenceInv, KeyInv
    <3> QED BY <2>1, <3>2
  <2>5. LivingInv'
    <3>1. SUFFICES ASSUME running', NEW r \in references', GivenUnder(r, hmac_secret_key_')
                   PROVE  Unchanged(r)'
      BY DEF LivingInv, GivenUnder
    <3>2. CASE r \notin references
      BY <2>3, <3>2
    <3>3. CASE r \in references /\ running
      BY <1>1, <2>1, <3>1, <3>3, OldReference DEF ReferenceInv, LivingInv, GivenUnder
    <3>4. CASE r \in references /\ ~running
      <4>1. PICK k \in Nat : k <= hmac_secret_key_ /\ GivenUnder(r, k)
        BY <3>4 DEF ReferenceInv, KeyInv
      <4>2. k = hmac_secret_key_'
        BY <3>1, <4>1 DEF GivenUnder
      <4> QED BY <2>1, <3>1, <3>4, <4>1, <4>2
    <3> QED BY <3>2, <3>3, <3>4
  <2> QED BY <1>2, <2>4, <2>5 DEF ReferenceInv
<1> QED BY <1>3, <1>4

\* A reference that the host accepts stands for the upload that it was given for,
\* for any number of processes, sessions and handlers, failures included: the
\* path that find() has is the file of the store with the length it then had,
\* or the file is gone.
THEOREM ReferencesHold == RefSpec => []AcceptedIsWhole
<1>1. ReferenceInv => AcceptedIsWhole
  <2>1. SUFFICES ASSUME ReferenceInv, running, NEW r \in references, NEW s \in Sessions,
                        Accepts(s, r)
                 PROVE  /\ r.session = s
                        /\ entry_path[r.blob] = UploadPath(r.blob)
                        /\ files[entry_path[r.blob]] \in {NoFile, r.length}
    BY DEF AcceptedIsWhole
  <2>2. PICK k \in Nat : GivenUnder(r, k)
    BY <2>1 DEF ReferenceInv, KeyInv
  <2>3. GivenUnder(r, hmac_secret_key_)
    BY <2>1, <2>2 DEF Accepts, GivenUnder, generate_reference_tag
  <2>4. Unchanged(r)
    BY <2>1, <2>3 DEF ReferenceInv, LivingInv
  <2> QED BY <2>1, <2>4 DEF Accepts, Unchanged
<1> QED BY <1>1, InitReference, NextReference, PTL DEF RefSpec

\* An unlink that fails leaves the entry, whose bytes were given back.
LEMMA EntryLeft ==
  ASSUME StructInv, FailedUnlink
  PROVE  \E t \in Threads :
            /\ deleting[t] # NoBlob /\ deleting'[t] = NoBlob
            /\ \E s \in Sessions : deleting[t] \in blobs_'[s]
<1>1. PICK t \in Threads : UnlinkThrows(t, ThreadSession(t))
  BY ThreadsAssumption DEF FailedUnlink, HostUnlinkThrows, PutUnlinkThrows, Threads, ThreadSession
<1>2. deleting[t] # NoBlob /\ deleting'[t] = NoBlob /\ blobs_' = blobs_
  BY <1>1 DEF UnlinkThrows, Unlock, StructInv, TypeOK, SessionTypeOK
<1>3. ThreadSession(t) \in Sessions /\ deleting[t] \in blobs_[ThreadSession(t)]
  BY <1>2, DeletingSession DEF StructInv, LockInv
<1> QED BY <1>2, <1>3

\* Of all failures and interleavings, only an unlink that fails after its bytes
\* were given back (SI:75) makes the counter fall short of the entries.
THEOREM ShortOnlySo == RefSpec => ShortOnlyByFailedUnlink
<1>1. ReferenceInv /\ [RefNext]_refVars => [NeverUndercounted /\ ~NeverUndercounted' =>
        \E t \in Threads :
            /\ deleting[t] # NoBlob /\ deleting'[t] = NoBlob
            /\ \E s \in Sessions : deleting[t] \in blobs_'[s]]_refVars
  <2>1. ASSUME ReferenceInv, [RefNext]_refVars, NeverUndercounted, ~NeverUndercounted'
        PROVE  FailedUnlink
    <3>1. StructInv /\ [Next]_vars
      BY <2>1 DEF ReferenceInv, RefNext, refVars
    <3> QED BY <2>1, <3>1, CountStep
  <2> QED BY <2>1, EntryLeft DEF ReferenceInv
<1> QED BY <1>1, InitReference, NextReference, PTL DEF RefSpec, ShortOnlyByFailedUnlink

-----------------------------------------------------------------------------
(* The life of a blob: the invariant. *)

\* An entry has the path of its id, or one of the host.
PathInv == \A b \in BlobIds :
    entry_path[b] = UploadPath(b) \/ \E f \in HostFiles : entry_path[b] = HostPath(f)

\* Sessions that are still to be created have no entries and no handlers.
FreshInv ==
    /\ \A s \in Sessions : s > session_id_ => blobs_[s] = {}
    /\ \A c \in Calls : putSession[c] \in Sessions => putSession[c] <= session_id_

\* A handler takes its id with create_blob_file and makes the file after it.
OpenInv == \A c \in Calls :
    /\ putAt[c] \in {"start", "create"} => putBlob[c] = NoBlob
    /\ putAt[c] = "open" => files[UploadPath(putBlob[c])] = NoFile

\* What the mapping needs besides StructInv, FileInv and OwnInv: ids are
\* forgotten with the process.
LifeInv ==
    /\ PathInv /\ FreshInv /\ OpenInv
    /\ ~running => blob_id_ = 0

\* No session, no entry and no handler under way.
LEMMA InitLifeInv == Init => LifeInv
BY MaxSessionsAssumption, NoSessionAssumption
   DEF Init, SessionInit, ManagerInit, PutInit, LifeInv, PathInv, FreshInv, OpenInv, Sessions

\* The steps of a host thread keep it.
LEMMA HostLifeInv ==
  ASSUME StructInv, LifeInv, NEW h \in Hosts, HostStep(h), UNCHANGED putVars
  PROVE  LifeInv'
<1>0. /\ blobs_ \in [Sessions -> SUBSET BlobIds]
      /\ session_id_ \in Nat /\ blob_sessions_ \subseteq 1..session_id_
      /\ blob_id_ \in Nat
      /\ entry_path \in [BlobIds -> Paths]
  BY DEF StructInv, TypeOK, SessionTypeOK, ManagerTypeOK
<1>1. running' /\ UNCHANGED <<putAt, putSession, putBlob>>
  <2>1. CASE Calls # {}
    BY <2>1, HostAlone DEF StructInv, putVars
  <2> QED BY DEF HostStep, HostContinues, HostCreates, HostAdds, HostMovesFile, HostRemoves,
     HostDisposes, HostStarts, MayUse, HostGivesBack, HostSkips, HostUnlinks, HostUnlinkThrows,
     HostRemoved, HostErases, sessionVars, putVars
<1>2. OpenInv'
  <2>1. ASSUME NEW c \in Calls, putAt[c] = "open" PROVE files'[UploadPath(putBlob[c])] = NoFile
    <3>1. UploadPath(putBlob[c]) \in Paths
      BY <2>1, UploadPathOK DEF StructInv, PlaceInv
    <3> QED BY <2>1, <3>1, HostChanges DEF OnlyGoes, LifeInv, OpenInv
  <2> QED BY <1>1, <2>1 DEF LifeInv, OpenInv, UploadPath
<1>f. ASSUME UNCHANGED <<session_id_, entry_path>>, \A s \in Sessions : blobs_'[s] \subseteq blobs_[s]
      PROVE  LifeInv'
  BY <1>1, <1>2, <1>f DEF LifeInv, PathInv, FreshInv, UploadPath, HostPath
<1>3. ASSUME NEW t, HostCreates(h, t) PROVE LifeInv'
  <2>1. session_id_' = session_id_ + 1 /\ UNCHANGED <<blobs_, entry_path>>
    BY <1>3 DEF HostCreates, CreateSession, NextSessionId, sessionVars, entryVars
  <2>2. FreshInv'
    BY <1>0, <1>1, <2>1 DEF LifeInv, FreshInv, Sessions
  <2> QED BY <1>1, <1>2, <2>1, <2>2 DEF LifeInv, PathInv, UploadPath, HostPath
<1>4. ASSUME NEW s \in Sessions, NEW f \in HostFiles, HostAdds(h, s, f) PROVE LifeInv'
  <2>1. s <= session_id_ /\ session_id_' = session_id_
    <3>1. HasSession(s) /\ UNCHANGED managerVars
      BY <1>4 DEF HostAdds, MayUse
    <3> QED BY <1>0, <3>1 DEF HasSession, managerVars
  <2>2. CASE AddEntry(s, HostPath(f))
    <3>1. PathInv'
      BY <1>0, <2>2 DEF AddEntry, Emplace, LifeInv, PathInv, UploadPath, HostPath
    <3>2. \A r \in Sessions : r # s => blobs_'[r] = blobs_[r]
      BY <1>0, <2>2 DEF AddEntry, Emplace
    <3>3. FreshInv'
      BY <1>0, <1>1, <2>1, <3>2 DEF LifeInv, FreshInv, Sessions
    <3> QED BY <1>1, <1>2, <3>1, <3>3 DEF LifeInv
  <2>3. CASE UNCHANGED <<blobs_, entry_path, entry_size>>
    BY <1>f, <2>1, <2>3
  <2> QED BY <1>4, <2>2, <2>3 DEF HostAdds
<1>5. ASSUME NEW s, NEW a, HostMovesFile(h, s, a) PROVE LifeInv'
  BY <1>5, <1>f DEF HostMovesFile, managerVars, entryVars
<1>6. ASSUME NEW s, NEW ids, HostRemoves(h, s, ids) PROVE LifeInv'
  BY <1>6, <1>f DEF HostRemoves, HostStarts, managerVars, entryVars
<1>7. ASSUME NEW s, HostDisposes(h, s) PROVE LifeInv'
  BY <1>7, <1>f DEF HostDisposes, HostStarts, managerVars, entryVars
<1>8. CASE HostGivesBack(h)
  BY <1>8, <1>f DEF HostGivesBack, managerVars, entryVars
<1>9. CASE HostSkips(h)
  BY <1>9, <1>f DEF HostSkips, managerVars, entryVars
<1>10. CASE HostUnlinks(h)
  BY <1>0, <1>10, <1>f DEF HostUnlinks, UnlinkAndErase, EraseEntry, managerVars
<1>11. CASE HostUnlinkThrows(h)
  BY <1>11, <1>f DEF HostUnlinkThrows, UnlinkThrows, managerVars
<1>12. CASE HostRemoved(h)
  BY <1>12, <1>f DEF HostRemoved, managerVars, entryVars
<1>13. CASE HostErases(h)
  BY <1>13, <1>f DEF HostErases, EraseSession, entryVars
<1> QED BY <1>3, <1>4, <1>5, <1>6, <1>7, <1>8, <1>9, <1>10, <1>11, <1>12, <1>13
       DEF HostStep, HostContinues

\* Most steps of a handler leave ids alone and lead to a place past the opening.
LEMMA HandlerPlace ==
  ASSUME StructInv, NEW c \in Calls, ClientStep(c) \/ ServerStep(c), ~PutCreates(c),
         ~\E s \in Sessions, size \in Declared \cup {NoSize} : PutAccepted(c, s, size)
  PROVE  /\ putAt'[c] \notin {"start", "create", "open"}
         /\ putSession'[c] \in {putSession[c], NoSession}
         /\ UNCHANGED <<blob_id_, entry_path, putBlob>>
         /\ \A s \in Sessions : blobs_'[s] \subseteq blobs_[s]
<1>0. /\ putAt \in [Calls -> Places]
      /\ putSession \in [Calls -> Sessions \cup {NoSession}]
      /\ blobs_ \in [Sessions -> SUBSET BlobIds]
  BY DEF StructInv, TypeOK, SessionTypeOK
<1> DEFINE Goal == /\ putAt'[c] \notin {"start", "create", "open"}
                   /\ putSession'[c] \in {putSession[c], NoSession}
                   /\ UNCHANGED <<blob_id_, entry_path, putBlob>>
                   /\ \A s \in Sessions : blobs_'[s] \subseteq blobs_[s]
<1>a. ASSUME NEW code, Answer(c, code), UNCHANGED <<blob_id_, entry_path>>,
             \A s \in Sessions : blobs_'[s] \subseteq blobs_[s]
      PROVE  Goal
  BY <1>0, <1>a DEF Answer
<1>g. ASSUME NEW place, GoTo(c, place), place \notin {"start", "create", "open"},
             UNCHANGED <<blob_id_, blobs_, entry_path, putBlob, putSession>>
      PROVE  Goal
  BY <1>0, <1>g DEF GoTo
<1>1. CASE PutRejected(c)
  BY <1>1, <1>a DEF PutRejected, sessionVars, entryVars
<1>2. ASSUME NEW s, PutNoSession(c, s) PROVE Goal
  BY <1>2, <1>a DEF PutNoSession, sessionVars, entryVars
<1>4. ASSUME NEW n, PutReserves(c, n) PROVE Goal
  BY <1>4, <1>a, <1>g DEF PutReserves
<1>5. ASSUME NEW n, PutRefused(c, n) PROVE Goal
  BY <1>5, <1>g DEF PutRefused, sessionVars, entryVars
<1>6. CASE PutNotChunk(c)
  BY <1>6, <1>a DEF PutNotChunk, sessionVars, entryVars
<1>7. CASE PutEnds(c)
  BY <1>7, <1>a DEF PutEnds, sessionVars, entryVars
<1>8. CASE PutTagThrows(c)
  BY <1>8, <1>a DEF PutTagThrows, sessionVars, entryVars
<1>9. CASE PutMismatches(c)
  BY <1>9, <1>a DEF PutMismatches, entryVars
<1>10. CASE PutMismatchThrows(c)
  BY <1>10, <1>a DEF PutMismatchThrows, sessionVars, entryVars
<1>12. CASE PutOpens(c)
  BY <1>12, <1>g DEF PutOpens, locals, entryVars
<1>13. CASE PutOpenFails(c)
  BY <1>13, <1>a DEF PutOpenFails, sessionVars, entryVars
<1>14. CASE PutWrites(c)
  BY <1>14, <1>g DEF PutWrites, entryVars
<1>15. CASE PutGivesBack(c)
  BY <1>15, <1>g DEF PutGivesBack, locals, entryVars
<1>16. CASE PutSkips(c)
  BY <1>16, <1>a DEF PutSkips, sessionVars, entryVars
<1>17. CASE PutUnlinks(c)
  BY <1>0, <1>17, <1>a DEF PutUnlinks, UnlinkAndErase, EraseEntry
<1>18. CASE PutUnlinkThrows(c)
  BY <1>18, <1>a DEF PutUnlinkThrows, UnlinkThrows
<1> QED BY <1>1, <1>2, <1>4, <1>5, <1>6, <1>7, <1>8, <1>9, <1>10, <1>12, <1>13,
           <1>14, <1>15, <1>16, <1>17, <1>18 DEF ClientStep, ServerStep

\* The steps of a handler keep it.
LEMMA HandlerLifeInv ==
  ASSUME StructInv, FileInv, LifeInv, NEW c \in Calls, ClientStep(c) \/ ServerStep(c)
  PROVE  LifeInv'
<1>0. /\ blobs_ \in [Sessions -> SUBSET BlobIds]
      /\ session_id_ \in Nat /\ blob_sessions_ \subseteq 1..session_id_
      /\ blob_id_ \in Nat /\ blob_id_ \in 0..MaxBlobs
      /\ entry_path \in [BlobIds -> Paths]
      /\ putAt \in [Calls -> Places]
      /\ putSession \in [Calls -> Sessions \cup {NoSession}]
      /\ putBlob \in [Calls -> BlobIds \cup {NoBlob}]
  BY DEF StructInv, TypeOK, SessionTypeOK, ManagerTypeOK
<1>1. running' /\ session_id_' = session_id_
  BY DEF ClientStep, ServerStep, PutRejected, PutNoSession, PutAccepted, PutStarts, PutReserves,
     PutRefused, PutNotChunk, PutEnds, PutTagThrows, PutMismatches, PutMismatchThrows, PutCreates,
     PutOpens, PutOpenFails, PutWrites, PutGivesBack, PutSkips, PutUnlinks, PutUnlinkThrows, At,
     managerVars, sessionVars
<1>2. ASSUME NEW d \in Calls, d # c
      PROVE  /\ putAt'[d] \in {"start", "create"} => putBlob'[d] = NoBlob
             /\ putAt'[d] = "open" => files'[UploadPath(putBlob'[d])] = NoFile
             /\ putSession'[d] = putSession[d]
  <2>1. SameHandler(d)
    BY <1>2, HandlerAlone DEF StructInv
  <2>2. ASSUME putAt[d] = "open" PROVE files'[UploadPath(putBlob[d])] = NoFile
    <3>1. putBlob[d] \in BlobIds /\ putBlob[d] # putBlob[c]
      BY <1>2, <2>2 DEF StructInv, PlaceInv, IdInv, EntryOnce, BlobIds, NoBlob
    <3> QED BY <2>2, <3>1, HandlerData DEF NoNewData, OnlyGoes, LifeInv, OpenInv
  <2> QED BY <2>1, <2>2 DEF SameHandler, LifeInv, OpenInv
<1>3. ASSUME putAt'[c] \in {"start", "create"} => putBlob'[c] = NoBlob,
             putAt'[c] = "open" => files'[UploadPath(putBlob'[c])] = NoFile,
             putSession'[c] \in Sessions => putSession'[c] <= session_id_,
             \A s \in Sessions : s > session_id_ => blobs_'[s] = {},
             PathInv'
      PROVE  LifeInv'
  BY <1>1, <1>2, <1>3 DEF LifeInv, FreshInv, OpenInv, UploadPath
<1>4. CASE PutCreates(c)
  <2>1. /\ putAt[c] = "create" /\ GoTo(c, "open") /\ blob_id_ < MaxBlobs
        /\ AddEntry(putSession[c], UploadPath(blob_id_'))
        /\ putBlob' = [putBlob EXCEPT ![c] = blob_id_'] /\ UNCHANGED <<files, putSession>>
    BY <1>4 DEF PutCreates, At
  <2>2. putSession[c] \in Sessions /\ putSession[c] <= session_id_ /\ putSession[c] \in Nat
    BY <2>1 DEF StructInv, PlaceInv, LifeInv, FreshInv, Sessions
  <2>3. blob_id_' = blob_id_ + 1 /\ blob_id_' \in BlobIds /\ running
    BY <1>0, <1>4, <2>1, BlobsAssumption DEF AddEntry, BlobIds, PutCreates, At
  <2>4. files'[UploadPath(blob_id_')] = NoFile
    BY <1>0, <2>1, <2>3 DEF FileInv, CleanStart
  <2>5. \A s \in Sessions : s > session_id_ => blobs_'[s] = {}
    <3>1. \A s \in Sessions : s # putSession[c] => blobs_'[s] = blobs_[s]
      BY <1>0, <2>1 DEF AddEntry, Emplace
    <3> QED BY <1>0, <2>2, <3>1 DEF LifeInv, FreshInv, Sessions
  <2>6. PathInv'
    <3>1. entry_path' = [entry_path EXCEPT ![blob_id_'] = UploadPath(blob_id_')]
      BY <2>1 DEF AddEntry, Emplace
    <3> QED BY <1>0, <2>3, <3>1 DEF LifeInv, PathInv, UploadPath, HostPath
  <2>7. putAt'[c] = "open" /\ putBlob'[c] = blob_id_'
    BY <1>0, <2>1 DEF GoTo
  <2> QED BY <1>3, <2>1, <2>2, <2>4, <2>5, <2>6, <2>7
<1>5. ASSUME NEW s \in Sessions, NEW size, PutAccepted(c, s, size) PROVE LifeInv'
  <2>1. /\ putAt'[c] = "create" /\ putBlob'[c] = NoBlob /\ putSession'[c] = s
        /\ s <= session_id_ /\ UNCHANGED <<blobs_, entry_path>>
    BY <1>0, <1>5 DEF PutAccepted, PutStarts, At, GoTo, HasSession, sessionVars, entryVars, LifeInv,
       OpenInv
  <2>2. PathInv'
    BY <2>1 DEF LifeInv, PathInv, UploadPath, HostPath
  <2> QED BY <1>3, <2>1, <2>2 DEF LifeInv, FreshInv
<1>6. CASE /\ ~PutCreates(c)
           /\ ~\E s \in Sessions, size \in Declared \cup {NoSize} : PutAccepted(c, s, size)
  <2>1. /\ putAt'[c] \notin {"start", "create", "open"}
        /\ putSession'[c] \in {putSession[c], NoSession}
        /\ UNCHANGED <<blob_id_, entry_path, putBlob>>
        /\ \A s \in Sessions : blobs_'[s] \subseteq blobs_[s]
    BY <1>6, HandlerPlace
  <2>2. PathInv'
    BY <2>1 DEF LifeInv, PathInv, UploadPath, HostPath
  <2>3. putSession'[c] \in Sessions => putSession'[c] <= session_id_
    BY <2>1, NoSessionAssumption DEF LifeInv, FreshInv, Sessions
  <2> QED BY <1>3, <2>1, <2>2, <2>3 DEF LifeInv, FreshInv
<1> QED BY <1>4, <1>5, <1>6

\* The invariant is inductive.
LEMMA NextLifeInv == StructInv /\ FileInv /\ LifeInv /\ [Next]_vars => LifeInv'
<1> SUFFICES ASSUME StructInv, FileInv, LifeInv, [Next]_vars PROVE LifeInv'
  OBVIOUS
<1>1. CASE Crash
  <2>1. PathInv' /\ OpenInv' /\ ~running' /\ blob_id_' = 0
    BY <1>1 DEF Crash, Forget, PathInv, OpenInv
  <2>2. FreshInv'
    BY <1>1, NoSessionAssumption DEF Crash, Forget, FreshInv, Sessions
  <2> QED BY <2>1, <2>2 DEF LifeInv
<1>2. CASE (Construct \/ ConstructFails) /\ UNCHANGED <<putVars, crashes>>
  <2>1. UNCHANGED <<session_id_, blob_id_, blobs_, entry_path, putAt, putBlob, putSession>>
    BY <1>2 DEF Construct, ConstructFails, managerVars, entryVars, putVars
  <2>2. ASSUME NEW c \in Calls, putAt[c] = "open" PROVE files'[UploadPath(putBlob[c])] = NoFile
    <3>1. putBlob[c] \in BlobIds
      BY <2>2 DEF StructInv, PlaceInv
    <3> QED BY <1>2, <2>2, <3>1, ConstructData DEF NoNewData, OnlyGoes, LifeInv, OpenInv, StructInv
  <2>3. ~running /\ (~running' => blob_id_' = 0)
    BY <1>2, <2>1 DEF Construct, ConstructFails, LifeInv
  <2> QED BY <2>1, <2>2, <2>3 DEF LifeInv, PathInv, FreshInv, OpenInv, UploadPath, HostPath
<1>3. CASE UNCHANGED vars
  BY <1>3 DEF vars, managerVars, sessionVars, entryVars, putVars, LifeInv, PathInv, FreshInv,
     OpenInv, UploadPath, HostPath
<1> QED BY <1>1, <1>2, <1>3, HostLifeInv, HandlerLifeInv DEF Next

-----------------------------------------------------------------------------
(* The life of a blob, part by part. *)

\* The conditions that Kept and Phase are made of.
Live(b) == \E s \in blob_sessions_ : b \in blobs_[s]
Opening(b) == \E c \in Calls : putBlob[c] = b /\ putAt[c] = "open"
Receiving(b) == \E c \in Calls : putBlob[c] = b /\ putAt[c] # "done"
Unacknowledged(b) == \E c \in Calls : putBlob[c] = b /\ status[c] # "OK"
Data(b) == IF files[entry_path[b]] = NoFile THEN 0 ELSE files[entry_path[b]]

\* Phase and Length of one blob.
PhaseIs(b) ==
    /\ Kept(b) <=> Live(b) /\ (files[entry_path[b]] # NoFile \/ Opening(b))
    /\ b > blob_id_ => Phase[b] = "unissued" /\ Length[b] = 0
    /\ ~(b > blob_id_) /\ ~Kept(b) => Phase[b] = "gone" /\ Length[b] = 0
    /\ ~(b > blob_id_) /\ Kept(b) =>
          /\ Phase[b] = IF Receiving(b) THEN "receiving"
                        ELSE IF Unacknowledged(b) THEN "partial" ELSE "stored"
          /\ Length[b] = Data(b)

\* The refinement mapping, in those terms.
LEMMA PhaseOf == \A b \in BlobIds : PhaseIs(b)
BY DEF PhaseIs, Phase, Length, Kept, Live, Opening, Receiving, Unacknowledged, Data

\* The same of the next state.
LEMMA PhaseOfNext == \A b \in BlobIds : PhaseIs(b)'
<1>1. (\A b \in BlobIds : PhaseIs(b))'
  BY PhaseOf, PTL
<1> QED BY <1>1 DEF BlobIds

\* What a step does to one blob: nothing, or it goes.
SameLife(b) == Phase'[b] = Phase[b] /\ Length'[b] = Length[b]
Goes(b) == Phase'[b] = "gone" /\ Length'[b] = 0

\* Phases and lengths are functions on the ids.
LEMMA MappingType ==
  /\ Phase = [b \in BlobIds |-> Phase[b]] /\ Phase' = [b \in BlobIds |-> Phase'[b]]
  /\ Length = [b \in BlobIds |-> Length[b]] /\ Length' = [b \in BlobIds |-> Length'[b]]
BY DEF Phase, Length

\* A step that leaves some blobs as they are, and of the others nothing.
LEMMA GoneStep ==
  ASSUME blob_id_' = blob_id_,
         \A b \in BlobIds : ~(b > blob_id_) => SameLife(b) \/ Goes(b)
  PROVE  Life!LifeNext
<1> DEFINE B == {b \in BlobIds : ~(b > blob_id_) /\ Goes(b)}
<1>1. \A b \in BlobIds : b \in B => Phase'[b] = "gone" /\ Length'[b] = 0 /\ Phase[b] # "unissued"
  BY PhaseOf DEF Goes, PhaseIs
<1>2. \A b \in BlobIds : b \notin B => Phase'[b] = Phase[b] /\ Length'[b] = Length[b]
  BY PhaseOf, PhaseOfNext DEF SameLife, PhaseIs
<1>3. B \subseteq BlobIds
  OBVIOUS
<1> HIDE DEF B
<1>4. Phase' = [b \in BlobIds |-> IF b \in B THEN "gone" ELSE Phase[b]]
  <2>1. \A b \in BlobIds : Phase'[b] = IF b \in B THEN "gone" ELSE Phase[b]
    BY <1>1, <1>2
  <2> HIDE DEF Phase
  <2> QED BY <2>1, MappingType
<1>5. Length' = [b \in BlobIds |-> IF b \in B THEN 0 ELSE Length[b]]
  <2>1. \A b \in BlobIds : Length'[b] = IF b \in B THEN 0 ELSE Length[b]
    BY <1>1, <1>2
  <2> QED BY <2>1, MappingType
<1>6. Life!Lose(B)
  BY <1>1, <1>3, <1>4, <1>5 DEF Life!Lose, Life!Ids, BlobIds
<1>7. B \in SUBSET Life!Ids
  BY <1>3 DEF Life!Ids, BlobIds
<1> QED BY <1>6, <1>7 DEF Life!LifeNext

\* A step that changes one blob only changes one value of each function.
LEMMA OneBlob ==
  ASSUME NEW b \in BlobIds, \A a \in BlobIds \ {b} : SameLife(a)
  PROVE  /\ Phase' = [Phase EXCEPT ![b] = Phase'[b]]
         /\ Length' = [Length EXCEPT ![b] = Length'[b]]
         /\ Phase'[b] = Phase[b] => Phase' = Phase
         /\ Length'[b] = Length[b] => Length' = Length
<1>1. \A a \in BlobIds \ {b} : Phase'[a] = Phase[a] /\ Length'[a] = Length[a]
  BY DEF SameLife
<1> QED BY <1>1, MappingType

\* An id is issued.
LEMMA IssueStep ==
  ASSUME NEW b \in BlobIds, b = blob_id_ + 1, blob_id_' = b,
         \A a \in BlobIds \ {b} : SameLife(a),
         \/ Phase'[b] = "stored" /\ Length'[b] \in Nat
         \/ Phase'[b] \in {"receiving", "gone"} /\ Length'[b] = 0
  PROVE  Life!LifeNext
<1>1. Life!Issue(b)
  BY OneBlob DEF Life!Issue
<1> QED BY <1>1 DEF Life!LifeNext, Life!Ids, BlobIds

\* A handler writes.
LEMMA ReceiveStep ==
  ASSUME NEW b \in BlobIds, blob_id_' = blob_id_, \A a \in BlobIds \ {b} : SameLife(a),
         Phase[b] = "receiving", Phase'[b] = Phase[b],
         Length'[b] \in Nat, Length'[b] >= Length[b]
  PROVE  Life!LifeNext
<1>1. Life!Receive(b)
  BY OneBlob DEF Life!Receive
<1> QED BY <1>1 DEF Life!LifeNext, Life!Ids, BlobIds

\* A handler answers.
LEMMA FinishStep ==
  ASSUME NEW b \in BlobIds, blob_id_' = blob_id_, \A a \in BlobIds \ {b} : SameLife(a),
         Phase[b] = "receiving", Phase'[b] \in {"stored", "partial"}, Length'[b] = Length[b]
  PROVE  Life!LifeNext
<1>1. Life!Finish(b)
  BY OneBlob DEF Life!Finish
<1> QED BY <1>1 DEF Life!LifeNext, Life!Ids, BlobIds

-----------------------------------------------------------------------------
(* The steps of the host. *)

\* A blob whose data and calls are as they were stays, or goes.
LEMMA StaysOrGoes ==
  ASSUME NEW b \in BlobIds, ~(b > blob_id_), ~(b > blob_id_'),
         Kept(b)' => /\ Kept(b)
                     /\ Receiving(b)' <=> Receiving(b)
                     /\ Unacknowledged(b)' <=> Unacknowledged(b)
                     /\ Data(b)' = Data(b)
  PROVE  SameLife(b) \/ Goes(b)
BY PhaseOf, PhaseOfNext DEF PhaseIs, SameLife, Goes

\* A session that the host creates is a new one.
LEMMA HostSessions ==
  ASSUME NEW h \in Hosts, HostStep(h)
  PROVE  blob_sessions_' \subseteq blob_sessions_ \cup {session_id_ + 1}
BY DEF HostStep, HostContinues, HostCreates, CreateSession, NextSessionId, HostAdds, HostMovesFile,
   HostRemoves, HostDisposes, HostStarts, HostGivesBack, HostSkips, HostUnlinks, HostUnlinkThrows,
   HostRemoved, HostErases, EraseSession, managerVars

\* The invariant under which steps are looked at.
LifeStepInv == StructInv /\ FileInv /\ OwnInv /\ LifeInv

\* The host makes blobs go, or leaves them as they are.
LEMMA HostGoes ==
  ASSUME LifeStepInv, LifeStepInv', NEW h \in Hosts, HostStep(h), UNCHANGED putVars,
         NEW b \in BlobIds, ~(b > blob_id_), ~(b > blob_id_')
  PROVE  SameLife(b) \/ Goes(b)
<1>t. TypeOK
  BY DEF LifeStepInv, StructInv
<1>s. /\ session_id_ \in Nat /\ blob_sessions_ \subseteq 1..session_id_
      /\ blob_sessions_ \subseteq Sessions
  BY <1>t, MaxSessionsAssumption DEF TypeOK, SessionTypeOK, ManagerTypeOK, Sessions
<1>0. b # blob_id_ + 1 /\ entry_path[b] \in Paths
  <2>1. entry_path[b] \in Paths
    BY <1>t DEF TypeOK, SessionTypeOK
  <2>2. blob_id_ \in Nat /\ b \in Nat
    BY <1>t DEF TypeOK, SessionTypeOK, BlobIds
  <2> QED BY <2>1, <2>2
<1>1. NoNewEntry(b) /\ OnlyGoes(entry_path[b]) /\ entry_path'[b] = entry_path[b]
  BY <1>0, HostChanges DEF LifeStepInv, NoNewEntry
<1>2. blob_sessions_' \subseteq Sessions
  BY MaxSessionsAssumption
     DEF LifeStepInv, StructInv, TypeOK, SessionTypeOK, ManagerTypeOK, Sessions
<1>3. Live(b)' => Live(b)
  <2>1. SUFFICES ASSUME NEW s \in blob_sessions_', b \in blobs_'[s] PROVE s \in blob_sessions_
    BY <1>1, <1>2 DEF Live, NoNewEntry
  <2>2. s \in Sessions /\ b \in blobs_[s] /\ s # session_id_ + 1
    BY <1>s, <1>1, <1>2, <2>1 DEF NoNewEntry, LifeStepInv, LifeInv, FreshInv, Sessions
  <2> QED BY <2>1, <2>2, HostSessions
<1>4. /\ Opening(b)' <=> Opening(b)
      /\ Receiving(b)' <=> Receiving(b)
      /\ Unacknowledged(b)' <=> Unacknowledged(b)
  BY DEF putVars, Opening, Receiving, Unacknowledged
<1>5. Live(b) /\ Opening(b) => files[entry_path[b]] = NoFile
  BY <1>s DEF Live, Opening, LifeStepInv, FileInv, LifeInv, OpenInv
<1>6. Kept(b)' => Kept(b) /\ Data(b)' = Data(b)
  BY <1>1, <1>3, <1>4, <1>5, PhaseOf, PhaseOfNext DEF PhaseIs, OnlyGoes, Data
<1> QED BY <1>4, <1>6, StaysOrGoes

\* Its steps are steps of BlobLife.
LEMMA HostLife ==
  ASSUME LifeStepInv, LifeStepInv', NEW h \in Hosts, HostStep(h), UNCHANGED <<putVars, crashes>>
  PROVE  Life!LifeNext
<1>0. blob_id_ \in Nat /\ blob_id_' \in Nat /\ BlobIds \subseteq Nat
  BY DEF LifeStepInv, StructInv, TypeOK, SessionTypeOK, BlobIds
<1>1. CASE blob_id_' = blob_id_
  BY <1>1, HostGoes, GoneStep
<1>2. CASE blob_id_' # blob_id_
  <2>1. PICK s \in Sessions, f \in HostFiles : HostAdds(h, s, f)
    BY <1>2 DEF HostStep, HostContinues, HostCreates, HostMovesFile, HostRemoves, HostDisposes,
       HostStarts, HostGivesBack, HostSkips, HostUnlinks, HostUnlinkThrows, HostRemoved,
       HostErases, sessionVars, entryVars
  <2>2. /\ blob_id_' = blob_id_ + 1 /\ blob_id_ < MaxBlobs
        /\ UNCHANGED <<files, blob_sessions_, putAt, putBlob, status>>
    BY <2>1 DEF HostAdds, AddEntry, managerVars, putVars
  <2>3. PICK b \in BlobIds : b = blob_id_ + 1
    BY <1>0, <2>2, BlobsAssumption DEF BlobIds
  <2>4. \A c \in Calls : putBlob[c] # b
    BY <1>0, <2>3 DEF LifeStepInv, StructInv, IdInv
  <2>5. ~Receiving(b)' /\ ~Unacknowledged(b)' /\ Data(b)' \in Nat
    <3>1. entry_path'[b] \in Paths /\ files' \in [Paths -> Nat \cup {NoFile}]
      BY <2>3 DEF LifeStepInv, StructInv, TypeOK, SessionTypeOK
    <3>2. Data(b)' \in Nat
      BY <1>0, <2>2, <3>1 DEF Data
    <3> QED BY <2>2, <2>4, <3>2 DEF Receiving, Unacknowledged
  <2>6. \/ Phase'[b] = "stored" /\ Length'[b] \in Nat
        \/ Phase'[b] = "gone" /\ Length'[b] = 0
    BY <1>0, <2>2, <2>3, <2>5, PhaseOfNext DEF PhaseIs
  <2>7. ASSUME NEW a \in BlobIds, a # b PROVE SameLife(a)
    <3>1. CASE a > blob_id_
      BY <1>0, <2>2, <2>3, <2>7, <3>1, PhaseOf, PhaseOfNext DEF PhaseIs, SameLife
    <3>2. CASE ~(a > blob_id_)
      <4>1. /\ entry_path'[a] = entry_path[a]
            /\ \A r \in Sessions : a \in blobs_'[r] <=> a \in blobs_[r]
        <5>1. CASE AddEntry(s, HostPath(f))
          BY <2>3, <2>7, <5>1 DEF AddEntry, Emplace, LifeStepInv, StructInv, TypeOK, SessionTypeOK
        <5> QED BY <2>1, <5>1 DEF HostAdds
      <4>2. blob_sessions_ \subseteq Sessions
        BY MaxSessionsAssumption
           DEF LifeStepInv, StructInv, TypeOK, SessionTypeOK, ManagerTypeOK, Sessions
      <4>3. /\ Live(a)' <=> Live(a)
            /\ Opening(a)' <=> Opening(a)
            /\ Receiving(a)' <=> Receiving(a)
            /\ Unacknowledged(a)' <=> Unacknowledged(a)
            /\ Data(a)' = Data(a)
            /\ files'[entry_path'[a]] = files[entry_path[a]]
        BY <2>2, <4>1, <4>2 DEF Live, Opening, Receiving, Unacknowledged, Data
      <4>4. ~(a > blob_id_')
        BY <1>0, <2>2, <3>2
      <4> QED BY <3>2, <4>3, <4>4, PhaseOf, PhaseOfNext DEF PhaseIs, SameLife
    <3> QED BY <3>1, <3>2
  <2> QED BY <2>2, <2>3, <2>6, <2>7, IssueStep
<1> QED BY <1>1, <1>2

-----------------------------------------------------------------------------
(* The steps of a handler, for the blobs of others. *)

\* An entry that is given to the deleting thread belongs to its handler.
LEMMA HandlerDeletesOwn ==
  ASSUME LifeStepInv, NEW c \in Calls, deleting[c] # NoBlob
  PROVE  /\ deleting[c] = putBlob[c] /\ putBlob[c] \in BlobIds
         /\ entry_path[putBlob[c]] = UploadPath(putBlob[c])
<1>1. deleting[c] = putBlob[c] /\ putAt[c] = "unlink"
  BY DEF LifeStepInv, OwnInv, HandlerOwns, StructInv, PlaceInv
<1>2. putSession[c] \in Sessions /\ putBlob[c] \in BlobIds
  BY <1>1 DEF LifeStepInv, StructInv, PlaceInv
<1>3. putBlob[c] \in blobs_[putSession[c]]
  BY <1>1, ThreadsAssumption DEF LifeStepInv, StructInv, LockInv, ThreadSession, Threads
<1> QED BY <1>1, <1>2, <1>3 DEF LifeStepInv, FileInv

\* A handler changes no file but its own, not even by a deletion.
LEMMA HandlerOwnFile ==
  ASSUME LifeStepInv, NEW c \in Calls, ClientStep(c) \/ ServerStep(c),
         NEW p \in Paths, p # UploadPath(putBlob[c])
  PROVE  files'[p] = files[p]
<1>0. files \in [Paths -> Nat \cup {NoFile}]
  BY DEF LifeStepInv, StructInv, TypeOK, SessionTypeOK
<1>1. CASE PutMismatches(c)
  BY <1>0, <1>1 DEF PutMismatches, Unlink
<1>2. CASE PutUnlinks(c)
  BY <1>0, <1>2, HandlerDeletesOwn DEF PutUnlinks, UnlinkAndErase, Unlink
<1>3. CASE PutOpens(c)
  BY <1>0, <1>3 DEF PutOpens
<1>4. CASE PutWrites(c)
  <2>1. PICK n \in Nat : PartWritten(c, n)
    BY <1>4, WriteReaches DEF LifeStepInv, StructInv
  <2> QED BY <1>0, <2>1 DEF PartWritten
<1>5. ASSUME ClientStep(c), ~PutMismatches(c) PROVE files' = files
  BY <1>5 DEF ClientStep, PutRejected, PutNoSession, PutAccepted, PutStarts, PutReserves, PutRefused,
     PutNotChunk, PutEnds, PutTagThrows, PutMismatchThrows, sessionVars
<1>6. ASSUME ServerStep(c), ~PutUnlinks(c), ~PutOpens(c), ~PutWrites(c) PROVE files' = files
  BY <1>6 DEF ServerStep, PutCreates, PutOpenFails, PutGivesBack, PutSkips, PutUnlinkThrows,
     sessionVars
<1> QED BY <1>1, <1>2, <1>3, <1>4, <1>5, <1>6

\* A blob whose parts are as they were is as it was.
LEMMA SameParts ==
  ASSUME NEW b \in BlobIds, ~(b > blob_id_), ~(b > blob_id_'),
         Live(b)' <=> Live(b),
         Opening(b)' <=> Opening(b),
         Receiving(b)' <=> Receiving(b),
         Unacknowledged(b)' <=> Unacknowledged(b),
         files'[entry_path'[b]] = files[entry_path[b]]
  PROVE  SameLife(b)
BY PhaseOf, PhaseOfNext DEF PhaseIs, SameLife, Data

\* The steps of a handler leave the blobs of others as they are.
LEMMA HandlerOthers ==
  ASSUME LifeStepInv, LifeStepInv', NEW c \in Calls, ClientStep(c) \/ ServerStep(c),
         NEW b \in BlobIds, b # putBlob[c], ~(b > blob_id_), ~(b > blob_id_')
  PROVE  SameLife(b)
<1>t. TypeOK
  BY DEF LifeStepInv, StructInv
<1>0. entry_path[b] \in Paths
  BY <1>t DEF TypeOK, SessionTypeOK
<1>1. blob_id_ \in Nat /\ b \in Nat /\ b # blob_id_ + 1 /\ b # NoBlob
  BY <1>t DEF TypeOK, SessionTypeOK, BlobIds, NoBlob
<1>2. UNCHANGED blob_sessions_ /\ blob_sessions_ \subseteq Sessions
  <2>1. UNCHANGED managerVars
    BY DEF ClientStep, ServerStep, PutRejected, PutNoSession, PutAccepted, PutStarts, PutReserves,
       PutRefused, PutNotChunk, PutEnds, PutTagThrows, PutMismatches, PutMismatchThrows, PutCreates,
       PutOpens, PutOpenFails, PutWrites, PutGivesBack, PutSkips, PutUnlinks, PutUnlinkThrows
  <2> QED BY <1>t, <2>1, MaxSessionsAssumption
          DEF managerVars, TypeOK, SessionTypeOK, ManagerTypeOK, Sessions
<1>3. NoNewEntry(b)
  BY <1>1, HandlerData DEF LifeStepInv
<1>4. \A s \in Sessions : b \in blobs_'[s] <=> b \in blobs_[s]
  <2>1. ASSUME NEW s \in Sessions, b \in blobs_[s], b \notin blobs_'[s] PROVE FALSE
    <3>1. deleting[c] = b
      BY <1>t, <2>1, HandlerTakes
    <3> QED BY <1>1, <3>1, HandlerDeletesOwn
  <2> QED BY <1>3, <2>1 DEF NoNewEntry
<1>5. Live(b)' <=> Live(b)
  BY <1>2, <1>4 DEF Live
<1>6. entry_path'[b] = entry_path[b] /\ files'[entry_path[b]] = files[entry_path[b]]
  <2>1. entry_path[b] # UploadPath(putBlob[c])
    BY DEF LifeStepInv, LifeInv, PathInv, UploadPath, HostPath
  <2> QED BY <1>0, <1>3, <2>1, HandlerOwnFile DEF NoNewEntry
<1>7. putBlob'[c] # b
  BY <1>t, <1>1, BlobOfHandler
<1>8. \A d \in Calls : d # c => SameHandler(d)
  BY <1>t, HandlerAlone
<1>9. /\ Opening(b)' <=> Opening(b)
      /\ Receiving(b)' <=> Receiving(b)
      /\ Unacknowledged(b)' <=> Unacknowledged(b)
  BY <1>7, <1>8 DEF SameHandler, Opening, Receiving, Unacknowledged
<1> QED BY <1>5, <1>6, <1>9, SameParts

-----------------------------------------------------------------------------
(* The steps of a handler, for its own blob. *)

\* While there is an entry, the life of the blob can be read off its file and
\* its handler.
LivesBy(c) ==
    LET length == files[UploadPath(putBlob[c])] IN
    /\ Live(putBlob[c]) /\ (length # NoFile \/ putAt[c] = "open") =>
          Phase[putBlob[c]] = IF putAt[c] # "done" THEN "receiving"
                              ELSE IF status[c] # "OK" THEN "partial" ELSE "stored"
    /\ Live(putBlob[c]) /\ length # NoFile => Length[putBlob[c]] = length
    /\ ~Live(putBlob[c]) \/ length = NoFile => Length[putBlob[c]] = 0
    /\ ~Live(putBlob[c]) \/ (length = NoFile /\ putAt[c] # "open") => Phase[putBlob[c]] = "gone"

\* It can, for every handler that has an id.
LEMMA OwnLife == LifeStepInv => \A c \in Calls : putBlob[c] \in BlobIds => LivesBy(c)
<1> SUFFICES ASSUME LifeStepInv, NEW c \in Calls, putBlob[c] \in BlobIds PROVE LivesBy(c)
  OBVIOUS
<1>1. ~(putBlob[c] > blob_id_) /\ putBlob[c] # NoBlob /\ blob_sessions_ \subseteq Sessions
  <2>1. putBlob[c] <= blob_id_ /\ blob_id_ \in Nat /\ putBlob[c] \in Nat
    BY DEF LifeStepInv, StructInv, IdInv, TypeOK, SessionTypeOK, BlobIds
  <2>2. blob_sessions_ \subseteq Sessions
    BY MaxSessionsAssumption DEF LifeStepInv, StructInv, TypeOK, SessionTypeOK, ManagerTypeOK, Sessions
  <2> QED BY <2>1, <2>2 DEF BlobIds, NoBlob
<1>2. \A d \in Calls : putBlob[d] = putBlob[c] => d = c
  BY <1>1 DEF LifeStepInv, StructInv, IdInv, EntryOnce
<1>3. /\ Opening(putBlob[c]) <=> putAt[c] = "open"
      /\ Receiving(putBlob[c]) <=> putAt[c] # "done"
      /\ Unacknowledged(putBlob[c]) <=> status[c] # "OK"
  BY <1>2 DEF Opening, Receiving, Unacknowledged
<1>4. Live(putBlob[c]) => entry_path[putBlob[c]] = UploadPath(putBlob[c])
  BY <1>1 DEF Live, LifeStepInv, FileInv
<1> QED BY <1>1, <1>3, <1>4, PhaseOf DEF LivesBy, PhaseIs, Data

\* The same of the next state.
LEMMA OwnLifeNext == LifeStepInv' => \A c \in Calls : putBlob'[c] \in BlobIds => LivesBy(c)'
<1>1. (LifeStepInv => \A c \in Calls : putBlob[c] \in BlobIds => LivesBy(c))'
  BY OwnLife, PTL
<1> QED BY <1>1 DEF BlobIds

\* create_blob_file issues the id; the blob is then received, or gone already
\* when the session is.
LEMMA CreateLife ==
  ASSUME LifeStepInv, LifeStepInv', NEW c \in Calls, PutCreates(c)
  PROVE  Life!LifeNext
<1>t. TypeOK
  BY DEF LifeStepInv, StructInv
<1>1. /\ blob_id_' = blob_id_ + 1 /\ blob_id_ < MaxBlobs /\ putAt[c] = "create"
      /\ GoTo(c, "open") /\ putBlob' = [putBlob EXCEPT ![c] = blob_id_'] /\ UNCHANGED files
  BY DEF PutCreates, At, AddEntry
<1>2. PICK b \in BlobIds : b = blob_id_ + 1
  BY <1>t, <1>1, BlobsAssumption DEF TypeOK, SessionTypeOK, BlobIds
<1>3. putAt'[c] = "open" /\ putBlob'[c] = b
  BY <1>t, <1>1, <1>2 DEF GoTo, TypeOK
<1>4. LivesBy(c)'
  BY <1>3, OwnLifeNext
<1>5. files'[UploadPath(b)] = NoFile
  BY <1>3 DEF LifeStepInv, LifeInv, OpenInv
<1>6. Phase'[b] \in {"receiving", "gone"} /\ Length'[b] = 0
  BY <1>3, <1>4, <1>5 DEF LivesBy, UploadPath
<1>7. ASSUME NEW a \in BlobIds, a # b PROVE SameLife(a)
  <2>1. blob_id_ \in Nat /\ a \in Nat
    BY <1>t DEF TypeOK, SessionTypeOK, BlobIds
  <2>2. CASE a > blob_id_
    BY <1>1, <1>2, <1>7, <2>1, <2>2, PhaseOf, PhaseOfNext DEF PhaseIs, SameLife
  <2>3. CASE ~(a > blob_id_)
    <3>1. a # putBlob[c]
      BY <1>1 DEF LifeStepInv, LifeInv, OpenInv, NoBlob, BlobIds
    <3>2. ~(a > blob_id_')
      BY <1>1, <2>1, <2>3
    <3> QED BY <2>3, <3>1, <3>2, HandlerOthers DEF ServerStep
  <2> QED BY <2>2, <2>3
<1> QED BY <1>1, <1>2, <1>6, <1>7, IssueStep

\* The other steps: the own blob of the handler stays as it is or goes, or
\* grows, or its upload ends.
LEMMA OwnStepLife ==
  ASSUME LifeStepInv, LifeStepInv', NEW c \in Calls, ClientStep(c) \/ ServerStep(c), ~PutCreates(c),
         putBlob[c] \in BlobIds, putBlob' = putBlob, blob_id_' = blob_id_,
         LivesBy(c), LivesBy(c)',
         Live(putBlob[c])' => Live(putBlob[c])
  PROVE  LET b == putBlob[c] IN
         \/ SameLife(b)
         \/ Goes(b)
         \/ /\ Phase[b] = "receiving" /\ Phase'[b] = Phase[b]
            /\ Length'[b] \in Nat /\ Length'[b] >= Length[b]
         \/ /\ Phase[b] = "receiving" /\ Phase'[b] \in {"stored", "partial"}
            /\ Length'[b] = Length[b]
<1>t. /\ putAt \in [Calls -> Places]
      /\ files \in [Paths -> Nat \cup {NoFile}]
      /\ files' \in [Paths -> Nat \cup {NoFile}]
      /\ chunk \in [Calls -> Nat]
      /\ blobs_ \in [Sessions -> SUBSET BlobIds]
  BY DEF LifeStepInv, StructInv, TypeOK, SessionTypeOK
<1> DEFINE b == putBlob[c]
           F == files[UploadPath(b)]
           Grows == /\ Phase[b] = "receiving" /\ Phase'[b] = Phase[b]
                    /\ Length'[b] \in Nat /\ Length'[b] >= Length[b]
           Ends == /\ Phase[b] = "receiving" /\ Phase'[b] \in {"stored", "partial"}
                   /\ Length'[b] = Length[b]
           Goal == SameLife(b) \/ Goes(b) \/ Grows \/ Ends
<1>0. UploadPath(b) \in Paths /\ F \in Nat \cup {NoFile}
  BY <1>t, UploadPathOK
<1>b. b' = b /\ UploadPath(b)' = UploadPath(b) /\ F' = files'[UploadPath(b)]
  BY DEF UploadPath
<1>s. UNCHANGED blob_sessions_
  <2>1. UNCHANGED managerVars
    BY DEF ClientStep, ServerStep, PutRejected, PutNoSession, PutAccepted, PutStarts, PutReserves,
       PutRefused, PutNotChunk, PutEnds, PutTagThrows, PutMismatches, PutMismatchThrows,
       PutOpens, PutOpenFails, PutWrites, PutGivesBack, PutSkips, PutUnlinks, PutUnlinkThrows
  <2> QED BY <2>1 DEF managerVars
\* The handler goes on, or answers, and entries and files are as they were.
<1>g. ASSUME UNCHANGED <<blobs_, files>>, putAt[c] \notin {"open", "done"},
             putAt'[c] \notin {"open", "done"}
      PROVE  SameLife(b)
  <2>1. Live(b)' <=> Live(b)
    BY <1>b, <1>g, <1>s DEF Live
  <2> QED BY <1>b, <1>g, <2>1 DEF LivesBy, SameLife
<1>a. ASSUME NEW code, Answer(c, code), UNCHANGED <<blobs_, files>>, putAt[c] \notin {"open", "done"}
      PROVE  SameLife(b) \/ Ends
  <2>1. Live(b)' <=> Live(b)
    BY <1>b, <1>a, <1>s DEF Live
  <2>2. putAt'[c] = "done"
    BY <1>t, <1>a DEF Answer
  <2> QED BY <1>b, <1>a, <2>1, <2>2 DEF LivesBy, SameLife
\* The entry, or the file and with it the last step of the handler, is gone.
<1>l. ASSUME ~Live(b)' \/ files'[UploadPath(b)] = NoFile, putAt'[c] # "open" PROVE Goes(b)
  BY <1>b, <1>l DEF LivesBy, Goes
<1>d. ASSUME putAt[c] = "start" PROVE FALSE
  BY <1>d DEF LifeStepInv, LifeInv, OpenInv, NoBlob, BlobIds
\* A session that has not the entry is no session at all for it.
<1>n. ASSUME putAt[c] \notin {"start", "create", "done"}, b \notin blobs_[putSession[c]]
      PROVE  ~Live(b)
  <2>1. blob_sessions_ \subseteq Sessions
    BY MaxSessionsAssumption DEF LifeStepInv, StructInv, TypeOK, SessionTypeOK, ManagerTypeOK, Sessions
  <2> QED BY <1>n, <2>1 DEF Live, LifeStepInv, OwnInv, HandlerOwns
<1>1. CASE PutRejected(c)
  BY <1>1, <1>d DEF PutRejected, At
<1>2. ASSUME NEW s, PutNoSession(c, s) PROVE Goal
  BY <1>2, <1>d DEF PutNoSession, At
<1>3. ASSUME NEW s, NEW size, PutAccepted(c, s, size) PROVE Goal
  BY <1>3, <1>d DEF PutAccepted, PutStarts, At
<1>4. ASSUME NEW n, PutReserves(c, n) PROVE Goal
  <2>1. putAt[c] = "read" /\ UNCHANGED <<blobs_, files>>
    BY <1>4 DEF PutReserves, At
  <2>2. CASE GoTo(c, "write")
    BY <1>t, <1>g, <2>1, <2>2 DEF GoTo
  <2>3. ASSUME NEW code, Answer(c, code) PROVE Goal
    BY <1>a, <2>1, <2>3
  <2> QED BY <1>4, <2>2, <2>3 DEF PutReserves
<1>5. ASSUME NEW n, PutRefused(c, n) PROVE Goal
  BY <1>t, <1>5, <1>g DEF PutRefused, At, GoTo, sessionVars, entryVars
<1>6. CASE PutNotChunk(c)
  BY <1>6, <1>a DEF PutNotChunk, At, sessionVars, entryVars
<1>7. CASE PutEnds(c)
  BY <1>7, <1>a DEF PutEnds, At, sessionVars, entryVars
<1>8. CASE PutTagThrows(c)
  BY <1>8, <1>a DEF PutTagThrows, At, sessionVars, entryVars
<1>9. CASE PutMismatches(c)
  <2>1. files'[UploadPath(b)] = NoFile
    BY <1>t, <1>0, <1>9 DEF PutMismatches, Unlink
  <2>2. putAt'[c] = "done"
    BY <1>t, <1>9 DEF PutMismatches, Answer
  <2> QED BY <1>l, <2>1, <2>2
<1>10. CASE PutMismatchThrows(c)
  BY <1>10, <1>a DEF PutMismatchThrows, At, sessionVars, entryVars
<1>12. CASE PutOpens(c)
  <2>1. /\ putAt[c] = "open" /\ putAt'[c] = "read" /\ UNCHANGED blobs_
        /\ files'[UploadPath(b)] = 0
    BY <1>t, <1>0, <1>12 DEF PutOpens, At, GoTo, entryVars
  <2>2. F = NoFile /\ 0 # NoFile
    BY <2>1, NoFileAssumption DEF LifeStepInv, LifeInv, OpenInv
  <2>3. Live(b)' <=> Live(b)
    BY <1>b, <1>s, <2>1 DEF Live
  <2> QED BY <1>b, <2>1, <2>2, <2>3 DEF LivesBy, SameLife
<1>13. CASE PutOpenFails(c)
  <2>1. putAt[c] = "open" /\ putAt'[c] = "done" /\ files' = files
    BY <1>t, <1>13 DEF PutOpenFails, At, Answer, sessionVars
  <2>2. files'[UploadPath(b)] = NoFile
    BY <2>1 DEF LifeStepInv, LifeInv, OpenInv
  <2> QED BY <1>l, <2>1, <2>2
<1>14. CASE PutWrites(c)
  <2>1. /\ putAt[c] = "write" /\ putAt'[c] = "read" /\ UNCHANGED blobs_
    BY <1>t, <1>14 DEF PutWrites, At, GoTo, entryVars
  <2>5. PICK n \in Nat : PartWritten(c, n)
    BY <1>14, WriteReaches DEF LifeStepInv, StructInv
  <2>2. Live(b)' <=> Live(b)
    BY <1>b, <1>s, <2>1 DEF Live
  <2>3. CASE files' = files
    BY <1>g, <2>1, <2>3
  <2>4. CASE F # NoFile /\ files' = [files EXCEPT ![UploadPath(b)] = F + n]
    <3>1. /\ F \in Nat /\ files'[UploadPath(b)] \in Nat /\ files'[UploadPath(b)] >= F
          /\ files'[UploadPath(b)] # NoFile
      BY <1>t, <1>0, <2>4, NoFileAssumption
    <3> QED BY <1>b, <2>1, <2>2, <2>4, <3>1 DEF LivesBy, SameLife
  <2> QED BY <2>3, <2>4, <2>5 DEF PartWritten
<1>15. CASE PutGivesBack(c)
  BY <1>t, <1>15, <1>g DEF PutGivesBack, At, GoTo, entryVars
<1>16. CASE PutSkips(c)
  BY <1>16, <1>a DEF PutSkips, At, sessionVars, entryVars
<1>17. CASE PutUnlinks(c)
  <2>1. /\ deleting[c] # NoBlob /\ Unlink(entry_path[deleting[c]]) /\ putAt'[c] = "done"
    BY <1>t, <1>17 DEF PutUnlinks, UnlinkAndErase, Answer
  <2>2. files'[UploadPath(b)] = NoFile
    BY <1>t, <1>0, <2>1, HandlerDeletesOwn DEF Unlink
  <2> QED BY <1>l, <2>1, <2>2
<1>18. CASE PutUnlinkThrows(c)
  BY <1>18, <1>a DEF PutUnlinkThrows, UnlinkThrows, At
<1>19. Goal
  BY <1>1, <1>2, <1>3, <1>4, <1>5, <1>6, <1>7, <1>8, <1>9, <1>10, <1>12, <1>13, <1>14, <1>15, <1>16,
     <1>17, <1>18 DEF ClientStep, ServerStep
<1> QED BY <1>19

\* The steps of a handler are steps of BlobLife.
LEMMA HandlerLife ==
  ASSUME LifeStepInv, LifeStepInv', NEW c \in Calls, ClientStep(c) \/ ServerStep(c)
  PROVE  Life!LifeNext
<1>t. /\ putBlob \in [Calls -> BlobIds \cup {NoBlob}]
      /\ blob_id_ \in Nat /\ blob_id_' \in Nat /\ BlobIds \subseteq Nat
  <2>1. TypeOK /\ TypeOK'
    BY DEF LifeStepInv, StructInv
  <2>2. blob_id_ \in Nat /\ putBlob \in [Calls -> BlobIds \cup {NoBlob}]
    BY <2>1 DEF TypeOK, SessionTypeOK
  <2>3. blob_id_' \in Nat
    BY <2>1 DEF TypeOK, SessionTypeOK
  <2> QED BY <2>2, <2>3 DEF BlobIds
<1>1. CASE PutCreates(c)
  BY <1>1, CreateLife
<1>2. CASE ~PutCreates(c) /\ blob_id_' = blob_id_ /\ putBlob' = putBlob
  <2>1. \A a \in BlobIds : a # putBlob[c] /\ ~(a > blob_id_) => SameLife(a)
    BY <1>2, HandlerOthers
  <2>2. \A a \in BlobIds : a > blob_id_ => SameLife(a)
    BY <1>2, PhaseOf, PhaseOfNext DEF PhaseIs, SameLife
  <2>3. CASE putBlob[c] \notin BlobIds
    BY <1>2, <2>1, <2>3, GoneStep
  <2>4. CASE putBlob[c] \in BlobIds
    <3>1. PICK b \in BlobIds : b = putBlob[c]
      BY <2>4
    <3>2. LivesBy(c) /\ LivesBy(c)'
      BY <1>2, <2>4, OwnLife, OwnLifeNext
    <3>3. Live(putBlob[c])' => Live(putBlob[c])
      <4>1. NoNewEntry(b)
        <5>1. b # blob_id_ + 1
          BY <1>t, <3>1 DEF LifeStepInv, StructInv, IdInv
        <5> QED BY <5>1, HandlerData DEF LifeStepInv
      <4>2. UNCHANGED blob_sessions_ /\ blob_sessions_ \subseteq Sessions
        <5>1. UNCHANGED managerVars
          BY DEF ClientStep, ServerStep, PutRejected, PutNoSession, PutAccepted, PutStarts,
             PutReserves, PutRefused, PutNotChunk, PutEnds, PutTagThrows, PutMismatches,
             PutMismatchThrows, PutCreates, PutOpens, PutOpenFails, PutWrites, PutGivesBack,
             PutSkips, PutUnlinks, PutUnlinkThrows
        <5> QED BY <5>1, MaxSessionsAssumption
                DEF managerVars, LifeStepInv, StructInv, TypeOK, SessionTypeOK, ManagerTypeOK,
                    Sessions
      <4> QED BY <1>2, <3>1, <4>1, <4>2 DEF Live, NoNewEntry
    <3>4. \/ SameLife(b) \/ Goes(b)
          \/ /\ Phase[b] = "receiving" /\ Phase'[b] = Phase[b]
             /\ Length'[b] \in Nat /\ Length'[b] >= Length[b]
          \/ /\ Phase[b] = "receiving" /\ Phase'[b] \in {"stored", "partial"}
             /\ Length'[b] = Length[b]
      BY <1>2, <2>4, <3>1, <3>2, <3>3, OwnStepLife
    <3>5. \A a \in BlobIds \ {b} : SameLife(a)
      BY <2>1, <2>2, <3>1
    <3> QED BY <1>2, <3>4, <3>5, GoneStep, ReceiveStep, FinishStep
  <2> QED BY <2>3, <2>4
<1>3. ~PutCreates(c) => blob_id_' = blob_id_ /\ putBlob' = putBlob
  <2>1. ASSUME NEW s \in Sessions, NEW size \in Declared \cup {NoSize}, PutAccepted(c, s, size)
        PROVE  blob_id_' = blob_id_ /\ putBlob' = putBlob
    BY <2>1 DEF PutAccepted, PutStarts, sessionVars, entryVars
  <2> QED BY <2>1, HandlerPlace DEF LifeStepInv
<1> QED BY <1>1, <1>2, <1>3

-----------------------------------------------------------------------------
(* The refinement. *)

\* Every step of the composition is a step of BlobLife or none.
LEMMA StepLife ==
  ASSUME LifeStepInv, LifeStepInv', [Next]_vars
  PROVE  [Life!LifeNext]_Life!lifeVars
<1>1. CASE Crash
  <2>1. blob_id_' = 0
    BY <1>1 DEF Crash, Forget
  <2>2. \A b \in BlobIds : Phase'[b] = "unissued" /\ Length'[b] = 0
    BY <2>1, PhaseOfNext DEF PhaseIs, BlobIds
  <2>3. Life!Restart
    BY <2>1, <2>2, MappingType DEF Life!Restart, Life!Ids, BlobIds
  <2> QED BY <2>3 DEF Life!LifeNext
<1>2. CASE (Construct \/ ConstructFails) /\ UNCHANGED <<putVars, crashes>>
  <2>1. blob_id_ = 0 /\ blob_id_' = 0
    BY <1>2 DEF Construct, ConstructFails, LifeStepInv, LifeInv, entryVars
  <2> QED BY <2>1, GoneStep DEF BlobIds
<1>3. CASE UNCHANGED vars
  <2>1. blob_id_' = blob_id_ /\ Phase' = Phase /\ Length' = Length
    BY <1>3 DEF vars, managerVars, sessionVars, entryVars, putVars, Phase, Length, Kept
  <2> QED BY <2>1 DEF Life!lifeVars
<1> QED BY <1>1, <1>2, <1>3, HostLife, HandlerLife DEF Next

\* The initial states are those of BlobLife.
LEMMA InitLife == Init => Life!LifeInit
<1> SUFFICES ASSUME Init PROVE Life!LifeInit
  OBVIOUS
<1>1. blob_id_ = 0
  BY DEF Init, SessionInit
<1>2. \A b \in BlobIds : Phase[b] = "unissued" /\ Length[b] = 0
  BY <1>1, PhaseOf DEF PhaseIs, BlobIds
<1> QED BY <1>1, <1>2, MappingType DEF Life!LifeInit, Life!Ids, BlobIds

\* StreamingPut implements BlobLife: ids are issued once and in order, the data
\* of a blob only grows while do_put receives it and is fixed after the answer,
\* and no blob comes back, for any number of handlers, host threads, blobs and
\* restarts, and with every failure of the file system.
THEOREM LifeRefinement == Spec => ImplementsBlobLife
<1>1. Init => LifeStepInv
  BY InitStruct, InitFile, InitOwn, InitLifeInv DEF LifeStepInv
<1>2. LifeStepInv /\ [Next]_vars => LifeStepInv'
  BY NextStruct, NextFile, NextOwn, NextLifeInv DEF LifeStepInv
<1>3. LifeStepInv /\ LifeStepInv' /\ [Next]_vars => [Life!LifeNext]_Life!lifeVars
  BY StepLife
<1> QED BY <1>1, <1>2, <1>3, InitLife, PTL DEF Spec, ImplementsBlobLife, Life!LifeSpec

-----------------------------------------------------------------------------
(* What a handler leaves alone. *)

\* The mutex of another session, and the entries made and erased in it.
LEMMA OtherSession ==
  ASSUME TypeOK, NEW c \in Calls, ClientStep(c) \/ ServerStep(c),
         NEW s \in Sessions, s # putSession[c]
  PROVE  blobs_'[s] = blobs_[s] /\ mtx_'[s] = mtx_[s]
<1>0. /\ blobs_ \in [Sessions -> SUBSET BlobIds]
      /\ mtx_ \in [Sessions -> Threads \cup {Unlocked}]
  BY DEF TypeOK, SessionTypeOK
<1>1. CASE PutCreates(c)
  BY <1>0, <1>1 DEF PutCreates, AddEntry, Emplace
<1>2. CASE PutGivesBack(c)
  BY <1>0, <1>2 DEF PutGivesBack, GiveBack, Lock, entryVars
<1>3. CASE PutUnlinks(c)
  BY <1>0, <1>3 DEF PutUnlinks, UnlinkAndErase, EraseEntry, Unlock
<1>4. CASE PutUnlinkThrows(c)
  BY <1>0, <1>4 DEF PutUnlinkThrows, UnlinkThrows, Unlock
<1>5. CASE ClientStep(c)
  BY <1>5 DEF ClientStep, PutRejected, PutNoSession, PutAccepted, PutStarts, PutReserves, PutRefused,
     PutNotChunk, PutEnds, PutTagThrows, PutMismatches, PutMismatchThrows, sessionVars, entryVars
<1>6. CASE PutOpens(c) \/ PutOpenFails(c) \/ PutWrites(c) \/ PutSkips(c)
  BY <1>6 DEF PutOpens, PutOpenFails, PutWrites, PutSkips, sessionVars, entryVars
<1> QED BY <1>1, <1>2, <1>3, <1>4, <1>5, <1>6 DEF ServerStep

\* The size of an entry is changed by its own handler, or set when it is made.
LEMMA OtherSize ==
  ASSUME LifeStepInv, NEW c \in Calls, ClientStep(c) \/ ServerStep(c),
         NEW b \in BlobIds, b # blob_id_ + 1, b # putBlob[c]
  PROVE  entry_size'[b] = entry_size[b]
<1>0. entry_size \in [BlobIds -> 0..Word - 1]
  BY DEF LifeStepInv, StructInv, TypeOK, SessionTypeOK
<1>1. CASE PutCreates(c)
  BY <1>0, <1>1 DEF PutCreates, AddEntry, Emplace
<1>2. ASSUME NEW n, PutReserves(c, n) PROVE entry_size'[b] = entry_size[b]
  BY <1>0, <1>2 DEF PutReserves, Credit
<1>3. CASE PutUnlinks(c)
  <2>1. deleting[c] = putBlob[c]
    BY <1>3, HandlerDeletesOwn DEF PutUnlinks, UnlinkAndErase
  <2> QED BY <1>0, <1>3, <2>1 DEF PutUnlinks, UnlinkAndErase, EraseEntry
<1>4. ASSUME ClientStep(c), \A n : ~PutReserves(c, n) PROVE UNCHANGED entry_size
  BY <1>4 DEF ClientStep, PutRejected, PutNoSession, PutAccepted, PutStarts, PutRefused, PutNotChunk,
     PutEnds, PutTagThrows, PutMismatches, PutMismatchThrows, sessionVars, entryVars
<1>5. ASSUME ServerStep(c), ~PutCreates(c), ~PutUnlinks(c) PROVE UNCHANGED entry_size
  BY <1>5 DEF ServerStep, PutOpens, PutOpenFails, PutWrites, PutGivesBack, PutSkips, PutUnlinkThrows,
     UnlinkThrows, sessionVars, entryVars
<1> QED BY <1>1, <1>2, <1>3, <1>4, <1>5

\* An entry of another blob stays as it is, and so does the file behind it.
LEMMA OtherEntry ==
  ASSUME LifeStepInv, NEW c \in Calls, ClientStep(c) \/ ServerStep(c),
         NEW s \in Sessions, NEW b \in blobs_[s], b # putBlob[c]
  PROVE  LeftAlone(s, {b})
<1>0. TypeOK /\ b \in BlobIds /\ entry_path[b] \in Paths
  BY DEF LifeStepInv, StructInv, TypeOK, SessionTypeOK
<1>1. b # blob_id_ + 1 /\ b # NoBlob
  <2>1. b <= blob_id_ /\ b \in Nat /\ blob_id_ \in Nat /\ b >= 1
    BY <1>0 DEF LifeStepInv, StructInv, IdInv, TypeOK, SessionTypeOK, BlobIds
  <2> QED BY <2>1 DEF NoBlob
<1>2. b \in blobs_'[s]
  <2>1. deleting[c] # b
    BY <1>1, HandlerDeletesOwn
  <2> QED BY <1>0, <2>1, HandlerTakes
<1>3. entry_path'[b] = entry_path[b] /\ entry_size'[b] = entry_size[b]
  BY <1>0, <1>1, OtherSize, HandlerData DEF LifeStepInv, NoNewEntry
<1>4. entry_path[b] # UploadPath(putBlob[c])
  BY <1>0 DEF LifeStepInv, LifeInv, PathInv, UploadPath, HostPath
<1> QED BY <1>0, <1>2, <1>3, <1>4, HandlerOwnFile DEF LeftAlone

\* A step of a handler, seen from a live session.
LEMMA ContainedStep ==
  ASSUME LifeStepInv, [Next]_vars, NEW c \in Calls, NEW s \in blob_sessions_,
         running', putAt'[c] # putAt[c]
  PROVE  IF s = putSession[c] THEN LeftAlone(s, blobs_[s] \ {putBlob[c]})
         ELSE /\ LeftAlone(s, blobs_[s])
              /\ blobs_'[s] = blobs_[s]
              /\ mtx_'[s] = mtx_[s]
<1>0. TypeOK /\ s \in Sessions
  BY MaxSessionsAssumption DEF LifeStepInv, StructInv, TypeOK, SessionTypeOK, ManagerTypeOK, Sessions
<1>1. ~Crash
  BY DEF Crash, Forget
<1>2. ClientStep(c) \/ ServerStep(c)
  BY <1>1, StepOfAnother DEF LifeStepInv, SameHandler
<1>3. \A b \in blobs_[s] : b # putBlob[c] => LeftAlone(s, {b})
  BY <1>0, <1>2, OtherEntry
<1>4. CASE s = putSession[c]
  BY <1>3, <1>4 DEF LeftAlone
<1>5. CASE s # putSession[c]
  <2>1. blobs_'[s] = blobs_[s] /\ mtx_'[s] = mtx_[s]
    BY <1>0, <1>2, <1>5, OtherSession
  <2>2. ASSUME putBlob[c] \in blobs_[s] PROVE LeftAlone(s, {putBlob[c]})
    <3>1. putAt[c] = "done"
      <4>1. putBlob[c] \in BlobIds /\ putBlob[c] # NoBlob
        BY <1>0, <2>2 DEF TypeOK, SessionTypeOK, BlobIds, NoBlob
      <4> QED BY <1>0, <1>5, <2>2, <4>1 DEF LifeStepInv, LifeInv, OpenInv, OwnInv, HandlerOwns
    <3> QED BY <1>2, <3>1, DoneIsDone
  <2> QED BY <1>3, <1>5, <2>1, <2>2 DEF LeftAlone
<1> QED BY <1>4, <1>5

\* Handlers do not disturb one another's sessions, nor other blobs of their own;
\* one that goes on with a session that was disposed of disturbs none, for any
\* number of sessions and handlers, with failures and crashes.
THEOREM HandlersContained == Spec => HandlerContained
<1>1. Init => LifeStepInv
  BY InitStruct, InitFile, InitOwn, InitLifeInv DEF LifeStepInv
<1>2. LifeStepInv /\ [Next]_vars => LifeStepInv'
  BY NextStruct, NextFile, NextOwn, NextLifeInv DEF LifeStepInv
<1>3. LifeStepInv /\ [Next]_vars => [\A c \in Calls, s \in blob_sessions_ :
        running' /\ putAt'[c] # putAt[c] =>
            IF s = putSession[c] THEN LeftAlone(s, blobs_[s] \ {putBlob[c]})
            ELSE /\ LeftAlone(s, blobs_[s])
                 /\ blobs_'[s] = blobs_[s]
                 /\ mtx_'[s] = mtx_[s]]_vars
  BY ContainedStep
<1> QED BY <1>1, <1>2, <1>3, PTL DEF Spec, HandlerContained
=============================================================================
