------------------------- MODULE OrderedHostProofs -------------------------
(***************************************************************************)
(* What a host gains that keeps uploads to a session apart from removals,  *)
(* disposal and moves in it (OrderedUse): no file and no counted byte      *)
(* without an entry in a live session, blobs lost only with their own      *)
(* file, nothing left by a refused upload, and a counter that is the bytes *)
(* of the entries, so that every refusal is justified.  All of it rests on *)
(* ApartInv: the session of a handler at work is in the registry, and no   *)
(* host thread is in it.                                                   *)
(***************************************************************************)
EXTENDS StoredBlobProofs

-----------------------------------------------------------------------------
(* The invariant. *)

\* A handler at work has a session, and has it for itself and other handlers.
ApartInv == \A c \in Calls : putAt[c] \notin {"start", "done"} =>
    /\ putSession[c] \in blob_sessions_
    /\ \A h \in Hosts : hostSession[h] # putSession[c]

\* Nobody takes its entry away.
KeepsInv == \A c \in Calls : putAt[c] \notin {"start", "create", "done"} =>
    putBlob[c] \in blobs_[putSession[c]]

\* A thread that disposes of a session has yet to delete all that is in it.
TodoInv == \A h \in Hosts : hostAt[h] = "disposing" => blobs_[hostSession[h]] \subseteq todo[h]

\* The entry of a file names that file.
FiledInv == running => \A b \in BlobIds : files[UploadPath(b)] # NoFile =>
    \E s \in blob_sessions_ : b \in blobs_[s] /\ entry_path[b] = UploadPath(b)

\* An entry with bytes is in a live session.
SizedInv == \A b \in BlobIds : entry_size[b] # 0 => \E s \in blob_sessions_ : b \in blobs_[s]

\* An upload that was refused had an id.
RefusedInv == \A c \in Calls : status[c] = "RESOURCE_EXHAUSTED" =>
    /\ putAt[c] = "done" /\ putBlob[c] \in BlobIds
    /\ files[UploadPath(putBlob[c])] = NoFile
    /\ \A s \in Sessions : putBlob[c] \notin blobs_[s]

\* All parts together: what the steps preserve.
OrderInv == ApartInv /\ KeepsInv /\ TodoInv /\ FiledInv /\ SizedInv /\ RefusedInv

\* No call has begun, and there is no process.
LEMMA InitOrder == Init => OrderInv
BY DEF Init, SessionInit, PutInit, OrderInv, ApartInv, KeepsInv, TodoInv, FiledInv, SizedInv,
   RefusedInv

\* What types say of the sessions and entries that the proofs speak of.
LEMMA OrderTypes ==
  ASSUME LifeStepInv
  PROVE  /\ TypeOK
         /\ blobs_ \in [Sessions -> SUBSET BlobIds]
         /\ blob_sessions_ \subseteq Sessions
         /\ session_id_ \in Nat /\ session_id_ + 1 \notin blob_sessions_
         /\ \A s \in Sessions : \A b \in blobs_[s] : b # blob_id_ + 1
         /\ \A c \in Calls : putBlob[c] # blob_id_ + 1
         /\ \A b \in BlobIds : b # NoBlob
<1>1. /\ blob_sessions_ \subseteq 1..session_id_ /\ session_id_ \in 0..MaxSessions
      /\ blob_id_ \in Nat /\ blobs_ \in [Sessions -> SUBSET BlobIds]
      /\ putBlob \in [Calls -> BlobIds \cup {NoBlob}]
      /\ TypeOK
  BY DEF LifeStepInv, StructInv, TypeOK, SessionTypeOK, ManagerTypeOK
<1>2. /\ blob_sessions_ \subseteq Sessions /\ session_id_ \in Nat
      /\ session_id_ + 1 \notin blob_sessions_
  BY <1>1, MaxSessionsAssumption DEF Sessions
<1>3. (\A b \in BlobIds : b \in Nat /\ b # NoBlob) /\ NoBlob \in Nat
  BY DEF BlobIds, NoBlob
<1>4. \A s \in Sessions : \A b \in blobs_[s] : b # blob_id_ + 1
  BY <1>1, <1>3 DEF LifeStepInv, StructInv, IdInv
<1>5. \A c \in Calls : putBlob[c] # blob_id_ + 1
  BY <1>1, <1>3 DEF LifeStepInv, StructInv, IdInv
<1> QED BY <1>1, <1>2, <1>3, <1>4, <1>5

-----------------------------------------------------------------------------
(* Who is in a session. *)

\* A host thread leaves the session of a handler at work alone.
LEMMA HostApart ==
  ASSUME OrderedUse, LifeStepInv, ApartInv, NEW h \in Hosts, HostStep(h), UNCHANGED putVars
  PROVE  ApartInv'
<1>0. hostSession \in [Hosts -> Sessions \cup {NoSession}] /\ NoSession \notin Sessions
  BY NoSessionAssumption DEF LifeStepInv, StructInv, TypeOK, SessionTypeOK, Sessions
<1> SUFFICES ASSUME NEW c \in Calls, putAt[c] \notin {"start", "done"}
             PROVE  /\ putSession[c] \in blob_sessions_'
                    /\ \A g \in Hosts : hostSession'[g] # putSession[c]
  BY DEF ApartInv, putVars
<1> DEFINE s == putSession[c]
           Goal == s \in blob_sessions_' /\ \A g \in Hosts : hostSession'[g] # s
<1>1. s \in blob_sessions_ /\ s \in Sessions /\ \A g \in Hosts : hostSession[g] # s
  BY DEF ApartInv, LifeStepInv, StructInv, PlaceInv
<1>f. ASSUME UNCHANGED <<blob_sessions_, hostSession>> PROVE Goal
  BY <1>1, <1>f
<1>s. ASSUME HostStops(h), blob_sessions_ \ {hostSession[h]} \subseteq blob_sessions_' PROVE Goal
  BY <1>0, <1>1, <1>s DEF HostStops
<1>b. ASSUME NEW r, HostMayDisturb(r), hostSession' = [hostSession EXCEPT ![h] = r],
             UNCHANGED blob_sessions_
      PROVE  Goal
  <2>1. r # s
    BY <1>b DEF HostMayDisturb, WorksIn
  <2> QED BY <1>0, <1>1, <1>b, <2>1
<1>2. ASSUME NEW t, HostCreates(h, t) PROVE Goal
  BY <1>1, <1>2 DEF HostCreates, CreateSession, sessionVars, hostVars
<1>3. ASSUME NEW r, NEW f, HostAdds(h, r, f) PROVE Goal
  BY <1>3, <1>f DEF HostAdds, managerVars, hostVars
<1>4. ASSUME NEW r, NEW a, HostMovesFile(h, r, a) PROVE Goal
  BY <1>4, <1>f DEF HostMovesFile, managerVars, hostVars
<1>5. ASSUME NEW r, NEW ids, HostMayDisturb(r), HostRemoves(h, r, ids) PROVE Goal
  BY <1>5, <1>b DEF HostRemoves, HostStarts, managerVars
<1>6. ASSUME NEW r, HostMayDisturb(r), HostDisposes(h, r) PROVE Goal
  BY <1>6, <1>b DEF HostDisposes, HostStarts, managerVars
<1>7. CASE HostGivesBack(h)
  BY <1>7, <1>f DEF HostGivesBack, managerVars, hostVars
<1>8. CASE HostSkips(h)
  BY <1>8, <1>f DEF HostSkips, managerVars
<1>9. CASE HostUnlinks(h)
  BY <1>9, <1>f DEF HostUnlinks, managerVars
<1>10. CASE HostUnlinkThrows(h)
  BY <1>10, <1>s DEF HostUnlinkThrows, managerVars
<1>11. CASE HostRemoved(h)
  BY <1>11, <1>s DEF HostRemoved, managerVars
<1>12. CASE HostErases(h)
  BY <1>12, <1>s DEF HostErases, EraseSession
<1> QED BY <1>2, <1>3, <1>4, <1>5, <1>6, <1>7, <1>8, <1>9, <1>10, <1>11, <1>12
       DEF HostStep, HostContinues

\* The first step of a handler that goes on is the lookup.
LEMMA HandlerStarts ==
  ASSUME TypeOK, NEW c \in Calls, ClientStep(c) \/ ServerStep(c), putAt[c] = "start"
  PROVE  \/ putAt'[c] = "done"
         \/ \E s \in Sessions, size \in Declared \cup {NoSize} :
               MayUpload(s) /\ PutAccepted(c, s, size)
<1>1. ASSUME NEW s, PutNoSession(c, s) PROVE putAt'[c] = "done"
  BY <1>1 DEF PutNoSession, Answer, TypeOK
<1>2. CASE PutRejected(c)
  BY <1>2 DEF PutRejected, Answer, TypeOK
<1> QED BY <1>1, <1>2 DEF ClientStep, ServerStep, PutReserves, PutRefused, PutNotChunk, PutEnds,
           PutTagThrows, PutMismatches, PutMismatchThrows, PutCreates, PutOpens, PutOpenFails,
           PutWrites, PutGivesBack, PutSkips, PutUnlinks, PutUnlinkThrows, At

\* Handlers change neither the registry nor what host threads do.
LEMMA HandlerFrame ==
  ASSUME NEW c \in Calls, ClientStep(c) \/ ServerStep(c)
  PROVE  UNCHANGED <<managerVars, hostVars, running>> /\ running
BY DEF ClientStep, ServerStep, PutRejected, PutNoSession, PutAccepted, PutStarts, PutReserves,
   PutRefused, PutNotChunk, PutEnds, PutTagThrows, PutMismatches, PutMismatchThrows, PutCreates,
   PutOpens, PutOpenFails, PutWrites, PutGivesBack, PutSkips, PutUnlinks, PutUnlinkThrows,
   sessionVars, At

\* A handler keeps its session from the lookup to its answer.
LEMMA HandlerSession ==
  ASSUME LifeStepInv, LifeStepInv', NEW c \in Calls, ClientStep(c) \/ ServerStep(c),
         putAt[c] # "start", putAt'[c] # "done"
  PROVE  /\ putAt[c] # "done" /\ putAt'[c] # "start" /\ putSession'[c] = putSession[c]
         /\ putAt'[c] # "create" /\ (PutCreates(c) \/ putBlob' = putBlob)
<1>t. TypeOK /\ NoSession \notin Sessions /\ putAt[c] # "done"
  BY NoSessionAssumption, DoneIsDone DEF LifeStepInv, StructInv, Sessions
<1>1. CASE PutCreates(c)
  BY <1>t, <1>1 DEF PutCreates, GoTo, TypeOK
<1>2. CASE ~PutCreates(c)
  <2>1. ~\E s \in Sessions, size \in Declared \cup {NoSize} : PutAccepted(c, s, size)
    BY DEF PutAccepted, PutStarts, At
  <2>2. /\ putAt'[c] \notin {"start", "create", "open"}
        /\ putSession'[c] \in {putSession[c], NoSession}
        /\ putBlob' = putBlob
    BY <1>2, <2>1, HandlerPlace DEF LifeStepInv
  <2>3. putSession'[c] \in Sessions
    BY <2>2 DEF LifeStepInv, StructInv, PlaceInv
  <2> QED BY <1>t, <2>2, <2>3
<1> QED BY <1>1, <1>2

\* Handlers look up sessions that no host thread is in.
LEMMA HandlerApart ==
  ASSUME OrderedUse, LifeStepInv, LifeStepInv', ApartInv,
         NEW c \in Calls, ClientStep(c) \/ ServerStep(c)
  PROVE  ApartInv'
<1>t. TypeOK
  BY DEF LifeStepInv, StructInv
<1>0. UNCHANGED <<blob_sessions_, hostSession>>
  BY HandlerFrame DEF managerVars, hostVars
<1>1. SUFFICES ASSUME NEW d \in Calls, putAt'[d] \notin {"start", "done"}
               PROVE  /\ putSession'[d] \in blob_sessions_
                      /\ \A h \in Hosts : hostSession[h] # putSession'[d]
  BY <1>0 DEF ApartInv
<1>2. CASE d # c
  BY <1>t, <1>1, <1>2, HandlerAlone DEF SameHandler, ApartInv
<1>3. CASE d = c /\ putAt[c] = "start"
  <2>1. PICK s \in Sessions, size \in Declared \cup {NoSize} :
           MayUpload(s) /\ PutAccepted(c, s, size)
    BY <1>t, <1>1, <1>3, HandlerStarts
  <2>2. HasSession(s) /\ putSession'[c] = s
    BY <1>t, <2>1 DEF PutAccepted, PutStarts, TypeOK
  <2> QED BY <1>3, <2>1, <2>2 DEF MayUpload, HasSession
<1>4. CASE d = c /\ putAt[c] # "start"
  BY <1>1, <1>4, HandlerSession DEF ApartInv
<1> QED BY <1>2, <1>3, <1>4

-----------------------------------------------------------------------------
(* Entries and files of uploads. *)

\* A host thread takes entries only from the session that it is in.
LEMMA HostTakesIn ==
  ASSUME LifeStepInv, NEW h \in Hosts, HostStep(h),
         NEW s \in Sessions, NEW b \in blobs_[s] \ blobs_'[s]
  PROVE  hostSession[h] = s /\ HostUnlinks(h) /\ deleting[h] = b
<1>1. TypeOK /\ b # NoBlob /\ blobs_[s] \subseteq BlobIds
  BY OrderTypes
<1>2. deleting[h] = b /\ h \in Threads
  BY <1>1, HostTakes DEF Threads
<1>3. hostSession[h] \in Sessions /\ b \in blobs_[hostSession[h]]
  BY <1>1, <1>2, DeletingSession DEF LifeStepInv, StructInv, LockInv, ThreadSession
<1>4. hostSession[h] = s
  BY <1>3 DEF LifeStepInv, StructInv, IdInv, EntryOnce
<1>5. HostUnlinks(h)
  <2>1. blobs_' # blobs_
    OBVIOUS
  <2>2. ASSUME NEW r, NEW path, AddEntry(r, path) PROVE FALSE
    BY <1>1, <2>2 DEF AddEntry, Emplace, TypeOK, SessionTypeOK
  <2> QED BY <2>1, <2>2 DEF HostStep, HostContinues, HostCreates, HostAdds, HostMovesFile,
             HostRemoves, HostDisposes, HostStarts, HostGivesBack, HostSkips, HostUnlinkThrows,
             UnlinkThrows, HostRemoved, HostErases, sessionVars, entryVars
<1> QED BY <1>2, <1>4, <1>5

\* A handler takes only its own entry, and has nothing more to do then.
LEMMA HandlerTakesOwn ==
  ASSUME LifeStepInv, NEW c \in Calls, ClientStep(c) \/ ServerStep(c),
         NEW s \in Sessions, NEW b \in blobs_[s] \ blobs_'[s]
  PROVE  putBlob[c] = b /\ PutUnlinks(c)
<1>1. TypeOK /\ b # NoBlob
  BY OrderTypes
<1>2. deleting[c] = b
  BY <1>1, HandlerTakes
<1>3. putBlob[c] = b
  BY <1>1, <1>2, HandlerDeletesOwn
<1>4. PutUnlinks(c)
  <2>1. blobs_' # blobs_ /\ ~PutCreates(c)
    BY <1>1 DEF PutCreates, AddEntry, Emplace, TypeOK, SessionTypeOK
  <2>2. ~ClientStep(c)
    BY <2>1 DEF ClientStep, PutRejected, PutNoSession, PutAccepted, PutStarts, PutReserves, PutRefused,
       PutNotChunk, PutEnds, PutTagThrows, PutMismatches, PutMismatchThrows, sessionVars, entryVars
  <2> QED BY <2>1, <2>2 DEF ServerStep, PutOpens, PutOpenFails, PutWrites, PutGivesBack, PutSkips,
             PutUnlinkThrows, UnlinkThrows, sessionVars, entryVars
<1> QED BY <1>3, <1>4

\* The entry of a handler at work stays.
LEMMA HostKeeps ==
  ASSUME LifeStepInv, ApartInv, KeepsInv, NEW h \in Hosts, HostStep(h), UNCHANGED putVars
  PROVE  KeepsInv'
<1> SUFFICES ASSUME NEW c \in Calls, putAt[c] \notin {"start", "create", "done"}
             PROVE  putBlob[c] \in blobs_'[putSession[c]]
  BY DEF KeepsInv, putVars
<1>1. putSession[c] \in Sessions /\ putBlob[c] \in blobs_[putSession[c]]
  BY DEF KeepsInv, LifeStepInv, StructInv, PlaceInv
<1>2. hostSession[h] # putSession[c]
  BY DEF ApartInv
<1> QED BY <1>1, <1>2, HostTakesIn

\* A handler takes no other handler's entry, and its own only as its last step.
LEMMA HandlerKeeps ==
  ASSUME LifeStepInv, LifeStepInv', KeepsInv, NEW c \in Calls, ClientStep(c) \/ ServerStep(c)
  PROVE  KeepsInv'
<1>t. TypeOK
  BY DEF LifeStepInv, StructInv
<1> SUFFICES ASSUME NEW d \in Calls, putAt'[d] \notin {"start", "create", "done"}
             PROVE  putBlob'[d] \in blobs_'[putSession'[d]]
  BY DEF KeepsInv
<1>1. CASE d # c
  <2>1. SameHandler(d)
    BY <1>t, <1>1, HandlerAlone
  <2>2. /\ putSession[d] \in Sessions /\ putBlob[d] \in blobs_[putSession[d]]
        /\ putBlob[d] \in BlobIds
    BY <2>1 DEF SameHandler, KeepsInv, LifeStepInv, StructInv, PlaceInv
  <2>3. putBlob[d] # putBlob[c]
    BY <1>1, <2>2, OrderTypes DEF LifeStepInv, StructInv, IdInv, EntryOnce
  <2> QED BY <2>1, <2>2, <2>3, HandlerTakesOwn DEF SameHandler
<1>2. CASE d = c /\ PutCreates(c)
  <2>1. /\ putSession[c] \in Sessions /\ putSession' = putSession
        /\ blob_id_' = blob_id_ + 1 /\ putBlob'[c] = blob_id_'
        /\ blobs_'[putSession[c]] = blobs_[putSession[c]] \cup {blob_id_ + 1}
    BY <1>t, <1>2 DEF PutCreates, At, AddEntry, Emplace, TypeOK, SessionTypeOK, LifeStepInv,
       StructInv, PlaceInv
  <2> QED BY <1>2, <2>1
<1>3. CASE d = c /\ ~PutCreates(c)
  <2>1. putAt[c] # "start"
    <3>1. ASSUME NEW s, NEW size, PutAccepted(c, s, size) PROVE putAt'[c] = "create"
      BY <1>t, <3>1 DEF PutAccepted, PutStarts, GoTo, TypeOK
    <3> QED BY <1>t, <1>3, <3>1, HandlerStarts
  <2>2. /\ putSession'[c] = putSession[c] /\ putBlob' = putBlob /\ putAt[c] # "done"
    BY <1>3, <2>1, HandlerSession
  <2>3. putAt[c] # "create"
    BY <1>3, <2>2 DEF ClientStep, ServerStep, PutRejected, PutNoSession, PutAccepted, PutStarts,
       PutReserves, PutRefused, PutNotChunk, PutEnds, PutTagThrows, PutMismatches,
       PutMismatchThrows, PutOpens, PutOpenFails, PutWrites, PutGivesBack, PutSkips, PutUnlinks,
       PutUnlinkThrows, At
  <2>4. /\ putSession[c] \in Sessions /\ putBlob[c] \in blobs_[putSession[c]]
    BY <2>1, <2>2, <2>3 DEF KeepsInv, LifeStepInv, StructInv, PlaceInv
  <2>5. ~PutUnlinks(c)
    BY <1>t, <1>3 DEF PutUnlinks, Answer, TypeOK
  <2> QED BY <1>3, <2>2, <2>4, <2>5, HandlerTakesOwn
<1> QED BY <1>1, <1>2, <1>3

\* Whoever disposes of a session is left alone with it, and deletes what it
\* found there.
LEMMA HostTodo ==
  ASSUME LifeStepInv, TodoInv, NEW h \in Hosts, HostStep(h)
  PROVE  TodoInv'
<1>0. /\ blobs_ \in [Sessions -> SUBSET BlobIds]
      /\ hostAt \in [Hosts -> {"idle", "removing", "disposing"}]
      /\ hostSession \in [Hosts -> Sessions \cup {NoSession}]
      /\ todo \in [Hosts -> SUBSET BlobIds]
      /\ \A g \in Hosts : hostAt[g] = "disposing" => hostSession[g] \in Sessions
  BY DEF LifeStepInv, StructInv, TypeOK, SessionTypeOK, PlaceInv
<1>f. ASSUME UNCHANGED <<hostAt, hostSession, todo>>,
             \A g \in Hosts : hostAt[g] = "disposing" =>
                blobs_'[hostSession[g]] \subseteq blobs_[hostSession[g]]
      PROVE  TodoInv'
  BY <1>f DEF TodoInv
<1>s. ASSUME HostStops(h), UNCHANGED blobs_ PROVE TodoInv'
  BY <1>0, <1>s DEF HostStops, TodoInv
<1>1. ASSUME NEW t, HostCreates(h, t) PROVE TodoInv'
  BY <1>1, <1>f DEF HostCreates, sessionVars, entryVars, hostVars
<1>2. ASSUME NEW r \in Sessions, NEW f, HostAdds(h, r, f) PROVE TodoInv'
  <2>1. \A g \in Hosts : hostAt[g] = "disposing" => hostSession[g] # r
    BY <1>2 DEF HostAdds, MayUse
  <2>2. \A s \in Sessions : s # r => blobs_'[s] = blobs_[s]
    BY <1>0, <1>2 DEF HostAdds, AddEntry, Emplace
  <2> QED BY <1>0, <1>2, <1>f, <2>1, <2>2 DEF HostAdds, hostVars
<1>3. ASSUME NEW r, NEW a, HostMovesFile(h, r, a) PROVE TodoInv'
  BY <1>3, <1>f DEF HostMovesFile, entryVars, hostVars
<1>4. ASSUME NEW r, NEW ids, HostRemoves(h, r, ids) PROVE TodoInv'
  BY <1>0, <1>4 DEF HostRemoves, HostStarts, entryVars, TodoInv
<1>5. ASSUME NEW r, HostDisposes(h, r) PROVE TodoInv'
  BY <1>0, <1>5 DEF HostDisposes, HostStarts, entryVars, TodoInv, Entries
<1>6. CASE HostGivesBack(h)
  BY <1>6, <1>f DEF HostGivesBack, entryVars, hostVars
<1>7. CASE HostSkips(h)
  <2>1. PICK b \in BlobIds : b \notin blobs_[hostSession[h]] /\ todo' = [todo EXCEPT ![h] = @ \ {b}]
    BY <1>7 DEF HostSkips
  <2>2. /\ todo'[h] = todo[h] \ {b} /\ \A g \in Hosts : g # h => todo'[g] = todo[g]
        /\ UNCHANGED <<blobs_, hostAt, hostSession>>
    BY <1>0, <1>7, <2>1 DEF HostSkips, entryVars
  <2> QED BY <2>1, <2>2 DEF TodoInv
<1>8. CASE HostUnlinks(h)
  <2>1. deleting[h] # NoBlob /\ h \in Threads /\ hostSession[h] \in Sessions
    BY <1>8, DeletingSession DEF HostUnlinks, UnlinkAndErase, Threads, LifeStepInv, StructInv,
       ThreadSession
  <2>2. /\ blobs_'[hostSession[h]] = blobs_[hostSession[h]] \ {deleting[h]}
        /\ \A s \in Sessions : blobs_'[s] \subseteq blobs_[s]
        /\ todo'[h] = todo[h] \ {deleting[h]}
        /\ \A g \in Hosts : g # h => todo'[g] = todo[g]
        /\ UNCHANGED <<hostAt, hostSession>>
    BY <1>0, <1>8, <2>1 DEF HostUnlinks, UnlinkAndErase, EraseEntry
  <2> QED BY <1>0, <2>2 DEF TodoInv
<1>9. CASE HostUnlinkThrows(h)
  BY <1>9, <1>s DEF HostUnlinkThrows, UnlinkThrows
<1>10. CASE HostRemoved(h)
  BY <1>10, <1>s DEF HostRemoved, entryVars
<1>11. CASE HostErases(h)
  BY <1>11, <1>s DEF HostErases, entryVars
<1> QED BY <1>1, <1>2, <1>3, <1>4, <1>5, <1>6, <1>7, <1>8, <1>9, <1>10, <1>11
       DEF HostStep, HostContinues

\* No handler gives it new entries.
LEMMA HandlerTodo ==
  ASSUME LifeStepInv, ApartInv, TodoInv, NEW c \in Calls, ClientStep(c) \/ ServerStep(c)
  PROVE  TodoInv'
<1>0. UNCHANGED <<hostAt, hostSession, todo>>
  BY HandlerFrame DEF hostVars
<1>1. SUFFICES ASSUME NEW h \in Hosts, hostAt[h] = "disposing",
                      NEW b \in blobs_'[hostSession[h]], b \notin blobs_[hostSession[h]]
               PROVE  FALSE
  BY <1>0 DEF TodoInv
<1>2. hostSession[h] \in Sessions /\ blobs_ \in [Sessions -> SUBSET BlobIds]
  BY <1>1 DEF LifeStepInv, StructInv, PlaceInv, TypeOK, SessionTypeOK
<1>3. CASE PutCreates(c)
  <2>1. hostSession[h] # putSession[c]
    BY <1>3 DEF PutCreates, At, ApartInv
  <2> QED BY <1>1, <1>2, <1>3, <2>1 DEF PutCreates, AddEntry, Emplace
<1>4. CASE ~PutCreates(c)
  <2>1. CASE \E s \in Sessions, size \in Declared \cup {NoSize} : PutAccepted(c, s, size)
    BY <1>1, <2>1 DEF PutAccepted, PutStarts, sessionVars, entryVars
  <2> QED BY <1>1, <1>2, <1>4, <2>1, HandlerPlace DEF LifeStepInv
<1> QED BY <1>3, <1>4

\* A session that is dropped was emptied before.
LEMMA HostKeepsSession ==
  ASSUME TodoInv, NEW h \in Hosts, HostStep(h), NEW s \in blob_sessions_, blobs_[s] # {}
  PROVE  s \in blob_sessions_'
<1>1. CASE HostErases(h)
  <2>1. blobs_[hostSession[h]] = {}
    BY <1>1 DEF HostErases, TodoInv
  <2> QED BY <1>1, <2>1 DEF HostErases, EraseSession
<1>2. CASE ~HostErases(h)
  BY <1>2 DEF HostStep, HostContinues, HostCreates, CreateSession, HostAdds, HostMovesFile,
     HostRemoves, HostDisposes, HostStarts, HostGivesBack, HostSkips, HostUnlinks,
     HostUnlinkThrows, HostRemoved, managerVars
<1> QED BY <1>1, <1>2

\* The entry of a file stays with it, or they go together.
LEMMA HostFiled ==
  ASSUME LifeStepInv, TodoInv, FiledInv, NEW h \in Hosts, HostStep(h), running
  PROVE  FiledInv'
<1> SUFFICES ASSUME NEW b \in BlobIds, files'[UploadPath(b)] # NoFile
             PROVE  \E s \in blob_sessions_' : b \in blobs_'[s] /\ entry_path'[b] = UploadPath(b)
  BY DEF FiledInv, UploadPath
<1>1. files[UploadPath(b)] # NoFile
  BY HostData DEF LifeStepInv, NoNewData, OnlyGoes
<1>2. PICK s \in blob_sessions_ : b \in blobs_[s] /\ entry_path[b] = UploadPath(b)
  BY <1>1 DEF FiledInv
<1>3. s \in Sessions /\ b # blob_id_ + 1 /\ s # session_id_ + 1
  BY <1>2, OrderTypes
<1>4. entry_path'[b] = UploadPath(b)
  BY <1>2, <1>3, HostData DEF LifeStepInv, NoNewEntry
<1>5. b \in blobs_'[s]
  <2>1. SUFFICES ASSUME b \notin blobs_'[s] PROVE FALSE
    OBVIOUS
  <2>2. HostUnlinks(h) /\ deleting[h] = b
    BY <1>2, <1>3, <2>1, HostTakesIn
  <2>3. files'[UploadPath(b)] = NoFile
    BY <1>2, <2>2, UploadPathOK DEF HostUnlinks, UnlinkAndErase, Unlink, LifeStepInv, StructInv,
       TypeOK, SessionTypeOK
  <2> QED BY <2>3
<1>6. s \in blob_sessions_'
  BY <1>2, HostKeepsSession
<1> QED BY <1>4, <1>5, <1>6

\* A handler opens the file of the entry it has, and deletes the two together.
LEMMA HandlerFiled ==
  ASSUME LifeStepInv, LifeStepInv', ApartInv, KeepsInv, FiledInv,
         NEW c \in Calls, ClientStep(c) \/ ServerStep(c)
  PROVE  FiledInv'
<1>t. TypeOK /\ running /\ UNCHANGED blob_sessions_
  BY HandlerFrame DEF LifeStepInv, StructInv, managerVars
<1> SUFFICES ASSUME NEW b \in BlobIds, files'[UploadPath(b)] # NoFile
             PROVE  \E s \in blob_sessions_ : b \in blobs_'[s] /\ entry_path'[b] = UploadPath(b)
  BY <1>t DEF FiledInv, UploadPath
<1>1. ASSUME NEW s \in blob_sessions_, b \in blobs_[s], entry_path[b] = UploadPath(b),
             ~(putBlob[c] = b /\ PutUnlinks(c))
      PROVE  b \in blobs_'[s] /\ entry_path'[b] = UploadPath(b)
  <2>1. s \in Sessions /\ b # blob_id_ + 1
    BY <1>1, OrderTypes
  <2>2. entry_path'[b] = UploadPath(b)
    BY <1>1, <2>1, HandlerData DEF LifeStepInv, NoNewEntry
  <2> QED BY <1>1, <2>1, <2>2, HandlerTakesOwn
<1>2. CASE b # putBlob[c]
  <2>1. files[UploadPath(b)] # NoFile
    BY <1>2, HandlerData DEF LifeStepInv, NoNewData, OnlyGoes
  <2> QED BY <1>t, <1>1, <1>2, <2>1 DEF FiledInv
<1>3. CASE b = putBlob[c]
  <2>1. putAt[c] \notin {"start", "create", "done"}
    BY <1>3, DoneIsDone, OrderTypes DEF LifeStepInv, LifeInv, OpenInv
  <2>2. putSession[c] \in blob_sessions_ /\ b \in blobs_[putSession[c]]
    BY <1>3, <2>1 DEF ApartInv, KeepsInv
  <2>3. entry_path[b] = UploadPath(b)
    BY <1>3, <2>2, OrderTypes DEF LifeStepInv, FileInv
  <2>4. ~PutUnlinks(c)
    <3>1. SUFFICES ASSUME PutUnlinks(c) PROVE FALSE
      OBVIOUS
    <3>2. deleting[c] = b /\ files' = [files EXCEPT ![UploadPath(b)] = NoFile]
      BY <1>3, <2>3, <3>1, HandlerDeletesOwn DEF PutUnlinks, UnlinkAndErase, Unlink
    <3> QED BY <1>t, <3>2, UploadPathOK DEF TypeOK, SessionTypeOK
  <2> QED BY <1>1, <2>2, <2>3, <2>4
<1> QED BY <1>2, <1>3

\* An entry that the host deletes has no bytes then, and neither has a new one.
LEMMA HostSized ==
  ASSUME LifeStepInv, TodoInv, SizedInv, NEW h \in Hosts, HostStep(h)
  PROVE  SizedInv'
<1> SUFFICES ASSUME NEW b \in BlobIds, entry_size'[b] # 0
             PROVE  \E s \in blob_sessions_' : b \in blobs_'[s]
  BY DEF SizedInv
<1>0. TypeOK /\ entry_size \in [BlobIds -> 0..Word - 1]
  BY DEF LifeStepInv, StructInv, TypeOK, SessionTypeOK
<1>1. entry_size'[b] = entry_size[b] /\ ~(HostUnlinks(h) /\ deleting[h] = b)
  <2>1. CASE HostUnlinks(h)
    BY <1>0, <2>1 DEF HostUnlinks, UnlinkAndErase, EraseEntry
  <2>2. CASE ~HostUnlinks(h)
    <3>1. ASSUME NEW s, NEW f, HostAdds(h, s, f) PROVE entry_size'[b] = entry_size[b]
      BY <1>0, <3>1 DEF HostAdds, AddEntry, Emplace
    <3> QED BY <2>2, <3>1 DEF HostStep, HostContinues, HostCreates, HostMovesFile, HostRemoves,
               HostDisposes, HostStarts, HostGivesBack, HostSkips, HostUnlinkThrows, UnlinkThrows,
               HostRemoved, HostErases, sessionVars, entryVars
  <2> QED BY <2>1, <2>2
<1>2. PICK s \in blob_sessions_ : b \in blobs_[s]
  BY <1>1 DEF SizedInv
<1>3. b \in blobs_'[s]
  BY <1>1, <1>2, HostTakesIn, OrderTypes
<1> QED BY <1>2, <1>3, HostKeepsSession

\* A handler adds bytes to the entry that it has, and deletes them with it.
LEMMA HandlerSized ==
  ASSUME LifeStepInv, ApartInv, KeepsInv, SizedInv, NEW c \in Calls, ClientStep(c) \/ ServerStep(c)
  PROVE  SizedInv'
<1>0. /\ TypeOK /\ entry_size \in [BlobIds -> 0..Word - 1]
      /\ UNCHANGED blob_sessions_
  BY HandlerFrame DEF LifeStepInv, StructInv, TypeOK, SessionTypeOK, managerVars
<1> SUFFICES ASSUME NEW b \in BlobIds, entry_size'[b] # 0
             PROVE  \E s \in blob_sessions_ : b \in blobs_'[s]
  BY <1>0 DEF SizedInv
<1>1. ~(PutUnlinks(c) /\ putBlob[c] = b)
  BY <1>0, HandlerDeletesOwn DEF PutUnlinks, UnlinkAndErase, EraseEntry
<1>2. \E s \in blob_sessions_ : b \in blobs_[s]
  <2>1. ASSUME NEW n, PutReserves(c, n) PROVE \E s \in blob_sessions_ : b \in blobs_[s]
    <3>1. CASE b = putBlob[c]
      BY <2>1, <3>1 DEF PutReserves, At, ApartInv, KeepsInv
    <3>2. CASE b # putBlob[c]
      BY <1>0, <2>1, <3>2 DEF PutReserves, Credit, SizedInv
    <3> QED BY <3>1, <3>2
  <2>2. CASE PutCreates(c)
    BY <1>0, <2>2 DEF PutCreates, AddEntry, Emplace, SizedInv
  <2>3. CASE PutUnlinks(c)
    BY <1>0, <2>3 DEF PutUnlinks, UnlinkAndErase, EraseEntry, SizedInv
  <2>4. CASE ClientStep(c) /\ ~\E n : PutReserves(c, n)
    BY <2>4 DEF ClientStep, PutRejected, PutNoSession, PutAccepted, PutStarts, PutRefused, PutNotChunk,
       PutEnds, PutTagThrows, PutMismatches, PutMismatchThrows, sessionVars, entryVars, SizedInv
  <2>5. CASE ServerStep(c) /\ ~PutCreates(c) /\ ~PutUnlinks(c)
    BY <2>5 DEF ServerStep, PutOpens, PutOpenFails, PutWrites, PutGivesBack, PutSkips,
       PutUnlinkThrows, UnlinkThrows, sessionVars, entryVars, SizedInv
  <2> QED BY <2>1, <2>2, <2>3, <2>4, <2>5
<1>3. PICK s \in blob_sessions_ : b \in blobs_[s]
  BY <1>2
<1> QED BY <1>1, <1>3, HandlerTakesOwn, OrderTypes

\* What a refused upload left stays as it is: nothing.
LEMMA RefusedFrame ==
  ASSUME LifeStepInv, NEW c \in Calls, status[c] = "RESOURCE_EXHAUSTED", RefusedInv,
         UNCHANGED <<putBlob[c], putAt[c]>>,
         NoNewData(putBlob[c]), NoNewEntry(putBlob[c])
  PROVE  /\ putAt'[c] = "done" /\ putBlob'[c] \in BlobIds
         /\ files'[UploadPath(putBlob'[c])] = NoFile
         /\ \A s \in Sessions : putBlob'[c] \notin blobs_'[s]
BY DEF RefusedInv, NoNewData, OnlyGoes, NoNewEntry

\* A host thread issues new ids only, and brings no file of the store back.
LEMMA HostRefused ==
  ASSUME LifeStepInv, RefusedInv, NEW h \in Hosts, HostStep(h), UNCHANGED putVars
  PROVE  RefusedInv'
<1> SUFFICES ASSUME NEW c \in Calls, status[c] = "RESOURCE_EXHAUSTED"
             PROVE  /\ putAt'[c] = "done" /\ putBlob'[c] \in BlobIds
                    /\ files'[UploadPath(putBlob'[c])] = NoFile
                    /\ \A s \in Sessions : putBlob'[c] \notin blobs_'[s]
  BY DEF RefusedInv, putVars, UploadPath
<1>1. putBlob[c] \in BlobIds /\ putBlob[c] # blob_id_ + 1
  BY OrderTypes DEF RefusedInv
<1>2. NoNewData(putBlob[c]) /\ NoNewEntry(putBlob[c])
  BY <1>1, HostData DEF LifeStepInv
<1> QED BY <1>2, RefusedFrame DEF putVars

\* A handler refuses a chunk, and then deletes the entry and the file it has.
LEMMA HandlerRefused ==
  ASSUME LifeStepInv, KeepsInv, RefusedInv, NEW c \in Calls, ClientStep(c) \/ ServerStep(c)
  PROVE  RefusedInv'
<1>t. /\ TypeOK
      /\ putAt \in [Calls -> Places]
      /\ status \in [Calls -> Statuses]
      /\ blobs_ \in [Sessions -> SUBSET BlobIds]
      /\ files \in [Paths -> Nat \cup {NoFile}]
  BY DEF LifeStepInv, StructInv, TypeOK, SessionTypeOK
<1> SUFFICES ASSUME NEW d \in Calls, status'[d] = "RESOURCE_EXHAUSTED"
             PROVE  /\ putAt'[d] = "done" /\ putBlob'[d] \in BlobIds
                    /\ files'[UploadPath(putBlob'[d])] = NoFile
                    /\ \A s \in Sessions : putBlob'[d] \notin blobs_'[s]
  BY DEF RefusedInv, UploadPath
<1>1. CASE d # c
  <2>1. SameHandler(d)
    BY <1>t, <1>1, HandlerAlone
  <2>2. putBlob[d] \in BlobIds /\ putBlob[d] # blob_id_ + 1 /\ putBlob[d] # putBlob[c]
    BY <1>1, <2>1, OrderTypes
       DEF SameHandler, RefusedInv, LifeStepInv, StructInv, IdInv, EntryOnce
  <2>3. NoNewData(putBlob[d]) /\ NoNewEntry(putBlob[d])
    BY <2>2, HandlerData DEF LifeStepInv
  <2> QED BY <2>1, <2>3, RefusedFrame DEF SameHandler
<1>2. CASE d = c
  <2>0. status[c] # "RESOURCE_EXHAUSTED"
    BY DoneIsDone DEF RefusedInv
  <2>g. ~\E place : GoTo(c, place)
    BY <1>2, <2>0 DEF GoTo
  <2>a. ASSUME NEW code, Answer(c, code), code # "RESOURCE_EXHAUSTED" PROVE FALSE
    BY <1>t, <1>2, <2>a DEF Answer
  <2>1. CASE PutSkips(c)
    BY <2>1 DEF PutSkips, At, KeepsInv
  <2>2. CASE PutUnlinks(c)
    <3>1. /\ putAt[c] = "unlink" /\ deleting[c] # NoBlob
          /\ UnlinkAndErase(c, putSession[c]) /\ Answer(c, "RESOURCE_EXHAUSTED")
      BY <2>2 DEF PutUnlinks, At, UnlinkAndErase
    <3>2. /\ deleting[c] = putBlob[c] /\ putBlob[c] \in BlobIds
          /\ entry_path[putBlob[c]] = UploadPath(putBlob[c])
      BY <3>1, HandlerDeletesOwn
    <3>3. putAt'[c] = "done" /\ putBlob' = putBlob
      BY <1>t, <3>1 DEF Answer
    <3>4. files'[UploadPath(putBlob[c])] = NoFile
      BY <1>t, <3>1, <3>2, UploadPathOK DEF UnlinkAndErase, Unlink
    <3>5. ASSUME NEW s \in Sessions, putBlob[c] \in blobs_'[s] PROVE FALSE
      <4>1. blobs_' = [blobs_ EXCEPT ![putSession[c]] = blobs_[putSession[c]] \ {putBlob[c]}]
        BY <3>1, <3>2 DEF UnlinkAndErase, EraseEntry
      <4>2. s # putSession[c] /\ putBlob[c] \in blobs_[s]
        BY <1>t, <3>5, <4>1
      <4> QED BY <3>1, <4>2 DEF LifeStepInv, OwnInv, HandlerOwns
    <3> QED BY <1>2, <3>2, <3>3, <3>4, <3>5
  <2>3. CASE ~PutSkips(c) /\ ~PutUnlinks(c)
    <3>1. ~ServerStep(c)
      BY <2>a, <2>g, <2>3 DEF ServerStep, PutCreates, PutOpens, PutOpenFails, PutWrites,
         PutGivesBack, PutUnlinkThrows
    <3>2. ~ClientStep(c)
      BY <2>a, <2>g DEF ClientStep, PutRejected, PutNoSession, PutAccepted, PutStarts, PutReserves,
         PutRefused, PutNotChunk, PutEnds, PutTagThrows, PutMismatches, PutMismatchThrows
    <3> QED BY <3>1, <3>2
  <2> QED BY <2>1, <2>2, <2>3
<1> QED BY <1>1, <1>2

-----------------------------------------------------------------------------
(* The properties of an orderly host. *)

\* The invariant is inductive, crashes and failures of the file system included.
LEMMA NextOrder ==
  ASSUME OrderedUse
  PROVE  LifeStepInv /\ LifeStepInv' /\ OrderInv /\ [Next]_vars => OrderInv'
<1> SUFFICES ASSUME LifeStepInv, LifeStepInv', OrderInv, [Next]_vars PROVE OrderInv'
  OBVIOUS
<1>1. ASSUME NEW h \in Hosts, HostStep(h), UNCHANGED <<putVars, crashes>> PROVE OrderInv'
  <2>1. running
    BY <1>1 DEF HostStep, HostContinues, HostCreates, HostAdds, HostMovesFile, HostRemoves,
       HostDisposes, MayUse, HostGivesBack, HostSkips, HostUnlinks, HostUnlinkThrows,
       HostRemoved, HostErases
  <2> QED BY <1>1, <2>1, HostApart, HostKeeps, HostTodo, HostFiled, HostSized, HostRefused DEF OrderInv
<1>2. ASSUME NEW c \in Calls, ClientStep(c) \/ ServerStep(c) PROVE OrderInv'
  BY <1>2, HandlerApart, HandlerKeeps, HandlerTodo, HandlerFiled, HandlerSized, HandlerRefused
     DEF OrderInv
<1>3. CASE Crash
  BY <1>3 DEF Crash, Forget, OrderInv, ApartInv, KeepsInv, TodoInv, FiledInv, SizedInv, RefusedInv
<1>4. CASE (Construct \/ ConstructFails) /\ UNCHANGED <<putVars, crashes>>
  <2>1. UNCHANGED <<managerVars, entryVars, hostVars, putVars>>
    BY <1>4 DEF Construct, ConstructFails
  <2>2. ApartInv' /\ KeepsInv' /\ TodoInv' /\ SizedInv'
    BY <2>1 DEF managerVars, entryVars, hostVars, putVars, OrderInv, ApartInv, KeepsInv, TodoInv,
       SizedInv
  <2>3. FiledInv'
    BY <1>4, UploadPathOK DEF Construct, ConstructFails, EmptyDirectory, FiledInv, UploadPath
  <2>4. RefusedInv'
    <3>1. ASSUME NEW c \in Calls, status[c] = "RESOURCE_EXHAUSTED"
          PROVE  files'[UploadPath(putBlob[c])] = NoFile
      <4>1. putBlob[c] \in BlobIds /\ files[UploadPath(putBlob[c])] = NoFile
        BY <3>1 DEF OrderInv, RefusedInv
      <4> QED BY <1>4, <4>1, ConstructData DEF NoNewData, OnlyGoes, LifeStepInv, StructInv
    <3> QED BY <2>1, <3>1 DEF entryVars, putVars, OrderInv, RefusedInv, UploadPath
  <2> QED BY <2>2, <2>3, <2>4 DEF OrderInv
<1>5. CASE UNCHANGED vars
  BY <1>5 DEF vars, managerVars, sessionVars, entryVars, hostVars, putVars, OrderInv, ApartInv,
     KeepsInv, TodoInv, FiledInv, SizedInv, RefusedInv, UploadPath
<1> QED BY <1>1, <1>2, <1>3, <1>4, <1>5 DEF Next

\* The invariant of the life of a blob and this one hold in every state.
LEMMA OrderInvariance ==
  ASSUME OrderedUse
  PROVE  Spec => [](LifeStepInv /\ OrderInv)
<1>1. Init => LifeStepInv /\ OrderInv
  BY InitStruct, InitFile, InitOwn, InitLifeInv, InitOrder DEF LifeStepInv
<1>2. LifeStepInv /\ [Next]_vars => LifeStepInv'
  BY NextStruct, NextFile, NextOwn, NextLifeInv DEF LifeStepInv
<1>3. LifeStepInv /\ OrderInv /\ [Next]_vars => (LifeStepInv /\ OrderInv)'
  BY <1>2, NextOrder
<1> QED BY <1>1, <1>3, PTL DEF Spec

\* With a host that keeps uploads apart from removals and disposal every file of
\* the store, and every byte in an entry, has its entry in a live session, even
\* if the file system fails: a disposal that succeeds leaves none behind.
THEOREM NothingIsOrphaned ==
  ASSUME OrderedUse
  PROVE  Spec => []NothingOrphaned
<1>1. OrderInv => NothingOrphaned
  BY DEF OrderInv, FiledInv, SizedInv, NothingOrphaned
<1> QED BY <1>1, OrderInvariance, PTL

\* With such a host an upload that is refused for lack of space leaves neither
\* a file nor an entry, then and later.
THEOREM RefusedLeavesNothing ==
  ASSUME OrderedUse
  PROVE  Spec => []ExhaustedLeavesNothing
<1>1. OrderInv => ExhaustedLeavesNothing
  BY DEF OrderInv, RefusedInv, ExhaustedLeavesNothing
<1> QED BY <1>1, OrderInvariance, PTL

-----------------------------------------------------------------------------
(* What is lost with a blob. *)

\* The blob is lost in this step.
Lost(b) == Kept(b) /\ ~Kept(b)'

\* A file that goes takes the blobs of its own path with it, and nothing else
\* loses a blob: an entry is deleted with its file, a session when it is empty.
LEMMA HostLoses ==
  ASSUME LifeStepInv, OrderInv, NEW h \in Hosts, HostStep(h), UNCHANGED putVars,
         NEW b \in BlobIds, Lost(b)
  PROVE  /\ HostUnlinks(h) \/ \E r \in Sessions, a \in BlobIds : HostMovesFile(h, r, a)
         /\ HostUnlinks(h) => entry_path[b] = entry_path[deleting[h]]
         /\ \A r \in Sessions, a \in BlobIds :
               HostMovesFile(h, r, a) => entry_path[b] = entry_path[a]
<1>1. PICK s \in blob_sessions_ : b \in blobs_[s]
  BY DEF Lost, Kept
<1>2. /\ s \in Sessions /\ b # blob_id_ + 1 /\ s \in blob_sessions_'
      /\ entry_path \in [BlobIds -> Paths] /\ files \in [Paths -> Nat \cup {NoFile}]
  BY <1>1, OrderTypes, HostKeepsSession DEF OrderInv, TypeOK, SessionTypeOK
<1>3. entry_path'[b] = entry_path[b]
  BY <1>2, HostData DEF LifeStepInv, NoNewEntry
<1>4. b \in blobs_'[s] => files'[entry_path[b]] # files[entry_path[b]]
  BY <1>1, <1>2, <1>3 DEF Lost, Kept, putVars
<1>5. b \notin blobs_'[s] => HostUnlinks(h) /\ deleting[h] = b
  BY <1>1, <1>2, HostTakesIn
<1>6. HostUnlinks(h) => entry_path[b] = entry_path[deleting[h]]
  BY <1>2, <1>4, <1>5 DEF HostUnlinks, UnlinkAndErase, Unlink
<1>7. ASSUME NEW r \in Sessions, NEW a \in BlobIds, HostMovesFile(h, r, a)
      PROVE  entry_path[b] = entry_path[a]
  <2>1. blobs_' = blobs_ /\ files' = [files EXCEPT ![entry_path[a]] = NoFile]
    BY <1>7 DEF HostMovesFile, Unlink, entryVars
  <2> QED BY <1>1, <1>2, <1>4, <2>1
<1>8. HostUnlinks(h) \/ \E r \in Sessions, a \in BlobIds : HostMovesFile(h, r, a)
  <2>1. SUFFICES ASSUME ~HostUnlinks(h), ~\E r \in Sessions, a \in BlobIds : HostMovesFile(h, r, a)
                 PROVE  files' = files
    BY <1>4, <1>5
  <2> QED BY <2>1 DEF HostStep, HostContinues, HostCreates, HostAdds, HostRemoves, HostDisposes,
             HostStarts, HostGivesBack, HostSkips, HostUnlinkThrows, HostRemoved, HostErases,
             sessionVars
<1> QED BY <1>6, <1>7, <1>8

\* A handler loses no blob but its own.
LEMMA HandlerLosesOwn ==
  ASSUME LifeStepInv, NEW c \in Calls, ClientStep(c) \/ ServerStep(c), NEW b \in BlobIds, Lost(b)
  PROVE  b = putBlob[c]
<1> SUFFICES ASSUME b # putBlob[c] PROVE FALSE
  OBVIOUS
<1>1. PICK s \in blob_sessions_ : b \in blobs_[s]
  BY DEF Lost, Kept
<1>2. TypeOK /\ UNCHANGED blob_sessions_
  BY HandlerFrame DEF LifeStepInv, StructInv, managerVars
<1>3. /\ b \in blobs_'[s] /\ entry_path'[b] = entry_path[b]
      /\ files'[entry_path[b]] = files[entry_path[b]]
  BY <1>1, OtherEntry, OrderTypes DEF LeftAlone
<1>4. ASSUME NEW d \in Calls, putBlob[d] = b, putAt[d] = "open"
      PROVE  putBlob'[d] = b /\ putAt'[d] = "open"
  BY <1>2, <1>4, HandlerAlone DEF SameHandler
<1> QED BY <1>1, <1>2, <1>3, <1>4 DEF Lost, Kept

\* The step of LostWithOneFile; a process that starts has no blobs to lose.
LEMMA LosingStep ==
  ASSUME LifeStepInv, OrderInv, [Next]_vars, running',
         NEW a \in BlobIds, NEW b \in BlobIds, Lost(a), Lost(b)
  PROVE  entry_path[a] = entry_path[b]
<1>1. CASE \E h \in Hosts : HostStep(h) /\ UNCHANGED <<putVars, crashes>>
  BY <1>1, HostLoses
<1>2. CASE \E c \in Calls : ClientStep(c) \/ ServerStep(c)
  BY <1>2, HandlerLosesOwn
<1>3. CASE Construct
  <2>1. PICK s \in blob_sessions_ : b \in blobs_[s]
    BY DEF Lost, Kept
  <2>2. s \in Sessions /\ b <= 0
    BY <1>3, <2>1, OrderTypes DEF Construct, LifeStepInv, LifeInv, StructInv, IdInv
  <2> QED BY <2>2 DEF BlobIds
<1>4. CASE UNCHANGED vars
  BY <1>4 DEF Lost, Kept, vars, managerVars, sessionVars, entryVars, putVars
<1>5. ~Crash /\ ~ConstructFails
  BY DEF Crash, Forget, ConstructFails
<1> QED BY <1>1, <1>2, <1>3, <1>4, <1>5 DEF Next

\* With such a host the blobs that one step loses were one file, for any number
\* of sessions: a session is only dropped when every one of its files is gone.
THEOREM LossIsOneFile ==
  ASSUME OrderedUse
  PROVE  Spec => LostWithOneFile
<1>1. LifeStepInv /\ OrderInv /\ [Next]_vars => [running' => \A a, b \in BlobIds :
         Kept(a) /\ ~Kept(a)' /\ Kept(b) /\ ~Kept(b)' => entry_path[a] = entry_path[b]]_vars
  BY LosingStep DEF Lost
<1>2. Spec => [][Next]_vars
  BY PTL DEF Spec
<1> QED BY <1>1, <1>2, OrderInvariance, PTL DEF LostWithOneFile

-----------------------------------------------------------------------------
(* The counter of an orderly host, on a file system that works. *)

\* An id that was not issued has no bytes.
ZeroInv == \A b \in BlobIds : b > blob_id_ => entry_size[b] = 0

\* Counter and entries stay.
ExactFrame ==
  UNCHANGED <<blob_id_, entry_size, deleting, current_size_>>

\* The count is not disturbed.
LEMMA ExactStays ==
  ASSUME CountedExactly, ZeroInv, ExactFrame
  PROVE  CountedExactly' /\ ZeroInv'
<1>1. Reserved' = Reserved
  BY DEF ExactFrame, Reserved
<1> QED BY <1>1 DEF ExactFrame, CountedExactly, ZeroInv

\* One entry loses n bytes, and so does the counter.
LEMMA ExactShrinks ==
  ASSUME TypeOK, TypeOK', CountedExactly, NEW b \in BlobIds, NEW n \in Nat,
         Reserved[b] = Reserved'[b] + n,
         \A p \in BlobIds \ {b} : Reserved'[p] = Reserved[p],
         quota_ # 0 => current_size_' = current_size_ - n
  PROVE  CountedExactly'
<1> DEFINE old == Reserved
           new == Reserved'
<1>1. /\ old \in [BlobIds -> Nat] /\ new \in [BlobIds -> Nat]
      /\ IsFiniteSet(Bytes(old))
      /\ old[b] = new[b] + n
      /\ \A p \in BlobIds \ {b} : new[p] = old[p]
  BY ReservedType, ReservedTypeNext DEF ReservedTypeOK
<1>2. Total(old) = Total(new) + n /\ Total(new) \in Nat
  <2> HIDE DEF old, new
  <2> QED BY <1>1, TotalShrink
<1>3. SUFFICES ASSUME quota_ # 0 PROVE current_size_' = Total(new)
  BY DEF CountedExactly
<1>4. current_size_ = Total(old) /\ current_size_' = current_size_ - n
  BY <1>3 DEF CountedExactly
<1> HIDE DEF new, old
<1> QED BY <1>2, <1>4

\* One entry gains n bytes, and so does the counter.
LEMMA ExactGrows ==
  ASSUME TypeOK, TypeOK', CountedExactly, NEW b \in BlobIds, NEW n \in Nat,
         Reserved'[b] = Reserved[b] + n,
         \A p \in BlobIds \ {b} : Reserved'[p] = Reserved[p],
         quota_ # 0 => current_size_' = current_size_ + n
  PROVE  CountedExactly'
<1> DEFINE old == Reserved
           new == Reserved'
<1>1. /\ old \in [BlobIds -> Nat] /\ new \in [BlobIds -> Nat]
      /\ IsFiniteSet(Bytes(old))
      /\ new[b] = old[b] + n
      /\ \A p \in BlobIds \ {b} : new[p] = old[p]
  BY ReservedType, ReservedTypeNext DEF ReservedTypeOK
<1>2. Total(new) = Total(old) + n
  <2> HIDE DEF old, new
  <2> QED BY <1>1, TotalGrow
<1>3. SUFFICES ASSUME quota_ # 0 PROVE current_size_' = Total(new)
  BY DEF CountedExactly
<1>4. current_size_ = Total(old) /\ current_size_' = current_size_ + n
  BY <1>3 DEF CountedExactly
<1> HIDE DEF new, old
<1> QED BY <1>2, <1>4

\* A new entry has no bytes.
LEMMA ExactEntry ==
  ASSUME TypeOK, CountedExactly, ZeroInv, NEW s, NEW path,
         AddEntry(s, path) \/ (blob_id_' = blob_id_ + 1 /\ UNCHANGED entry_size),
         blob_id_ < MaxBlobs, UNCHANGED <<deleting, current_size_>>
  PROVE  CountedExactly' /\ ZeroInv'
<1>1. /\ blob_id_ + 1 \in BlobIds /\ blob_id_ + 1 > blob_id_ /\ blob_id_ \in Nat
      /\ blob_id_' = blob_id_ + 1 /\ BlobIds \subseteq Nat
  BY BlobsAssumption DEF AddEntry, TypeOK, SessionTypeOK, BlobIds
<1>2. \A b \in BlobIds : entry_size'[b] = entry_size[b]
  <2>1. entry_size[blob_id_ + 1] = 0
    BY <1>1 DEF ZeroInv
  <2>2. CASE AddEntry(s, path)
    BY <1>1, <2>1, <2>2 DEF AddEntry, Emplace, TypeOK, SessionTypeOK
  <2> QED BY <2>2
<1>3. Reserved' = Reserved
  BY <1>2 DEF Reserved
<1>4. \A b \in BlobIds : b > blob_id_' => b > blob_id_
  BY <1>1
<1> QED BY <1>2, <1>3, <1>4 DEF CountedExactly, ZeroInv

\* A chunk is counted twice, here and in the entry.
LEMMA ExactReserved ==
  ASSUME StructInv, TypeOK', NeverUndercounted, CountedExactly, ZeroInv,
         NEW s \in Sessions, NEW b \in BlobIds,
         b \in blobs_[s], CanLock(s), NEW n \in 0..MaxChunk, CanReserve(n), CountUp(n),
         entry_size' = [entry_size EXCEPT ![b] = Plus(@, n)], UNCHANGED <<blob_id_, deleting>>
  PROVE  CountedExactly' /\ ZeroInv'
<1>1. entry_size \in [BlobIds -> 0..Word - 1] /\ b <= blob_id_ /\ blob_id_ \in Nat /\ b \in Nat
  BY DEF StructInv, IdInv, TypeOK, SessionTypeOK, BlobIds
<1>2. \A p \in BlobIds \ {b} : entry_size'[p] = entry_size[p]
  BY <1>1
<1>3. ZeroInv'
  BY <1>1, <1>2 DEF ZeroInv
<1>4. ASSUME quota_ # 0 PROVE CountedExactly'
  <2>1. current_size_' = current_size_ + n
    BY <1>4, ReserveExact DEF StructInv
  <2>2. Reserved[b] = entry_size[b] /\ ~(\E t \in Threads : deleting[t] = b)
    BY BeingDeleted, NotDeleting
  <2>3. entry_size'[b] = entry_size[b] + n
    BY <1>1, <1>4, EntryExact
  <2>4. /\ Reserved'[b] = Reserved[b] + n
        /\ \A p \in BlobIds \ {b} : Reserved'[p] = Reserved[p]
    BY <1>2, <2>2, <2>3 DEF Reserved
  <2>5. n \in Nat
    BY StoreAssumption
  <2> QED BY <2>1, <2>4, <2>5, ExactGrows DEF StructInv
<1> QED BY <1>3, <1>4 DEF CountedExactly

\* delete_blob_file takes the bytes of the entry, all of them, off the counter.
LEMMA ExactGivenBack ==
  ASSUME StructInv, TypeOK', NeverUndercounted, CountedExactly, ZeroInv,
         NEW t \in Threads, deleting[t] = NoBlob,
         NEW s \in Sessions, NEW b \in BlobIds, GiveBack(t, s, b), UNCHANGED <<blob_id_, entry_size>>
  PROVE  CountedExactly' /\ ZeroInv'
<1>1. b \in blobs_[s] /\ CanLock(s)
  BY DEF GiveBack, Lock
<1>2. Reserved[b] = entry_size[b]
  BY <1>1, NotDeleting
<1>3. /\ deleting'[t] = b
      /\ \A u \in Threads \ {t} : deleting'[u] = deleting[u]
  BY DEF GiveBack, StructInv, TypeOK, SessionTypeOK, Lock
<1>4. \A p \in BlobIds : p # NoBlob
  BY DEF BlobIds, NoBlob
<1>5. Reserved'[b] = 0 /\ \A p \in BlobIds \ {b} : Reserved'[p] = Reserved[p]
  BY <1>3, <1>4 DEF Reserved
<1>6. Reserved \in [BlobIds -> Nat] /\ Reserved[b] <= Total(Reserved) /\ Total(Reserved) \in Nat
  BY ReservedType, TotalAtLeast DEF ReservedTypeOK, StructInv
<1>7. Reserved[b] \in Nat /\ Reserved[b] = Reserved'[b] + Reserved[b]
  BY <1>5, <1>6
<1>8. quota_ # 0 => current_size_' = current_size_ - Reserved[b]
  <2>1. SUFFICES ASSUME quota_ # 0 PROVE current_size_' = current_size_ - Reserved[b]
    OBVIOUS
  <2>2. current_size_ = Total(Reserved)
    BY <2>1 DEF CountedExactly
  <2> QED BY <1>2, <1>6, <2>1, <2>2 DEF GiveBack, CountDown, Minus, Lock
<1>9. CountedExactly'
  BY <1>5, <1>7, <1>8, ExactShrinks DEF StructInv
<1> QED BY <1>9 DEF ZeroInv

\* The entry goes when its bytes are off the counter.
LEMMA ExactErased ==
  ASSUME StructInv, CountedExactly, ZeroInv, NEW t \in Threads, NEW s, UnlinkAndErase(t, s),
         UNCHANGED <<blob_id_, current_size_>>
  PROVE  CountedExactly' /\ ZeroInv'
<1>1. /\ deleting[t] \in BlobIds
      /\ deleting'[t] = NoBlob /\ \A u \in Threads \ {t} : deleting'[u] = deleting[u]
      /\ entry_size'[deleting[t]] = 0
      /\ \A p \in BlobIds \ {deleting[t]} : entry_size'[p] = entry_size[p]
  BY DEF UnlinkAndErase, Unlock, StructInv, TypeOK, SessionTypeOK, Unlink, EraseEntry
<1>2. \A p \in BlobIds : p # NoBlob
  BY DEF BlobIds, NoBlob
<1>3. \A p \in BlobIds : Reserved'[p] = Reserved[p]
  BY <1>1, <1>2 DEF Reserved
<1>4. Reserved' = Reserved
  BY <1>3 DEF Reserved
<1>5. ZeroInv'
  BY <1>1 DEF ZeroInv
<1> QED BY <1>4, <1>5 DEF CountedExactly

\* The steps of a host thread.
LEMMA HostExact ==
  ASSUME ~FsFails, StructInv, TypeOK', NeverUndercounted, CountedExactly, ZeroInv,
         NEW h \in Hosts, HostStep(h)
  PROVE  CountedExactly' /\ ZeroInv'
<1> DEFINE Goal == CountedExactly' /\ ZeroInv'
<1>f. ASSUME ExactFrame PROVE Goal
  BY <1>f, ExactStays
<1>1. ASSUME NEW t, HostCreates(h, t) PROVE Goal
  BY <1>1, <1>f DEF HostCreates, sessionVars, entryVars, ExactFrame
<1>2. ASSUME NEW s, NEW f, HostAdds(h, s, f) PROVE Goal
  <2>1. blob_id_ < MaxBlobs /\ UNCHANGED <<deleting, current_size_>>
    BY <1>2 DEF HostAdds
  <2>2. \/ AddEntry(s, HostPath(f))
        \/ blob_id_' = blob_id_ + 1 /\ UNCHANGED entry_size
    BY <1>2 DEF HostAdds
  <2> HIDE DEF Goal
  <2> QED BY <2>1, <2>2, ExactEntry DEF Goal, StructInv
<1>3. ASSUME NEW s, NEW b, HostMovesFile(h, s, b) PROVE Goal
  BY <1>3, <1>f DEF HostMovesFile, entryVars, ExactFrame
<1>4. ASSUME NEW s, NEW ids, HostRemoves(h, s, ids) PROVE Goal
  BY <1>4, <1>f DEF HostRemoves, HostStarts, entryVars, ExactFrame
<1>5. ASSUME NEW s, HostDisposes(h, s) PROVE Goal
  BY <1>5, <1>f DEF HostDisposes, HostStarts, entryVars, ExactFrame
<1>6. CASE HostGivesBack(h)
  <2>1. PICK b \in BlobIds : IsNext(h, b) /\ GiveBack(h, hostSession[h], b)
    BY <1>6 DEF HostGivesBack
  <2>2. hostSession[h] \in Sessions /\ h \in Threads /\ deleting[h] = NoBlob
    BY <1>6, <2>1 DEF HostGivesBack, IsNext, StructInv, PlaceInv, Threads
  <2>3. UNCHANGED <<blob_id_, entry_size>>
    BY <1>6 DEF HostGivesBack, entryVars
  <2> QED BY <2>1, <2>2, <2>3, ExactGivenBack
<1>7. CASE HostSkips(h)
  BY <1>7, <1>f DEF HostSkips, entryVars, ExactFrame
<1>8. CASE HostUnlinks(h)
  BY <1>8, ExactErased DEF HostUnlinks, Threads
<1>9. CASE HostUnlinkThrows(h)
  BY <1>9 DEF HostUnlinkThrows, UnlinkThrows
<1>10. CASE HostRemoved(h)
  BY <1>10, <1>f DEF HostRemoved, entryVars, ExactFrame
<1>11. CASE HostErases(h)
  BY <1>11, <1>f DEF HostErases, entryVars, ExactFrame
<1> QED BY <1>1, <1>2, <1>3, <1>4, <1>5, <1>6, <1>7, <1>8, <1>9, <1>10, <1>11
       DEF HostStep, HostContinues

\* The steps of a handler: KeepsInv has the entry there when the chunk is counted.
LEMMA HandlerExact ==
  ASSUME ~FsFails, StructInv, TypeOK', NeverUndercounted, CountedExactly, ZeroInv, KeepsInv,
         NEW c \in Calls, ClientStep(c) \/ ServerStep(c)
  PROVE  CountedExactly' /\ ZeroInv'
<1> DEFINE Goal == CountedExactly' /\ ZeroInv'
<1>f. ASSUME ExactFrame PROVE Goal
  BY <1>f, ExactStays
<1>1. CASE PutRejected(c)
  BY <1>1, <1>f DEF PutRejected, sessionVars, entryVars, ExactFrame
<1>2. ASSUME NEW s, PutNoSession(c, s) PROVE Goal
  BY <1>2, <1>f DEF PutNoSession, sessionVars, entryVars, ExactFrame
<1>3. ASSUME NEW s, NEW size, PutAccepted(c, s, size) PROVE Goal
  BY <1>3, <1>f DEF PutAccepted, PutStarts, sessionVars, entryVars, ExactFrame
<1>4. ASSUME NEW n \in Chunks, PutReserves(c, n) PROVE Goal
  <2>1. n \in 0..MaxChunk
    BY ChunksAssumption
  <2>2. /\ putSession[c] \in Sessions /\ putBlob[c] \in BlobIds
        /\ putBlob[c] \in blobs_[putSession[c]]
    BY <1>4 DEF PutReserves, At, StructInv, PlaceInv, KeepsInv
  <2>3. /\ CanLock(putSession[c]) /\ CanReserve(n) /\ CountUp(n)
        /\ entry_size' = [entry_size EXCEPT ![putBlob[c]] = Plus(@, n)]
        /\ UNCHANGED <<blob_id_, deleting>>
    BY <1>4, <2>2 DEF PutReserves, Credit
  <2> QED BY <2>1, <2>2, <2>3, ExactReserved
<1>5. ASSUME NEW n, PutRefused(c, n) PROVE Goal
  BY <1>5, <1>f DEF PutRefused, sessionVars, entryVars, ExactFrame
<1>6. CASE PutNotChunk(c)
  BY <1>6, <1>f DEF PutNotChunk, sessionVars, entryVars, ExactFrame
<1>7. CASE PutEnds(c)
  BY <1>7, <1>f DEF PutEnds, sessionVars, entryVars, ExactFrame
<1>8. CASE PutTagThrows(c)
  BY <1>8, <1>f DEF PutTagThrows, sessionVars, entryVars, ExactFrame
<1>9. CASE PutMismatches(c)
  BY <1>9, <1>f DEF PutMismatches, entryVars, ExactFrame
<1>10. CASE PutMismatchThrows(c)
  BY <1>10 DEF PutMismatchThrows
<1>11. CASE PutCreates(c)
  <2>1. /\ blob_id_ < MaxBlobs /\ UNCHANGED <<deleting, current_size_>>
        /\ AddEntry(putSession[c], UploadPath(blob_id_'))
    BY <1>11 DEF PutCreates
  <2> HIDE DEF Goal
  <2> QED BY <2>1, ExactEntry DEF Goal, StructInv
<1>12. CASE PutOpens(c)
  BY <1>12, <1>f DEF PutOpens, entryVars, ExactFrame
<1>13. CASE PutOpenFails(c)
  BY <1>13 DEF PutOpenFails
<1>14. CASE PutWrites(c)
  BY <1>14, <1>f DEF PutWrites, entryVars, ExactFrame
<1>15. CASE PutGivesBack(c)
  <2>1. /\ putSession[c] \in Sessions /\ putBlob[c] \in BlobIds
        /\ c \in Threads /\ deleting[c] = NoBlob
    BY <1>15 DEF PutGivesBack, At, StructInv, PlaceInv, Threads
  <2> QED BY <1>15, <2>1, ExactGivenBack DEF PutGivesBack, entryVars
<1>16. CASE PutSkips(c)
  BY <1>16, <1>f DEF PutSkips, sessionVars, entryVars, ExactFrame
<1>17. CASE PutUnlinks(c)
  BY <1>17, ExactErased DEF PutUnlinks, Threads
<1>18. CASE PutUnlinkThrows(c)
  BY <1>18 DEF PutUnlinkThrows, UnlinkThrows
<1> QED BY <1>1, <1>2, <1>3, <1>4, <1>5, <1>6, <1>7, <1>8, <1>9, <1>10, <1>11, <1>12, <1>13,
           <1>14, <1>15, <1>16, <1>17, <1>18 DEF ClientStep, ServerStep

\* Nothing is held, and nothing counted.
LEMMA InitExact == Init => CountedExactly /\ ZeroInv
<1> SUFFICES ASSUME Init PROVE CountedExactly /\ ZeroInv
  OBVIOUS
<1>1. Reserved \in [BlobIds -> Nat] /\ \A b \in BlobIds : Reserved[b] = 0
  BY DEF Init, SessionInit, Reserved
<1>2. Total(Reserved) = 0
  BY <1>1, TotalZero
<1> QED BY <1>2 DEF Init, SessionInit, CountedExactly, ZeroInv

\* The invariant of an exact count, with those it rests on.
ExactInv == LifeStepInv /\ OrderInv /\ NeverUndercounted /\ CountedExactly /\ ZeroInv

\* It is inductive; a process that ends leaves nothing held and nothing counted.
LEMMA NextExact ==
  ASSUME OrderedUse, ~FsFails
  PROVE  ExactInv /\ [Next]_vars => ExactInv'
<1> SUFFICES ASSUME ExactInv, [Next]_vars PROVE ExactInv'
  OBVIOUS
<1>0. StructInv /\ LifeStepInv /\ OrderInv /\ NeverUndercounted /\ CountedExactly /\ ZeroInv
  BY DEF ExactInv, LifeStepInv
<1>1. LifeStepInv' /\ StructInv'
  BY <1>0, NextStruct, NextFile, NextOwn, NextLifeInv DEF LifeStepInv
<1>2. OrderInv' /\ NeverUndercounted' /\ TypeOK'
  BY <1>0, <1>1, NextOrder, NextCount, NextType DEF StructInv
<1>3. CountedExactly' /\ ZeroInv'
  <2>1. CASE (Construct \/ ConstructFails) /\ UNCHANGED <<putVars, crashes>>
    BY <1>0, <2>1, ExactStays DEF Construct, ConstructFails, entryVars, ExactFrame
  <2>2. CASE Crash
    <3>1. /\ current_size_' = 0 /\ entry_size' = [b \in BlobIds |-> 0]
      BY <2>2 DEF Crash, Forget
    <3> DEFINE new == Reserved'
    <3>2. new \in [BlobIds -> Nat] /\ \A b \in BlobIds : new[b] = 0
      BY <3>1 DEF Reserved
    <3>3. Total(new) = 0
      <4> HIDE DEF new
      <4> QED BY <3>2, TotalZero
    <3> QED BY <3>1, <3>3 DEF CountedExactly, ZeroInv
  <2>3. CASE UNCHANGED vars
    BY <1>0, <2>3, ExactStays DEF vars, sessionVars, entryVars, ExactFrame
  <2> QED BY <1>0, <1>2, <2>1, <2>2, <2>3, HostExact, HandlerExact DEF Next, OrderInv
<1> QED BY <1>1, <1>2, <1>3 DEF ExactInv

\* The count is exact in every state.
LEMMA ExactInvariance ==
  ASSUME OrderedUse, ~FsFails
  PROVE  Spec => []ExactInv
<1>1. Init => ExactInv
  BY InitStruct, InitFile, InitOwn, InitLifeInv, InitOrder, InitCount, InitExact
     DEF LifeStepInv, ExactInv
<1> QED BY <1>1, NextExact, PTL DEF Spec

\* With a host that keeps uploads apart and a file system that works, nothing
\* leaks: the counter is the number of bytes in the entries at every instant.
THEOREM CounterIsExact ==
  ASSUME OrderedUse, ~FsFails
  PROVE  Spec => []CountedExactly
<1>1. ExactInv => CountedExactly
  BY DEF ExactInv
<1> QED BY <1>1, ExactInvariance, PTL

\* A handler goes from its read to the deletion only by a refusal.
LEMMA OnlyRefused ==
  ASSUME TypeOK, [Next]_vars, NEW c \in Calls, putAt[c] = "read", putAt'[c] = "discard"
  PROVE  \E n \in Chunks : PutRefused(c, n)
<1>0. putAt \in [Calls -> Places]
  BY DEF TypeOK
<1>1. PICK d \in Calls : ClientStep(d) \/ ServerStep(d)
  BY DEF Next, Crash, Construct, ConstructFails, vars, putVars
<1>2. d = c
  BY <1>1, HandlerAlone DEF SameHandler
<1>g. ASSUME GoTo(c, "write") \/ GoTo(c, "read") PROVE FALSE
  BY <1>0, <1>g DEF GoTo
<1>a. ASSUME NEW code, Answer(c, code) PROVE FALSE
  BY <1>0, <1>a DEF Answer
<1>3. ~ServerStep(c)
  BY DEF ServerStep, PutCreates, PutOpens, PutOpenFails, PutWrites, PutGivesBack, PutSkips,
     PutUnlinks, PutUnlinkThrows, At
<1>4. ASSUME NEW n, PutReserves(c, n) PROVE FALSE
  BY <1>4, <1>a, <1>g DEF PutReserves
<1>5. ~(\E s \in Sessions, size \in Declared \cup {NoSize} : PutAccepted(c, s, size))
  BY DEF PutAccepted, PutStarts, At
<1> QED BY <1>1, <1>2, <1>3, <1>4, <1>5, <1>a DEF ClientStep, PutRejected, PutNoSession, PutNotChunk,
           PutEnds, PutTagThrows, PutMismatches, PutMismatchThrows

\* The step of RefusalJustified.
LEMMA RefusalStep ==
  ASSUME ExactInv, [Next]_vars, NEW c \in Calls, putAt[c] = "read", putAt'[c] = "discard"
  PROVE  Total(Reserved) + chunk'[c] > quota_
<1>t. TypeOK
  BY DEF ExactInv, LifeStepInv, StructInv
<1>1. PICK n \in Chunks : PutRefused(c, n)
  BY <1>t, OnlyRefused
<1>2. n \in 0..MaxChunk /\ n \in Nat /\ chunk'[c] = n /\ ~CanReserve(n)
  BY <1>t, <1>1, ChunksAssumption, StoreAssumption DEF PutRefused, TypeOK
<1>3. quota_ # 0 /\ Plus(current_size_, n) > quota_
  BY <1>2, <1>t, StoreAssumption DEF CanReserve, Plus, TypeOK, SessionTypeOK
<1>4. /\ current_size_ = Total(Reserved) /\ current_size_ <= quota_ /\ current_size_ \in Nat
  BY <1>t, <1>3, StoreAssumption
     DEF ExactInv, CountedExactly, NeverUndercounted, TypeOK, SessionTypeOK
<1>5. Plus(current_size_, n) = current_size_ + n
  BY <1>2, <1>4, StoreAssumption DEF Plus
<1> QED BY <1>2, <1>3, <1>4, <1>5

\* With such a host and file system a chunk is refused only when it does not
\* fit: for any number of sessions that share the quota.
THEOREM RefusalIsJustified ==
  ASSUME OrderedUse, ~FsFails
  PROVE  Spec => RefusalJustified
<1>1. ExactInv /\ [Next]_vars => [\A c \in Calls :
         putAt[c] = "read" /\ putAt'[c] = "discard" =>
             Total(Reserved) + chunk'[c] > quota_]_vars
  BY RefusalStep
<1>2. Spec => [][Next]_vars
  BY PTL DEF Spec
<1> QED BY <1>1, <1>2, ExactInvariance, PTL DEF RefusalJustified
=============================================================================
