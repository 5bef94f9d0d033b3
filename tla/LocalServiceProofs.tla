------------------------ MODULE LocalServiceProofs ------------------------
(***************************************************************************)
(* The local service next to the uploads, for every number of handlers of  *)
(* either kind: what it copies is whole, and it does no harm.              *)
(*                                                                         *)
(* Copies and uploads take their ids from one counter and make files of    *)
(* the same names, and they share nothing else.  So the invariant says     *)
(* that their ids differ (LocalIdInv); the invariants of the upload path   *)
(* then hold for it in this company as well, and a copy keeps its bytes    *)
(* because no other handler makes a file of its name.                      *)
(***************************************************************************)
EXTENDS LocalService, StoredBlobProofs

-----------------------------------------------------------------------------
(* The parts of the invariant. *)

\* What a call holds.
LocalTypes ==
    /\ localAt \in [Locals -> {"start", "tag", "create", "copy", "fill", "done"}]
    /\ localSession \in [Locals -> Sessions \cup {NoSession}]
    /\ localBlob \in [Locals -> BlobIds \cup {NoBlob}]
    /\ localSize \in [Locals -> Nat]
    /\ localStatus \in [Locals -> {"NONE", "OK", "UNAVAILABLE", "NOT_FOUND", "UNKNOWN"}]

\* A call past its lookup has a session, past create_blob_file a blob, and it
\* answers once.
LocalPlaceInv == \A l \in Locals :
    /\ localAt[l] \in {"tag", "create", "copy", "fill"} => localSession[l] \in Sessions
    /\ localAt[l] \in {"start", "tag", "create"} => localBlob[l] = NoBlob
    /\ localAt[l] \in {"copy", "fill"} => localBlob[l] \in BlobIds
    /\ localStatus[l] # "NONE" => localAt[l] = "done"

\* No two calls have the same blob, of whichever service they are.
LocalIdInv == \A l \in Locals :
    /\ localBlob[l] <= blob_id_
    /\ localBlob[l] # NoBlob =>
          /\ \A k \in Locals : k # l => localBlob[k] # localBlob[l]
          /\ \A c \in Calls : putBlob[c] # localBlob[l]

-----------------------------------------------------------------------------
(* What a step of the local service does to the rest.                      *)

\* The upload path, its files excepted.
NoFileVars == <<managerVars, running, entryVars, mtx_, current_size_, deleting, hostVars, putVars,
                crashes>>

\* Only the file of the blob of l changes.
FillsOwn(l) ==
    /\ localBlob[l] \in BlobIds
    /\ UNCHANGED NoFileVars
    /\ files' \in [Paths -> Nat \cup {NoFile}]
    /\ \A p \in Paths : p # UploadPath(localBlob[l]) => files'[p] = files[p]

\* A call takes an id, fills its file, or leaves everything as it is.
LEMMA LocalChanges ==
  ASSUME TypeOK, LocalTypes, LocalPlaceInv, NEW l \in Locals, LocalStep(l)
  PROVE  LocalCreates(l) \/ FillsOwn(l) \/ UNCHANGED vars
<1>0. files \in [Paths -> Nat \cup {NoFile}]
  BY DEF TypeOK, SessionTypeOK
<1>f. ASSUME localAt[l] \in {"copy", "fill"}, UNCHANGED NoFileVars,
             \/ files' = files
             \/ \E n \in Nat : files' = [files EXCEPT ![UploadPath(localBlob[l])] = n]
      PROVE  FillsOwn(l)
  <2>1. localBlob[l] \in BlobIds
    BY <1>f DEF LocalPlaceInv
  <2> QED BY <1>0, <1>f, <2>1 DEF FillsOwn
<1>c. ASSUME NEW size \in Nat, LocalCopies(l, size), UNCHANGED entry_size PROVE FillsOwn(l)
  BY <1>c, <1>f DEF LocalCopies, LocalReaches, NoFileVars, entryVars
<1>1. CASE LocalRejected(l)
  BY <1>1 DEF LocalRejected
<1>2. ASSUME NEW s, LocalNoSession(l, s) PROVE UNCHANGED vars
  BY <1>2 DEF LocalNoSession
<1>3. ASSUME NEW s, LocalFindsSession(l, s) PROVE UNCHANGED vars
  BY <1>3 DEF LocalFindsSession
<1>4. CASE LocalGets(l)
  BY <1>4 DEF LocalGets
<1>5. CASE LocalOpens(l)
  BY <1>5, <1>f DEF LocalOpens, LocalReaches, NoFileVars
<1>6. CASE LocalOpenFails(l)
  BY <1>6 DEF LocalOpenFails
<1>7. CASE LocalFills(l)
  BY <1>7, <1>c, LocalSizesAssumption DEF LocalFills
<1>8. CASE LocalFillThrows(l)
  <2>1. PICK size \in LocalSizes : \E part \in 0..size : LocalCopies(l, part)
    BY <1>8 DEF LocalFillThrows
  <2>2. \A part \in 0..size : part \in Nat
    BY <2>1, LocalSizesAssumption
  <2> QED BY <1>8, <1>c, <2>1, <2>2 DEF LocalFillThrows
<1> QED BY <1>1, <1>2, <1>3, <1>4, <1>5, <1>6, <1>7, <1>8 DEF LocalStep, LocalServes

\* A step of the upload path is one of StreamingPut, and no crash.
LEMMA StreamIsNext ==
  ASSUME TypeOK, StreamStep
  PROVE  Next /\ ~Crash
<1>1. UNCHANGED crashes /\ Next
  BY DEF StreamStep, Next
<1> QED BY <1>1, PutBoundsAssumption DEF Crash, TypeOK

\* The structure of the upload path is kept.
LEMMA LocalStruct ==
  ASSUME StructInv, LocalTypes, LocalPlaceInv, NEW l \in Locals, LocalStep(l)
  PROVE  StructInv'
<1>0. TypeOK /\ PlaceInv /\ LockInv /\ IdInv
  BY DEF StructInv
<1>1. CASE LocalCreates(l)
  <2>1. /\ localSession[l] \in Sessions /\ blob_id_ < MaxBlobs
        /\ AddEntry(localSession[l], UploadPath(blob_id_'))
        /\ UNCHANGED <<managerVars, running, mtx_, current_size_, files, deleting, hostVars,
                       putVars, crashes>>
    BY <1>1 DEF LocalCreates, LocalReaches, LocalPlaceInv
  <2>2. blob_id_' = blob_id_ + 1 /\ blob_id_' \in BlobIds
    BY <1>0, <2>1, BlobsAssumption DEF AddEntry, TypeOK, SessionTypeOK, BlobIds
  <2>3. UploadPath(blob_id_') \in Paths
    BY <2>2, UploadPathOK
  <2>4. TypeOK'
    <3>1. /\ blob_id_' \in 0..MaxBlobs
          /\ blobs_' \in [Sessions -> SUBSET BlobIds]
          /\ entry_path' \in [BlobIds -> Paths]
          /\ entry_size' \in [BlobIds -> 0..Word - 1]
      BY <1>0, <2>1, <2>3, EntryType
    <3> QED BY <1>0, <2>1, <3>1 DEF TypeOK, SessionTypeOK, ManagerTypeOK, managerVars, hostVars,
         putVars
  <2>5. PlaceInv'
    BY <1>0, <2>1 DEF PlaceInv, hostVars, putVars
  <2>6. /\ \A s \in Sessions \ {localSession[l]} : blobs_'[s] = blobs_[s]
        /\ blobs_'[localSession[l]] = blobs_[localSession[l]] \cup {blob_id_'}
    BY <1>0, <2>1, <2>2 DEF AddEntry, Emplace, TypeOK, SessionTypeOK
  <2>7. LockInv'
    <3>1. \A r \in Sessions : blobs_[r] \subseteq blobs_'[r]
      BY <2>6
    <3>2. \A u \in Threads : ThreadSession(u)' = ThreadSession(u)
      BY <2>1 DEF ThreadSession, hostVars, putVars
    <3> QED BY <1>0, <2>1, <3>1, <3>2, LockFrame
  <2>8. IdInv'
    <3>1. UNCHANGED putBlob
      BY <2>1 DEF putVars
    <3> QED BY <1>0, <2>1, <2>2, <2>6, <3>1, IdTaken
  <2> QED BY <2>4, <2>5, <2>7, <2>8 DEF StructInv
<1>2. CASE FillsOwn(l)
  BY <1>0, <1>2 DEF FillsOwn, NoFileVars, StructInv, TypeOK, SessionTypeOK, ManagerTypeOK,
     PlaceInv, LockInv, IdInv, EntryOnce, ThreadSession, managerVars, entryVars, hostVars, putVars
<1>3. CASE UNCHANGED vars
  BY <1>3, NextStruct
<1> QED BY <1>0, <1>1, <1>2, <1>3, LocalChanges

-----------------------------------------------------------------------------
(* Types, places and ids of the calls.                                     *)

\* What another call holds.
SameLocal(l) ==
    /\ localAt'[l] = localAt[l]
    /\ localSession'[l] = localSession[l]
    /\ localBlob'[l] = localBlob[l]
    /\ localSize'[l] = localSize[l]
    /\ localStatus'[l] = localStatus[l]

\* A step of one call leaves the others alone, and gives its own call no blob
\* but the next one.
LEMMA LocalAlone ==
  ASSUME LocalTypes, NEW l \in Locals, LocalStep(l)
  PROVE  /\ \A k \in Locals \ {l} : SameLocal(k)
         /\ ~LocalCreates(l) => UNCHANGED localBlob
<1> USE DEF LocalTypes, SameLocal
<1> DEFINE Goal == /\ \A k \in Locals \ {l} : SameLocal(k)
                   /\ ~LocalCreates(l) => UNCHANGED localBlob
<1>a. ASSUME NEW code, LocalAnswers(l, code), UNCHANGED localBlob,
             UNCHANGED localSize \/ \E n \in Nat : localSize' = [localSize EXCEPT ![l] = n]
      PROVE  Goal
  BY <1>a DEF LocalAnswers
<1>1. CASE LocalRejected(l)
  BY <1>1, <1>a DEF LocalRejected
<1>2. ASSUME NEW s, LocalNoSession(l, s) PROVE Goal
  BY <1>2, <1>a DEF LocalNoSession
<1>3. ASSUME NEW s, LocalFindsSession(l, s) PROVE Goal
  BY <1>3 DEF LocalFindsSession
<1>4. CASE LocalGets(l)
  BY <1>4, <1>a DEF LocalGets
<1>5. CASE LocalCreates(l)
  BY <1>5 DEF LocalCreates, LocalGoesTo
<1>6. CASE LocalOpens(l)
  BY <1>6 DEF LocalOpens, LocalGoesTo
<1>7. CASE LocalOpenFails(l)
  BY <1>7, <1>a DEF LocalOpenFails
<1>8. CASE LocalFills(l)
  BY <1>8, <1>a, LocalSizesAssumption DEF LocalFills, LocalCopies
<1>9. CASE LocalFillThrows(l)
  <2>1. PICK size \in LocalSizes : \E part \in 0..size : LocalCopies(l, part)
    BY <1>9 DEF LocalFillThrows
  <2>2. \A part \in 0..size : part \in Nat
    BY <2>1, LocalSizesAssumption
  <2> QED BY <1>9, <1>a, <2>1, <2>2 DEF LocalFillThrows, LocalCopies
<1> QED BY <1>1, <1>2, <1>3, <1>4, <1>5, <1>6, <1>7, <1>8, <1>9 DEF LocalStep, LocalServes

\* A step of a call keeps types and places.
LEMMA LocalStepType ==
  ASSUME TypeOK, LocalTypes, LocalPlaceInv, NEW l \in Locals, LocalStep(l)
  PROVE  LocalTypes' /\ LocalPlaceInv'
<1> USE DEF LocalTypes
<1>s. localAt[l] # "done" => localStatus[l] = "NONE"
  BY DEF LocalPlaceInv
<1>a. ASSUME NEW code \in {"OK", "UNAVAILABLE", "NOT_FOUND", "UNKNOWN"}, LocalAnswers(l, code),
             UNCHANGED localBlob,
             UNCHANGED localSize \/ \E n \in Nat : localSize' = [localSize EXCEPT ![l] = n]
      PROVE  LocalTypes' /\ LocalPlaceInv'
  <2>1. LocalTypes'
    BY <1>a DEF LocalAnswers
  <2>2. LocalPlaceInv'
    BY <1>a DEF LocalAnswers, LocalPlaceInv
  <2> QED BY <2>1, <2>2
<1>1. CASE LocalRejected(l)
  BY <1>1, <1>a DEF LocalRejected
<1>2. ASSUME NEW s, LocalNoSession(l, s) PROVE LocalTypes' /\ LocalPlaceInv'
  BY <1>2, <1>a DEF LocalNoSession
<1>3. ASSUME NEW s \in Sessions, LocalFindsSession(l, s) PROVE LocalTypes' /\ LocalPlaceInv'
  <2>1. PICK place \in {"tag", "create"} : localAt' = [localAt EXCEPT ![l] = place]
    BY <1>3 DEF LocalFindsSession
  <2>2. LocalTypes'
    BY <1>3, <2>1 DEF LocalFindsSession
  <2>3. LocalPlaceInv'
    BY <1>3, <1>s, <2>1 DEF LocalFindsSession, LocalReaches, LocalPlaceInv
  <2> QED BY <2>2, <2>3
<1>4. CASE LocalGets(l)
  BY <1>4, <1>a DEF LocalGets
<1>5. CASE LocalCreates(l)
  <2>1. blob_id_' \in BlobIds
    BY <1>5, BlobsAssumption DEF LocalCreates, AddEntry, TypeOK, SessionTypeOK, BlobIds
  <2>2. LocalTypes'
    BY <1>5, <2>1 DEF LocalCreates, LocalGoesTo
  <2>3. LocalPlaceInv'
    BY <1>5, <1>s, <2>1 DEF LocalCreates, LocalReaches, LocalGoesTo, LocalPlaceInv
  <2> QED BY <2>2, <2>3
<1>6. CASE LocalOpens(l)
  <2>1. LocalTypes'
    BY <1>6 DEF LocalOpens, LocalGoesTo
  <2>2. LocalPlaceInv'
    BY <1>6, <1>s DEF LocalOpens, LocalReaches, LocalGoesTo, LocalPlaceInv
  <2> QED BY <2>1, <2>2
<1>7. CASE LocalOpenFails(l)
  BY <1>7, <1>a DEF LocalOpenFails
<1>8. CASE LocalFills(l)
  BY <1>8, <1>a, LocalSizesAssumption DEF LocalFills, LocalCopies
<1>9. CASE LocalFillThrows(l)
  <2>1. PICK size \in LocalSizes : \E part \in 0..size : LocalCopies(l, part)
    BY <1>9 DEF LocalFillThrows
  <2>2. \A part \in 0..size : part \in Nat
    BY <2>1, LocalSizesAssumption
  <2> QED BY <1>9, <1>a, <2>1, <2>2 DEF LocalFillThrows, LocalCopies
<1> QED BY <1>1, <1>2, <1>3, <1>4, <1>5, <1>6, <1>7, <1>8, <1>9 DEF LocalStep, LocalServes

\* The numbers that ids are.
LEMMA IdNumbers ==
  ASSUME StructInv, LocalTypes, LocalIdInv
  PROVE  /\ blob_id_ \in Nat /\ BlobIds \cup {NoBlob} \subseteq Nat
         /\ \A c \in Calls : putBlob[c] \in Nat /\ putBlob[c] <= blob_id_
         /\ \A l \in Locals : localBlob[l] \in Nat /\ localBlob[l] <= blob_id_
<1>1. BlobIds \cup {NoBlob} \subseteq Nat
  BY DEF BlobIds, NoBlob
<1>2. /\ blob_id_ \in Nat
      /\ \A c \in Calls : putBlob[c] \in BlobIds \cup {NoBlob} /\ putBlob[c] <= blob_id_
      /\ \A l \in Locals : localBlob[l] \in BlobIds \cup {NoBlob} /\ localBlob[l] <= blob_id_
  BY DEF StructInv, TypeOK, SessionTypeOK, IdInv, LocalIdInv, LocalTypes
<1> QED BY <1>1, <1>2

\* An upload takes no id that a copy has.
LEMMA StreamIds ==
  ASSUME StructInv, LocalTypes, LocalIdInv, StreamStep, UNCHANGED localVars
  PROVE  LocalIdInv'
<1>0. TypeOK /\ Next /\ ~Crash
  BY StreamIsNext DEF StructInv
<1>1. blob_id_' \in {blob_id_, blob_id_ + 1}
  BY <1>0, IdsGrow
<1>2. ASSUME NEW c \in Calls PROVE putBlob'[c] \in {putBlob[c], blob_id_ + 1}
  <2>1. ASSUME NEW d \in Calls, ClientStep(d) \/ ServerStep(d)
        PROVE  putBlob'[c] \in {putBlob[c], blob_id_ + 1}
    <3>1. CASE c = d
      BY <1>0, <2>1, <3>1, BlobOfHandler
    <3>2. CASE c # d
      BY <1>0, <2>1, <3>2, HandlerAlone DEF SameHandler
    <3> QED BY <3>1, <3>2
  <2>2. UNCHANGED putVars => putBlob' = putBlob
    BY DEF putVars
  <2> QED BY <2>1, <2>2 DEF StreamStep
<1>3. /\ blob_id_ \in Nat
      /\ \A l \in Locals : localBlob[l] \in Nat /\ localBlob[l] <= blob_id_
  BY IdNumbers
<1>4. \A l \in Locals : localBlob[l] <= blob_id_' /\ localBlob[l] # blob_id_ + 1
  BY <1>1, <1>3
<1> QED BY <1>2, <1>4 DEF LocalIdInv, localVars

\* Nor does a copy take one that is in use.
LEMMA LocalIds ==
  ASSUME StructInv, LocalTypes, LocalPlaceInv, LocalIdInv, NEW l \in Locals, LocalStep(l)
  PROVE  LocalIdInv'
<1>0. /\ TypeOK
      /\ blob_id_ \in Nat
      /\ \A c \in Calls : putBlob[c] \in Nat /\ putBlob[c] <= blob_id_
      /\ \A k \in Locals : localBlob[k] \in Nat /\ localBlob[k] <= blob_id_
  BY IdNumbers DEF StructInv
<1>1. CASE LocalCreates(l)
  <2>1. /\ blob_id_' = blob_id_ + 1 /\ UNCHANGED putBlob
        /\ localBlob' = [localBlob EXCEPT ![l] = blob_id_ + 1]
    BY <1>1 DEF LocalCreates, AddEntry, putVars
  <2>2. localBlob'[l] = blob_id_ + 1 /\ \A k \in Locals \ {l} : localBlob'[k] = localBlob[k]
    BY <2>1 DEF LocalTypes
  <2>3. \A k \in Locals : localBlob[k] <= blob_id_ + 1 /\ localBlob[k] # blob_id_ + 1
    BY <1>0
  <2>4. \A c \in Calls : putBlob[c] # blob_id_ + 1
    BY <1>0
  <2>5. blob_id_ + 1 <= blob_id_ + 1
    BY <1>0
  <2> QED BY <2>1, <2>2, <2>3, <2>4, <2>5 DEF LocalIdInv
<1>2. CASE ~LocalCreates(l)
  <2>1. UNCHANGED localBlob
    BY <1>2, LocalAlone
  <2>2. UNCHANGED <<blob_id_, putBlob>>
    BY <1>0, <1>2, LocalChanges DEF FillsOwn, NoFileVars, vars, sessionVars, entryVars, putVars
  <2> QED BY <2>1, <2>2 DEF LocalIdInv
<1> QED BY <1>1, <1>2

-----------------------------------------------------------------------------
(* The copies.                                                             *)

\* No step of the upload path makes or writes the file of a copy.
LEMMA StreamData ==
  ASSUME StructInv, LocalTypes, LocalIdInv, StreamStep, NEW l \in Locals, localBlob[l] # NoBlob
  PROVE  NoNewData(localBlob[l])
<1>0. TypeOK /\ localBlob[l] \in BlobIds
  BY DEF StructInv, LocalTypes
<1>1. ASSUME NEW c \in Calls, ClientStep(c) \/ ServerStep(c) PROVE NoNewData(localBlob[l])
  <2>1. putBlob[c] # localBlob[l]
    BY DEF LocalIdInv
  <2> QED BY <1>0, <1>1, <2>1, HandlerData
<1> QED BY <1>0, <1>1, HostData, ConstructData DEF StreamStep

\* So a copy stays complete, or goes.
LEMMA StreamCopies ==
  ASSUME StructInv, LocalTypes, LocalIdInv, CopyIsComplete, StreamStep, UNCHANGED localVars
  PROVE  CopyIsComplete'
<1>1. SUFFICES ASSUME NEW l \in Locals, localStatus[l] = "OK", localBlob[l] # NoBlob
               PROVE  files'[UploadPath(localBlob[l])] \in {NoFile, localSize[l]}
  BY DEF CopyIsComplete, localVars, UploadPath
<1>2. files[UploadPath(localBlob[l])] \in {NoFile, localSize[l]}
  BY <1>1 DEF CopyIsComplete
<1> QED BY <1>1, <1>2, StreamData DEF NoNewData, OnlyGoes

\* Another call leaves its file alone; its own has put there what it answers for.
LEMMA LocalCopiesStep ==
  ASSUME TypeOK, LocalTypes, LocalPlaceInv, LocalIdInv, CopyIsComplete,
         NEW l \in Locals, LocalStep(l)
  PROVE  CopyIsComplete'
<1>0. files \in [Paths -> Nat \cup {NoFile}]
  BY DEF TypeOK, SessionTypeOK
<1>1. ASSUME NEW k \in Locals, k # l, localStatus'[k] = "OK", localBlob'[k] # NoBlob
      PROVE  files'[UploadPath(localBlob'[k])] \in {NoFile, localSize'[k]}
  <2>1. SameLocal(k)
    BY <1>1, LocalAlone
  <2>2. localBlob[k] \in BlobIds /\ localBlob[k] # NoBlob /\ localStatus[k] = "OK"
    BY <1>1, <2>1 DEF SameLocal, LocalTypes
  <2>3. files[UploadPath(localBlob[k])] \in {NoFile, localSize[k]}
    BY <2>2 DEF CopyIsComplete
  <2>4. files'[UploadPath(localBlob[k])] = files[UploadPath(localBlob[k])]
    <3>1. CASE FillsOwn(l)
      <4>1. localBlob[k] # localBlob[l]
        BY <1>1, <2>2 DEF LocalIdInv
      <4>2. UploadPath(localBlob[k]) # UploadPath(localBlob[l]) /\ UploadPath(localBlob[k]) \in Paths
        BY <2>2, <4>1, UploadPathOK DEF UploadPath
      <4> QED BY <3>1, <4>2 DEF FillsOwn
    <3>2. CASE LocalCreates(l) \/ UNCHANGED vars
      BY <3>2 DEF LocalCreates, vars, sessionVars
    <3> QED BY <3>1, <3>2, LocalChanges
  <2> QED BY <2>1, <2>3, <2>4 DEF SameLocal
<1>2. ASSUME localStatus'[l] = "OK", localBlob'[l] # NoBlob
      PROVE  files'[UploadPath(localBlob'[l])] \in {NoFile, localSize'[l]}
  <2>0. localAt[l] # "done" => localStatus[l] = "NONE"
    BY DEF LocalPlaceInv
  <2>a. ASSUME NEW code, LocalAnswers(l, code), code # "OK" PROVE FALSE
    BY <1>2, <2>a DEF LocalAnswers, LocalTypes
  <2>g. ASSUME UNCHANGED localStatus, localAt[l] # "done" PROVE FALSE
    BY <1>2, <2>0, <2>g
  <2>1. ~LocalRejected(l) /\ ~LocalOpenFails(l) /\ ~LocalFillThrows(l)
    BY <2>a DEF LocalRejected, LocalOpenFails, LocalFillThrows
  <2>2. \A s : ~LocalNoSession(l, s) /\ ~LocalFindsSession(l, s)
    BY <2>a, <2>g DEF LocalNoSession, LocalFindsSession, LocalReaches
  <2>3. ~LocalCreates(l) /\ ~LocalOpens(l)
    BY <2>g DEF LocalCreates, LocalOpens, LocalReaches, LocalGoesTo
  <2>4. ~LocalGets(l)
    BY <1>2 DEF LocalGets, LocalReaches, LocalPlaceInv
  <2>5. LocalFills(l)
    BY <2>1, <2>2, <2>3, <2>4 DEF LocalStep, LocalServes
  <2>6. PICK size \in LocalSizes : LocalCopies(l, size)
    BY <2>5 DEF LocalFills
  <2>7. /\ localBlob'[l] = localBlob[l] /\ localBlob[l] \in BlobIds
        /\ localSize'[l] = size
    BY <2>6 DEF LocalCopies, LocalReaches, LocalPlaceInv, LocalTypes
  <2>8. files' = IF files[UploadPath(localBlob[l])] = NoFile THEN files
                 ELSE [files EXCEPT ![UploadPath(localBlob[l])] = size]
    BY <2>6 DEF LocalCopies
  <2>9. files'[UploadPath(localBlob[l])] \in {NoFile, size}
    BY <1>0, <2>7, <2>8, UploadPathOK
  <2> QED BY <2>7, <2>9
<1> QED BY <1>1, <1>2 DEF CopyIsComplete, UploadPath

-----------------------------------------------------------------------------
(* The uploads next to them.                                               *)

\* A step of the local service leaves the handlers of uploads alone, and the
\* data and entries of their blobs.
LEMMA LocalSpares ==
  ASSUME StructInv, LocalTypes, LocalPlaceInv, LocalIdInv, NEW l \in Locals, LocalStep(l),
         NEW c \in Calls
  PROVE  /\ SameHandler(c)
         /\ putBlob[c] \in BlobIds => NoNewData(putBlob[c])
         /\ \A b \in BlobIds : b # blob_id_ + 1 => NoNewEntry(b)
<1>0. TypeOK
  BY DEF StructInv
<1>1. CASE LocalCreates(l)
  <2>1. /\ AddEntry(localSession[l], UploadPath(blob_id_'))
        /\ UNCHANGED <<files, deleting, putVars>>
    BY <1>1 DEF LocalCreates
  <2>2. \A b \in BlobIds : b # blob_id_ + 1 => NoNewEntry(b)
    BY <1>0, <2>1, EntryOfNext
  <2> QED BY <2>1, <2>2 DEF SameHandler, putVars, NoNewData, OnlyGoes
<1>2. CASE FillsOwn(l)
  <2>1. putBlob[c] # localBlob[l]
    BY <1>2 DEF FillsOwn, LocalIdInv, BlobIds, NoBlob
  <2>2. putBlob[c] \in BlobIds => NoNewData(putBlob[c])
    BY <1>2, <2>1, UploadPathOK DEF FillsOwn, NoNewData, OnlyGoes, UploadPath
  <2> QED BY <1>2, <2>2 DEF FillsOwn, NoFileVars, putVars, entryVars, SameHandler, NoNewEntry
<1>3. CASE UNCHANGED vars
  BY <1>3 DEF vars, sessionVars, putVars, entryVars, SameHandler, NoNewData, OnlyGoes, NoNewEntry
<1> QED BY <1>0, <1>1, <1>2, <1>3, LocalChanges

\* Copies are not counted: entries are made with no bytes in them.
LEMMA LocalCount ==
  ASSUME StructInv, StructInv', LocalTypes, LocalPlaceInv, NeverUndercounted,
         NEW l \in Locals, LocalStep(l)
  PROVE  NeverUndercounted'
<1>0. TypeOK /\ TypeOK'
  BY DEF StructInv
<1>1. CASE LocalCreates(l)
  BY <1>0, <1>1, CountEntry DEF LocalCreates
<1>2. CASE FillsOwn(l)
  BY <1>2, CountFrame DEF FillsOwn, NoFileVars, entryVars
<1>3. CASE UNCHANGED vars
  BY <1>3, CountFrame DEF vars, sessionVars, entryVars
<1> QED BY <1>0, <1>1, <1>2, <1>3, LocalChanges

-----------------------------------------------------------------------------
(* The theorems.                                                           *)

LocalInv ==
    /\ StructInv /\ OwnInv
    /\ LocalTypes /\ LocalPlaceInv /\ LocalIdInv
    /\ CopyIsComplete

\* No call has begun.
LEMMA InitLocal == LocalInit => LocalInv
<1> SUFFICES ASSUME LocalInit PROVE LocalInv
  OBVIOUS
<1>1. Init /\ blob_id_ = 0
  BY DEF LocalInit, Init, SessionInit
<1>2. LocalTypes /\ LocalPlaceInv /\ LocalIdInv /\ CopyIsComplete
  BY <1>1 DEF LocalInit, LocalTypes, LocalPlaceInv, LocalIdInv, CopyIsComplete, NoBlob
<1> QED BY <1>1, <1>2, InitStruct, InitOwn DEF LocalInv

\* The invariant is inductive, whatever fails.
LEMMA NextLocal == LocalInv /\ [LocalNext]_<<vars, localVars>> => LocalInv'
<1> SUFFICES ASSUME LocalInv, [LocalNext]_<<vars, localVars>> PROVE LocalInv'
  OBVIOUS
<1> USE DEF LocalInv
<1>0. TypeOK
  BY DEF StructInv
<1>1. CASE StreamStep /\ UNCHANGED localVars
  <2>1. StructInv' /\ OwnInv'
    BY <1>0, <1>1, StreamIsNext, NextStruct, NextOwn
  <2>2. LocalTypes' /\ LocalPlaceInv'
    BY <1>1 DEF LocalTypes, LocalPlaceInv, localVars
  <2> QED BY <1>1, <2>1, <2>2, StreamIds, StreamCopies
<1>2. ASSUME NEW l \in Locals, LocalStep(l) PROVE LocalInv'
  <2>1. OwnInv'
    <3>1. ASSUME NEW c \in Calls PROVE HandlerOwns(c)'
      BY <1>2, LocalSpares, OwnFrame DEF OwnInv
    <3> QED BY <3>1 DEF OwnInv
  <2> QED BY <1>0, <1>2, <2>1, LocalStruct, LocalStepType, LocalIds, LocalCopiesStep
<1>3. CASE UNCHANGED <<vars, localVars>>
  <2>1. StructInv' /\ OwnInv'
    BY <1>3, NextStruct, NextOwn
  <2>2. LocalTypes' /\ LocalPlaceInv' /\ LocalIdInv' /\ CopyIsComplete'
    BY <1>3 DEF vars, localVars, putVars, sessionVars, entryVars, LocalTypes, LocalPlaceInv,
       LocalIdInv, CopyIsComplete, UploadPath
  <2> QED BY <2>1, <2>2
<1> QED BY <1>1, <1>2, <1>3 DEF LocalNext

\* It holds in every reachable state.
LEMMA LocalInvariance == LocalSpec => []LocalInv
BY InitLocal, NextLocal, PTL DEF LocalSpec

\* Every state of copies and uploads has its type, whatever fails.
THEOREM LocalTypeCorrect == LocalSpec => []LocalTypeOK
<1>1. LocalInv => LocalTypeOK
  BY DEF LocalInv, StructInv, LocalTypes, LocalTypeOK
<1> QED BY <1>1, LocalInvariance, PTL

\* local_service::Put: a copy that was acknowledged is on disk in full until the
\* host takes it, for any number of copies and uploads into any sessions, and
\* even if the file system fails other calls.
THEOREM CopyWhole == LocalSpec => []CopyIsComplete
<1>1. LocalInv => CopyIsComplete
  BY DEF LocalInv
<1> QED BY <1>1, LocalInvariance, PTL

\* The counter of the session store still covers the reserved bytes of all
\* entries, and is within the quota, with copies that reserve nothing: their
\* entries hold nothing, so deleting them gives nothing back.
THEOREM LocalCounterSafe ==
  ASSUME ~FsFails
  PROVE  LocalSpec => []NeverUndercounted
<1> DEFINE Inv == LocalInv /\ NeverUndercounted
<1>1. LocalInit => Inv
  BY InitLocal, InitCount DEF LocalInit
<1>2. Inv /\ [LocalNext]_<<vars, localVars>> => Inv'
  <2> SUFFICES ASSUME Inv, [LocalNext]_<<vars, localVars>> PROVE Inv'
    OBVIOUS
  <2>0. LocalInv' /\ TypeOK /\ StructInv /\ StructInv'
    BY NextLocal DEF LocalInv, StructInv
  <2>1. CASE StreamStep
    BY <2>0, <2>1, StreamIsNext, NextCount
  <2>2. ASSUME NEW l \in Locals, LocalStep(l) PROVE Inv'
    BY <2>0, <2>2, LocalCount DEF LocalInv
  <2>3. CASE UNCHANGED vars
    BY <2>0, <2>3, NextCount
  <2> QED BY <2>1, <2>2, <2>3 DEF LocalNext
<1> QED BY <1>1, <1>2, PTL DEF LocalSpec

\* No copy is made over an upload: an upload that was acknowledged stays on disk
\* with all its bytes next to the local service as well.
THEOREM UploadsUnharmed ==
  ASSUME ~FsFails
  PROVE  LocalSpec => []AcknowledgedIsComplete
<1> DEFINE Inv == LocalInv /\ WholeInv
<1>1. LocalInit => Inv
  BY InitLocal, InitWhole DEF LocalInit
<1>2. Inv /\ [LocalNext]_<<vars, localVars>> => Inv'
  <2> SUFFICES ASSUME Inv, [LocalNext]_<<vars, localVars>> PROVE Inv'
    OBVIOUS
  <2>0. LocalInv' /\ TypeOK /\ StructInv /\ OwnInv
    BY NextLocal DEF LocalInv, StructInv
  <2>1. CASE StreamStep
    BY <2>0, <2>1, StreamIsNext, NextWhole
  <2>2. ASSUME NEW l \in Locals, LocalStep(l) PROVE Inv'
    <3>1. ASSUME NEW c \in Calls PROVE HandlerWhole(c)'
      BY <2>0, <2>2, LocalSpares, WholeFrame DEF LocalInv, WholeInv
    <3> QED BY <2>0, <3>1 DEF WholeInv
  <2>3. CASE UNCHANGED vars
    BY <2>0, <2>3, NextWhole
  <2> QED BY <2>1, <2>2, <2>3 DEF LocalNext
<1>3. WholeInv => AcknowledgedIsComplete
  BY DEF WholeInv, HandlerWhole, AcknowledgedIsComplete
<1> QED BY <1>1, <1>2, <1>3, PTL DEF LocalSpec

\* Nor does the local service take an entry away: an upload that was acknowledged
\* leaves its session only by the host's hand.
THEOREM EntriesUnharmed == LocalSpec => OnlyHostDeletesAcknowledged
<1>1. LocalInv /\ [LocalNext]_<<vars, localVars>> =>
        [\A c \in Calls :
          /\ status[c] = "OK"
          /\ \E s \in Sessions : putBlob[c] \in blobs_[s] \ blobs_'[s]
          => ~running' \/ \E h \in Hosts : deleting[h] = putBlob[c]]_vars
  <2> SUFFICES ASSUME LocalInv, [LocalNext]_<<vars, localVars>>,
                      NEW c \in Calls, status[c] = "OK", running',
                      NEW s \in Sessions, putBlob[c] \in blobs_[s] \ blobs_'[s]
               PROVE  \E h \in Hosts : deleting[h] = putBlob[c]
    OBVIOUS
  <2>0. TypeOK /\ StructInv /\ OwnInv
    BY DEF LocalInv, StructInv
  <2>1. CASE StreamStep \/ UNCHANGED vars
    BY <2>0, <2>1, StreamIsNext, HostDeletes
  <2>2. ASSUME NEW l \in Locals, LocalStep(l) PROVE FALSE
    <3>1. blobs_[s] \subseteq blobs_'[s]
      <4>1. CASE LocalCreates(l)
        BY <2>0, <4>1 DEF LocalCreates, AddEntry, Emplace, TypeOK, SessionTypeOK
      <4>2. CASE FillsOwn(l) \/ UNCHANGED vars
        BY <4>2 DEF FillsOwn, NoFileVars, vars, sessionVars, entryVars
      <4> QED BY <2>0, <2>2, <4>1, <4>2, LocalChanges DEF LocalInv
    <3> QED BY <3>1
  <2> QED BY <2>1, <2>2 DEF LocalNext
<1> QED BY <1>1, LocalInvariance, PTL DEF LocalSpec, OnlyHostDeletesAcknowledged
=============================================================================
