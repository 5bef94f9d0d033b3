------------------------ MODULE StreamingGetProofs ------------------------
(***************************************************************************)
(* What a download gives its client while the blob is written, moved and   *)
(* removed, for every number of handlers of either kind.                   *)
(*                                                                         *)
(* A Get looks at its file three times with no lock.  What makes it sound  *)
(* is how the files change between the looks: the path of an id belongs to *)
(* one upload, so once its file has been made (Written) it only grows or   *)
(* goes, and no other file comes in its place.  A length that was seen is  *)
(* therefore a lower bound of every later one, of the path and of the      *)
(* unlinked file that an open stream still reads (Holds).  The invariant   *)
(* has three parts:                                                        *)
(*   LifeStepInv  the invariant of the upload path, which the data store's *)
(*                own deletions keep as well;                              *)
(*   FileSizeInv  a file of the store has a writer and is no longer than   *)
(*                what that has received;                                  *)
(*   TransferInv  what each Get may rely on at its place.                  *)
(***************************************************************************)
EXTENDS StreamingGet, StoredBlobProofs

-----------------------------------------------------------------------------
(* The parts of the invariant. *)

\* The handler of c writes the file at p.
Writes(c, p) == UploadPath(putBlob[c]) = p

\* A file of the data store keeps its length.  A file of the session store has
\* the upload of its id for a writer, which has received what is in it.
FileSizeInv ==
    /\ \A f \in HostFiles : files[HostPath(f)] \in {NoFile, 1}
    /\ running => \A b \in BlobIds :
          files[UploadPath(b)] # NoFile => \E c \in Calls : putBlob[c] = b
    /\ \A c \in Calls : putBlob[c] \in BlobIds /\ files[UploadPath(putBlob[c])] # NoFile =>
          files[UploadPath(putBlob[c])] <= total_size[c]

\* The file at p, if there is to be one, has been made: the id is issued and its
\* handler is past the opening.
Written(p) ==
    /\ running
    /\ p \in Paths
    /\ \A b \in BlobIds : p = UploadPath(b) =>
          b <= blob_id_ /\ \A c \in Calls : putBlob[c] = b => putAt[c] # "open"

\* The file at p has n bytes or more, on its path or unlinked.
AtLeast(p, n) == files[p] # NoFile => files[p] >= n
Holds(p, n) ==
    /\ AtLeast(p, n)
    /\ \A c \in Calls : Writes(c, p) => total_size[c] >= n
    /\ (\A c \in Calls : ~Writes(c, p)) => n <= 1

\* A Get past the lookup has a path, and it answers once.
GetPlaceInv == \A g \in Gets :
    /\ getAt[g] \in {"tag", "exists", "file_size", "open", "read"} => getPath[g] \in Paths
    /\ getStatus[g] # "NONE" => getAt[g] = "done"

\* The size announced is held until the file is open, and from then on by the
\* stream; a stream that is not open, although the file could be read, has lost
\* its file for good.
Transfers(g) ==
    LET p == getPath[g] IN
    /\ getAt[g] = "open" => Written(p) /\ Holds(p, announced[g])
    /\ getAt[g] = "read" =>
          /\ Written(p)
          /\ opened[g] => Holds(p, announced[g])
          /\ ~opened[g] /\ ~readFailed[g] => files[p] = NoFile
    /\ getStatus[g] = "OK" =>
          /\ Written(p)
          /\ ~readFailed[g] =>
                IF opened[g] THEN sent[g] >= announced[g] /\ AtLeast(p, sent[g])
                             ELSE files[p] = NoFile
TransferInv == \A g \in Gets : Transfers(g)
-----------------------------------------------------------------------------
(* The invariant of the upload path, with the data store's own deletions. *)

\* A deletion by the data store changes one file, and none of the session store.
LEMMA StoreDeletesOne ==
  ASSUME TypeOK, NEW f \in HostFiles, StoreDeletes(f)
  PROVE  /\ UNCHANGED <<managerVars, running, entryVars, mtx_, current_size_, deleting, hostVars,
                        putVars, crashes>>
         /\ files' \in [Paths -> Nat \cup {NoFile}]
         /\ \A p \in Paths : OnlyGoes(p)
         /\ \A b \in BlobIds : files'[UploadPath(b)] = files[UploadPath(b)]
<1>1. files \in [Paths -> Nat \cup {NoFile}] /\ HostPath(f) \in Paths
  BY DEF TypeOK, SessionTypeOK, Paths
<1>2. \A b \in BlobIds : UploadPath(b) # HostPath(f)
  BY DEF UploadPath, HostPath
<1> QED BY <1>1, <1>2, UploadPathOK DEF StoreDeletes, OnlyGoes

\* It keeps the invariant.
LEMMA StoreDeletesBase ==
  ASSUME LifeStepInv, NEW f \in HostFiles, StoreDeletes(f)
  PROVE  LifeStepInv'
<1>0. TypeOK /\ StructInv /\ FileInv /\ OwnInv /\ LifeInv
  BY DEF LifeStepInv, StructInv
<1>1. /\ UNCHANGED <<managerVars, running, entryVars, mtx_, current_size_, deleting, hostVars,
                     putVars, crashes>>
      /\ files' \in [Paths -> Nat \cup {NoFile}]
      /\ \A b \in BlobIds : files'[UploadPath(b)] = files[UploadPath(b)]
  BY <1>0, StoreDeletesOne
<1>2. StructInv'
  BY <1>0, <1>1 DEF StructInv, TypeOK, SessionTypeOK, ManagerTypeOK, PlaceInv, LockInv, IdInv,
     EntryOnce, ThreadSession, managerVars, entryVars, hostVars, putVars
<1>3. FileInv'
  BY <1>0, <1>1, FileFrame DEF entryVars, putVars, TypeOK, SessionTypeOK
<1>4. OwnInv'
  BY <1>0, <1>1 DEF OwnInv, HandlerOwns, entryVars, putVars
<1>5. LifeInv'
  <2>1. \A c \in Calls : putAt[c] = "open" => files'[UploadPath(putBlob[c])] = NoFile
    BY <1>0, <1>1 DEF StructInv, PlaceInv, LifeInv, OpenInv
  <2> QED BY <1>0, <1>1, <2>1 DEF LifeInv, PathInv, FreshInv, OpenInv, UploadPath, HostPath,
     managerVars, entryVars, putVars
<1> QED BY <1>2, <1>3, <1>4, <1>5 DEF LifeStepInv

\* A step of the upload path is one of StreamingPut, and no crash, or a deletion.
LEMMA UploadSteps ==
  ASSUME UploadStep
  PROVE  \/ \E f \in HostFiles : StoreDeletes(f)
         \/ \E h \in Hosts : HostStep(h) /\ UNCHANGED <<putVars, crashes>>
         \/ \E c \in Calls : (ClientStep(c) \/ ServerStep(c)) /\ UNCHANGED crashes
         \/ Construct /\ UNCHANGED <<putVars, crashes>>
BY DEF UploadStep

\* A download changes nothing of the upload path.
LEMMA GetAlone == UNCHANGED uploadVars => UNCHANGED vars
BY DEF uploadVars, vars

\* The invariant of the upload path is one of the downloads.
LEMMA NextBase ==
  LifeStepInv /\ [GetNext]_<<vars, getVars>> => LifeStepInv'
<1> SUFFICES ASSUME LifeStepInv, [GetNext]_<<vars, getVars>> PROVE LifeStepInv'
  OBVIOUS
<1>1. CASE [Next]_vars
  BY <1>1, NextStruct, NextFile, NextOwn, NextLifeInv DEF LifeStepInv
<1>2. ASSUME NEW f \in HostFiles, StoreDeletes(f) PROVE LifeStepInv'
  BY <1>2, StoreDeletesBase
<1>3. CASE UploadStep
  BY <1>1, <1>2, <1>3, UploadSteps DEF Next
<1> QED BY <1>1, <1>3, GetAlone DEF GetNext
-----------------------------------------------------------------------------
(* How the files of the store change. *)

\* By a step of its handler a file of the store is opened, grows by no more than
\* what the handler has received, or goes; it is not opened twice.
LEMMA HandlerGrows ==
  ASSUME LifeStepInv, NEW c \in Calls, ClientStep(c) \/ ServerStep(c), putBlob[c] \in BlobIds,
         NEW p, p = UploadPath(putBlob[c])
  PROVE  /\ putBlob'[c] = putBlob[c]
         /\ total_size'[c] >= total_size[c]
         /\ \/ files'[p] = NoFile
            \/ putAt[c] = "open" /\ files'[p] = 0
            \/ /\ files[p] # NoFile
               /\ files'[p] >= files[p]
               /\ files'[p] + total_size[c] <= files[p] + total_size'[c]
<1>0. /\ files \in [Paths -> Nat \cup {NoFile}] /\ p \in Paths
      /\ total_size \in [Calls -> Nat] /\ chunk \in [Calls -> Nat]
      /\ TypeOK
  BY UploadPathOK DEF LifeStepInv, StructInv, TypeOK, SessionTypeOK
<1>1. putBlob'[c] = putBlob[c]
  BY <1>0, BlobOfHandler DEF LifeStepInv, LifeInv, OpenInv, BlobIds, NoBlob
<1>2. CASE PutMismatches(c)
  BY <1>0, <1>1, <1>2 DEF PutMismatches, Unlink, Answer
<1>3. CASE PutUnlinks(c)
  BY <1>0, <1>1, <1>3, HandlerDeletesOwn DEF PutUnlinks, UnlinkAndErase, Unlink, Answer
<1>4. CASE PutOpens(c)
  BY <1>0, <1>1, <1>4 DEF PutOpens, At, locals
<1>5. CASE PutWrites(c)
  <2>1. PICK n \in Nat : PartWritten(c, n)
    BY <1>5, WriteReaches DEF LifeStepInv, StructInv
  <2>2. /\ total_size'[c] = total_size[c] + chunk[c] /\ n <= chunk[c]
        /\ chunk[c] \in Nat /\ total_size[c] \in Nat
    BY <1>0, <1>5, <2>1 DEF PutWrites, PartWritten
  <2>3. CASE files[p] = NoFile
    BY <1>1, <2>1, <2>2, <2>3 DEF PartWritten
  <2>4. CASE files[p] # NoFile
    <3>1. files[p] \in Nat /\ files'[p] \in {files[p], files[p] + n}
      BY <1>0, <2>1, <2>4 DEF PartWritten
    <3> QED BY <1>1, <2>1, <2>2, <2>4, <3>1
  <2> QED BY <2>3, <2>4
<1>6. CASE ~PutMismatches(c) /\ ~PutUnlinks(c) /\ ~PutOpens(c) /\ ~PutWrites(c)
  <2>1. ASSUME ClientStep(c) PROVE UNCHANGED <<files, total_size>>
    BY <1>6, <2>1 DEF ClientStep, PutRejected, PutNoSession, PutAccepted, PutStarts, PutReserves,
       PutRefused, PutNotChunk, PutEnds, PutTagThrows, PutMismatchThrows, sessionVars, Answer
  <2>2. ASSUME ServerStep(c) PROVE UNCHANGED <<files, total_size>>
    BY <1>6, <2>2 DEF ServerStep, PutCreates, PutOpenFails, PutGivesBack, PutSkips,
       PutUnlinkThrows, sessionVars, locals, Answer
  <2>3. UNCHANGED <<files, total_size>>
    BY <2>1, <2>2
  <2>4. files[p] = NoFile \/ files[p] \in Nat
    BY <1>0
  <2> QED BY <1>0, <1>1, <2>3, <2>4
<1> QED BY <1>2, <1>3, <1>4, <1>5, <1>6

\* Nobody else writes it: the steps of all others leave its writer alone.
OthersStay(c) ==
    /\ putBlob'[c] = putBlob[c]
    /\ total_size'[c] = total_size[c]
    /\ putAt'[c] = putAt[c]
    /\ putBlob[c] \in BlobIds => NoNewData(putBlob[c])

\* A step of the host, of the data store or of the constructor.
LEMMA EnvironmentStays ==
  ASSUME LifeStepInv,
         \/ \E f \in HostFiles : StoreDeletes(f)
         \/ \E h \in Hosts : HostStep(h) /\ UNCHANGED <<putVars, crashes>>
         \/ Construct /\ UNCHANGED <<putVars, crashes>>
  PROVE  /\ \A c \in Calls : OthersStay(c)
         /\ running => running'
         /\ blob_id_' \in {blob_id_, blob_id_ + 1}
         /\ \A p \in Paths : OnlyGoes(p)
<1>0. StructInv /\ TypeOK
  BY DEF LifeStepInv, StructInv
<1>1. UNCHANGED <<putBlob, total_size, putAt>>
  BY <1>0, StoreDeletesOne DEF putVars
<1>2. \A p \in Paths : OnlyGoes(p)
  <2>1. ASSUME Construct PROVE \A p \in Paths : OnlyGoes(p)
    BY <1>0, <2>1 DEF Construct, EmptyDirectory, OnlyGoes, TypeOK, SessionTypeOK
  <2> QED BY <1>0, <2>1, HostChanges, StoreDeletesOne
<1>3. \A c \in Calls : OthersStay(c)
  BY <1>1, <1>2, UploadPathOK DEF OthersStay, NoNewData
<1>4. running => running'
  <2>1. ASSUME NEW f \in HostFiles, StoreDeletes(f) PROVE running' = running
    BY <1>0, <2>1, StoreDeletesOne
  <2>2. ASSUME NEW h \in Hosts, HostStep(h) PROVE running' = running
    <3>1. CASE HostContinues(h)
      BY <3>1 DEF HostContinues, HostGivesBack, HostSkips, HostUnlinks, HostRemoved, HostErases,
         sessionVars
    <3>2. CASE ~HostContinues(h)
      BY <2>2, <3>2 DEF HostStep, HostCreates, HostAdds, HostMovesFile, HostRemoves, HostDisposes,
         HostStarts, HostUnlinkThrows, sessionVars
    <3> QED BY <3>1, <3>2
  <2> QED BY <2>1, <2>2 DEF Construct
<1>5. blob_id_' \in {blob_id_, blob_id_ + 1}
  <2>1. ASSUME NEW f \in HostFiles, StoreDeletes(f) PROVE blob_id_' = blob_id_
    BY <2>1 DEF StoreDeletes, entryVars
  <2>2. ASSUME UNCHANGED crashes, Next PROVE blob_id_' \in {blob_id_, blob_id_ + 1}
    <3>1. ~Crash
      BY <1>0, <2>2, PutBoundsAssumption DEF Crash, TypeOK
    <3> QED BY <1>0, <2>2, <3>1, IdsGrow
  <2> QED BY <2>1, <2>2 DEF Next
<1> QED BY <1>2, <1>3, <1>4, <1>5

\* A handler that has a blob keeps it; its file is opened, grows by no more than
\* what is received, or goes.
Receives(c) ==
    LET p == UploadPath(putBlob[c]) IN
    /\ putBlob'[c] = putBlob[c]
    /\ putAt[c] # "open" => putAt'[c] # "open"
    /\ total_size'[c] >= total_size[c]
    /\ \/ files'[p] = NoFile
       \/ putAt[c] = "open" /\ files'[p] = 0
       \/ /\ files[p] # NoFile
          /\ files'[p] >= files[p]
          /\ files'[p] + total_size[c] <= files[p] + total_size'[c]

\* So it is when the handler does nothing.
LEMMA StaysReceives ==
  ASSUME TypeOK, NEW c \in Calls, putBlob[c] \in BlobIds, OthersStay(c)
  PROVE  Receives(c)
<1>1. /\ files[UploadPath(putBlob[c])] \in Nat \cup {NoFile}
      /\ total_size[c] \in Nat
      /\ files'[UploadPath(putBlob[c])] \in {files[UploadPath(putBlob[c])], NoFile}
  BY UploadPathOK DEF TypeOK, SessionTypeOK, OthersStay, NoNewData, OnlyGoes
<1> QED BY <1>1 DEF OthersStay, Receives

\* So it is when it does something.
LEMMA OwnReceives ==
  ASSUME LifeStepInv, NEW c \in Calls, putBlob[c] \in BlobIds, ClientStep(c) \/ ServerStep(c)
  PROVE  Receives(c)
<1>1. putAt[c] \notin {"start", "create"}
  BY DEF LifeStepInv, LifeInv, OpenInv, BlobIds, NoBlob
<1>2. putAt'[c] # "open"
  BY <1>1, HandlerPlace DEF LifeStepInv, PutCreates, PutAccepted, PutStarts, At
<1> DEFINE p == UploadPath(putBlob[c])
<1>3. /\ putBlob'[c] = putBlob[c]
      /\ total_size'[c] >= total_size[c]
      /\ \/ files'[p] = NoFile
         \/ putAt[c] = "open" /\ files'[p] = 0
         \/ /\ files[p] # NoFile
            /\ files'[p] >= files[p]
            /\ files'[p] + total_size[c] <= files[p] + total_size'[c]
  BY HandlerGrows
<1> QED BY <1>2, <1>3 DEF Receives

\* A handler without a blob takes the next id or none.
Takes(c) == putBlob'[c] # putBlob[c] => running /\ putBlob'[c] = blob_id_ + 1

\* How files change in a step of the upload path.
FilesStep ==
    /\ \A c \in Calls : IF putBlob[c] \in BlobIds THEN Receives(c) ELSE Takes(c)
    /\ \A p \in Paths : (\A c \in Calls : ~Writes(c, p)) => OnlyGoes(p)
    /\ ~running /\ running' => \A b \in BlobIds : files'[UploadPath(b)] = NoFile
    /\ running => running'
    /\ blob_id_' \in {blob_id_, blob_id_ + 1}

\* Every step of the upload path is such a one.
LEMMA UploadFiles ==
  ASSUME LifeStepInv, UploadStep
  PROVE  FilesStep
<1>0. StructInv /\ TypeOK
  BY DEF LifeStepInv, StructInv
<1>1. CASE \/ \E f \in HostFiles : StoreDeletes(f)
           \/ \E h \in Hosts : HostStep(h) /\ UNCHANGED <<putVars, crashes>>
           \/ Construct /\ UNCHANGED <<putVars, crashes>>
  <2>1. /\ \A c \in Calls : OthersStay(c)
        /\ running => running'
        /\ blob_id_' \in {blob_id_, blob_id_ + 1}
        /\ \A p \in Paths : OnlyGoes(p)
    BY <1>1, EnvironmentStays
  <2>2. ~running /\ running' => \A b \in BlobIds : files'[UploadPath(b)] = NoFile
    <3>1. ASSUME NEW f \in HostFiles, StoreDeletes(f) PROVE running' = running
      BY <3>1 DEF StoreDeletes
    <3>2. ASSUME NEW h \in Hosts, HostStep(h) PROVE running
      BY <3>2 DEF HostStep, HostContinues, HostCreates, HostAdds, HostMovesFile, HostRemoves,
         HostDisposes, MayUse, HostGivesBack, HostSkips, HostUnlinks, HostUnlinkThrows,
         HostRemoved, HostErases
    <3>3. ASSUME Construct PROVE \A b \in BlobIds : files'[UploadPath(b)] = NoFile
      BY <3>3, UploadPathOK DEF Construct, EmptyDirectory
    <3> QED BY <1>1, <3>1, <3>2, <3>3
  <2> QED BY <1>0, <2>1, <2>2, StaysReceives DEF FilesStep, Takes, OthersStay
<1>2. ASSUME NEW d \in Calls, ClientStep(d) \/ ServerStep(d), UNCHANGED crashes PROVE FilesStep
  <2>1. running /\ running'
    BY <1>2 DEF ClientStep, ServerStep, PutRejected, PutNoSession, PutAccepted, PutStarts,
       PutReserves, PutRefused, PutNotChunk, PutEnds, PutTagThrows, PutMismatches,
       PutMismatchThrows, PutCreates, PutOpens, PutOpenFails, PutWrites, PutGivesBack, PutSkips,
       PutUnlinks, PutUnlinkThrows, At, sessionVars
  <2>2. blob_id_' \in {blob_id_, blob_id_ + 1}
    <3>1. ~Crash
      BY <1>0, <1>2, PutBoundsAssumption DEF Crash, TypeOK
    <3> QED BY <1>0, <1>2, <3>1, IdsGrow DEF Next
  <2>3. ASSUME NEW c \in Calls, c # d PROVE OthersStay(c)
    <3>1. SameHandler(c)
      BY <1>0, <1>2, <2>3, HandlerAlone
    <3>2. ASSUME putBlob[c] \in BlobIds PROVE NoNewData(putBlob[c])
      <4>1. putBlob[c] # putBlob[d]
        BY <1>0, <2>3, <3>2 DEF StructInv, IdInv, EntryOnce, BlobIds, NoBlob
      <4> QED BY <1>0, <1>2, <3>2, <4>1, HandlerData
    <3> QED BY <3>1, <3>2 DEF OthersStay, SameHandler
  <2>4. ASSUME NEW c \in Calls PROVE IF putBlob[c] \in BlobIds THEN Receives(c) ELSE Takes(c)
    <3>1. CASE c = d
      BY <1>0, <1>2, <2>1, <3>1, OwnReceives, BlobOfHandler DEF Takes
    <3>2. CASE c # d
      BY <1>0, <2>3, <3>2, StaysReceives DEF Takes, OthersStay
    <3> QED BY <3>1, <3>2
  <2>5. ASSUME NEW p \in Paths, \A c \in Calls : ~Writes(c, p) PROVE OnlyGoes(p)
    BY <1>0, <1>2, <2>5, HandlerChanges DEF Writes
  <2> QED BY <2>1, <2>2, <2>4, <2>5 DEF FilesStep
<1> QED BY <1>1, <1>2, UploadSteps

\* Who writes a file of the store has its id.
LEMMA WriterOf ==
  ASSUME TypeOK, NEW c \in Calls, NEW p \in Paths, Writes(c, p)
  PROVE  putBlob[c] \in BlobIds
BY DEF TypeOK, Writes, UploadPath, UploadPaths, HostPath, Paths, BlobIds, NoBlob

\* The numbers that ids and lengths are.
Numbers ==
    /\ TypeOK
    /\ blob_id_ \in Nat /\ BlobIds \subseteq Nat
    /\ \A p \in Paths : files[p] \in Nat \cup {NoFile}
    /\ \A c \in Calls : /\ total_size[c] \in Nat
                        /\ putBlob[c] \in Nat
                        /\ putBlob[c] <= blob_id_

\* They are numbers.
LEMMA BaseNumbers == LifeStepInv => Numbers
<1> SUFFICES ASSUME LifeStepInv PROVE Numbers
  OBVIOUS
<1>1. TypeOK /\ BlobIds \subseteq Nat
  BY DEF LifeStepInv, StructInv, BlobIds
<1>2. /\ blob_id_ \in Nat
      /\ \A p \in Paths : files[p] \in Nat \cup {NoFile}
      /\ \A c \in Calls : total_size[c] \in Nat
  BY <1>1 DEF TypeOK, SessionTypeOK
<1>3. \A c \in Calls : putBlob[c] \in BlobIds \cup {NoBlob}
  BY <1>1 DEF TypeOK
<1>4. \A c \in Calls : putBlob[c] \in Nat
  <2>1. BlobIds \cup {NoBlob} \subseteq Nat
    BY DEF BlobIds, NoBlob
  <2> QED BY <1>3, <2>1
<1>5. \A c \in Calls : putBlob[c] <= blob_id_
  BY DEF LifeStepInv, StructInv, IdInv
<1> QED BY <1>1, <1>2, <1>4, <1>5 DEF Numbers

\* And so in the next state.
LEMMA BaseNumbersNext == LifeStepInv' => Numbers'
BY BaseNumbers, PTL

\* Nobody takes an id again.
LEMMA NextIdIsNew ==
  ASSUME LifeStepInv, LifeStepInv', FilesStep, NEW c \in Calls, putBlob'[c] \in BlobIds
  PROVE  \/ putBlob[c] \in BlobIds /\ Receives(c) /\ putBlob'[c] = putBlob[c]
         \/ /\ putBlob[c] \notin BlobIds
            /\ running /\ putBlob'[c] = blob_id_ + 1
            /\ files[UploadPath(putBlob'[c])] = NoFile
            /\ \A d \in Calls : putBlob[d] # putBlob'[c]
<1>1. CASE putBlob[c] \in BlobIds
  BY <1>1 DEF FilesStep, Receives
<1>2. CASE putBlob[c] \notin BlobIds
  <2>1. running /\ putBlob'[c] = blob_id_ + 1
    BY <1>2 DEF FilesStep, Takes
  <2>2. /\ blob_id_ \in Nat /\ BlobIds \subseteq Nat
        /\ \A d \in Calls : putBlob[d] \in Nat /\ putBlob[d] <= blob_id_
    BY BaseNumbers DEF Numbers
  <2>3. files[UploadPath(putBlob'[c])] = NoFile
    BY <2>1, <2>2 DEF LifeStepInv, FileInv, CleanStart
  <2>4. \A d \in Calls : putBlob[d] # putBlob'[c]
    BY <2>1, <2>2
  <2> QED BY <1>2, <2>1, <2>3, <2>4
<1> QED BY <1>1, <1>2

-----------------------------------------------------------------------------
(* The lengths of files.                                                   *)

\* The first process finds files of length 1, and no call has begun.
LEMMA InitFileSize == Init => FileSizeInv
<1> SUFFICES ASSUME Init PROVE FileSizeInv
  OBVIOUS
<1>1. \A p \in Paths : files[p] \in {NoFile, 1}
  BY DEF Init, SessionInit
<1>2. \A f \in HostFiles : HostPath(f) \in Paths
  BY DEF Paths
<1> QED BY <1>1, <1>2 DEF Init, SessionInit, PutInit, FileSizeInv, BlobIds, NoBlob

\* The lengths of the files keep to what their writers have received.
LEMMA NextFileSize ==
  ASSUME LifeStepInv, LifeStepInv', FileSizeInv, FilesStep
  PROVE  FileSizeInv'
<1>0. /\ TypeOK /\ TypeOK'
      /\ \A p \in Paths : files[p] \in Nat \cup {NoFile} /\ files'[p] \in Nat \cup {NoFile}
      /\ \A c \in Calls : total_size[c] \in Nat /\ total_size'[c] \in Nat
  BY DEF LifeStepInv, StructInv, TypeOK, SessionTypeOK
<1>1. ASSUME NEW f \in HostFiles PROVE files'[HostPath(f)] \in {NoFile, 1}
  <2>1. HostPath(f) \in Paths /\ \A c \in Calls : ~Writes(c, HostPath(f))
    BY DEF Paths, Writes, UploadPath, HostPath
  <2> QED BY <2>1 DEF FilesStep, OnlyGoes, FileSizeInv
<1>2. ASSUME running', NEW b \in BlobIds, files'[UploadPath(b)] # NoFile
      PROVE  \E c \in Calls : putBlob'[c] = b
  <2>1. CASE \E c \in Calls : putBlob[c] = b
    BY <2>1 DEF FilesStep, Receives
  <2>2. CASE \A c \in Calls : putBlob[c] # b
    <3>1. UploadPath(b) \in Paths /\ \A c \in Calls : ~Writes(c, UploadPath(b))
      BY <2>2, UploadPathOK DEF Writes, UploadPath
    <3>2. running /\ files[UploadPath(b)] # NoFile
      BY <1>2, <3>1 DEF FilesStep, OnlyGoes
    <3> QED BY <2>2, <3>2 DEF FileSizeInv
  <2> QED BY <2>1, <2>2
<1>3. ASSUME NEW c \in Calls, putBlob'[c] \in BlobIds, files'[UploadPath(putBlob'[c])] # NoFile
      PROVE  files'[UploadPath(putBlob'[c])] <= total_size'[c]
  <2> DEFINE p == UploadPath(putBlob'[c])
  <2>1. p \in Paths
    BY <1>3, UploadPathOK
  <2>2. CASE putBlob[c] \in BlobIds /\ Receives(c) /\ putBlob'[c] = putBlob[c]
    <3>1. CASE files'[p] = 0
      BY <1>0, <3>1
    <3>2. CASE /\ files[p] # NoFile
               /\ files'[p] + total_size[c] <= files[p] + total_size'[c]
      <4>1. files[p] <= total_size[c]
        BY <2>2, <3>2 DEF FileSizeInv
      <4>2. files[p] \in Nat /\ files'[p] \in Nat
        BY <1>0, <1>3, <2>1, <3>2
      <4> QED BY <1>0, <3>2, <4>1, <4>2
    <3> QED BY <1>3, <2>2, <3>1, <3>2 DEF Receives
  <2>3. CASE files[p] = NoFile /\ \A d \in Calls : putBlob[d] # putBlob'[c]
    <3>1. \A d \in Calls : ~Writes(d, p)
      BY <1>3, <2>3 DEF Writes, UploadPath
    <3> QED BY <1>3, <2>1, <2>3, <3>1 DEF FilesStep, OnlyGoes
  <2> QED BY <1>3, <2>2, <2>3, NextIdIsNew
<1> QED BY <1>1, <1>2, <1>3 DEF FileSizeInv, UploadPath, HostPath

-----------------------------------------------------------------------------
(* A file that has been made.                                              *)

\* It stays made, and its writers are the same.
LEMMA WrittenStays ==
  ASSUME LifeStepInv, LifeStepInv', FilesStep, NEW p, Written(p)
  PROVE  /\ Written(p)'
         /\ \A c \in Calls : Writes(c, p)' <=> Writes(c, p)
<1>0. /\ TypeOK /\ TypeOK' /\ p \in Paths /\ running'
      /\ blob_id_ \in Nat /\ blob_id_' \in Nat /\ blob_id_ <= blob_id_' /\ BlobIds \subseteq Nat
  <2>1. Numbers /\ Numbers' /\ running /\ p \in Paths
    BY BaseNumbers, BaseNumbersNext DEF Written
  <2>2. blob_id_' \in {blob_id_, blob_id_ + 1} /\ running'
    BY <2>1 DEF FilesStep
  <2> QED BY <2>1, <2>2 DEF Numbers
<1>1. ASSUME NEW c \in Calls, Writes(c, p) PROVE Writes(c, p)'
  <2>1. putBlob[c] \in BlobIds
    BY <1>0, <1>1, WriterOf
  <2>2. putBlob'[c] = putBlob[c]
    BY <2>1 DEF FilesStep, Receives
  <2> QED BY <1>1, <2>2 DEF Writes, UploadPath
<1>2. ASSUME NEW c \in Calls, NEW b \in BlobIds, p = UploadPath(b), putBlob'[c] = b
      PROVE  putBlob[c] = b /\ putAt'[c] # "open"
  <2>1. b <= blob_id_ /\ (putBlob[c] = b => putAt[c] # "open")
    BY <1>2 DEF Written
  <2>2. putBlob[c] \in BlobIds /\ Receives(c) /\ putBlob'[c] = putBlob[c]
    BY <1>0, <1>2, <2>1, NextIdIsNew
  <2> QED BY <1>2, <2>1, <2>2 DEF Receives
<1>3. ASSUME NEW c \in Calls, Writes(c, p)' PROVE Writes(c, p)
  <2>1. putBlob'[c] \in BlobIds \cup {NoBlob} /\ UploadPath(putBlob'[c]) = p
    BY <1>0, <1>3 DEF TypeOK, Writes, UploadPath
  <2>2. putBlob'[c] \in BlobIds
    BY <1>0, <2>1 DEF UploadPath, UploadPaths, HostPath, Paths, BlobIds, NoBlob
  <2>3. putBlob[c] = putBlob'[c]
    BY <1>2, <2>1, <2>2
  <2> QED BY <2>1, <2>3 DEF Writes, UploadPath
<1>4. Written(p)'
  <2>1. ASSUME NEW b \in BlobIds, p = UploadPath(b) PROVE b <= blob_id_'
    <3>1. b <= blob_id_
      BY <2>1 DEF Written
    <3>2. b \in Nat
      BY <1>0
    <3> QED BY <1>0, <3>1, <3>2
  <2> QED BY <1>0, <1>2, <2>1 DEF Written, UploadPath
<1> QED BY <1>1, <1>3, <1>4

\* It does not come back and does not get shorter.
LEMMA WrittenGrows ==
  ASSUME LifeStepInv, LifeStepInv', FilesStep, NEW p, Written(p)
  PROVE  /\ files[p] = NoFile => files'[p] = NoFile
         /\ \A n \in Nat : AtLeast(p, n) => AtLeast(p, n)'
<1>0. /\ TypeOK /\ p \in Paths
      /\ files[p] \in Nat \cup {NoFile} /\ files'[p] \in Nat \cup {NoFile}
  BY BaseNumbers, BaseNumbersNext DEF Written, Numbers
<1>1. CASE \A c \in Calls : ~Writes(c, p)
  <2>1. files'[p] \in {files[p], NoFile}
    BY <1>0, <1>1 DEF FilesStep, OnlyGoes
  <2> QED BY <1>0, <2>1 DEF AtLeast
<1>2. ASSUME NEW c \in Calls, Writes(c, p)
      PROVE  /\ files[p] = NoFile => files'[p] = NoFile
             /\ \A n \in Nat : AtLeast(p, n) => AtLeast(p, n)'
  <2>1. putBlob[c] \in BlobIds /\ p = UploadPath(putBlob[c])
    BY <1>0, <1>2, WriterOf DEF Writes
  <2>2. putAt[c] # "open" /\ Receives(c)
    BY <2>1 DEF Written, FilesStep
  <2>3. files'[p] = NoFile \/ (files[p] # NoFile /\ files'[p] >= files[p])
    BY <2>1, <2>2 DEF Receives
  <2>4. CASE files'[p] = NoFile
    BY <2>4 DEF AtLeast
  <2>5. CASE files'[p] # NoFile
    <3>1. files[p] \in Nat /\ files'[p] >= files[p] /\ files'[p] \in Nat
      BY <1>0, <2>3, <2>5
    <3>2. \A n \in Nat : files[p] >= n => files'[p] >= n
      BY <3>1
    <3> QED BY <1>0, <2>3, <2>5, <3>2 DEF AtLeast
  <2> QED BY <2>4, <2>5
<1> QED BY <1>1, <1>2

\* A length that it has reached is held.
LEMMA HoldsOn ==
  ASSUME LifeStepInv, LifeStepInv', FilesStep, NEW p, Written(p), NEW n \in Nat, Holds(p, n)
  PROVE  Holds(p, n)'
<1>0. /\ TypeOK /\ p \in Paths
      /\ \A c \in Calls : total_size[c] \in Nat /\ total_size'[c] \in Nat
  BY DEF Written, LifeStepInv, StructInv, TypeOK
<1>1. AtLeast(p, n)'
  BY WrittenGrows DEF Holds
<1>2. \A c \in Calls : Writes(c, p)' <=> Writes(c, p)
  BY WrittenStays
<1>3. ASSUME NEW c \in Calls, Writes(c, p) PROVE total_size'[c] >= n
  <2>1. putBlob[c] \in BlobIds
    BY <1>0, <1>3, WriterOf
  <2>2. total_size'[c] >= total_size[c] /\ total_size[c] >= n
    BY <1>3, <2>1 DEF FilesStep, Receives, Holds
  <2> QED BY <1>0, <2>2
<1> QED BY <1>1, <1>2, <1>3 DEF Holds

-----------------------------------------------------------------------------
(* Types and places of the downloads.                                      *)

\* What a Get holds.
GetTypes ==
    /\ getAt \in [Gets -> GetPlaces]
    /\ getTransaction \in [Gets -> Transactions \cup {NoTransaction}]
    /\ getSession \in [Gets -> Sessions \cup {NoSession}]
    /\ getPath \in [Gets -> Paths \cup {NoPath}]
    /\ announced \in [Gets -> Nat]
    /\ opened \in [Gets -> BOOLEAN]
    /\ readFailed \in [Gets -> BOOLEAN]
    /\ sent \in [Gets -> Nat]
    /\ getStatus \in [Gets -> GetStatuses]

\* A length of a file that may still be read is a number.
LEMMA LengthsType ==
  ASSUME LifeStepInv, NEW p \in Paths
  PROVE  Lengths(p) \subseteq Nat
<1>1. Numbers
  BY BaseNumbers
<1>2. \A c \in Calls : 0..total_size[c] \subseteq Nat /\ {total_size[c]} \subseteq Nat
  BY <1>1 DEF Numbers
<1>3. files[p] # NoFile => {files[p]} \subseteq Nat
  BY <1>1 DEF Numbers
<1> DEFINE L(c) == IF FsFails THEN 0..total_size[c] ELSE {total_size[c]}
           W == {c \in Calls : p = UploadPath(putBlob[c])}
<1>4. UNION {L(c) : c \in W} \subseteq Nat
  BY <1>2
<1>5. Lengths(p) = IF files[p] # NoFile THEN {files[p]}
                   ELSE IF W = {} THEN {1} ELSE UNION {L(c) : c \in W}
  BY DEF Lengths
<1> HIDE DEF L, W
<1> QED BY <1>3, <1>4, <1>5

\* The bytes sent are a number.
LEMMA SmallerType ==
  ASSUME NEW a \in Nat, NEW b \in Nat
  PROVE  Smaller(a, b) \in Nat
BY DEF Smaller

\* A step of a Get keeps types and places.
LEMMA GetStepType ==
  ASSUME LifeStepInv, GetTypes, GetPlaceInv, NEW g \in Gets, GetStep(g), UNCHANGED vars
  PROVE  GetTypes' /\ GetPlaceInv'
<1> USE DEF GetTypes, KeepsStream
<1>0. /\ TypeOK /\ blob_session_ids_ \in [Transactions -> Sessions \cup {NoSession}]
      /\ entry_path \in [BlobIds -> Paths]
      /\ \A f \in HostFiles : HostPath(f) \in Paths
  BY DEF LifeStepInv, StructInv, TypeOK, SessionTypeOK, ManagerTypeOK, Paths
<1>s. getAt[g] # "done" => getStatus[g] = "NONE"
  BY DEF GetPlaceInv
<1>a. ASSUME NEW code, GetAnswers(g, code), code \in GetStatuses, KeepsContext,
             UNCHANGED <<getPath, announced, opened>>, sent' \in [Gets -> Nat],
             readFailed' \in [Gets -> BOOLEAN]
      PROVE  GetTypes' /\ GetPlaceInv'
  <2>1. GetTypes'
    BY <1>a DEF GetAnswers, GetPlaces, KeepsContext
  <2>2. GetPlaceInv'
    BY <1>a DEF GetAnswers, GetPlaceInv
  <2> QED BY <2>1, <2>2
<1>g. ASSUME NEW place, GetGoesTo(g, place), place \in GetPlaces,
             place \in {"tag", "exists", "file_size", "open", "read"} => getPath'[g] \in Paths,
             getAt[g] # "done", getTransaction' \in [Gets -> Transactions \cup {NoTransaction}],
             getSession' \in [Gets -> Sessions \cup {NoSession}],
             getPath' \in [Gets -> Paths \cup {NoPath}],
             \A d \in Gets \ {g} : getPath'[d] = getPath[d],
             announced' \in [Gets -> Nat], opened' \in [Gets -> BOOLEAN],
             readFailed' \in [Gets -> BOOLEAN], sent' \in [Gets -> Nat]
      PROVE  GetTypes' /\ GetPlaceInv'
  <2>1. GetTypes'
    BY <1>g DEF GetGoesTo
  <2>2. GetPlaceInv'
    BY <1>g, <1>s DEF GetGoesTo, GetPlaceInv
  <2> QED BY <2>1, <2>2
<1>1. CASE GetRejected(g)
  BY <1>1, <1>a DEF GetRejected, KeepsTransfer, GetStatuses
<1>2. ASSUME NEW s \in Sessions, GetNamesSession(g, s) PROVE GetTypes' /\ GetPlaceInv'
  BY <1>2, <1>g DEF GetNamesSession, KeepsTransfer, GetReaches, GetPlaces
<1>3. ASSUME NEW t \in Transactions, GetNamesTransaction(g, t) PROVE GetTypes' /\ GetPlaceInv'
  <2>1. GetSessionId(t) \in Sessions \cup {NoSession}
    BY <1>0 DEF GetSessionId
  <2>2. getTransaction' \in [Gets -> Transactions \cup {NoTransaction}]
    BY <1>3 DEF GetNamesTransaction
  <2>3. getSession' \in [Gets -> Sessions \cup {NoSession}]
    BY <1>3, <2>1 DEF GetNamesTransaction
  <2> QED BY <1>3, <1>g, <2>2, <2>3 DEF GetNamesTransaction, KeepsTransfer, GetReaches, GetPlaces
<1>4. CASE GetChecks(g)
  BY <1>4, <1>a, <1>g DEF GetChecks, KeepsContext, KeepsTransfer, GetReaches, GetPlaces,
     GetStatuses
<1>5. CASE GetNoStorage(g)
  BY <1>5, <1>a DEF GetNoStorage, KeepsTransfer, GetStatuses
<1>6. CASE GetLooksUp(g)
  BY <1>6, <1>a, <1>g DEF GetLooksUp, KeepsContext, KeepsTransfer, GetReaches, GetPlaces,
     GetStatuses
<1>7. ASSUME NEW b \in BlobIds, GetFinds(g, b) PROVE GetTypes' /\ GetPlaceInv'
  BY <1>0, <1>7, <1>a, <1>g DEF GetFinds, KeepsContext, GetReaches, GetPlaces, GetStatuses
<1>8. ASSUME NEW f \in HostFiles, GetFindsStored(g, f) PROVE GetTypes' /\ GetPlaceInv'
  BY <1>0, <1>8, <1>a, <1>g DEF GetFindsStored, KeepsContext, GetReaches, GetPlaces, GetStatuses
<1>9. CASE GetComparesTag(g)
  <2>1. getPath[g] \in Paths
    BY <1>9 DEF GetComparesTag, GetReaches, GetPlaceInv
  <2> QED BY <1>9, <1>a, <1>g, <2>1 DEF GetComparesTag, KeepsContext, KeepsTransfer, GetReaches,
       GetPlaces, GetStatuses
<1>10. CASE GetExists(g)
  <2>1. getPath[g] \in Paths
    BY <1>10 DEF GetExists, GetReaches, GetPlaceInv
  <2> QED BY <1>10, <1>a, <1>g, <2>1 DEF GetExists, KeepsContext, KeepsTransfer, GetReaches,
       GetPlaces, GetStatuses
<1>11. CASE GetAnnounces(g)
  <2>1. getPath[g] \in Paths
    BY <1>11 DEF GetAnnounces, GetReaches, GetPlaceInv
  <2>2. files[getPath[g]] # NoFile => FileSize(g) \in Nat
    BY <2>1, BaseNumbers DEF Numbers, FileSize
  <2> QED BY <1>11, <1>a, <1>g, <2>1, <2>2 DEF GetAnnounces, KeepsContext, GetReaches,
       GetPlaces, GetStatuses
<1>12. CASE GetOpens(g)
  <2>1. getPath[g] \in Paths
    BY <1>12 DEF GetOpens, GetReaches, GetPlaceInv
  <2> QED BY <1>12, <1>g, <2>1 DEF GetOpens, KeepsContext, GetReaches, GetPlaces
<1>13. CASE GetReads(g)
  <2>1. getPath[g] \in Paths
    BY <1>13 DEF GetReads, GetReaches, GetPlaceInv
  <2>2. sent' \in [Gets -> Nat]
    <3>1. PICK length \in IF opened[g] THEN Lengths(getPath[g]) ELSE {0} :
            sent' = [sent EXCEPT ![g] = Smaller(length, sent[g] + chunk_size_)] \/ UNCHANGED sent
      BY <1>13 DEF GetReads
    <3>2. length \in Nat
      BY <2>1, LengthsType
    <3>3. Smaller(length, sent[g] + chunk_size_) \in Nat
      <4>1. sent[g] + chunk_size_ \in Nat
        BY ChunkSizeAssumption
      <4> QED BY <3>2, <4>1, SmallerType
    <3> QED BY <3>1, <3>3
  <2>3. /\ GetGoesTo(g, "read") \/ GetAnswers(g, "OK")
        /\ getAt[g] = "read"
        /\ KeepsContext /\ UNCHANGED <<getPath, announced, opened>>
        /\ readFailed' \in [Gets -> BOOLEAN]
    BY <1>13 DEF GetReads, GetReaches
  <2> QED BY <1>a, <1>g, <2>1, <2>2, <2>3 DEF KeepsContext, GetPlaces, GetStatuses
<1> QED BY <1>1, <1>2, <1>3, <1>4, <1>5, <1>6, <1>7, <1>8, <1>9, <1>10, <1>11, <1>12, <1>13
       DEF GetStep

\* No Get has begun.
LEMMA InitGetType == GetInit => GetTypes /\ GetPlaceInv
BY DEF GetInit, GetTypes, GetPlaceInv, GetPlaces, GetStatuses

\* Types and places are kept, by the upload path as well.
LEMMA NextGetType ==
  LifeStepInv /\ GetTypes /\ GetPlaceInv /\ [GetNext]_<<vars, getVars>>
    => GetTypes' /\ GetPlaceInv'
<1> SUFFICES ASSUME LifeStepInv, GetTypes, GetPlaceInv, [GetNext]_<<vars, getVars>>
             PROVE  GetTypes' /\ GetPlaceInv'
  OBVIOUS
<1>1. CASE UNCHANGED getVars
  BY <1>1 DEF GetTypes, GetPlaceInv, getVars
<1>2. ASSUME NEW g \in Gets, GetStep(g), UNCHANGED uploadVars PROVE GetTypes' /\ GetPlaceInv'
  BY <1>2, GetAlone, GetStepType
<1> QED BY <1>1, <1>2 DEF GetNext

\* Every state of downloads and uploads has its type, for every number of them
\* and with a file system that may fail: in particular a Get that looks at a
\* file has the path of one, from find() or from the data store.
THEOREM GetTypeCorrect == GetSpec => []GetTypeOK
<1> DEFINE Inv == LifeStepInv /\ GetTypes /\ GetPlaceInv
<1>1. GetInit => Inv
  BY InitStruct, InitFile, InitOwn, InitLifeInv, InitGetType DEF GetInit, LifeStepInv
<1>2. Inv /\ [GetNext]_<<vars, getVars>> => Inv'
  BY NextBase, NextGetType
<1>3. Inv => GetTypeOK
  BY DEF LifeStepInv, StructInv, GetTypes, GetTypeOK
<1> QED BY <1>1, <1>2, <1>3, PTL DEF GetSpec

-----------------------------------------------------------------------------
(* What a download may rely on.                                            *)

\* A step of the upload path keeps the promises to every Get.
LEMMA UploadTransfers ==
  ASSUME LifeStepInv, LifeStepInv', GetTypes, FilesStep, UNCHANGED getVars,
         NEW g \in Gets, Transfers(g)
  PROVE  Transfers(g)'
<1> DEFINE p == getPath[g]
<1>0. /\ announced[g] \in Nat /\ sent[g] \in Nat
      /\ getAt'[g] = getAt[g] /\ getPath'[g] = p /\ announced'[g] = announced[g]
      /\ opened'[g] = opened[g] /\ readFailed'[g] = readFailed[g]
      /\ sent'[g] = sent[g] /\ getStatus'[g] = getStatus[g]
  BY DEF GetTypes, getVars
<1>1. CASE Written(p)
  <2>1. /\ Written(p)'
        /\ files[p] = NoFile => files'[p] = NoFile
        /\ AtLeast(p, sent[g]) => AtLeast(p, sent[g])'
        /\ Holds(p, announced[g]) => Holds(p, announced[g])'
    BY <1>0, <1>1, WrittenStays, WrittenGrows, HoldsOn
  <2>2. /\ Written(p)' = Written(getPath[g])'
        /\ Holds(p, announced[g])' = Holds(getPath[g], announced[g])'
        /\ AtLeast(p, sent[g])' = AtLeast(getPath[g], sent[g])'
    OBVIOUS
  <2> QED BY <1>0, <2>1, <2>2 DEF Transfers
<1>2. CASE ~Written(p)
  BY <1>0, <1>2 DEF Transfers
<1> QED BY <1>1, <1>2

\* What another Get holds.
SameGet(g) ==
    /\ getAt'[g] = getAt[g]
    /\ getPath'[g] = getPath[g]
    /\ announced'[g] = announced[g]
    /\ opened'[g] = opened[g]
    /\ readFailed'[g] = readFailed[g]
    /\ sent'[g] = sent[g]
    /\ getStatus'[g] = getStatus[g]

\* A step of one Get leaves the others alone.
LEMMA GetOthers ==
  ASSUME GetTypes, NEW g \in Gets, GetStep(g), NEW d \in Gets, d # g
  PROVE  SameGet(d)
<1> USE DEF GetTypes, SameGet, KeepsTransfer, KeepsStream
<1>a. ASSUME NEW code, GetAnswers(g, code)
      PROVE  getAt'[d] = getAt[d] /\ getStatus'[d] = getStatus[d]
  BY <1>a DEF GetAnswers
<1>g. ASSUME NEW place, GetGoesTo(g, place)
      PROVE  getAt'[d] = getAt[d] /\ getStatus'[d] = getStatus[d]
  BY <1>g DEF GetGoesTo
<1>1. CASE GetRejected(g)
  BY <1>1, <1>a DEF GetRejected
<1>2. ASSUME NEW s \in Sessions, GetNamesSession(g, s) PROVE SameGet(d)
  BY <1>2, <1>g DEF GetNamesSession
<1>3. ASSUME NEW t \in Transactions, GetNamesTransaction(g, t) PROVE SameGet(d)
  BY <1>3, <1>g DEF GetNamesTransaction
<1>4. CASE GetChecks(g)
  BY <1>4, <1>a, <1>g DEF GetChecks
<1>5. CASE GetNoStorage(g)
  BY <1>5, <1>a DEF GetNoStorage
<1>6. CASE GetLooksUp(g)
  BY <1>6, <1>a, <1>g DEF GetLooksUp
<1>7. ASSUME NEW b \in BlobIds, GetFinds(g, b) PROVE SameGet(d)
  BY <1>7, <1>a, <1>g DEF GetFinds
<1>8. ASSUME NEW f \in HostFiles, GetFindsStored(g, f) PROVE SameGet(d)
  BY <1>8, <1>a, <1>g DEF GetFindsStored
<1>9. CASE GetComparesTag(g)
  BY <1>9, <1>a, <1>g DEF GetComparesTag
<1>10. CASE GetExists(g)
  BY <1>10, <1>a, <1>g DEF GetExists
<1>11. CASE GetAnnounces(g)
  BY <1>11, <1>a, <1>g DEF GetAnnounces
<1>12. CASE GetOpens(g)
  BY <1>12, <1>g DEF GetOpens
<1>13. CASE GetReads(g)
  <2>1. \/ UNCHANGED sent
        \/ \E n \in {Smaller(length, sent[g] + chunk_size_) :
                        length \in IF opened[g] THEN Lengths(getPath[g]) ELSE {0}} :
              sent' = [sent EXCEPT ![g] = n]
    BY <1>13 DEF GetReads
  <2>2. sent'[d] = sent[d]
    BY <2>1
  <2> QED BY <1>13, <1>a, <1>g, <2>2 DEF GetReads
<1> QED BY <1>1, <1>2, <1>3, <1>4, <1>5, <1>6, <1>7, <1>8, <1>9, <1>10, <1>11, <1>12, <1>13
       DEF GetStep

\* Before the data, nothing is promised.
LEMMA GetPrepares ==
  ASSUME GetTypes, GetPlaceInv, NEW g \in Gets, GetStep(g),
         ~GetAnnounces(g), ~GetOpens(g), ~GetReads(g)
  PROVE  getAt'[g] \notin {"open", "read"} /\ getStatus'[g] # "OK"
<1> USE DEF GetTypes
<1>s. getAt[g] # "done" => getStatus[g] = "NONE"
  BY DEF GetPlaceInv
<1> DEFINE Goal == getAt'[g] \notin {"open", "read"} /\ getStatus'[g] # "OK"
<1>a. ASSUME NEW code, GetAnswers(g, code), code # "OK" PROVE Goal
  BY <1>a DEF GetAnswers
<1>g. ASSUME NEW place, GetGoesTo(g, place), place \notin {"open", "read"}, getAt[g] # "done"
      PROVE  Goal
  BY <1>g, <1>s DEF GetGoesTo
<1>1. CASE GetRejected(g)
  BY <1>1, <1>a DEF GetRejected
<1>2. ASSUME NEW s \in Sessions, GetNamesSession(g, s) PROVE Goal
  BY <1>2, <1>g DEF GetNamesSession, GetReaches
<1>3. ASSUME NEW t \in Transactions, GetNamesTransaction(g, t) PROVE Goal
  BY <1>3, <1>g DEF GetNamesTransaction, GetReaches
<1>4. CASE GetChecks(g)
  BY <1>4, <1>a, <1>g DEF GetChecks, GetReaches
<1>5. CASE GetNoStorage(g)
  BY <1>5, <1>a DEF GetNoStorage
<1>6. CASE GetLooksUp(g)
  BY <1>6, <1>a, <1>g DEF GetLooksUp, GetReaches
<1>7. ASSUME NEW b \in BlobIds, GetFinds(g, b) PROVE Goal
  BY <1>7, <1>a, <1>g DEF GetFinds, GetReaches
<1>8. ASSUME NEW f \in HostFiles, GetFindsStored(g, f) PROVE Goal
  BY <1>8, <1>a, <1>g DEF GetFindsStored, GetReaches
<1>9. CASE GetComparesTag(g)
  BY <1>9, <1>a, <1>g DEF GetComparesTag, GetReaches
<1>10. CASE GetExists(g)
  BY <1>10, <1>a, <1>g DEF GetExists, GetReaches
<1> QED BY <1>1, <1>2, <1>3, <1>4, <1>5, <1>6, <1>7, <1>8, <1>9, <1>10 DEF GetStep

\* The length of a file that is there is held from then on.
LEMMA LengthHeld ==
  ASSUME LifeStepInv, FileSizeInv, running, NEW p \in Paths, files[p] # NoFile
  PROVE  Written(p) /\ Holds(p, files[p])
<1>0. Numbers /\ files[p] \in Nat
  BY BaseNumbers DEF Numbers
<1>1. Written(p)
  <2>1. ASSUME NEW b \in BlobIds, p = UploadPath(b)
        PROVE  b <= blob_id_ /\ \A c \in Calls : putBlob[c] = b => putAt[c] # "open"
    BY <2>1 DEF LifeStepInv, FileInv, CleanStart, LifeInv, OpenInv
  <2> QED BY <2>1 DEF Written
<1>2. AtLeast(p, files[p])
  BY <1>0 DEF AtLeast
<1>3. ASSUME NEW c \in Calls, Writes(c, p) PROVE total_size[c] >= files[p]
  <2>1. putBlob[c] \in BlobIds /\ UploadPath(putBlob[c]) = p
    BY <1>0, <1>3, WriterOf DEF Numbers, Writes
  <2>2. files[p] <= total_size[c]
    BY <2>1 DEF FileSizeInv
  <2> QED BY <1>0, <2>2 DEF Numbers
<1>4. ASSUME \A c \in Calls : ~Writes(c, p) PROVE files[p] <= 1
  <2>1. CASE p \in UploadPaths
    <3>1. PICK b \in BlobIds : p = UploadPath(b)
      BY <2>1 DEF UploadPaths
    <3>2. \E c \in Calls : putBlob[c] = b
      BY <3>1 DEF FileSizeInv
    <3> QED BY <1>4, <3>1, <3>2 DEF Writes
  <2>2. CASE p \notin UploadPaths
    <3>1. \E f \in HostFiles : p = HostPath(f)
      BY <2>2 DEF Paths
    <3>2. files[p] = 1
      BY <3>1 DEF FileSizeInv
    <3> QED BY <3>2
  <2> QED BY <2>1, <2>2
<1> QED BY <1>1, <1>2, <1>3, <1>4 DEF Holds

\* What an open stream can read is at least what is held.
LEMMA ReadHeld ==
  ASSUME LifeStepInv, ~FsFails, NEW p \in Paths, NEW n \in Nat, Holds(p, n),
         NEW length \in Lengths(p)
  PROVE  /\ length \in Nat /\ length >= n
         /\ AtLeast(p, length)
<1>0. length \in Nat /\ Numbers
  BY LengthsType, BaseNumbers
<1>1. CASE files[p] # NoFile
  <2>1. length = files[p]
    BY <1>1 DEF Lengths
  <2> QED BY <1>0, <1>1, <2>1 DEF Holds, AtLeast
<1>2. CASE files[p] = NoFile
  <2>1. CASE \A c \in Calls : ~Writes(c, p)
    <3>1. {c \in Calls : p = UploadPath(putBlob[c])} = {}
      BY <2>1 DEF Writes
    <3>2. length = 1 /\ n <= 1
      BY <1>2, <2>1, <3>1 DEF Lengths, Holds
    <3> QED BY <1>0, <1>2, <3>2 DEF AtLeast
  <2>2. CASE \E c \in Calls : Writes(c, p)
    <3>1. PICK c \in Calls : Writes(c, p) /\ length = total_size[c]
      <4>1. {c \in Calls : p = UploadPath(putBlob[c])} # {}
        BY <2>2 DEF Writes
      <4>2. length \in UNION {{total_size[c]} : c \in {d \in Calls : p = UploadPath(putBlob[d])}}
        BY <1>2, <4>1 DEF Lengths
      <4> QED BY <4>2 DEF Writes
    <3>2. length >= n
      BY <3>1 DEF Holds
    <3> QED BY <1>0, <1>2, <3>2 DEF AtLeast
  <2> QED BY <2>1, <2>2
<1> QED BY <1>1, <1>2

\* Its own steps keep the promises to a Get, where writes do not fail.
LEMMA GetTransfers ==
  ASSUME LifeStepInv, FileSizeInv, GetTypes, GetPlaceInv, ~FsFails,
         NEW g \in Gets, Transfers(g), GetStep(g), UNCHANGED vars
  PROVE  Transfers(g)'
<1> USE DEF GetTypes
<1> DEFINE p == getPath[g]
<1>0. /\ UNCHANGED <<running, blob_id_, files, putAt, putBlob, total_size>>
      /\ announced[g] \in Nat /\ sent[g] \in Nat
  BY DEF vars, sessionVars, entryVars, putVars
<1>u. ASSUME getPath'[g] = p
      PROVE  /\ Written(getPath[g])' = Written(p)
             /\ \A n \in Nat : AtLeast(p, n)' = AtLeast(p, n)
             /\ \A n \in Nat : Holds(p, n)' = Holds(p, n)
  BY <1>0, <1>u DEF Written, Holds, AtLeast, Writes, UploadPath
<1>1. CASE GetAnnounces(g)
  <2>0. p \in Paths /\ running /\ getPath'[g] = p /\ getStatus[g] # "OK"
    BY <1>1 DEF GetAnnounces, GetReaches, GetPlaceInv
  <2>1. CASE files[p] # NoFile /\ getAt'[g] = "open" /\ announced'[g] = files[p]
    <3>1. Written(p) /\ Holds(p, files[p]) /\ files[p] \in Nat
      BY <2>0, <2>1, LengthHeld, BaseNumbers DEF Numbers
    <3>2. getStatus'[g] # "OK"
      BY <1>1, <2>0, <2>1 DEF GetAnnounces, GetGoesTo, GetAnswers
    <3>3. Holds(getPath[g], announced[g])'
      BY <1>0, <2>0, <2>1, <3>1 DEF Holds, AtLeast, Writes, UploadPath
    <3> QED BY <1>u, <2>0, <2>1, <3>1, <3>2, <3>3 DEF Transfers
  <2>2. CASE GetAnswers(g, "INTERNAL")
    BY <2>2 DEF GetAnswers, Transfers
  <2> QED BY <1>1, <2>1, <2>2 DEF GetAnnounces, GetGoesTo, FileSize
<1>2. CASE GetOpens(g)
  <2>1. /\ getAt[g] = "open" /\ getAt'[g] = "read" /\ getPath'[g] = p
        /\ announced'[g] = announced[g] /\ getStatus'[g] # "OK"
    BY <1>2 DEF GetOpens, GetReaches, GetGoesTo, GetPlaceInv
  <2>2. ~opened'[g] /\ ~readFailed'[g] => files[p] = NoFile
    BY <1>2 DEF GetOpens
  <2>3. Written(p) /\ Holds(p, announced[g])
    BY <2>1 DEF Transfers
  <2>4. Written(getPath[g])' /\ Holds(getPath[g], announced[g])'
    BY <1>0, <2>1, <2>3 DEF Written, Holds, AtLeast, Writes, UploadPath
  <2>5. files'[getPath'[g]] = files[p]
    BY <1>0, <2>1
  <2> QED BY <2>1, <2>2, <2>4, <2>5 DEF Transfers
<1>3. CASE GetReads(g)
  <2>1. /\ getAt[g] = "read" /\ getPath'[g] = p /\ p \in Paths
        /\ announced'[g] = announced[g] /\ opened'[g] = opened[g]
        /\ getStatus[g] # "OK"
    BY <1>3 DEF GetReads, GetReaches, GetPlaceInv
  <2>2. /\ Written(p)
        /\ opened[g] => Holds(p, announced[g])
        /\ ~opened[g] /\ ~readFailed[g] => files[p] = NoFile
    BY <2>1 DEF Transfers
  <2>3. Written(getPath[g])' /\ (opened[g] => Holds(getPath[g], announced[g])')
    BY <1>0, <2>1, <2>2 DEF Written, Holds, AtLeast, Writes, UploadPath
  <2>4. files'[getPath'[g]] = files[p]
    BY <1>0, <2>1
  <2>5. CASE readFailed'[g] /\ getAt'[g] = "done"
    BY <2>1, <2>3, <2>5 DEF Transfers
  <2>6. ASSUME NEW length \in IF opened[g] THEN Lengths(p) ELSE {0},
               sent' = [sent EXCEPT ![g] = Smaller(length, sent[g] + chunk_size_)],
               IF Full(g, length) THEN GetGoesTo(g, "read") ELSE GetAnswers(g, "OK"),
               UNCHANGED readFailed
        PROVE  Transfers(g)'
    <3>1. CASE Full(g, length)
      <4>1. getAt'[g] = "read" /\ getStatus'[g] # "OK"
        BY <2>1, <2>6, <3>1 DEF GetGoesTo
      <4> QED BY <2>1, <2>2, <2>3, <2>4, <2>6, <4>1 DEF Transfers
    <3>2. CASE ~Full(g, length)
      <4>1. getAt'[g] = "done"
        BY <2>6, <3>2 DEF GetAnswers
      <4>2. ASSUME opened[g] PROVE sent'[g] >= announced'[g] /\ AtLeast(getPath[g], sent[g])'
        <5>1. length \in Nat /\ length >= announced[g] /\ AtLeast(p, length)
          BY <1>0, <2>1, <2>2, <2>6, <4>2, ReadHeld
        <5>2. length < sent[g] + chunk_size_
          BY <1>0, <3>2, <5>1, ChunkSizeAssumption DEF Full
        <5>3. sent'[g] = length
          BY <2>6, <5>2 DEF Smaller
        <5> QED BY <1>0, <2>1, <2>4, <5>1, <5>3 DEF AtLeast
      <4> QED BY <2>1, <2>2, <2>3, <2>4, <2>6, <4>1, <4>2 DEF Transfers
    <3> QED BY <3>1, <3>2
  <2>7. \/ readFailed'[g] /\ getAt'[g] = "done"
        \/ \E length \in IF opened[g] THEN Lengths(p) ELSE {0} :
              /\ sent' = [sent EXCEPT ![g] = Smaller(length, sent[g] + chunk_size_)]
              /\ IF Full(g, length) THEN GetGoesTo(g, "read") ELSE GetAnswers(g, "OK")
              /\ UNCHANGED readFailed
    BY <1>3 DEF GetReads, GetAnswers
  <2> QED BY <2>5, <2>6, <2>7
<1>4. CASE ~GetAnnounces(g) /\ ~GetOpens(g) /\ ~GetReads(g)
  BY <1>4, GetPrepares DEF Transfers
<1> QED BY <1>1, <1>2, <1>3, <1>4

-----------------------------------------------------------------------------
(* The theorems about what a client gets.                                  *)

GetInv == LifeStepInv /\ FileSizeInv /\ GetTypes /\ GetPlaceInv /\ TransferInv

\* No Get has begun.
LEMMA InitGet == GetInit => GetInv
<1> SUFFICES ASSUME GetInit PROVE GetInv
  OBVIOUS
<1>1. Init
  BY DEF GetInit
<1>2. TransferInv
  BY DEF GetInit, TransferInv, Transfers
<1> QED BY <1>1, <1>2, InitStruct, InitFile, InitOwn, InitLifeInv, InitFileSize, InitGetType
       DEF GetInv, LifeStepInv

\* Where writes do not fail the invariant is inductive.
LEMMA NextGet == ~FsFails /\ GetInv /\ [GetNext]_<<vars, getVars>> => GetInv'
<1> SUFFICES ASSUME ~FsFails, GetInv, [GetNext]_<<vars, getVars>> PROVE GetInv'
  OBVIOUS
<1>0. /\ LifeStepInv /\ FileSizeInv /\ GetTypes /\ GetPlaceInv /\ TransferInv
      /\ LifeStepInv' /\ GetTypes' /\ GetPlaceInv'
  BY NextBase, NextGetType DEF GetInv
<1>1. CASE UploadStep /\ UNCHANGED getVars
  <2>1. FilesStep
    BY <1>0, <1>1, UploadFiles
  <2>2. FileSizeInv'
    BY <1>0, <2>1, NextFileSize
  <2>3. \A g \in Gets : Transfers(g)'
    BY <1>0, <1>1, <2>1, UploadTransfers DEF TransferInv
  <2> QED BY <1>0, <2>2, <2>3 DEF GetInv, TransferInv
<1>2. ASSUME UNCHANGED vars PROVE FileSizeInv'
  BY <1>0, <1>2 DEF vars, sessionVars, putVars, FileSizeInv, UploadPath, HostPath
<1>3. ASSUME UNCHANGED vars, NEW g \in Gets, SameGet(g) PROVE Transfers(g)'
  <2>1. UNCHANGED <<running, blob_id_, files, putAt, putBlob, total_size>>
    BY <1>3 DEF vars, sessionVars, entryVars, putVars
  <2> QED BY <1>0, <1>3, <2>1 DEF TransferInv, Transfers, SameGet, Written, Holds, AtLeast, Writes,
       UploadPath
<1>4. ASSUME NEW g \in Gets, GetStep(g), UNCHANGED uploadVars PROVE GetInv'
  <2>1. UNCHANGED vars
    BY <1>4, GetAlone
  <2>2. Transfers(g)'
    BY <1>0, <1>4, <2>1, GetTransfers DEF TransferInv
  <2>3. ASSUME NEW d \in Gets, d # g PROVE Transfers(d)'
    BY <1>0, <1>3, <1>4, <2>1, <2>3, GetOthers
  <2> QED BY <1>0, <1>2, <2>1, <2>2, <2>3 DEF GetInv, TransferInv
<1>5. CASE UNCHANGED <<vars, getVars>>
  <2>1. \A g \in Gets : SameGet(g)
    BY <1>5 DEF getVars, SameGet
  <2> QED BY <1>0, <1>2, <1>3, <1>5, <2>1 DEF GetInv, TransferInv
<1> QED BY <1>1, <1>4, <1>5 DEF GetNext

\* Where writes do not fail it holds in every reachable state.
LEMMA GetInvariance ==
  ASSUME ~FsFails
  PROVE  GetSpec => []GetInv
<1>1. GetInv /\ [GetNext]_<<vars, getVars>> => GetInv'
  BY NextGet
<1> QED BY <1>1, InitGet, PTL DEF GetSpec

\* Where writes do not fail, only a failing read cuts a download that has its
\* file open short of the size that it announced, for any number of uploads,
\* deletions and moves meanwhile: ids are not used twice, so the file that was
\* measured is the one that is read.
THEOREM OpenedWhole ==
  ASSUME ~FsFails
  PROVE  GetSpec => []OpenedNeverShort
<1>1. GetInv => OpenedNeverShort
  BY DEF GetInv, TransferInv, Transfers, OpenedNeverShort
<1> QED BY <1>1, GetInvariance, PTL

\* A download at whose end the file is as long as announced has sent just that,
\* if it could be read: what was sent beyond it would be in the file, and a file
\* that was not there to be opened does not come back.
THEOREM UntouchedWhole ==
  ASSUME ~FsFails
  PROVE  GetSpec => []WholeIfUntouched
<1>1. ASSUME GetInv PROVE WholeIfUntouched
  <2>1. SUFFICES ASSUME NEW g \in Gets, getStatus[g] = "OK", ~readFailed[g],
                        files[getPath[g]] = announced[g]
                 PROVE  sent[g] = announced[g]
    BY DEF WholeIfUntouched
  <2>2. announced[g] \in Nat /\ sent[g] \in Nat /\ announced[g] # NoFile
    BY <1>1, NoFileAssumption DEF GetInv, GetTypes
  <2>3. opened[g] /\ sent[g] >= announced[g] /\ AtLeast(getPath[g], sent[g])
    BY <1>1, <2>1, <2>2 DEF GetInv, TransferInv, Transfers
  <2> QED BY <2>1, <2>2, <2>3 DEF AtLeast
<1> QED BY <1>1, GetInvariance, PTL
=============================================================================
