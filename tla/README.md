# Verification of data-relay-grpc

TLA+ models, TLC runs and TLAPS proofs about the BLOB relay server in
`src/server`: sessions that hold BLOBs, the session store with its quota, and the
gRPC handlers that upload and download BLOBs through them.

Paths below are relative to `src/server`; `SI` stands for
`src/data_relay_grpc/common/detail/session_impl.cpp`, `SM` for `session_manager.cpp`
beside it, `ST` for `include/data_relay_grpc/common/detail/session_store.h`, `SV` for
`src/data_relay_grpc/blob_relay/streaming_service.cpp` and `LS` for
`local_service.cpp` beside it.

To repeat a run: `tlc -workers 2 -config put_racing.cfg MCStreamingPut.tla`
(`PROJECT.json` names the module of every configuration). To repeat a proof:
`tlapm StreamingPutProofs.tla`.

## 1. The system

A database (the *host*) embeds the relay. It creates sessions, hands their ids to
clients, and clients exchange BLOBs with the server over gRPC. All handlers and host
threads run concurrently in one process.

| component | state it keeps | operations | talks to |
|---|---|---|---|
| session store (`ST`) | the byte counter `current_size_` (atomic), the quota, the directory of upload files | constructor (empties the directory), `create_blob_file` (a path), `reserve`, `remove` | file system |
| session manager (`SM`) | the registry `blob_sessions_`, the map `blob_session_ids_` from transactions to sessions, the last session id (under `mtx_`), the last blob id (atomic) | `create_session`, `dispose`, `get_session_impl`, `get_session_id`, `get_new_blob_id` | session, api |
| session (`SI`, `session.cpp`) | the map `blobs_` from blob ids to path and size, under the session's own `mtx_` | host: `add`, `find`, `entries`, `remove`, `dispose`; handlers: `create_blob_file`, `reserve_session_store`, `delete_blob_file`, `compute_tag`, `get_tag` | manager, store, file system |
| streaming service (`SV`) | locals of each call: a reference to a session, a blob id, a file stream, a byte count | `Put`, `Get` | manager, session, file system |
| local service (`LS`) | locals of each call | `Put` (copies a file), `Get` (a path) | manager, session, file system |
| tag generator (`tag_generator.h`) | a random key per process | `generate_reference_tag` | OpenSSL |
| service assembly (`service_impl.cpp`, `service.cpp`, configuration) | owns the others | constructor, `create_session` | all |
| callbacks of the data store (`api.h`) | the host's | `get_tag`, `get_path` | host |

What is hard:

* **One counter, many sessions.** `reserve` is a load and a compare-and-exchange loop
  (ST:71-84); all sessions use it at once.
* **Two lifetimes.** A handler looks its session up once (SV:170) and uses the reference
  to the end of a stream that lasts as long as the client likes. The host may
  `dispose` of the session meanwhile: nothing keeps the object alive.
* **Deletion has two halves.** `delete_blob_file` (SI:72-82) first gives the bytes
  back to the counter that all sessions share and then unlinks the file. The
  session's mutex is held throughout, but other sessions are not stopped by it.
* **Entry and file are apart.** The entry is made by `create_blob_file`, the file later
  by an `ofstream` (SV:173), and `remove` may come between.
* **Snapshots.** `dispose` deletes the entries of one snapshot (SI:38).
* **Reads with no lock.** `Get` looks at its file three times (exists, size, open).
* **Failures.** The file system may refuse; the process may die and leave files whose
  ids the next process issues again; a client may break off anywhere.

What makes each component correct:

* store: the counter is exact, never above the quota, and every reservation is atomic;
* manager: a transaction is mapped to a live session of its own; ids are never reused;
* session: a blob is in one session; the counter covers the entries; every byte on
  disk was reserved first; a deletion happens once;
* Put: an acknowledged upload is whole and only the host deletes it; a refused one leaves
  nothing; a refusal is justified; the handler is never stuck;
* Get: what is announced is what is sent, unless the file was touched or could not be read;
* local service: copies stay whole and do not disturb the accounting;
* process: a new one starts with an empty store, and a reference that a client kept from
  an earlier one is not taken for a blob of the new one;
* a blob, whoever handles it: issued once, its data grows while it is received, is then
  fixed, and does not come back.

## 2. The modules

```
ByteCount <- QuotaCounter          abstract counter
          <- SessionStore          implements QuotaCounter (INSTANCE ... WITH)
SessionManager <- TransactionLookup
SessionManager, ByteCount <- SessionImpl <- StreamingPut <- StreamingGet
                                                         <- LocalService
                                                         <- BlobReference
BlobLife                           abstract life of a blob
          <- StreamingPut          implements BlobLife (INSTANCE ... WITH)
```

| module | models | how |
|---|---|---|
| `ByteCount` | sums of sizes | the number of pairs (owner, byte): no recursion, so facts about it can be proved |
| `QuotaCounter` | what the store promises | a request is granted or refused in one step, exactly when it fits |
| `SessionStore` | `reserve` and `remove` of `ST` | one action per atomic instruction: load, successful and failed exchange, `fetch_sub`; arithmetic modulo `Word` |
| `SessionManager` | registry and transaction map | the critical sections of `mtx_` as operators, used by the next two |
| `TransactionLookup` | the two lookups of `Get` (SV:36-64) | each a critical section, with creations and disposals between |
| `SessionImpl` | sessions, files, host threads, process | methods under the mutex are one step, except `delete_blob_file`, which is two; `remove` and `dispose` are loops of such steps |
| `StreamingPut` | `streaming_service::Put` composed with the host | `putAt[c]` is the program counter of call `c`; one action per step and per exit |
| `BlobLife` | what the relay promises of one blob | unissued, receiving, stored or partial, gone; with sessions, files and entries left out |
| `BlobReference` | the tag generator and the references that clients keep, over restarts | the key of the process is its number; the set of references never shrinks; every step is one of `StreamingPut` |
| `StreamingGet` | `streaming_service::Get` composed with all of the above | `getAt[g]`; the lookup, the tag, and each look at the file are steps of their own |
| `LocalService` | `local_service` next to uploads | entry, creation of the copy and its contents are steps of their own |

Choices that a reader should know:

* **Atomicity.** A step is what runs under one mutex or one atomic instruction, or one
  system call on a file. `StreamingPut` uses the counter as atomic: `SessionStore` is
  shown to implement that (`ReservesAtomically`, checked and proved).
* **Use after dispose.** Touching a destroyed session is undefined. With `Residual = TRUE`
  the memory still has its last contents (a dispose leaves `blobs_[s]` as it was); with
  `FALSE`, whoever touches it goes no further; and `Crash`, where it is on, is the process
  dying of it. The safety runs take `TRUE`, which has more behaviours. The findings on
  dispose and on refusals take `FALSE`, so they need no undefined step.
* **Data.** A chunk and a file are their number of bytes; a path is the blob's id or the
  host file. `ofstream` buffering is left out: a write reaches the file in the step that
  makes it. `add` canonicalises a path; two names of one file are not distinguished.
* **Failures.** `FsFails` lets the operations of sessions and uploads on files fail: the
  constructor with any of the files removed, the looks of `add` (the id is then consumed),
  opening, unlinking, and writing: silently (SV:193), with a part of the chunk in the file,
  and every later write is ignored. `ReadFails` does it for the three looks of `Get` and its
  reads (SV:125). `CryptoFails` does the same for OpenSSL: no key
  (the constructor throws when it has emptied the directory) or no tag (SV:209: the upload
  is complete on disk and answered UNKNOWN). A copy of the local service may fail in any
  run, with a part of the file written.
* **Keys.** A tag is the triple of key, blob and session: the hash is taken as injective and
  a key as never drawn twice. What is left out is a collision of 64 or 128 bits.
* **The life of a blob.** `StreamingPut` maps a blob to "gone" when it has no entry in a
  live session, or no file and no handler about to open it. So the file that a handler goes
  on writing after a remove is no blob's data; whether it is an orphan is another property's
  business. Several blobs may be lost in one step: with their session, or with a host file
  that was added to two sessions.
* **The host** uses a session that exists and that no thread is disposing of, calls
  `dispose` once and with no `remove` under way in it, and does not add a path twice:
  these are the notes of `session.h`. It does *not* know of calls under way.
  `OrderedUse = TRUE` adds that it does: then properties hold that are otherwise false.
* **Mutants.** A definition marked "Mutant of X" is X with a plausible bug; no module
  uses it. Each property of each run is broken by one of them in that run.
* **No lock.** The log of `get_session_id` reads the last session id outside the mutex
  (SM:88): a data race that can touch only the text of a log line, and is left out.

## 3. The runs

| run | question | result |
|---|---|---|
| `store_cas` | Does the exchange loop lose, double or overshoot? Does it implement `QuotaCounter`, is it lock-free? | holds |
| `store_unlimited` | Is every request granted, and nothing counted, without a quota? | holds |
| `lookup_any` | Is the transaction map sound when several sessions share a transaction? Is a Get ever denied its own session? | holds |
| `put_racing` | Two uploads against remove, dispose and file moves at any moment: accounting, disk usage, acknowledged uploads; does a handler disturb what is not its own? do all of them together implement `BlobLife`? | holds |
| `put_ordered` | The same with a host that keeps uploads apart, a host file, tags that may fail, and a crash: exact counter, no byte or file without a live entry, refusals clean and justified, only blobs of one file lost together | holds |
| `restart_failures` | Every operation on files and of OpenSSL may fail and the process may die: clean start, coverage, references of dead processes, `BlobLife`; when alone does the counter, or an acknowledged upload, fall short? | holds |
| `get_racing` | A download against upload, remove, dispose, moves and deletions by the data store, with looks and reads that may fail | holds |
| `local_live` | Copies next to uploads and the host: copies whole, accounting undisturbed; remove, dispose and handlers return | holds |
| `lookup_mapping` | "cannot find any session for the transaction_id": is it true? | violated |
| `put_leftover` | Does dispose "release all resources"? | violated |
| `put_refusal` | Is a chunk refused only when it does not fit? | violated |
| `get_announced` | Is the announced size what is sent? | violated |

### Bounds

Each bound is a constant. `MaxSessions` and `MaxBlobs` bound the ids issued by one
process, `MaxUpload` the bytes of one client, `MaxHeld` the bytes of one session in
`SessionStore`, `MaxCrashes` the deaths of the process, `Word` the range of
`std::size_t`. Two sessions and two blobs are the least in which one session can
disturb another and one upload another; where a property concerns one session only, one
is used. The quota (1 to 3 bytes) is smaller than what clients send, so it is reached
and refused in every run that has one; `store_cas` has three sessions and requests of
up to two bytes under a quota of three, so an exchange can fail against two competitors
and refusals depend on the order. `Word` is a small power of two above
`quota_ + MaxChunk`: a wrong wrap then shows at once. `get_racing` reads one byte at a time
from files of up to two, so a download has steps in the middle of its file. `put_ordered`
and `restart_failures` have one crash: the initial states already contain files of an
earlier process, and two processes are the least in which an id of one session or blob is
issued again while a client still holds a reference to its namesake.
`restart_failures` has one session per process, one host thread, one host file and one call,
which after the crash is the client of the other process. The host and the handler of a
refused upload both delete, so that two failing unlinks can meet; chunks of one and two
bytes under a quota of two and a `MaxUpload` of three let a write fail in part, another one
follow it, and a third be refused. `local_live` has one session, two host threads that delete from it at once, an
upload and a copy: ids, and so collisions of files, are a matter of the process and not of
the session. Calls that would pass a bound are not taken, so the runs of StreamingPut and its
extensions may stop; deadlock is not an error there. In `store_cas` it is checked.

Symmetry (of handlers, and of host threads) is used in safety runs only.

### Fairness

`store_cas`: a thread inside `reserve` is scheduled (weak fairness of its step); winning
the exchange is nobody's right, and `LockFree` says only that somebody progresses.
`local_live`: threads inside remove, dispose or a handler are scheduled (weak fairness of
what they do without a client). A client owes nothing: it may never send the next
message, so nothing is assumed of the steps it decides, and `HandlerReturns` lets a
handler wait at its `Read`. The properties say that no mutex is kept for ever and no loop
of deletions goes round for ever. Weak fairness is enough for a thread that waits for a
mutex because ids are bounded, so the mutex is held for finitely many deletions; that an
unfair mutex never starves a thread under endless load is not claimed.

## 4. What the code does otherwise than its documents say

1. **A disposed session takes another's transaction along** (`lookup_mapping`, SM:51).
   `emplace` keeps the first session of a transaction, `dispose` of any of them erases
   the mapping. A Get then goes on without a session although one is live.
2. **A dispose during an upload leaves files behind** (`put_leftover`, SI:38). The handler
   creates its entry, or opens its file, after the snapshot or the unlink.
3. **Bytes leak** (`put_refusal`, SI:91). After a `remove`, the next chunk of the same
   upload is counted, then `blobs_.at` throws: NOT_FOUND, and the bytes are never given
   back. Later uploads are refused though they fit.
4. **A removed blob is downloaded as an empty one** (`get_announced`, SV:121). `Get`
   announces a size, and neither the opening of the file nor the bytes sent are compared
   with it: OK with no data.

Seen while modelling, with no run of their own:

* SV:170: after a dispose the handler goes on with a dangling reference, and what it does
  then is undefined. `HandlerContained` (`put_racing`, and proved) shows that no live session
  is disturbed by it as long as the memory keeps its contents; nothing is claimed otherwise.
* SV:193: `write` and `close` are not checked. With `FsFails`, `AcknowledgedIsComplete`
  is false: a full disk gives an acknowledged short upload. `ShortOnlyByFailedWrite`
  (checked in `restart_failures`, and proved) shows that this is the only way to one: a
  write of its own failed, and no race or other failure makes an upload short.
* SI:75: the counter is decreased before an unlink that may throw. The entry stays and
  its bytes are given back again by the next remove: the counter may wrap, and the store is
  then full. `NeverUndercounted` is therefore stated, checked and proved for a file
  system that works; `ShortOnlyByFailedUnlink` (checked in `restart_failures`, and proved)
  shows that with one that fails, this exception is the only way in which the counter
  comes to fall short.
* SV:209: when the tag cannot be computed the upload is whole, but its client has no
  reference to it and its bytes stay until the session ends.
* SV:125: a failing read ends the data and the call ends with OK, as in 4. The properties of
  `get_racing` except such a download (`readFailed`) and show that the failures of others,
  and a failing look, cut none short.
* SV:200: a mismatched upload loses its file but keeps its entry and its bytes until the
  session ends. `CountedExactly` counts entries, and so allows it; `NothingOrphaned` shows
  that such bytes are those of an entry in a live session, whose disposal gives them back.
* LS:49: a copy is not reserved, so the disk may hold more than the quota when the local
  service is on. `local_live` shows that the accounting of the others is not disturbed.
* LS:22: a local Get with a transaction as its context always fails, since it asks for
  session 0; and it answers with a path of the data store whatever the storage id.

## 5. What is proved

All theorems hold for every value of the constants that satisfies the assumptions named
in the modules, and for any number of threads.

**SessionStoreProofs.** `TypeCorrect`, `CounterExact`, `QuotaHolds`, `Refinement`. `Inv`
is inductive: an exchange stores `current + size`, which is within the quota only
because it was tested (`TestedBeforeCas`, stated in the proof module) and is the right sum only because the counter
still is `current` and the counter is exact; `remove` does not wrap because the counter
is exact. The refinement maps load to a stutter, and exchange to a grant.
Assumption: `quota_ + MaxChunk < Word` (a quota within one chunk of 2^64 would defeat the
test of ST:75).

**TransactionLookupProofs.** `MapSound`, `DeniedUnreachable`, `NoReuse`,
`FindsLiveSession`. That a Get is never denied needs more than the map being sound: the
session it found may be gone at the second lookup. `LookupSound` says that its id still
belongs to that transaction or is no session's any more; ids are not reused.

**StreamingPutProofs.** The invariant is built in five layers:

1. `StructInv`: whoever is between giving back and unlinking owns the session's mutex and
   its entry is still there; ids are in one session and in one handler. It gives
   `TypeCorrect` and `BlobsUnique`, with failures and crashes included.
2. `NeverUndercounted` (`CounterSafe`): each step but a failed unlink (`CountStep`) moves
   the counter by at least what it moves the entries. Without `LockInv` two threads could give the same bytes back.
3. `FileInv`: a file belongs to an id that this process issued (`RestartClean`), which
   needs the constructor that empties the directory.
4. `SizeInv`: an entry has no more bytes than its handler received, with the chunk that it
   is about to write.
5. `CoverInv`: a file, with that chunk, is no longer than its entry (`DiskCovered`). With
   layer 2 the files are within the quota whenever no deletion is half done (`DiskBounded`).

`CounterSafe` and `DiskBounded` assume `~FsFails` (section 4). `DiskCovered` does not, if no
upload has as many bytes as `std::size_t` counts (`MaxUpload < Word`, true in every run):
after a failed unlink the same bytes may be given back twice, and then an entry grows past
the quota, but by layer 4 it does not wrap. With a quota and a file system that works,
layer 2 keeps it from wrapping and no bound on uploads is needed.
`RestartClean` assumes nothing of the file system: a constructor
that cannot empty the directory throws, and there is no process then.

**StoredBlobProofs.** What a step leaves alone: a step of one handler changes no local of
another (`HandlerAlone`), and only the handler that owns an id makes its file, or makes it
longer (`HandlerData`, `HostData`, `SettledStep`). From these

* `AcknowledgedKept`: whoever takes an entry away has its id in `deleting`, and a handler
  has only its own there and none after its answer (`OwnInv`, the strengthening). It needs
  nothing of the file system;
* `ShortOnlyByItself`: `WholeInv` says that the file of a handler that receives, as long as it
  is there, has `total_size` bytes unless a write of that handler failed. It assumes nothing;
* `AcknowledgedWhole` follows with `~FsFails`, since no write fails then; without it, it is
  false (SV:193 in section 4);
* `HandlersContained`: a step of a handler changes no live session but its own, and there no
  entry and no file but its own. Two live sessions have no blob in common and no two blobs
  have one upload file, so a handler that deletes or writes by id reaches nothing else;
  it assumes nothing, and for a destroyed session the contents of its memory (`Residual`).

The same module follows these blobs over restarts, as references and as lives:

* `ReferencesHold`: no process has the key of an earlier one (`KeyInv`), so a reference
  that is accepted is one of the living process; its blob is settled, and by the lemmas
  above its file and its entry are what its handler left (`LivingInv`). It holds with
  failures of files and of OpenSSL, and for any number of crashes, so the one crash of
  `restart_failures` is no limit of the result. `ShortOnlySo` is `CountStep` with the host
  that holds references added: it assumes nothing;
* `LifeRefinement`: `StreamingPut` implements `BlobLife`. A step makes some blobs go and
  leaves the others (`GoneStep`), or issues one id (`IssueStep`), lets one blob grow
  (`ReceiveStep`) or ends one upload (`FinishStep`). That a step is one of these needs,
  besides `StructInv`, `FileInv` and `OwnInv`, the invariant `LifeInv`: a path is that of
  the entry's id or a file of the host, so handlers write no file of another entry; a
  session that is still to be created has no entries, so none comes back with it; and a
  handler about to open its file has none, so what it receives starts empty.

**StreamingGetProofs.** `GetTypeCorrect`, `OpenedWhole`, `UntouchedWhole`. A Get looks at
its path three times with no lock, and an upload, a removal or the data store may change
the file between any two looks. `GetInv` is about what can *not* happen between them:

* once the file of a path has been made (`Written`), no other is made there: an id belongs
  to one handler, which opens its file once (`WrittenStays`, from `StructInv` and `LifeInv`);
* so the file only grows or goes, and the length seen by the second look is a lower bound
  from then on: of the file while it is on its path, and of what its writer has received once
  it is unlinked (`Holds`, kept by `HoldsOn`; `ReadHeld` for the stream that is open). The file
  is never longer than that (`FileSizeInv`), so what was seen was received;
* a path whose file was gone at the third look has none later (`TransferInv`), so a download
  that opened nothing does not count as untouched.

The data store deletes its own files in these behaviours, which no proof about uploads
covers: `LifeStepInv`, the invariant of the upload path, is shown to be kept by that too.
`GetTypeCorrect` assumes nothing. The other two assume `~FsFails`, for an upload whose writes
fail leaves a shorter file than it received; looks and reads may fail (`ReadFails`), and a
download whose read failed (`readFailed`) is excepted from what they say.

**LocalServiceProofs.** `LocalTypeCorrect`, `CopyWhole`, `LocalCounterSafe`,
`UploadsUnharmed`, `EntriesUnharmed`. Copies and uploads have in common only the counter of
ids and the names of files. `LocalIdInv` says that no two of them have one id; with it each
step of the local service keeps the invariants of the upload path, for which it is a stutter,
a new entry of zero bytes, or a file of its own. `CopyWhole` and `EntriesUnharmed` assume
nothing of the file system: a copy that stops half-way is not acknowledged, and one that was
acknowledged can only be taken away by the host. `LocalCounterSafe` and `UploadsUnharmed` assume `~FsFails`, as
the same properties do without copies.

**OrderedHostProofs.** What a host gains that keeps uploads to a session apart from
`remove`, `dispose` and moves in it (`OrderedUse`), for which `put_ordered` is the small
instance. `ApartInv` is the root: the session of a handler at work is in the registry, and no
host thread is in it. It is preserved because a handler looks up only sessions that no
host thread is in, and a host thread starts only in sessions that no handler is in. With it,

* `NothingIsOrphaned` needs `KeepsInv` (nobody takes the entry of a handler at work),
  `TodoInv` (a disposal has yet to delete all that is in its session, since no entry comes
  after its snapshot), and that files and counted bytes have entries (`FiledInv`, `SizedInv`);
* `LossIsOneFile`: by `TodoInv` a session that is dropped has no entry left, so blobs are lost
  by an unlink or a move, of one file, and the entries that name it are lost with it;
* `RefusedLeavesNothing` needs `KeepsInv`: the deletion at the end of a refused upload finds
  its entry and deletes it with the file;
* `CounterIsExact` and `RefusalIsJustified` assume `~FsFails` too. A chunk that is counted
  finds its entry (`KeepsInv`), so both sums move by the same bytes; an id that was not
  issued has no bytes (`ZeroInv`). When the count is exact, the test of ST:75 refuses only
  what does not fit, and `quota_ + MaxChunk < Word` keeps that test from wrapping.

The first three hold with failures and crashes. Without `OrderedUse` each of the five is
false: TLC finds a counterexample to each with the constants of `put_ordered`, without its
crash and its moves.

Sums over blobs are handled in `ByteCountProofs` through the library's theorems on finite
sets: what happens to a total when one owner gains or loses bytes.

**Only model-checked.** Liveness (`LockFree`, `HostReturns`, `HandlerReturns`,
`LocalReturns`): fairness and ENABLED are beyond the prover. Every invariant, step property
and refinement of a passing run is stated by one of the theorems. `restart_failures` checks
some of them with the references of clients (`RefSpec`, every step of which is one of
`Spec`) where the theorem is about `Spec`.

## 6. What is not modelled

* texts, logging, gRPC itself and the encoding of messages;
* constructors that wire the services together, and the configuration they read: they run
  once, before any call, and what can fail in them is the store's and the generator's;
* the order of bytes and the length of tag and key: see "Keys" above;
* the test client and the smoke test support, which call the interfaces modelled here;
* races inside the standard library's streams; a mutex destroyed while it is held (a
  dispose while a handler is inside a method) is covered only as far as `Residual` goes;
* a crash during a download or a copy: their handlers keep nothing that survives.

## 7. Plan

Done: `ByteCount`, `QuotaCounter`, `SessionStore`; `SessionManager`, `TransactionLookup`;
`SessionImpl`, `StreamingPut`; `StreamingGet` and `LocalService`; failures of files and of
OpenSSL; `BlobLife` and the refinement; `BlobReference`; the proofs above.

Left: liveness, which stays with TLC. The other way to go on would be proofs about the
compositions together: a download next to copies of the local service, and references that
are downloaded in a later process.
