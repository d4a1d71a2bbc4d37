# A TLA+ verification project for fileloft

fileloft is a tus 1.0 resumable-upload server: a protocol core (`fileloft-core`)
over a storage trait and a lock trait, five stores, three lockers, adapters for
three web frameworks and a binary. This directory models the parts whose
correctness depends on *order*: which request holds the lock of an upload, what
it read before it waited, what is on disk when it is stopped. Paths below are
relative to `src/crates/`.

## 1. The system

| part | state it keeps | operations | what makes it hard |
|---|---|---|---|
| handlers (`fileloft-core/src/handler/*.rs`) | none between requests; the local variables of each request | POST, PATCH, HEAD, GET, DELETE, OPTIONS | each is one async task with an await at the lock, every store call, every hook and the body; any await can be its last (timeout, lost client) |
| store trait (`store.rs`) and memory store | per upload: info (size, offset, kind, partials) and bytes | create, get, write_chunk, get_info, declare_length, finalize, delete, read_content, concatenate | one call is atomic, a request is several calls; `write_chunk` trusts the offset it is given |
| filesystem store | `{id}.info`, `{id}_part_{n}`, `{id}` | the same | no call is atomic: a write empties a file and then fills it, a PATCH writes a part and then the info, `finalize` copies and then removes; blocking threads outlive cancelled requests; crashes |
| S3, GCS, Azure stores | the same three kinds of objects, and intermediates `{id}_tmp_{n}` | the same | the same protocol over remote calls, each of which may be lost before or after its effect; combining objects takes several calls and deletes its sources |
| lock trait (`lock.rs`) | – | acquire, release | "one exclusive lock per upload ID"; what dropping a lock does (section 4) |
| memory locker | a set of IDs behind an async mutex | spin until the ID can be inserted; release waits, `Drop` can only try | cancellation at each await, `Drop` that fails |
| process locker (`fileloft-server/src/main.rs`) | a map from ID to mutex | look up or create, then wait | cancelled waiters, first use by two requests |
| filesystem locker | lock files, `flock` on their inodes | a blocking thread opens, tries, sleeps | path and inode part ways at unlink; abandoned threads; crashed processes |
| hooks (`hooks.rs`) | a broadcast channel | three callbacks that may veto, four events | events are sent from copies of the info; POST works without a lock |
| adapters (axum, actix, rocket) | the body of a request on its way: a polled stream, a task and a bounded channel, a buffer | conversion of requests, `AsyncRead` of the body | chunks of any size, also empty; a connection that breaks, a handler that stops reading while the task still sends; how the end of the body is told from an error |
| checksums (`checksum.rs`) | a hasher beside the reader | `poll_read`, `verify` | the body is hashed read by read and verified before it is written |
| binary (`fileloft-server`) | configuration, the process locker | startup | – |

A request goes: adapter, `TusHandler::handle`, the lock of the upload's ID
(PATCH, GET and DELETE only; POST and HEAD take none), store calls, events,
answer. The lock is a value: it is given back when the handler returns or is
dropped, by its `Drop`. No handler calls `release()`; the models of the lockers
have it, those of the handlers do not.

What makes the parts correct, and who checks it:

* lockers: two requests never own the lock of one ID; nobody's wait is endless;
  who gave up blocks nobody (`Exclusive`, `AcquireReturns`, `ReleaseReturns`,
  `Served`, ...).
* handlers: a byte that was written under a known offset is not rewritten, an
  offset a client was told is not taken back, no upload grows past its length,
  an upload said to be finished is complete, and every request is answered.
* concatenation: the final upload is its partials, in order, and a partial is
  removed only after its bytes are in the final upload.
* filesystem store: info, parts and data file agree between requests, and the
  bytes a client was told of are somewhere on disk even after a crash.
* request bodies: what is stored is the body the client sent, whole and verified,
  or nothing; nothing of a request stays behind when it is over.
* object stores: the same, and no byte is lost between the batches in which
  objects are combined, whichever call fails; what is handed to a multipart
  upload is legal and complete.

## 2. Modules

| module | models | correspondence |
|---|---|---|
| `Fifo` | the waiting queue of a tokio `Mutex` | external; used by the next two |
| `MemoryLocker` | `fileloft-store-memory/src/locker.rs` | `held` is `MemoryLocker.held`; `mutex` is the queue of its mutex, whose head has the guard; one action per stretch between awaits |
| `ProcessLocker` | `ProcessLocker` of `fileloft-server/src/main.rs` | `locks` is the map; `queue[m]` the waiters of a mutex; `mine[r]` the `Arc` a request cloned |
| `FileLocker` | `fileloft-store-fs/src/locker.rs` | `path` maps a lock file's name to an inode, `flock` an inode to the request that has it locked, `file` is the open handle; unlock and unlink are two steps |
| `MemoryStore` | `fileloft-store-memory/src/store.rs`, `UploadInfo` | `store[id]` is the map's entry: info fields and `data` in one record; one operator per operation |
| `ResumableUpload` | `store.rs`, abstract | the bytes and the length of each upload; what a service promises its clients |
| `TusHandler` | `handler/{post,patch,head,get,delete,mod}.rs` over `MemoryStore` and an exclusive lock | `pc[r]` names the await request `r` stands at, `job[r]` its locals; `known`, `reported`, `lastEvent` record what left the server and steer nothing but which requests can arrive |
| `TusProperties` | – | the properties of `TusHandler`, and its refinement of `ResumableUpload` |
| `FsUpload` | `fileloft-store-fs/src/store.rs` under the handlers | `files[path]` is the content of each file of one upload; every file operation is an open-and-truncate step and a fill step on a blocking thread; `job[r].ghost` marks a thread whose request is gone |
| `ObjectStore` | `store.rs` of `fileloft-store-s3`, `-gcs` and `-azure` under the handlers | `objs[key]` is each object of one upload; `cloud` says whose way of combining objects is taken (`FetchPiece` for S3's buffer, `Composed` for GCS, `FetchBlock` for Azure); `level` and `made` in `job[r]` are the sources left in a round and the intermediates it made |
| `BodyStream` | the body in `fileloft-axum/src/router.rs`, `fileloft-actix/src/scope.rs`, `fileloft-rocket/src/routes.rs` | `body[r]` is the way of the body of `r`: `wire` and `pos` the connection, `task` and `held` the payload task of Actix, `queue` its channel, `cur` the chunk in the reader's hands (Rocket's whole buffer), `got` what the handler has read |
| `PatchBody` | `handler/patch.rs` with `checksum.rs`, over `BodyStream` and `MemoryStore` | `pc[r]` and `job[r]` as in `TusHandler`; `job[r].hashed` is what went through the hasher; the connection and the payload task move beside the handler (`Beside`) |
| `ListTheorems`, `MemoryLockerProofs`, `ProcessLockerProofs`, `FileLockerProofs`, `PatchBodyProofs`, `TusProofs`, `FsUploadProofs`, `ObjectStoreProofs` | – | theorems (section 5) |
| `MCTusHandler`, `MCFsUpload`, `MCObjectStore`, `MCPatchBody` | – | constants a `.cfg` cannot write, symmetry, a view |

What the handlers need of a locker is `Exclusive`, which `MemoryLocker` and
`ProcessLocker` have and `FileLocker` has not (section 4). `TusHandler` takes the
lock of an ID to be exclusive (`owner[id]`) and implements `ResumableUpload` over it.
`FsUpload` and `ObjectStore` use the same exclusive lock. `PatchBody` composes the
handler of PATCH with `BodyStream`: each of its steps is a step of `BodyStream` or
leaves the bodies alone (theorem `HandlerFeeds`). `TusHandler` takes a body in one
step, which is what `PatchBody` justifies: a write happens after the whole body was
read, and with all of it. A definition that starts with the
comment "Mutated form" is a deliberately wrong version of the one below it; it
is used to make sure that a property can fail, and by nothing else.

Details that shape the models:

* **Bytes.** In `TusHandler` a request's bytes are the request itself, so that
  one may tell who wrote what, and a buffer is grown with `Zero`. In `FsUpload`
  and `ObjectStore` all clients send the same file, byte `i` of it being the number `i`: a retry
  sends the same bytes again. `BodyStream` and `PatchBody` do this too: a piece of
  a body is a span of places, and a digest stands for the bytes it was made of, as
  if no two bodies had the same.
* **Client input** (offset, length, checksum present or wrong, body length) is
  chosen at the step that first reads it. A malformed body or checksum, a broken
  connection and a failed header check all end a request without a store call
  (`PatchBadBody`, `Refuse`, `Fail`).
* **`End`** drops the lock in the same step as the answer: under an exclusive
  lock nobody can tell the two apart. It is dropping that gives a lock back, as in
  all three lockers and against the trait's comment (section 4). That giving back
  takes several steps in `MemoryLocker` and `FileLocker` is modelled there.
* **POST takes no lock** and works on an ID that nobody else knows, unless a
  `pre_create` callback chose it (`ChosenIds`) or a subscriber acts on
  `UploadCreated` before the 201 (`Listening`). The runs leave both out; the
  model has them. With a subscriber that deletes the upload before the POST is
  done, `UploadFinished` follows `UploadTerminated`, as POST holds no lock.
* **IDs** are drawn fresh (`used`), as UUIDs are.

## 3. Runs

| run | instance | shows |
|---|---|---|
| `memory_locker` | 3 requests, 2 IDs | exclusion; an ID stays marked without an owner only after a `Drop` at a busy mutex; every acquire answers, and a `release()` gets its turn among waiters that come back every 10 ms |
| `process_locker` | 3 requests, 2 IDs, 3 mutexes | exclusion also among first requests for an ID, service in the order of the queue, everybody served |
| `file_locker` | 2 requests, 2 IDs, 4 inodes | a lock is never held by a leftover file, an abandoned thread or a crashed process for good; every wait ends |
| `tus_patch` | 2 requests, 1 upload, bodies up to 2, length 0, 2 or deferred | every handler but concatenation, racing on one upload |
| `tus_concat` | 2 requests, 3 uploads, bodies up to 1 | final uploads from every pair of partials, with cleanup, PATCH and DELETE beside it |
| `request_body` | 2 requests, 1 deferred upload, a file of 2 bytes sent whole or in two pieces, the three adapters, a channel of 1, Rocket's limit 1, maximum size 1 | the body is read in order and to its end; the store holds the beginning of the file with a locker and without; a checksum decides before the write; every request, payload task and channel ends |
| `fs_upload` | 2 requests, 3 parts, files up to 3 bytes, one crash or failed operation and one dropped request | without failures parts, info and data file agree between requests, the data file is whole when `UploadFinished` is sent, and downloads and deletions are whole; a crash between any two file operations, or a disk that is full in the middle of one, loses no byte a client was told of and never makes a new part over an old one; not even a late write pushes the offset past the length |
| `object_store` | 2 requests, 3 stores, 4 parts, 5 partials, batches of 2, multipart parts of 2 bytes, one lost call | the same on objects; a lost call, before or after its effect and in any batch, loses no byte; multipart assembly keeps every byte |

Bounds. Two requests on one ID already meet in every pair of program points,
and the third request of the locker runs is the waiter behind the waiter. Body
lengths 0, 1 and 2 with lengths 0 to 2 give an empty chunk, a chunk that ends at
the declared length, one that exceeds it by one, and an upload in two chunks;
three parts is the longest list with parts before and behind one. With batches of
two, three parts need one intermediate round and five partials need two on Azure;
the partials have 1, 0, 2, 1 and 2 bytes, so that a multipart part ends inside a
source, at its end and across an empty one. Two partials (`MaxTaken`) may be
taken by another final upload, at any moment from the start of concatenate to its
commit, also between two reads of sources (a source whose first bytes were read is
read to its end). `ObjectStore` was also run with two
lost calls (7.7 million states), `FsUpload` with two crashes or failed operations
(15 million).
`PartNames` and `TmpNames` bound the numbers of parts and of intermediates (a request that needs one more waits for
ever, which is why the configurations of both modules do not check deadlock; their
one upload may also be gone or its POST may have failed, after which nothing can
be asked of it).
`Inodes` must be at least requests plus IDs: fewer would block `Open`.
`request_body` has a channel of one, so that one chunk fills it, a second is in the
task's hands and a third in the connection; one byte is read at a time or two. Two
bounds keep it small: only one of the two requests may carry a checksum and has a
body with an empty chunk in it (`Checked`, `MaxEmpty`), and only Axum is also tried
without a locker (`Unlocked`), which the adapter has no part in; the proofs need
neither. Rocket's limit of one byte cuts the body of two.
`tus_concat` leaves out of TLC's fingerprints the variables
that neither guards nor its properties read (`Unobserved`), and uses only one body byte because the order of two partials is what matters there.

Fairness. `MemoryLocker`, `ProcessLocker` and `FileLocker` assume that woken
tasks and blocking threads run and that deadlines pass, not that a holder ever
lets go; only `Served` needs that too (`WF(Drop)`), and says so. `TusHandler`
assumes that a task which waits neither for its client's body nor for a lock is
polled, and that `lock_timeout` fires. Nothing is assumed of clients: a body that
never ends keeps its lock, and the others are answered 408 (`Answered`).
`PatchBody` assumes that the runtime polls a handler and a payload task which can
go on. For `Ends` it assumes of the client, too, that its connection yields at
last: a chunk, the end or an error, as it does once the client sends on or is gone.
The model has no third possibility at a poll, so that this is in the weak fairness
of the step that polls; the code itself sets no deadline for a body. It does not
assume that a handler is cancelled, that a connection breaks, or that a lock is
free: a wait for the lock ends by `lock_timeout`.

What is excluded, because the property is then false of the code (see section 4):
bodies of final uploads from `tus_concat`,
empty PATCH bodies from `fs_upload` and `object_store`, object-store calls that
arrive after their request was dropped. The properties that only hold while
nothing failed say so: `PartsMatchOffset`, `FinishedIsWhole` and the
`DownloadIsWhole` of `FsUpload` by `faults + cancels = 0`, that of `ObjectStore` by
`faults = 0`. `ToldBytesOnDisk`, `PartsNeverRewritten` and `NothingLeftBehind` hold
through crashes and failures but not when a request is dropped and its thread goes
on (`cancels = 0`); `OffsetWithinSize` holds through all of these and leaves out
lengths declared below the offset (`~short`). Without these conditions TLC
finds each of them violated. Final uploads are left out by `~Info.final`; what
becomes of them on disk is the run `fs_final_emptied`.

## 4. Where the code and its documents disagree

Four runs end in a counterexample on purpose:

* `memory_locker_leak`. `MemoryLock::drop` gives up if the mutex is taken at that
  moment. The comment there says that the lock stays held "until the Mutex is
  next acquired"; nothing ever removes the ID, so it stays held for good.
* `file_locker_race`. `FileLock` unlocks, then unlinks by path. A waiter that had
  the old file open locks it in between, the unlink removes the path of that
  lock, and a third request locks a new file: two holders of one ID.
* `fs_final_emptied`. On the filesystem store a POST of a final upload ends in
  `finalize`, which finds no parts and truncates the file `concatenate` wrote.
  The object stores do the same with an object, after `concatenate` deleted the
  data objects of the partials.
* `object_compose_limit`. GCS allows 32 sources in a compose request. `finalize`
  and `concatenate` compose groups of 32 and then all intermediates at once, so
  that more than 1024 parts end in a request the service refuses, with the parts
  already gone into intermediates. (Azure goes on in rounds.)

Others were seen with TLC while the models were written and are kept in the list
of hazards rather than as runs: a length declared below the offset
(`patch.rs:87`) leaves an upload that can never complete (the abstract service has
an action of its own for it, `DeclareShort`); a declared length is
stored before the checksum of the same PATCH is verified (`patch.rs:111-114` says
nothing is persisted); a final POST with a body overwrites the assembled prefix
in the memory store; an empty PATCH on a complete upload empties the data file
on disk; after a crash between part and info a retried chunk is assembled twice;
a part write of a cancelled PATCH can land on a later request's part. On the
object stores a chunk whose info write failed is assembled twice after a retry; an
upload whose last `finalize` failed counts as complete and is never finished;
intermediates of a failed `finalize` survive a DELETE; an empty PATCH on a complete
upload replaces its object by an empty one. The object stores take every object
whose name starts with `{id}_part_` for a part, although an ID such as `x_part_a`
passes `UploadId::validate`.

One disagreement is between the trait and everybody else. `lock.rs:3-4` says of a
lock "Dropping does NOT release it — call `release()` explicitly" and that
"Implementations should panic or log on drop if not released". All three lockers
release on drop, without a word (`MemoryLock` if it can, `ProcessLock` and
`FileLock` always), and the handlers rely on it: none of them calls `release()`
(`patch.rs`, `get.rs` and `delete.rs` only bind the lock). The modules follow the
code. A locker written to the letter of the trait would lock an upload for ever
after its first PATCH. There is no run of it, because what would be violated is a
statement about any implementation and the three there are agree with each other.

## 5. Proofs

Checked by TLAPS, for any sets of requests, IDs, mutexes and inodes:

* `MemoryLockerProofs`: `Typing`; `MutualExclusion` (`Exclusive`) from the
  inductive invariant `ExclusiveInv` = type correctness, exclusion, and
  `OwnersRecorded`. Exclusion alone is not inductive: an insert is safe only
  because every owner's ID is in the set. `LeaksAreFailedDrops`
  (`LeaksOnlyAtBusyMutex`): of all steps only a `Drop` that finds the mutex in use
  leaves an ID behind, so that the leak of section 4 is the only one.
* `ProcessLockerProofs`: `Typing`; `MutexOfAnId` (`OneMutexPerId`);
  `MutualExclusion` from `Inv` = typing, one mutex per ID, and "holders are at
  the head of the queue of their mutex": two holders of one ID have one mutex,
  hence one head, hence are the same. `FirstComeFirstServed` (`NoOvertaking`) from
  `QueuedOnce`: who is in the queue of a mutex has a clone of that one, waits for it
  or holds it, and is there once, so that what the head is given is its only place
  (with a second place a cancelled wait would leave one behind, and the order of two
  requests would not be defined).
* `FileLockerProofs`: `Typing`, and `HoldersOnly` (`LocksHaveHolders`): only a
  live holder keeps others out. `Exclusive` is *false* for this locker
  (section 4).
* `PatchBodyProofs`, the bodies alone: `BodyInOrder` (`InOrder`), for any requests,
  adapters, bodies, capacity and limit. That what was read is a beginning of the body does
  not say where the rest is; the invariant does (`Chained`, `Polled`,
  `Collected`): what was read, the chunk in the reader's hands, the items of the
  channel, the item in the task's hands and the connection follow each other
  without a gap, an error is always the last of them, and a task that ended has
  left nothing behind. The end of the body is then seen only when everything
  before it was read.
  The handler over them: `HandlerFeeds` (the handler refines `BodyStream`, and so
  `PatchInOrder`), `PatchTypeOK`, `PatchStoredIsFile` and `PatchWhole`
  (`WholeBodyOrNothing`). Between the offset check and the write a request must
  keep what it knows: its reader gives the body that starts at its offset and the
  hasher has what was read (`Fed`), its offset is not beyond the bytes of the store
  and under a locker is their number (`Based`), for which it must still have the
  lock (`Owned`). Without a locker others may write meanwhile, but never shorten
  the bytes (`SplicedFile`), so that `Based` survives.
* `TusProofs`: the handlers over one store. `Typing` needs nothing. It includes
  that a lock is held only by a request at work on its upload (`Held`): each step
  `Respects` the locks, because it stays at work with the same ID or gives the lock up.
  The other theorems are about a `Deployment` (the locker excludes, hooks choose no IDs, no
  subscriber acts before the 201) and, as far as they speak of bytes, about
  `Spec /\ PlainBodies`: nobody sends a body with `Upload-Concat: final`, which the
  code would write over the assembled bytes (section 4). `PlainByConfiguration` shows that the restriction is empty when
  concatenation is off.
  - `OffsetsCount` (`OffsetCountsBytes`), `ResumePointsKept` (`ReportedBytesKept`),
    `FinalsAreConcatenations` (`FinalIsConcatenation`): invariants of every reachable
    state.
  - `WrittenBytesStay` (`WrittenBytesKept`), `CleanupKeepsBytes`
    (`CleanupAfterAssembly`), `TerminatedIsLast` (`NothingAfterTerminated`): what no
    step does. `TerminatedIsLast` also assumes that partials are not cleaned up: a
    PATCH whose upload was removed under it by the clean-up of a final upload, which
    takes no lock, would still announce it.
  - `Implementation` (`ImplementsService`): every step is a step of
    `ResumableUpload` or leaves its variables alone, with concatenation and without.
    A final upload is made in two steps there as in the code: complete uploads are read
    (`Gather`), and what was read becomes the upload (`Assemble`). One step would be
    a promise the code does not keep, as TLC showed: a DELETE of a partial may come
    between them, and the final upload then has bytes that no upload has any more.
    `gathered` is what the POSTs between the two have in their buffers.

  The inductive invariant is `Inv`. `TypeInv` adds to the types what a program point
  implies of a request's locals. `Global` is about the uploads: IDs that exist or
  were announced have been drawn (`Registered`), the offset counts the bytes, what
  was reported is there, a final upload is made of partials that are there and
  complete (`FinalsJoined`). `Local` is about one request: between the
  offset check and the write it owns the lock of its upload (`Owned`) and the offset
  it saw is the store's (`Based`); what it answers and announces is what the store has
  (`Reread`); a POST is alone with its ID until the 201 (`Private`), what it is about
  to create is planned (`Planning`), the partials it has looked at were complete and
  those whose turn is still to come have not been removed by it (`Building`), and what
  it collected is their bytes (`Gathering`). None of these is inductive alone: an
  append keeps the bytes only because of `Based`, `Based` survives the steps of others
  only because of `Owned` and `Private`, and the collected bytes stay those of the
  partials only because a complete upload never changes, which is `FinalsJoined` and
  `OffsetCountsBytes` again.

  The proof is by rely and guarantee. `OthersKeep` says what a step must not do to
  the uploads and to the locks of others for every `Local` of another request to
  survive; each `...Keeps` lemma then takes one action of one request, shows that its
  effect is such (`Undisturbed`), and re-establishes its own `Local` and `Global`.
* `FsUploadProofs`: the files of one upload on disk, for any number of requests,
  parts, bytes, crashes, failing operations and dropped requests.
  - `Typing` and `OffsetsBounded` (`OffsetWithinSize`) need no hypothesis at all:
    whatever crashes, fails or lands late, the info never counts a byte beyond its
    length. The invariant `TypeInv` has what a program point says of a request's
    locals (`Placed`): that a request that read the info keeps to the size it read
    then, and that a thread without a request is inside a file operation. It also has
    what a file may hold (`FilesOK`) and who may be at work (`Order`): a POST is alone with the upload it
    makes, the lock is held only by an active request, and until some request is dropped
    an active one owns it.
  - `NothingLeft` (`NothingLeftBehind`): as long as no request was dropped. During a
    DELETE, what is not removed is still on its list (`Deleting`), and by the lock
    nobody makes a file meanwhile (`Solo`).
  - `ToldKept` (`ToldBytesOnDisk`): no byte a client was told of is lost, through
    crashes and full disks, as long as no request was dropped. The invariant
    `KeptInv` has two states of the bytes: `Building` (the parts have them, and are
    numbered without a gap) and `Complete` (the info is complete and the data file
    has them). A request at work is in one of the two at each of its program points
    (`Holds`); finalize goes from the first to the second when it has copied the
    last part, and only then removes parts. Because each point is in one of them,
    nothing is lost when the process dies there.
  - `PartNameIsNew` (`PartsNeverRewritten`): from `KeptInv`, by which the parts
    are numbered without a gap whatever failed, so that their number is the name of none,
    and `FinalInv`: a final upload is complete by the time its POST takes a body, so that
    no part is ever made of one.
  - `PartsMatch` (`PartsMatchOffset`), `FinishedWhole` (`FinishedIsWhole`) and
    `DownloadWhole` (`DownloadIsWhole`): byte for byte, as long as nothing failed
    and nobody was dropped. The invariant `ExactInv` says at each program point how
    many bytes the parts hold in order (`Has`), which part is being written
    (`OnPart`), how far finalize has copied (`OnCopy`), and that between requests
    the upload is `Exactly` its parts or `Assembled`. A download has the lock, so
    that it reads what it found; a DELETE that has begun keeps the lock to its end
    (`Doomed`), so that no download meets a half-removed upload.

  `ToldKept` and the three after it assume `0 \notin ChunkLens`: no PATCH has an empty body.
  With one they are false, as an empty PATCH on a complete upload empties the data
  file (section 4). The proofs of `KeptInv` and `ExactInv` have one lemma for each
  action (`...Good`, `...Exact`).
* `ObjectStoreProofs`: the objects of one upload on the three clouds, for any number
  of requests, parts, intermediates, partials, lost calls, any batch of at least two,
  any size of a multipart part. All the properties of `object_store` are proved.
  - `Typing`. `TypeInv` says what the locals of a request are at each program point
    (`Fits`): a list of sources is not empty, what is erased are sources of the object
    just made, an intermediate is not its own source. `Order` is who may be at work: a
    POST is alone with its upload, every other request has the lock.
  - `Multipart` (`MultipartLegal`). At the commit the buffer is already cut up, so that
    the invariant `GatherInv` has to speak of the way there: the blocks and what is in
    the buffer are the sources so far, up to the place the next read starts from
    (`Fetched`), for S3 with blocks of exactly the minimal size. The sources are there as they were when
    read (`Stock`), although another final upload may have taken some since: a partial's
    data object has its first bytes or is gone (`Originals`). While sources are
    erased, what is still to be erased is in the object just made (`Covered`).
  - `Partials` (`PartialsKept`): no lost call loses a byte of a partial before the final
    upload counts as complete. `SteadyInv` says that a request may rely on the info it
    read, as no one else writes it meanwhile. `PartialInv` says that every partial has
    its bytes or the objects of the final upload do (`Safe`), and all are untouched until
    combining begins (`Intact`). Safety alone is not inductive, because a new object
    replaces an old one of its name: the place it goes to must be empty (`Clear`).
  - `ToldStored` (`ToldBytesStored`): no byte a client was told of is lost, whichever
    calls are. While the upload is open its parts are numbered without a gap and hold
    the bytes (`InParts`), so that the next part replaces none; once it is complete its
    bytes are in some object of the upload (`Held`), through every round of combining:
    an object is erased only when it is `Covered`, and none is replaced, by `Clear`.
    `Told` is what holds between requests, `Keeps` at the program points of one.
  - `DownloadWhole` (`DownloadIsWhole`): as long as no call was lost, byte for byte.
    `ExactInv` says that the parts, in order, are the beginning of the file (`Ordered`),
    and of finalize that the objects still to be combined, those this round has made,
    those of the group at hand and those behind, have the whole file in order, no object
    twice (`Queued`, `InLine`). A group is a stretch of that line and its
    object takes its place; that no object is in it twice is why erasing the group does
    not touch the rest. Between requests the upload is its parts or its data object
    (`Sound`).

  `ToldStored` and `DownloadWhole` assume `0 \notin ChunkLens`, and are false
  otherwise: an empty PATCH on a complete upload replaces its object by an empty one
  (section 4). The other three allow empty bodies.
* `ListTheorems`: leaving a queue keeps it a queue, keeps its head unless the
  head leaves, and keeps everybody else once (`WithoutFacts`); what `FlattenSeq` makes of a list of byte strings (a string over
  the same bytes, with every piece in it; what appending a piece does; that empty
  pieces at the end add nothing; that lists put together are their strings put
  together, `FlattenConcat`); beginnings of strings; lists taken apart and put together
  again. The
  library's induction theorems take an operator as parameter, which the provers
  cannot use; the facts about `FlattenSeq` are instead derived from
  `NatSetInduction`, induction over a *set* of numbers, and from the definition's own
  recursive function.

The assumptions are those of the modules: `NoId`, `NoMutex`, `NoInode`, `NoReq`
are no members of the sets they stand outside of; for `PatchBody` also that the
bytes of the bodies are bytes and that lengths are numbers; for `TusHandler` that a
declared length is at most `MaxLen` (the bound of the run, no bound of the theorem:
`MaxLen` is any number) and that `NoUpload` is neither an upload nor a byte string; for `FsUpload` that the
names of the parts differ from each other and from those of the other two files, and
that `Absent` is no content of a file; for `ObjectStore` the same of parts, intermediates
and partials, that a final upload names at least one partial, and that one name
always stands for the same bytes.

Left to TLC is liveness (the provers reach neither `ENABLED` nor fairness):
`Answered` of `tus_patch`, `AcquireReturns`, `ReleaseReturns`, `GhostsLetGo` and `Served` of the lockers,
`Ends` of `request_body`. Every other property of the passing runs is a theorem.
`ImplementsService` is checked by a run only in `tus_patch`, without concatenation;
added to `TusConcat.cfg` it holds too, and the theorem covers both.
What a final upload holds on disk is the counterexample
`fs_final_emptied`; the properties of `FsUpload` leave it out, and so do the theorems.

## 6. Not modelled

OPTIONS, headers, status codes, CORS, metadata, ID syntax, location URLs and
environment parsing: functions without state. Digests: only their verdict. The
body of a GET that is streamed after the lock was dropped. The key space in which the names of several IDs may
overlap. The broadcast channel's capacity: an event is taken as sent. Paging of
object lists, multipart uploads that are left open, calls that reach the service
after their request was dropped. Of the adapters, the conversion of methods, headers
and responses. The graceful shutdown of the binary.

## 7. Plan

In order of what matters most; done first, then what is left.

1. Done: the three lockers; `MemoryStore`, `TusHandler`,
   `ResumableUpload`; `FsUpload`; typing and exclusion of the memory and process
   lockers, what the former may leak, the order of service of the latter, typing and
   `LocksHaveHolders` of the file locker.
2. Done: `ObjectStore`, with the multipart buffering of S3 as one of its actions.
3. Done: `BodyStream` and `PatchBody`, the way of a request body through the three
   adapters into the store, with their proofs; failing file operations in
   `FsUpload`; deferred lengths in `tus_patch`.
4. Late calls in `ObjectStore` (a dropped request whose PUT arrives afterwards), as
   `FsUpload` has them; the names of several uploads in one key space.
5. Runs with `ChosenIds` and `Listening`, and what still holds then.
6. Done: proofs about `TusHandler` under an exclusive locker, up to the refinement of
   `ResumableUpload`.
7. Done: proofs about `FsUpload`: all the properties of its run.
8. Done: proofs about `ObjectStore`: all the properties of its passing run.
