# TLA+ verification of go_longtail

go_longtail is a Go front end to the C library longtail: it uploads and
downloads versions of folders as content-addressed blocks in a remote store
(Google Cloud Storage, or files) that many machines share without a server of
their own. The Go code carries the logic of that remote store: the workers
that put, get and prefetch blocks, the goroutine that owns the store index,
and the optimistic protocol by which several processes update one index object.
On top of it the commands upload, copy, check and download versions, and below
it a table without a lock carries Go objects through the C library. This
directory models that logic, checks it with TLC, and proves the safety of every
component with TLAPS.

## 1. Inventory

| component | code | state it keeps | operations |
|---|---|---|---|
| update of `store.lsi` | `remotestore.go` 545-624, `gcsstore.go` 122-181 | the object and its generation; per process the index in memory, `saveStoreIndex`, the write condition | `tryUpdateRemoteStoreIndex`, `updateRemoteStoreIndex` |
| get and prefetch workers | `remotestore.go` 274-543 | map `prefetchBlocks`, `prefetchMemory`, channels, per worker its place in the loop | `fetchBlock`, `prefetchBlock`, `flushPrefetch`, `remoteWorker` |
| put workers, index worker, Flush and Close | `remotestore.go` 216-272, 460-543, 758-1095, 1159-1226 | channels, `storeIndex`, `addedBlockIndexes`, `saveStoreIndex`, `workerErrorChan` | `PutStoredBlock`, `PreflightGet`, `GetExistingContent`, `Flush`, `Close`, `contentIndexWorker` |
| rebuild of the index | `remotestore.go` 626-756 | batches of block indexes, a WaitGroup, one client for each goroutine of a batch | `getStoreIndexFromBlocks`, `buildStoreIndexFromStoreBlocks` |
| blob stores (GCS, files, S3) | `gcsstore.go`, `fsstore.go`, `s3Store.go`, `blobStore.go` | objects; the write condition of a handle | `Exists`, `Read`, `Write`, `LockWriteVersion`, `Delete`, `GetObjects` |
| URI helpers | `remotestore.go` 18-93 | none | `ReadFromURI`, `WriteToURI` |
| pointer table | `longtaillib.go` 405-444 | 1024 slots shared by all threads | `SavePointer`, `RestorePointer`, `UnrefPointer` |
| errno conversion | `longtaillib.go` 122-224 | none | `ErrnoToError`, `ErrorToErrno` |
| callback proxies, C wrappers | `longtaillib.go`, `golongtail.h` | none of their own | one wrapper for each C function |
| commands | `cmd/longtail/main.go` | stacks of block stores, completion objects; the version indexes (`.lvi`) and version local store indexes (`.lsi`) beside the store | upsync, downsync, clone-store, init, validate, cp, createVersionStoreIndex, ls, stats, print, dump |
| helpers of the commands | `main.go` 49-130, 284-507 | one goroutine and WaitGroup for each reader | folder scanner, version index reader, path filter, `byteCount` |

How they interact. A command stacks block stores (share, LRU, compress, cache;
all in C) over the remote store and calls it through the callback proxies. The
calls of the remote store only send a message to a channel. One goroutine per
CPU runs `remoteWorker` and serves puts, gets, prefetches and flush tokens; one
runs `contentIndexWorker` and serves preflights, content queries, block indexes
and flush tokens. A put sends its block index from the worker to the index
worker; a preflight sends block hashes from the index worker to the workers.
The workers share the map `prefetchBlocks` under a mutex that is not held while
a block is read. Processes meet only in the blob store: blocks are immutable
and named by their hash, while `store.lsi` is one object that everyone merges
into.

What is hard, and what makes each part correct:

- **Update of `store.lsi`**: concurrent read-merge-write, a condition that is
  locked before the object is read, writes that succeed and report an error,
  crashes, an unbounded retry loop. Correct: no acknowledged block is ever lost,
  the object never shrinks, a client's saved view is true, an update returns.
- **Gets and prefetches**: an entry of the map changes while its block is read
  without the mutex: handed out, waited for, flushed. Correct: each get is
  answered exactly once, an entry's waiters have a reader, memory is accounted
  for and bounded, nothing is left behind.
- **Puts, Flush, Close**: one block index crosses three data structures and two
  goroutines before it is saved, with failures at each step, random choice in
  `select`, and a shutdown that closes channels in order. Correct: a completed put
  is never forgotten, Close saves it, a flush saves what it promises, nothing
  is indexed that is not stored but a block whose `Exists` call failed, every call
  returns, read-only never writes.
- **Rebuild of the index**: batches of goroutines share clients and places of a
  result array, some reads fail, some blobs are no blocks, blocks are written
  meanwhile. Correct: the index lists stored blocks only, skips none but those
  whose reads failed, and the build ends.
- **Commands**: several processes publish versions over one store in an order
  of several files, with errors that are swallowed and crashes in between.
  Correct, but for blocks that a put lost and for stores that could read no store
  index (section 2): a published version is stored, an upload that exits with 0 is listed,
  and what was uploaded can be downloaded, validated and copied.
- **Pointer table**: threads look for a slot, take it and give it up without a
  lock; the counter overflows; some callbacks are never freed. Correct: a
  callback gets its own pointer, and a save gives up only after it has found every
  slot taken, unless other saves make it skip slots.

The complete list of hazards, each at its line, is in `PROJECT.json`.

## 2. Modules

| module | models | relation to the others |
|---|---|---|
| `SharedStoreIndex` | abstract: an update of `store.lsi` is one atomic union, and it returns | what the other modules rely on |
| `StoreIndexUpdate` | the protocol of `tryUpdateRemoteStoreIndex` in several processes | refines `SharedStoreIndex` |
| `BlockFetch`, `MCBlockFetch` | gets, prefetches, flushes of the workers | the map and its lock-free reads |
| `BlockStore` | abstract: what a process may rely on when it puts, asks, flushes and closes, and which blocks a put may lose | refined by `RemoteStore`, used by `Versions` |
| `RemoteStore`, `MCRemoteStore` | puts, index worker, Flush, Close | uses the union of `SharedStoreIndex` and the result of `BuiltIndex` as one step each; refines `BlockStore` |
| `FlushedContent` | a caller that puts, flushes and asks | history variables over `RemoteStore` |
| `BuiltIndex` | abstract: a rebuild returns what was stored at one moment, but for what it could not read | what `RemoteStore` takes as `BuiltIndexes`, and `Versions` as `Views` |
| `IndexRebuild`, `MCIndexRebuild` | the goroutines that build an index from the stored blocks | refines `BuiltIndex` |
| `Versions`, `MCVersions` | the commands, each a process | every step on the store is an action of `BlockStore` |
| `PointerTable`, `MCPointerTable` | the table between Go and C | on its own |
| `StoreIndexUpdateProofs`, `BlockFetchProofs`, `BlockFetchCallerProofs`, `RemoteStoreProofs`, `RemoteStorePromiseProofs`, `IndexRebuildProofs`, `VersionsProofs`, `PointerTableProofs` | theorems | section 5 |

So the layers are checked one against the next: the protocol of several
processes on one object implements the atomic union (`Implementation`); the
goroutines that rebuild an index together return one snapshot of the store
(`BuildsSnapshot`); the goroutines of one process, which use that union and that
snapshot, implement `BlockStore` (`RemoteStoreKeepsPromise`); and the commands are checked, and proved about,
over `BlockStore`.

Every definition that stands for code is in the `map` of `PROJECT.json` with
its lines. The definitions next to an action with a name such as
`FailClearsFlag` are deliberately wrong variants of it: a property is worth its
run when such a variant breaks it. They are used by no specification.

### StoreIndexUpdate

State: `generation` and `stored` are the object (generation 0: it does not
exist); for each client `pc`, the locked `condition`, the index `merged` it is
about to write, its `storeIndex` and `save` (saveStoreIndex); `acked` is a
history variable. An index is its set of block hashes and `MergeStoreIndex` is
union (external: the C library). Actions: `LoadIndex` (readStoreStoreIndex),
`BeginUpdate`, `LockWriteVersion`, `ReadAndMerge`, `WriteSucceeds`,
`WriteUnconfirmed` (the metadata update after the write fails), `WriteRejected`
(status 412 or 429), `UpdateFails` (every error return), `Crash`. Locking and
reading are two steps: other clients may write in between. `MaxGeneration`
bounds the number of updates that are started; an update already begun
may go past it.

### BlockFetch

The map is split into `entry[b]` (`absent`, `nil`, `pending`, `ready`) and
`waiters[b]` (completeCallbacks). Each critical section of the mutex is one action
and the read between two of them is the label `fetch` or `prefetch`, so that
all interleavings of readers, flushes and exits are explored. `panicked` stands
for the nil dereference in `fetchBlock`. `AbandonFetch` is the early return
that answers nobody. The two blocking selects, with and without the prefetch channel,
are the labels `select` and `selectNoPrefetch`, chosen by `prefetchMemory`
before the worker blocks. A channel is the set of its messages: the code gives no
order between workers, and duplicates of a prefetch message have no effect.
`Concurrent` and `QuietCaller` describe the caller: the share store above
coalesces gets of one block, and the commands flush and close when no get is
open. They are assumptions about the environment, and `fetch_any_caller` drops
both.

### RemoteStore

State: `access`, the store (`blobs`, `lsi`), each put's `outcome`, each
worker's `pc` and `job`, `blockIndexChan` (a sequence with the capacity
`IndexCapacity`), the index worker (`indexPc`, `storeIndex`, `added`, `save`),
each flush's goroutine, the four flush channels as counters or sequences with
their capacity, `closing`, and `workerErrorChan`. `unchecked`, `failed` and
`due` are history. The receive of a message and its handler are one action
where the handler touches nothing shared in between; the put is several
(Exists, Write, send, OnComplete). `getStoreIndex` is the operator
`GetStoreIndex` with one disjunct for each way to obtain the index. The update of
`store.lsi` is one step: that is what `SharedStoreIndex` promises and
`StoreIndexUpdate` is proved to keep. A rebuild is one step too, the moment it
returns: it lists the blobs as they were at an earlier one, so that what was
written in between (`Recent`: other processes, puts that wrote and whose block indexes the index
worker has not received) may be missing, as `BuiltIndex` has it. `Faults` names what may fail: `exists`, `write`,
`read`, `index` (the update), `memory` (the C library returns an error),
`client` (`NewClient` at start). `log.Fatal` in Close is the state `died`, in
which no goroutine moves. `OtherProcess` is another machine that lists a block: one of
`Foreign`, which it has stored, or one of `Stale`, which it has not, because it lost it
the same way as this process may. An answer to a query may be an error with a valid
index in memory (`AnswerAsk`), and the empty index of a read-only store may not be
made (`EmptyIndexFails`).

`KeepsPromise` is the refinement of `BlockStore`: the process is `"this"`, all
other processes are `"others"`, and what a read-only process holds in
memory is not promised to anyone. `stored` of `BlockStore` is the set of blocks with a
blob, and nothing else. A put may also lose its block (`LoseBlock`): when its `Exists`
call fails the code skips the write, returns nil and sends the block index
(`remotestore.go` 232), and when every `Write` fails it returns nil as well
(`remotestore.go` 259). Such blocks are in `lost` of their process, and `BlockStore`
promises only that what is put, listed or answered is stored or lost by someone; `Stale` is
what the others lost. `BlockStore` is deliberately weak where the code
is in other places, too: a rebuild or a flush may list any part of what was stored or put, a flush
promises nothing about `store.lsi` by itself (the finding of `flush_race`), and
only Close does.

`putBlockChan` has room for eight messages a worker and is not bounded in the
model: a put waits in state `queued` either way. A caller calls Close after its
asks and flushes returned, as every command does; puts may be open.

### IndexRebuild

State: the blobs, the listed `items`, the open `clients`, where the current
batch starts, the WaitGroup `wg`, for each blob its `reader` goroutine, the
`client` it uses and its failed `tries`, the array `batchBlockIndexes`, the
index that is built; `listed` is history. A blob holds the bytes of a block, which
need not be the block it is named after, or is empty, junk or absent.
Actions: `GetObjects`, `NewClients`, `StartBatch`, per goroutine `Exists`,
`ExistsFails`, `Read`, `ReadFails` (readBlobWithRetry, up to `Attempts` reads), then
`Join` (wg.Wait), `MergeBatch` with the partial last batch, `CloseClients`;
`Fails` is every error return, which leaves clients open; `StoreBlock` is another
process. A blob that was listed is never deleted, as no code deletes one.

`RebuildIsSnapshot` is the refinement of `BuiltIndex`: the call of GetObjects is the
moment that counts, the loop over the batches is `listed`, and
the index counts as built when the function returns it. A block whose read the code gives
up, after its last attempt or because it could not tell whether the blob exists (`GivenUp`), is
`givenUp` in `BuiltIndex`, which may leave out such a block and no other: when no read was
given up the index is the listing exactly.

### Versions

Each process runs one command. State: the variables of `BlockStore`, the files
`published` and `localIndex`, and for each process its label, the line of
cloneStore's input it is at, `need` (chunks), `existing` and `missing` (the
two store indexes of an upload), its flush and the error it returns. `settled`,
`promised`, `dropped` and `unread` are history. A version is its set of chunks and a block the
set of chunks in it. The C library's `GetExistingStoreIndex`, `CreateMissingContent` and
`ChangeVersion` are external: `Answers` (blocks used by at least
`MinUsage` percent that together cover what such blocks cover), `MissingContent`
(the rest, packed into blocks of at most `MaxChunks`) and `Deliver` (it succeeds when
the stored blocks returned cover what is needed). A process that has no index in
memory and finds none listed, or fails to read `store.lsi`, rebuilds it: `Builds` gives it the stored
blocks without any part of `Recent`, the blocks other uploads are writing, or, when reads may fail,
any part of them; `Views` is what it then answers from. A store opened read-only answers from the
version local store index or the listed blocks (`ReadViews`), and from an empty index when it could
read neither: the code only logs that (`remotestore.go` 867-881), and `AskUnread` is the query. Actions follow the functions: `SkipValid`,
`SkipUnreadable` and `Rebuild` are the start of a line of cloneStore; `TakeVersion`,
`AskExisting`, `WriteBlock`, `PutDone`, `PutUnchecked`, `PutDropped`, `StartFlush`, `FlushDone`, `FlushFails`,
`WaitFlush`, `Publish`, `WriteLocalIndex` the upload, where upsync waits for the
flush before it publishes and cloneStore after; `ReadVersion`, `NoVersion`, `AskRead`, `AskUnread`,
`Deliver`, `WriteVersionStoreIndex` the readers; `WriteToURIFails`, and
`upSyncFails`, `cloneFails`, `initFails` and `ReadFails` for the labels at which each function
has a call that may fail, the error returns; `SaveAtClose`, `Close`, `Die` the end of a process.
`PutUnchecked` is the put whose `Exists` fails: it succeeds, its block index is listed, and
nothing was written. `PutDropped` is the put of the finding of `put_failure`: it succeeds, and the block
is neither stored (or perhaps by the last write) nor listed. Both are `LoseBlock` of `BlockStore`.

So the properties have exceptions, which each of them names: blocks that a put lost (`Lost`), for
`UploadedIsListed` only its own blocks whose every Write failed (`dropped`), a reader that
could read no store index (`unread`), and a version local store index that
createVersionStoreIndex wrote of a version not yet uploaded or from such an empty index
(`GoodLocalIndex`). What is left is everything a crash, a failed flush, an order of steps or
another process could do.

Assumptions, each named in the module: a path is used for one version only (nothing
in the code checks this); at most `MaxLost` blocks are lost, a bound for TLC that the proofs do not
need; all blocks have chunks of one size for the percentage. What may fail is part of a process's
`task` (`faults`), so that a run may combine commands and faults as it needs.

### PointerTable

State: the counter, the slots, and per object the label of its
handle, its slot and where its search started. `SavePointer` draws a number;
`NextSlot` draws again when the slot is taken and gives up with nil when the search has come
round; `FindSlot` sees the slot free and `TakeSlot` takes it, a step later;
`RestorePointer`, `UnrefPointer`; `Forget` is a call that returned an error, or
the logger, whose handle nobody frees. Reads and writes of one slot are taken to
be atomic; Go promises no such thing for an interface value, but the hazard shown here
is the order of the steps. `crowded` marks the runs in which an object looks at
one slot while the others draw as many numbers as there are slots (1024): then two may take the
same slot, and the code has nothing against it. `RestoresOwn` says so by its premise.

## 3. Runs

| run | expects | what it shows |
|---|---|---|
| `store_update` | pass | two clients, two blocks, updates begun at generations 0, 1 and 2: the safety properties, and refinement of `SharedStoreIndex` with its liveness |
| `fetch_quiet` | pass | calls as the program makes them: every get is answered and waits in a known place until then, nobody's entry disappears |
| `fetch_any_caller` | pass | any order of gets, preflights, a flush and Close, with a failing block: safety of callbacks and memory |
| `remote_store` | pass | two puts, a preflight, a flush, Close, another process that stores one block and loses another, failures of Exists, of updates and of allocations, read-write and read-only; and the promise of `BlockStore` is kept |
| `remote_store_calls` | pass | overlapping flushes, a put and a query on a store opened with Init whose goroutines may not start: every call returns, and flushes that share their channels do not block each other |
| `index_rebuild` | pass | up to three blobs, two clients, every fault, another process storing blocks: the index is sound, it is exactly a snapshot of the store but for blocks whose reads were given up, and the build ends |
| `versions` | pass | an upsync with each other command, and a clone of two versions with a downsync, with every fault, a lost block, unreadable store indexes and crashes: what is published is stored, what was uploaded is listed and can be read, with the exceptions of section 2 |
| `pointer_table` | pass | four objects, two slots, a counter that overflows, one object that may be forgotten |
| `upload_flush_error` | violation | an upsync whose flush failed exits with 0 and has published nothing |
| `fetch_prefetch_error` | violation | a get after a failed prefetch hangs |
| `flush_race` | violation | a block put before a successful Flush is missing from the next query |
| `put_failure` | violation | a put whose writes all failed is reported as stored |

The properties, with the hazards they are for:

- `AckedKept`, `StoreNeverShrinks`, `SavedViewIsStored`, `UpdateIsAtomic`: lost
  updates, unconfirmed writes, crashes, starvation by conflicts.
- `WaitersHaveReader`, `NoPanic`, `NoGetForgotten`, `GetsAnswered`, `AnsweredAtMostOnce`:
  what may happen to an entry while its block is read. `NoGetForgotten` is the safety half of
  `GetsAnswered`: a get that is open is in the channel, with a worker that reads for it, or on its
  entry's list.
- `MemoryAccounted`, `MemoryBounded`, `NothingHeldAfterClose`: the counter that
  is checked before a blocking select and changed by three functions. A flush
  that deletes an entry being read may leave the counter too high, which
  `MemoryAccounted` says; it never falls below what is held.
- `PutsTracked`, `CloseSavesPuts`, `FlushSavesReceived`: a block index on its
  way to `store.lsi`. `FlushSavesReceived` holds for a flush with no other flush
  under way: with two, one may take the index worker's reply to the other and return
  before its own token is handled (the replies carry no identity). The commands
  flush the remote store once, at their end, so that only other callers of the API meet this.
- `FlushesGoOn`: no deadlock between flushes, workers and the index worker. While at most
  two flushes still send tokens, some flush or somebody who answers one can always take its next step.
  The premise is needed: with four workers and four flushes of which each has sent three of its tokens, four tokens may fill their
  channel, four replies theirs, and each worker hold one of the other four tokens: all workers wait to send a
  reply and all flushes to send a token, for ever. Two is exact when some workers failed to start.
- `KeepsPromise`: the whole of one process against `BlockStore`; it breaks when a rebuild,
  an answer from memory or a failed save lets Close return with a block unlisted, or when a
  block is listed or answered that has no blob and that no put lost.
- `RebuildIsSnapshot`: blocks are written while the batches read, so that an index could
  list a late block without an earlier one; it never does, and no merge of batches drops a block
  whose read was not given up.
- `IndexIsStored`, `NothingSkipped`, `OneReaderPerClient`, `BuildEnds`: foreign
  and broken blobs, partial batches and blocks squeezed out in place, reuse of clients by
  the next batch, an exit that forgets the WaitGroup.
- `PublishedIsStored`, `UploadedIsListed`: the order of puts, flush, version index
  and Close against crashes, other uploads and swallowed errors.
  `PromisedIsDelivered`: an upload and a later reader, each with its own choice of
  index. `LocalIndexIsComplete`: a downsync may read the file before the upload has closed.
  Both leave out, by name, what section 2 lists; they do not forbid that a lost block or an
  unreadable store index makes a version incomplete, as it does in the code.
- `RestoresOwn`, `FailsOnlyWhenFull`, `SavesReturn`: slots raced for, freed and
  forgotten; the search that must visit each slot although the counter overflows.
  `FailsOnlyWhenFull` is about a search during which others take, use and free slots but draw
  no number; one that shares the counter with other searches skips slots and may give up although one
  is free. `SavesReturn` assumes fewer forgotten objects than slots. So neither catches a table
  filled by slots that leak.
- `IndexedBlocksStored`, `ReadOnlyNeverWrites`, `NoSendOnClosedChannel`,
  `CallsReturn`: as their names say. `CallsReturn` leaves out, by name, a store
  none of whose workers could start and a preflight in the error state of the index
  worker: those calls never return in the code.

Bounds. Two clients are enough for every conflict of two updates, and a third
generation lets a client be overtaken twice; the theorems of section 5 hold for
any number. Two workers are the least with which one reads while another
flushes, takes the same block or ends; three gets over two blocks give a
block with a reader and a waiter while another block is prefetched. Memory limit 1 makes the limit
reachable with one prefetched block. `IndexCapacity = 1` makes a put block on
the channel. `remote_store` treats workers as symmetric; runs with liveness do not.
`MCIndexRebuild`: three names and two clients are a whole batch and a partial one; the
third name belongs to no block and may hold a copy. `MCVersions`: two versions
that share a chunk, blocks of two chunks and a usage limit of 60 percent, so that a block with one
of two chunks in use is refused by an upload and taken by a reader; an old block, listed or
not. At most one block is lost, by either process, which is enough for one writer to publish, skip or list
what the other lost; faults of each kind are given to the tasks that meet them (`AllTasks`). Two processes
are one writer and one of any kind; the theorems hold for any number. The run has 1.5 million states. `MCPointerTable`: more objects than slots, so that two searches overlap with the table
full, and a counter that wraps after two rounds; the size divides the width as
1024 divides 2^32, and `TableAssumption` says that the search needs it.

Deadlock is not checked where the caller may stop: after Close, or with nothing to
ask, no action is enabled.

## 4. Fairness

Goroutines are scheduled by Go: each worker, the index worker, the goroutine of
a Flush and a Close in progress have weak fairness as a whole. Which of several
ready cases a `select` takes is left open. Callers have no fairness: they may
stop calling, and never close.
In `StoreIndexUpdate` each step of a started update has weak fairness, and
`WriteSucceeds` strong fairness: the service does not answer 429 to every
attempt of a client whose condition holds again and again. `UpdateIsAtomic`
needs this and the bound on updates: with endless successful updates by others a
client may lose every race, since the code gives no fairness between processes.

`IndexRebuild`: the function that builds the index and each goroutine it starts are weakly
fair. `PointerTable`: the steps of a search are weakly fair, and each object that is
not forgotten is freed in the end; SavePointer itself is never forced. `SavesReturn` needs
both, since a search may go on for ever only while others keep taking what it finds.
`Versions` states no fairness: its properties are safety.

## 5. Theorems

Every passing run's safety properties are theorems, for any value of the constants, and so are the
safety halves of two liveness properties (`NoGetForgotten` of `GetsAnswered`, `FlushesGoOn` of
`CallsReturn`). What a property exempts its theorem exempts too: the comment of each theorem
says so. Each module ends with its inductive invariant, `IndInv`, and with the further
invariants that are inductive relative to it (`FlushesInv`, `TokensInv`, `PromiseInv`, `ReadInv`,
`QuietInv`, `PlaceInv`, `SweepIsTaken`); TLC checked each on the run's instance before it was
proved. Assumptions on constants are types and finiteness, except three about the
callers of the workers, which are hypotheses of the theorems that need them.

`StoreIndexUpdateProofs` proves, for any set of clients, any set of blocks and any
bound: `TypeCorrect`, `NoLostUpdate`, `SavedViews`, `GrowOnly` (the four safety
properties of the run) and `Implementation`: the protocol's steps are
steps or stutters of the atomic union. The only assumption is
`BoundAssumption` (the bound is a natural number).

The argument. `AckedKept` is not inductive: a write replaces the whole object,
so one has to know what is written. `MergeIsFresh` says that whenever a client
stands before its write and its condition still holds, what it would
write is its index united with the object as it is now. It is kept because a
successful write moves the generation past every condition locked so far
(`ConditionIsPast`, lemma `WriteInvalidatesConditions`), and it covers the case
that the object read is newer than the generation locked: then the
condition has already failed. `NothingBeforeFirstWrite` covers the branch
that writes without reading. An accepted write is therefore the
atomic union (lemma `AcceptedWriteIsUnion`), from which the other theorems follow
action by action. `IndInv` is the conjunction; `Invariance` proves it.

`RemoteStoreProofs` proves, for any finite number of workers, any puts, calls
and blocks, any capacity of `blockIndexChan` and any set of faults: `Types`,
`NothingForgotten`, `CloseSaves`, `NothingUnknownListed`, `NoSendAfterClose` and
`ReadOnlyStore`, `FlushSaves` and `FlushesNeverStuck`, that is, the safety properties of the runs
`remote_store` and `remote_store_calls`. The only assumption is `StoreAssumption`, the types of the
constants.

The argument. Call *saveable* what is in `blockIndexChan`, among the added
blocks, in an index still to be saved, or in `store.lsi`. No step takes a block
out of it while the index worker is well (`IndexTracks`, `WorkerSaveable`):
each of the six ways to obtain the index keeps `saveStoreIndex` and the added
blocks (`ObtainedIndex`), a failed update leaves the index in memory with the
flag set, a successful one moves it to `store.lsi`. `PutsTracked` is not
inductive by itself: a put is answered a step after its block index was
sent, so `AnswersAreTracked` says the same of the workers in between, and
`SavedIndexIsValid` that a set flag belongs to an index.
`CloseSavesPuts` needs two more. `ResultsCounted` relates what Close has
received and what is still in `workerErrorChan` to the workers that have ended,
those that failed to start included; when the last result is counted, all have ended,
the channel is empty, and the next result can only be the index
worker's. `StoppedHasSaved` says that an index worker that reports no error has
nothing left to save. A block is listed only if it has a blob, if its own `Exists` call
failed, or if another process lists it (`OnlyKnownBlocks`), and a read-only store never has anything to list or to write
(`ReadOnlyRefuses`). `IndInv` is the conjunction.

Flushes need two more invariants (`FlushesInvariance`). `FlushesInv` is about the index worker's
token. The token and the replies on their way are as many as the flushes that wait for one
(`IndexFlushCounted`), although neither says whose it is; so the reply a flush receives is
its own when no other flush is open, and until then what it is to save stays with the
index worker: among the added blocks or in an index marked to be saved (`DueIsSaved`). `TokensInv` is
about the workers' tokens. The tokens that flushes have sent and whose replies they have not counted
(`Sent`) are exactly those in the two channels and those that workers hold (`TokensCounted`).
Suppose nobody can go on. A flush that waits for replies finds none, hence all tokens it misses are
in the channel of tokens or with workers; a worker that holds one could reply, since the channel of
replies is empty; so tokens are in their channel and an idle worker takes one. If
all flushes still send tokens, both channels must be full, which is twice as many tokens as there are workers;
two flushes that still send have sent fewer. `FlushesNeverStuck` is this argument, with
failed starts and exits included: a worker exits only when no flush is open
(`FlushesAreInTime`).

`RemoteStorePromiseProofs` proves `RemoteStoreKeepsPromise` under the same
assumption. To `IndInv` it adds that each put is with one worker and answered once
(`JobsAreOpen`), that a put is answered with success only when its block has a blob or was lost
(`AnswersAreKnown`), and
that an index which is not to be saved is listed (`AnsweredIsListed`). The last is the point:
an index that is answered from and forgotten would let a caller leave out
blocks that nobody lists. Each step is then mapped to one action of `BlockStore`
or to a stutter, per handler: a failed `Exists` and a last failed `Write` to `LoseBlock`. So what the
commands build on says of a put no more than the code does.

`BlockFetchProofs` proves `Types`, `AnswersOnce`, `MemoryCounts`,
`MemoryLimited` and `MemoryReleased` from `FetchAssumption` (types, finitely many workers),
for any order of calls. The argument: a get that is open is in one place, the
channel, a worker or one list (`GetsAreInOnePlace`), and lists belong to pending
entries; so whoever answers it is the only one. For the counter, until a flush meets a read
each block has one reader and its entry is pending (`ReadersAreAlone`): what a reader puts
into the map was not counted yet. `MemoryBounded` is inductive as it stands,
since a worker counts as one that may add from the comparison with the limit to
the end of its read. The proof goes over kinds of steps (`WorkerKinds`: pass on, take over,
join, start, finish, flush), because the loop of the worker has many labels that touch
neither map nor counter.

`BlockFetchCallerProofs` proves what holds because of how the program calls the workers, each
theorem from the hypotheses it needs and for any number of workers, gets and blocks:

- `WaitersAreServed` from `PreflightsAreRead` (blocks that are preflighted are read without error).
  A pending entry has a reader (`PendingIsRead`): only a failed prefetch leaves one
  behind without, which is the finding of `fetch_prefetch_error`. Flushes, Close and any order of gets are
  allowed.
- `NeverPanics` from `QuietCaller` (Flush and Close come when no get is open). Tokens
  and replies are as many as workers while a flush is under way (`FlushIsCounted`), so that a worker that
  flushes the map, or exits, does so while no get is open (`NoGetMeanwhile`), and the entry of a block
  that is fetched stays (`FetchesHaveEntry`).
- `NoneForgotten` from `QuietCaller` and `PreflightsAreCoalesced` (no two gets of a
  preflighted block at a time, which the share store above sees to). An entry that is handed out,
  flushed or replaced could take its waiters with it; the invariant `PlaceInv` says that a block has one
  reader for a get at a time and that its entry stays with it (`FetchesKeepEntry`). Without the second
  hypothesis it is false: `prefetchBlock` answers all waiters but the last (section 6).

`IndexRebuildProofs` proves `Types`, `OnlyStored`, `OwnClients`, `NoneSkipped`,
`BuildsSnapshot` and `WaitIsReleased` from `RebuildAssumption` (finitely many blobs, at least one client, block names are
unique). What runs is in the current batch, each item at its place
(`ReadersAreInBatch`), so two goroutines with one client would be the same item;
the WaitGroup equals the number of goroutines that run (`WaitGroupCounts`), so that
Join finds none; and a block that was read without giving up is at its place of the batch, and
after the merge in the index (`ReadsAreKept`). That the listing has each blob
once, and that a batch has as many names as places, are facts about injections on finite
sets (`ListingIsComplete`, `BatchPlaces`). `BuildsSnapshot` is the refinement of `BuiltIndex`.
That nothing newer than the listing is returned is `OnlyListedRead`: a goroutine looks only
at a listed name, so what it reads was stored then. That nothing else is missing than what was given
up is `ReadsAreKept`, as for `NoneSkipped`; a read that is given up is a step `GiveUp`. `WaitIsReleased` says that the count of the WaitGroup
is zero exactly when no goroutine of the batch runs, so that wg.Wait neither returns early nor waits
for nobody, which a wrong number of Done calls on one of the exits would break.

`VersionsProofs` proves `TypesOK`, `PublishedSafely`, `UploadedSafely`,
`DeliveredSafely` and `LocalIndexSafely` from `VersionsAssumption`, for any number of
processes, commands and versions. The chain is: what an upload asked for is
covered by blocks it was answered with, which are in its index, and blocks it
put (`UploadsAreSound`); both stay with the process (`SettledIsKept`) until Close lists them
(`IndexesAreSound`); a reader that comes after finds a listed cover (`PromisedIsListed`) and is
answered one (`ReadsAreSound`), unless its store has read no index. Nothing is ever removed, so other
processes' steps only help: a block that one process lost may be stored by another later, and never the
other way round. The blocks of `Lost` and `dropped` are part of each of these invariants, since an upload cannot
tell them from stored ones, and so of the theorems.

`PointerTableProofs` proves `TypesOK`, `RestoresWhatWasSaved` and `FailsWhenFull` from
`TableAssumption`. Objects that look at a slot drew different numbers among the last
`Size` ones (`LookApart`: the slot and the age of the number add up to the
counter), hence look at different slots, and a slot once seen free stays so until it is taken
(`SlotsAreOwned`). This is where the size has to divide the width.
`FailsWhenFull` is about the search that draws every number from its start on: it follows the
counter, has looked at each slot that it passed (`Probed`) and found it taken (`SweepIsTaken`), so that it
has found all of them taken when it comes round. Others may take and free slots meanwhile, hence at
the end some may be free again.

Only model-checked is liveness: `UpdateIsAtomic` as a whole (its safety is `Implementation`),
`GetsAnswered`, `CallsReturn`, `BuildEnds` and `SavesReturn`. They rest on fairness and so on ENABLED, which the
prover does not handle. No definition is recursive, so nothing that is proved rests on
induction over data.

## 6. Not modelled

- The C library is not in the repository (headers and archives only): its
  merge of indexes is union, its failures are the `memory` fault.
- The order of messages in `putBlockChan` and `getBlockChan`, sizes of blocks,
  statistics, memory traces and logging: no property depends on them.
- Capacity of `prefetchBlockChan` together with the index worker that fills it
  (planned: the composition of `BlockFetch` and `RemoteStore`).
- The S3 store consists of stubs; the file store is sequential I/O without a
  version check, used by the tests.
- In the commands: the bytes of files and folders, the stack of share, LRU, cache and
  compress stores (C), validation of a written folder; ls, stats, print and dump, which
  change no state; the asynchronous folder scanner and version index reader, whose only hazard
  is the use of disposed C objects.
- errno tables, `splitRegexes`, `Include`, `byteCount`, `normalizePath`: pure functions on
  strings and numbers. What ErrnoToError makes of an errno that is 0 is part of the
  handlers where it happens.

Some weaknesses are modelled as the code has them and recorded as hazards, without a run that
exhibits them. A put whose `Exists` call fails succeeds without writing (`remotestore.go` 232), and
a failed read of `store.lsi` is only logged, so that a read-only store answers from an empty index
(`remotestore.go` 868), which createVersionStoreIndex writes and exits with 0 (`main.go` 2017-2030). The loop of `prefetchBlock` that answers the waiters stops one short
(`remotestore.go` 403), so that of two gets waiting for a prefetch the second is dropped;
`fetch_quiet` gives a preflighted block a single get. And a rebuild that Init forces is
merged with the `store.lsi` it replaces (`remotestore.go` 891), so that stale entries survive;
`Stale` names them, and no property says that they do not. Four or more overlapping
Flush calls may hang with as many workers (`remotestore.go` 1195; see `FlushesGoOn` in section 3):
nothing in the repository says how many may overlap, and the commands make one at a time.

## 7. Plan

Done: `SharedStoreIndex` and `StoreIndexUpdate`; `BlockFetch`; `BlockStore`, `RemoteStore` and
`FlushedContent`; `BuiltIndex` and `IndexRebuild`; `Versions` (upload, clone, init, download, validate,
copy); `PointerTable`; proofs of the safety of each of them.

Left, in this order:

1. Preflights into a bounded `prefetchBlockChan`: the composition of `BlockFetch`
   and `RemoteStore`, and whether the index worker and the workers can wait for
   each other. Both state spaces are large; it needs a coarser put side.
2. The waits of downsync: asynchronous readers and their WaitGroups, order of flushes
   and disposes of the stack of stores.
3. Pure modules: errno conversion, the path filter, `byteCount`, against reference
   definitions.
