---------------------------- MODULE RemoteStore ----------------------------
(***************************************************************************)
(* The write side of remoteStore, in one process: the workers that store   *)
(* blocks, the contentIndexWorker that collects their block indexes and    *)
(* owns the store index, and the calls PutStoredBlock, PreflightGet,       *)
(* GetExistingContent, Flush and Close that reach them over channels.      *)
(*                                                                         *)
(* An index is a set of block hashes, NoIndex one that is not valid.  An   *)
(* update of store.lsi is one atomic union, the promise of module          *)
(* SharedStoreIndex that module StoreIndexUpdate keeps.  Gets and          *)
(* prefetches, which share the workers but not this state, are in module   *)
(* BlockFetch.                                                             *)
(***************************************************************************)
EXTENDS Naturals, Sequences, FiniteSets

CONSTANTS Worker,        \* goroutines running remoteWorker
          Block,         \* block hashes
          Put,           \* PutStoredBlock calls, each made at most once
          Hash,          \* Hash[p]: the block that p stores
          Ask,           \* PreflightGet and GetExistingContent calls
          Preflights,    \* those of Ask that are PreflightGet calls
          FlushCall,     \* Flush calls
          Access,        \* access types the store is opened with
          Old,           \* blocks that may be in the store beforehand
          Stale,         \* blocks without a blob that other processes list, or
                         \* have listed: their Exists or Write calls failed
          Foreign,       \* blocks that other processes store meanwhile
          LocalIndex,    \* index at optionalStoreIndexPath, or NoIndex
          IndexCapacity, \* capacity of blockIndexChan
          Faults,        \* what may fail, see FaultKind
          NoIndex, NoPut

\* "exists", "write" and "read": the calls of a blob object; "index": the
\* update of store.lsi; "memory": allocations of the longtail library;
\* "client": NewClient of a goroutine.
FaultKind == {"exists", "write", "read", "index", "memory", "client"}

ASSUME StoreAssumption ==
    /\ IsFiniteSet(Worker)
    /\ Worker # {}
    /\ Hash \in [Put -> Block]
    /\ Preflights \subseteq Ask
    /\ Access \subseteq {"Init", "ReadWrite", "ReadOnly"}
    /\ Old \cup Stale \cup Foreign \subseteq Block
    /\ \A blocks \in SUBSET Block : NoIndex # blocks
    /\ LocalIndex # NoIndex => LocalIndex \subseteq Block
    /\ IndexCapacity \in Nat \ {0}
    /\ Faults \subseteq FaultKind
    /\ NoPut \notin Put

VARIABLES access,         \* access type of this store
          blobs,          \* blocks with a blob "chunks/..."
          lsi,            \* the index in store.lsi
          outcome,        \* outcome[p]; "queued": p is in putBlockChan
          pc, job,        \* of each worker: label, put it works on
          blockIndexChan, \* block indexes on their way to the index worker
          indexPc,        \* label of the index worker
          storeIndex, added, save, \* its variables storeIndex,
                          \* addedBlockIndexes and saveStoreIndex
          asked,          \* asked[a]; "open": a is in its channel
          flush,          \* flush[f]: label of the goroutine of f
          counted,        \* counted[f]: tokens sent or replies received
          tokens, replies,           \* messages in the workers' flush channels
          indexToken, indexReplies,  \* messages in the index worker's
          closing,        \* how far Close has got
          collected,      \* worker results that Close has received
          workerErrorChan,
          unchecked,      \* history: blocks whose Exists call failed
          failed,         \* history: puts whose every Write call failed
          due             \* history: due[f], what f is to save

store == <<blobs, lsi>>
worker == <<pc, job>>
indexer == <<indexPc, storeIndex, added, save>>
workerFlush == <<tokens, replies>>
indexFlush == <<indexToken, indexReplies>>
flushing == <<flush, counted>>
close == <<closing, collected, workerErrorChan>>
history == <<unchecked, failed, due>>
vars == <<access, store, outcome, worker, blockIndexChan, indexer, asked,
          flushing, workerFlush, indexFlush, close, history>>

WorkerLabel == {"top", "select", "write", "send", "answer", "flushed", "exited"}
IndexLabel == {"top", "select", "error", "stopped", "failed"}
FlushLabel == {"unmade", "tokens", "replies", "token", "reply", "ok", "error"}

IsIndex(x) == x = NoIndex \/ x \subseteq Block

Init ==
    /\ access \in Access
    /\ blobs \in SUBSET Old
    /\ lsi \in {NoIndex} \cup SUBSET (blobs \cup Stale)
    /\ outcome = [p \in Put |-> "unmade"]
    /\ \E unstarted \in IF "client" \in Faults THEN SUBSET Worker ELSE {{}} :
          /\ pc = [w \in Worker |-> IF w \in unstarted THEN "exited" ELSE "top"]
          /\ workerErrorChan = [i \in 1..Cardinality(unstarted) |-> "error"]
    /\ job = [w \in Worker |-> NoPut]
    /\ blockIndexChan = <<>>
    /\ indexPc \in IF "client" \in Faults THEN {"top", "error"} ELSE {"top"}
    /\ storeIndex = NoIndex
    /\ added = {}
    /\ save = FALSE
    /\ asked = [a \in Ask |-> "unmade"]
    /\ flush = [f \in FlushCall |-> "unmade"]
    /\ counted = [f \in FlushCall |-> 0]
    /\ tokens = 0
    /\ replies = 0
    /\ indexToken = 0
    /\ indexReplies = <<>>
    /\ closing = "open"
    /\ collected = 0
    /\ unchecked = {}
    /\ failed = {}
    /\ due = [f \in FlushCall |-> [seen |-> {}, alone |-> TRUE]]

Elements(seq) == {seq[i] : i \in DOMAIN seq}

Alive == closing # "died"
Open == closing = "open"
BlockIndexChanClosed == closing \in {"index", "done"}

WorkerAt(w, labels) == Alive /\ pc[w] \in labels
\* indexFlushReplyChan holds one reply: while a second one is being sent the
\* index worker does nothing else.
IndexAt(labels) == Alive /\ Len(indexReplies) <= 1 /\ indexPc \in labels

AddTo(index, blocks) == (IF index = NoIndex THEN {} ELSE index) \cup blocks

FlushOpen(f) == flush[f] \notin {"unmade", "ok", "error"}

\* The blocks of puts that were reported as stored, and were.
Completed == {Hash[p] : p \in {q \in Put \ failed : outcome[q] = "ok"}}

-----------------------------------------------------------------------------
(* Another process lists a block in store.lsi, as the abstract update of   *)
(* SharedStoreIndex: one that it stores, or one of Stale, which it put and *)
(* did not store.                                                          *)

OtherProcess(b) ==
    /\ b \in Foreign \ blobs \/ b \in Stale \ AddTo(lsi, {})
    /\ blobs' = blobs \cup ({b} \cap Foreign)
    /\ lsi' = AddTo(lsi, {b})
    /\ UNCHANGED <<access, outcome, worker, blockIndexChan, indexer, asked,
                   flushing, workerFlush, indexFlush, close, history>>

-----------------------------------------------------------------------------
(* The calls.  A caller closes the store when its asks and flushes have    *)
(* returned; puts may still be open.                                       *)

PutStoredBlock(p) ==
    /\ Open
    /\ outcome[p] = "unmade"
    /\ outcome' = [outcome EXCEPT ![p] = "queued"]
    /\ UNCHANGED <<access, store, worker, blockIndexChan, indexer, asked,
                   flushing, workerFlush, indexFlush, close, history>>

\* PreflightGet and GetExistingContent.
AskIndex(a) ==
    /\ Open
    /\ asked[a] = "unmade"
    /\ asked' = [asked EXCEPT ![a] = "open"]
    /\ UNCHANGED <<access, store, outcome, worker, blockIndexChan, indexer,
                   flushing, workerFlush, indexFlush, close, history>>

Flush(f) ==
    /\ Open
    /\ flush[f] = "unmade"
    /\ flush' = [flush EXCEPT ![f] = "tokens"]
    /\ due' = [g \in FlushCall |->
          IF g = f THEN [seen |-> added \cup IF save THEN storeIndex ELSE {},
                         alone |-> \A h \in FlushCall : ~FlushOpen(h)]
          ELSE IF FlushOpen(g) THEN [due[g] EXCEPT !.alone = FALSE]
          ELSE due[g]]
    /\ UNCHANGED <<access, store, outcome, worker, blockIndexChan, indexer,
                   asked, counted, workerFlush, indexFlush, close, unchecked,
                   failed>>

Close ==
    /\ Open
    /\ \A f \in FlushCall : ~FlushOpen(f)
    /\ \A a \in Ask : asked[a] # "open"
    /\ closing' = "workers"
    /\ UNCHANGED <<access, store, outcome, worker, blockIndexChan, indexer,
                   asked, flushing, workerFlush, indexFlush, collected,
                   workerErrorChan, history>>

-----------------------------------------------------------------------------
(* The goroutine of Flush: a token for each worker, a reply from each, then *)
(* a token for the index worker and its reply, which is the result.  A     *)
(* token or a reply may be another Flush call's.                           *)

Count(f, next) ==
    IF counted[f] + 1 = Cardinality(Worker)
    THEN flush' = [flush EXCEPT ![f] = next] /\ counted' = [counted EXCEPT ![f] = 0]
    ELSE UNCHANGED flush /\ counted' = [counted EXCEPT ![f] = @ + 1]

SendToken(f) ==
    /\ Alive /\ flush[f] = "tokens"
    /\ tokens < Cardinality(Worker)
    /\ tokens' = tokens + 1
    /\ Count(f, "replies")
    /\ UNCHANGED <<access, store, outcome, worker, blockIndexChan, indexer,
                   asked, replies, indexFlush, close, history>>

ReceiveReply(f) ==
    /\ Alive /\ flush[f] = "replies"
    /\ replies > 0
    /\ replies' = replies - 1
    /\ Count(f, "token")
    /\ UNCHANGED <<access, store, outcome, worker, blockIndexChan, indexer,
                   asked, tokens, indexFlush, close, history>>

SendIndexToken(f) ==
    /\ Alive /\ flush[f] = "token"
    /\ indexToken = 0
    /\ indexToken' = 1
    /\ flush' = [flush EXCEPT ![f] = "reply"]
    /\ UNCHANGED <<access, store, outcome, worker, blockIndexChan, indexer,
                   asked, counted, workerFlush, indexReplies, close, history>>

ReceiveIndexReply(f) ==
    /\ Alive /\ flush[f] = "reply"
    /\ indexReplies # <<>>
    /\ flush' = [flush EXCEPT ![f] = Head(indexReplies)]
    /\ indexReplies' = Tail(indexReplies)
    /\ UNCHANGED <<access, store, outcome, worker, blockIndexChan, indexer,
                   asked, counted, workerFlush, indexToken, close, history>>

-----------------------------------------------------------------------------
(* remoteWorker.                                                           *)

GoTo(w, label) == pc' = [pc EXCEPT ![w] = label]

Queued == {p \in Put : outcome[p] = "queued"}

\* The default case of the first select.
EnterSelect(w) ==
    /\ WorkerAt(w, {"top"})
    /\ Queued = {} /\ Open
    /\ GoTo(w, "select")
    /\ UNCHANGED <<access, store, outcome, job, blockIndexChan, indexer, asked,
                   flushing, workerFlush, indexFlush, close, history>>

\* A worker takes a put; a read-only store refuses it.
RefusePut(w, p) ==
    /\ WorkerAt(w, {"top", "select"})
    /\ outcome[p] = "queued"
    /\ access = "ReadOnly"
    /\ outcome' = [outcome EXCEPT ![p] = "error"]
    /\ GoTo(w, "top")
    /\ UNCHANGED <<access, store, job, blockIndexChan, indexer, asked,
                   flushing, workerFlush, indexFlush, close, history>>

\* putStoredBlock up to the Exists call.  When that call fails the block is
\* not written, but the put goes on as if it had been found.
StartPut(w, p) ==
    /\ WorkerAt(w, {"top", "select"})
    /\ outcome[p] = "queued"
    /\ outcome' = [outcome EXCEPT ![p] = "open"]
    /\ job' = [job EXCEPT ![w] = p]
    /\ \/ /\ GoTo(w, IF Hash[p] \in blobs THEN "send" ELSE "write")
          /\ UNCHANGED unchecked
       \/ /\ "exists" \in Faults
          /\ GoTo(w, "send")
          /\ unchecked' = unchecked \cup {Hash[p]}
    /\ UNCHANGED <<access, store, blockIndexChan, indexer, asked, flushing,
                   workerFlush, indexFlush, close, failed, due>>

TakePut(w, p) == access # "ReadOnly" /\ StartPut(w, p)

StoreBlob(w, next) ==
    /\ WorkerAt(w, {"write"})
    /\ blobs' = blobs \cup {Hash[job[w]]}
    /\ GoTo(w, next)
    /\ UNCHANGED <<access, lsi, outcome, job, blockIndexChan, indexer, asked,
                   flushing, workerFlush, indexFlush, close, history>>

WriteUnannounced(w) == StoreBlob(w, "answer")

\* The blob is written; its block index is still to be sent.
WriteBlock(w) == StoreBlob(w, "send")

\* OnComplete, and back to the loop.
Answer(w, result) ==
    /\ outcome' = [outcome EXCEPT ![job[w]] = result]
    /\ job' = [job EXCEPT ![w] = NoPut]
    /\ GoTo(w, "top")
    /\ UNCHANGED <<access, lsi, indexer, asked, flushing, workerFlush,
                   indexFlush, close, unchecked, due>>

\* All four Write calls fail, one of them perhaps after it wrote the data:
\* the error returned is made from errno 0 and is nil, and the put is
\* reported as successful.
WriteFails(w) ==
    /\ WorkerAt(w, {"write"})
    /\ "write" \in Faults
    /\ blobs' \in {blobs, blobs \cup {Hash[job[w]]}}
    /\ failed' = failed \cup {job[w]}
    /\ Answer(w, "ok")
    /\ UNCHANGED blockIndexChan

PutFailsLate(w) ==
    /\ WorkerAt(w, {"write"})
    /\ "memory" \in Faults
    /\ GoTo(w, "send")
    /\ UNCHANGED <<access, store, outcome, job, blockIndexChan, indexer, asked,
                   flushing, workerFlush, indexFlush, close, history>>

\* WriteStoredBlockToBuffer or the copy of the block index fails.
PutFails(w) ==
    /\ WorkerAt(w, {"write", "send"})
    /\ "memory" \in Faults
    /\ Answer(w, "error")
    /\ UNCHANGED <<blobs, blockIndexChan, failed>>

Send(w) ==
    /\ WorkerAt(w, {"send"})
    /\ blockIndexChan' = Append(blockIndexChan, Hash[job[w]])
    /\ GoTo(w, "answer")
    /\ UNCHANGED <<access, store, outcome, job, indexer, asked, flushing,
                   workerFlush, indexFlush, close, history>>

\* A send blocks while blockIndexChan is full.
SendBlockIndex(w) == Len(blockIndexChan) < IndexCapacity /\ Send(w)

AnswerPut(w) ==
    /\ WorkerAt(w, {"answer"})
    /\ Answer(w, "ok")
    /\ UNCHANGED <<blobs, blockIndexChan, failed>>

FlushWorker(w) ==
    /\ WorkerAt(w, {"select"})
    /\ tokens > 0
    /\ tokens' = tokens - 1
    /\ GoTo(w, "flushed")
    /\ UNCHANGED <<access, store, outcome, job, blockIndexChan, indexer, asked,
                   flushing, replies, indexFlush, close, history>>

LeaveFlush(w, sent) ==
    /\ WorkerAt(w, {"flushed"})
    /\ replies < Cardinality(Worker)
    /\ replies' = replies + sent
    /\ GoTo(w, "top")
    /\ UNCHANGED <<access, store, outcome, job, blockIndexChan, indexer, asked,
                   flushing, tokens, indexFlush, close, history>>

FlushUnreplied(w) == LeaveFlush(w, 0)

ReplyFlush(w) == LeaveFlush(w, 1)

\* putBlockChan is closed and empty.
StopWorker(w) ==
    /\ WorkerAt(w, {"top", "select"})
    /\ Queued = {} /\ ~Open
    /\ GoTo(w, "exited")
    /\ workerErrorChan' = Append(workerErrorChan, "nil")
    /\ UNCHANGED <<access, store, outcome, job, blockIndexChan, indexer, asked,
                   flushing, workerFlush, indexFlush, closing, collected,
                   history>>

WorkerStep(w) ==
    \/ EnterSelect(w)
    \/ \E p \in Put : RefusePut(w, p) \/ TakePut(w, p)
    \/ WriteBlock(w) \/ WriteFails(w) \/ PutFails(w)
    \/ SendBlockIndex(w) \/ AnswerPut(w)
    \/ FlushWorker(w) \/ ReplyFlush(w)
    \/ StopWorker(w)

-----------------------------------------------------------------------------
(* contentIndexWorker.                                                     *)

\* What updateRemoteStoreIndex(index) may do: on success the caller's index
\* becomes the merged one; a failed update may have written store.lsi.
Saved(index) == [ok |-> TRUE, index |-> AddTo(lsi, index), lsi |-> AddTo(lsi, index)]
SwallowedError(index) == {[ok |-> TRUE, index |-> index, lsi |-> lsi]}
Unsaved(index) ==
    {[ok |-> FALSE, index |-> index, lsi |-> l] : l \in {lsi, AddTo(lsi, index)}}

SaveResults(index) ==
    {Saved(index)} \cup (IF "index" \in Faults THEN Unsaved(index) ELSE {})

\* getStoreIndex, first half: the index the worker holds, or else reads or
\* builds, becomes storeIndex, merged with the added blocks.
Obtain(index, flag, stored) ==
    /\ storeIndex' = index \cup added
    /\ save' = (flag \/ added # {})
    /\ lsi' = stored

HoldIndex == storeIndex # NoIndex /\ Obtain(storeIndex, save, lsi)

ReadLocalIndex ==
    /\ storeIndex = NoIndex
    /\ access = "ReadOnly" /\ LocalIndex # NoIndex
    /\ Obtain(LocalIndex, save, lsi)

ReadStoreIndex ==
    /\ storeIndex = NoIndex
    /\ access # "Init" /\ lsi # NoIndex
    /\ Obtain(lsi, save, lsi)

\* No index could be read; errors of the read are only logged.
NothingRead ==
    /\ storeIndex = NoIndex
    /\ access = "Init" \/ lsi = NoIndex \/ "read" \in Faults

EmptyIndex == NothingRead /\ access = "ReadOnly" /\ Obtain({}, save, lsi)

\* Blocks that may have been written since the index worker, which collects
\* nothing meanwhile, began its rebuild.
Recent ==
    Foreign \cup Elements(blockIndexChan)
        \cup {Hash[p] : p \in failed \cup {q \in Put : outcome[q] \in {"open", "error"}}}

\* buildStoreIndexFromStoreBlocks lists the blobs once, then reads them while
\* others are written (module BuiltIndex), and skips those it cannot read.
BuiltIndexes == {built \in SUBSET blobs : "read" \in Faults \/ blobs \ Recent \subseteq built}

RebuildUnsaved ==
    /\ NothingRead
    /\ access # "ReadOnly"
    /\ \E built \in BuiltIndexes : \E r \in SaveResults(built) :
          Obtain(r.index, save \/ access = "Init", r.lsi)

RebuildIndex ==
    /\ NothingRead
    /\ access # "ReadOnly"
    /\ \E built \in BuiltIndexes : \E r \in SaveResults(built) :
          Obtain(r.index, save \/ access = "Init" \/ ~r.ok, r.lsi)

\* The build fails; the error returned is made from errno 0 and is nil.
RebuildFails ==
    /\ NothingRead
    /\ access # "ReadOnly"
    /\ {"read", "memory"} \cap Faults # {}
    /\ storeIndex' = NoIndex
    /\ save' = FALSE
    /\ lsi' = lsi

GetStoreIndex ==
    \/ HoldIndex
    \/ ReadLocalIndex
    \/ ReadStoreIndex
    \/ EmptyIndex
    \/ RebuildIndex
    \/ RebuildFails

\* PreflightGet is answered after its blocks were passed on, GetExistingContent
\* with what storeIndex holds, or with the error of GetExistingStoreIndex, to
\* which an index that is not valid is one.
AnswerAsk(a) ==
    /\ IndexAt({"top", "select"})
    /\ asked[a] = "open"
    /\ GetStoreIndex
    /\ \E result \in {"answered", "error"} :
          /\ a \in Preflights => result = "answered"
          /\ a \notin Preflights /\ storeIndex' = NoIndex => result = "error"
          /\ result = "error" => storeIndex' = NoIndex \/ "memory" \in Faults
          /\ asked' = [asked EXCEPT ![a] = result]
    /\ indexPc' = "top"
    /\ UNCHANGED <<access, blobs, outcome, worker, blockIndexChan, added,
                   flushing, workerFlush, indexFlush, close, history>>

\* Nothing was read, and the empty index cannot be made either.
EmptyIndexFails ==
    /\ NothingRead
    /\ access = "ReadOnly"
    /\ UNCHANGED <<storeIndex, save, lsi>>

\* The index cannot be made, or the added blocks not be merged: the worker
\* enters its error state, be it after it rebuilt store.lsi.
AskFails(a) ==
    /\ IndexAt({"top", "select"})
    /\ asked[a] = "open"
    /\ "memory" \in Faults
    /\ (added # {} /\ GetStoreIndex) \/ EmptyIndexFails
    /\ asked' = [asked EXCEPT ![a] = "error"]
    /\ indexPc' = "error"
    /\ UNCHANGED <<access, blobs, outcome, worker, blockIndexChan, added,
                   flushing, workerFlush, indexFlush, close, history>>

ReceiveBlockIndex ==
    /\ IndexAt({"top", "select"})
    /\ blockIndexChan # <<>>
    /\ added' = added \cup {Head(blockIndexChan)}
    /\ blockIndexChan' = Tail(blockIndexChan)
    /\ indexPc' = "top"
    /\ UNCHANGED <<access, store, outcome, worker, storeIndex, save, asked,
                   flushing, workerFlush, indexFlush, close, history>>

\* The default case of the first select.
EnterIndexSelect ==
    /\ IndexAt({"top"})
    /\ blockIndexChan = <<>> /\ ~BlockIndexChanClosed
    /\ \A a \in Ask : asked[a] # "open"
    /\ indexPc' = "select"
    /\ UNCHANGED <<access, store, outcome, worker, blockIndexChan, storeIndex,
                   added, save, asked, flushing, workerFlush, indexFlush,
                   close, history>>

ReplyIndexFlush(result) ==
    /\ indexToken = 1
    /\ indexToken' = 0
    /\ indexReplies' = Append(indexReplies, result)
    /\ UNCHANGED <<access, blobs, outcome, worker, blockIndexChan, asked,
                   flushing, workerFlush, close, history>>

UnwrittenIfLoaded == added # {} /\ storeIndex # NoIndex /\ access # "ReadOnly"

\* There are added blocks to be merged and saved.
Unwritten == added # {} /\ access # "ReadOnly"

FlushIndex ==
    /\ IndexAt({"select"})
    /\ Unwritten \/ save
    /\ \E r \in SaveResults(AddTo(storeIndex, added)) :
          /\ storeIndex' = r.index
          /\ lsi' = r.lsi
          /\ save' = ~r.ok
          /\ ReplyIndexFlush(IF r.ok THEN "ok" ELSE "error")
    /\ added' = {}
    /\ indexPc' = "top"

FlushNothing ==
    /\ IndexAt({"select"})
    /\ ~Unwritten /\ ~save
    /\ ReplyIndexFlush("ok")
    /\ indexPc' = "top"
    /\ UNCHANGED <<lsi, storeIndex, added, save>>

FlushIndexFails ==
    /\ IndexAt({"select"})
    /\ Unwritten /\ "memory" \in Faults
    /\ ReplyIndexFlush("error")
    /\ indexPc' = "top"
    /\ UNCHANGED <<lsi, storeIndex, added, save>>

\* blockIndexChan is closed and empty: what is left is saved.
StopIndexWorker ==
    /\ IndexAt({"top", "select"})
    /\ blockIndexChan = <<>> /\ BlockIndexChanClosed
    /\ \/ /\ Unwritten \/ (save /\ access # "ReadOnly")
          /\ \E r \in SaveResults(AddTo(storeIndex, added)) :
                /\ lsi' = r.lsi
                /\ indexPc' = IF r.ok THEN "stopped" ELSE "failed"
       \/ /\ ~Unwritten /\ (save => access = "ReadOnly")
          /\ indexPc' = "stopped"
          /\ lsi' = lsi
       \/ /\ Unwritten /\ "memory" \in Faults
          /\ indexPc' = "failed"
          /\ lsi' = lsi
    /\ workerErrorChan' =
          Append(workerErrorChan, IF indexPc' = "stopped" THEN "nil" ELSE "error")
    /\ UNCHANGED <<access, blobs, outcome, worker, blockIndexChan, storeIndex,
                   added, save, asked, flushing, workerFlush, indexFlush,
                   closing, collected, history>>

-----------------------------------------------------------------------------
(* storeIndexWorkerReplyErrorState: a flush succeeds, a block index is     *)
(* dropped, GetExistingContent fails and PreflightGet is not received.     *)

FlushInErrorState ==
    /\ IndexAt({"error"})
    /\ ReplyIndexFlush("ok")
    /\ UNCHANGED <<lsi, indexer>>

DropBlockIndex ==
    /\ IndexAt({"error"})
    /\ blockIndexChan # <<>>
    /\ blockIndexChan' = Tail(blockIndexChan)
    /\ UNCHANGED <<access, store, outcome, worker, indexer, asked, flushing,
                   workerFlush, indexFlush, close, history>>

FailAsk(a) ==
    /\ IndexAt({"error"})
    /\ asked[a] = "open" /\ a \notin Preflights
    /\ asked' = [asked EXCEPT ![a] = "error"]
    /\ UNCHANGED <<access, store, outcome, worker, blockIndexChan, indexer,
                   flushing, workerFlush, indexFlush, close, history>>

LeaveErrorState ==
    /\ IndexAt({"error"})
    /\ blockIndexChan = <<>> /\ BlockIndexChanClosed
    /\ indexPc' = "failed"
    /\ workerErrorChan' = Append(workerErrorChan, "error")
    /\ UNCHANGED <<access, store, outcome, worker, blockIndexChan, storeIndex,
                   added, save, asked, flushing, workerFlush, indexFlush,
                   closing, collected, history>>

IndexStep ==
    \/ \E a \in Ask : AnswerAsk(a) \/ AskFails(a) \/ FailAsk(a)
    \/ ReceiveBlockIndex
    \/ EnterIndexSelect
    \/ FlushIndex \/ FlushNothing \/ FlushIndexFails
    \/ StopIndexWorker
    \/ FlushInErrorState \/ DropBlockIndex \/ LeaveErrorState

-----------------------------------------------------------------------------
(* Close, after putBlockChan was closed: a result from each worker, then   *)
(* blockIndexChan is closed and the result of the index worker received.   *)
(* An error is fatal to the process.                                       *)

AllButOne(n) == n + 1 = Cardinality(Worker)
AllWorkers(n) == n = Cardinality(Worker)

CollectWorker ==
    /\ closing = "workers"
    /\ workerErrorChan # <<>>
    /\ workerErrorChan' = Tail(workerErrorChan)
    /\ collected' = collected + 1
    /\ closing' = IF Head(workerErrorChan) = "error" THEN "died"
                  ELSE IF AllWorkers(collected') THEN "index"
                  ELSE "workers"
    /\ UNCHANGED <<access, store, outcome, worker, blockIndexChan, indexer,
                   asked, flushing, workerFlush, indexFlush, history>>

CollectIndexWorker ==
    /\ closing = "index"
    /\ workerErrorChan # <<>>
    /\ workerErrorChan' = Tail(workerErrorChan)
    /\ closing' = IF Head(workerErrorChan) = "error" THEN "died" ELSE "done"
    /\ UNCHANGED <<access, store, outcome, worker, blockIndexChan, indexer,
                   asked, flushing, workerFlush, indexFlush, collected, history>>

-----------------------------------------------------------------------------

FlushStep(f) ==
    SendToken(f) \/ ReceiveReply(f) \/ SendIndexToken(f) \/ ReceiveIndexReply(f)

CloseStep == CollectWorker \/ CollectIndexWorker

CallerStep ==
    \/ \E p \in Put : PutStoredBlock(p)
    \/ \E a \in Ask : AskIndex(a)
    \/ \E f \in FlushCall : Flush(f)
    \/ Close

Next ==
    \/ \E b \in Block : OtherProcess(b)
    \/ CallerStep
    \/ \E w \in Worker : WorkerStep(w)
    \/ IndexStep
    \/ \E f \in FlushCall : FlushStep(f)
    \/ CloseStep

Safety == Init /\ [][Next]_vars

\* Goroutines are scheduled; callers may stop calling, or never close.
Fairness ==
    /\ \A w \in Worker : WF_vars(WorkerStep(w))
    /\ WF_vars(IndexStep)
    /\ \A f \in FlushCall : WF_vars(FlushStep(f))
    /\ WF_vars(CloseStep)

Spec == Safety /\ Fairness

-----------------------------------------------------------------------------
(* Properties.                                                             *)

\* Every variable keeps its type, and no channel holds more than it can.
TypeOK ==
    /\ access \in Access
    /\ blobs \subseteq Block
    /\ IsIndex(lsi)
    /\ outcome \in [Put -> {"unmade", "queued", "open", "ok", "error"}]
    /\ pc \in [Worker -> WorkerLabel]
    /\ job \in [Worker -> Put \cup {NoPut}]
    /\ \A w \in Worker : pc[w] \in {"write", "send", "answer"} => job[w] \in Put
    /\ blockIndexChan \in Seq(Block)
    /\ Len(blockIndexChan) <= IndexCapacity
    /\ indexPc \in IndexLabel
    /\ IsIndex(storeIndex)
    /\ added \subseteq Block
    /\ save \in BOOLEAN
    /\ asked \in [Ask -> {"unmade", "open", "answered", "error"}]
    /\ flush \in [FlushCall -> FlushLabel]
    /\ counted \in [FlushCall -> Nat]
    /\ tokens \in 0..Cardinality(Worker)
    /\ replies \in 0..Cardinality(Worker)
    /\ indexToken \in {0, 1}
    /\ indexReplies \in Seq({"ok", "error"})
    /\ closing \in {"open", "workers", "index", "done", "died"}
    /\ collected \in Nat
    /\ workerErrorChan \in Seq({"nil", "error"})
    /\ unchecked \subseteq Block
    /\ failed \subseteq Put
    /\ due \in [FlushCall -> [seen : SUBSET Block, alone : BOOLEAN]]

\* A put that was reported as successful, and whose block was stored or
\* found, is never forgotten: its block index is in the channel, or among the
\* added blocks, or in an index still to be saved, or in store.lsi.  Only an
\* index worker that failed may drop it.
InFlight ==
    Elements(blockIndexChan) \cup added \cup (IF save THEN storeIndex ELSE {})

PutsTracked ==
    indexPc \notin {"error", "failed"} =>
        Completed \subseteq InFlight \cup AddTo(lsi, {})

\* After Close every completed put is listed by store.lsi, also the puts that
\* were still open when Close was called, and whatever failed before it
\* (TestRestoreStore reopens the store and asks for them).
CloseSavesPuts == closing = "done" => Completed \subseteq AddTo(lsi, {})

\* No index lists a block that has no blob, unless store.lsi did beforehand
\* or the Exists call of its put failed: a block index is sent only after the
\* block was written, and a put that fails sends none.
IndexedBlocksStored ==
    AddTo(lsi, InFlight) \subseteq blobs \cup Stale \cup unchecked

\* blockIndexChan is closed only when no worker can send to it any more
\* (sending on a closed channel panics).
NoSendOnClosedChannel ==
    BlockIndexChanClosed => \A w \in Worker : pc[w] = "exited"

\* A Flush that returns success, with no other Flush under way meanwhile, has
\* saved every block whose block index the index worker had received when
\* Flush was called, unless the index worker is in its error state.
FlushSavesReceived ==
    indexPc \notin {"error", "failed"} =>
        \A f \in FlushCall :
            flush[f] = "ok" /\ due[f].alone => due[f].seen \subseteq AddTo(lsi, {})

\* A store opened read-only writes neither blobs nor store.lsi, whatever it is
\* asked to do.
ReadOnlyNeverWrites ==
    [][access = "ReadOnly" => (\E b \in Block : OtherProcess(b)) \/ UNCHANGED store]_vars

\* Every call returns: puts also when the store is closed meanwhile, flushes
\* also when two of them overlap, GetExistingContent also in the error state, Close
\* unless it ends the process.  Left out are a store without any worker and a
\* PreflightGet in the error state, which are never answered.  The calls are
\* finitely many, so that all of them return when again and again none is open.
NoWorker == Open /\ \A w \in Worker : pc[w] = "exited"

NoCallOpen ==
    /\ NoWorker \/ \A p \in Put : outcome[p] \notin {"queued", "open"}
    /\ NoWorker \/ \A f \in FlushCall : ~FlushOpen(f)
    /\ \A a \in Ask : asked[a] = "open" => a \in Preflights /\ indexPc = "error"
    /\ closing \notin {"workers", "index"}

CallsReturn == []<>(NoCallOpen \/ ~Alive)

\* Flush calls that overlap do not block each other, the workers or the index
\* worker for good: while one is open, one of them or of those that answer them
\* can take its next step.  At most two of them still send tokens: with more,
\* tokens and replies may fill both channels of the workers while every Flush
\* has tokens left to send (four calls and four workers).
AtMostTwoSend ==
    \A f, g, h \in FlushCall :
        flush[f] = "tokens" /\ flush[g] = "tokens" /\ flush[h] = "tokens" =>
            f = g \/ g = h \/ f = h

WorkerFlushGoesOn ==
    \/ tokens < Cardinality(Worker) /\ \E f \in FlushCall : flush[f] = "tokens"
    \/ tokens > 0 /\ \E w \in Worker : pc[w] \notin {"flushed", "exited"}
    \/ replies < Cardinality(Worker) /\ \E w \in Worker : pc[w] = "flushed"
    \/ replies > 0 /\ \E f \in FlushCall : flush[f] = "replies"

IndexFlushGoesOn ==
    \/ indexToken = 0 /\ \E f \in FlushCall : flush[f] = "token"
    \/ indexToken = 1 /\ Len(indexReplies) <= 1 /\ indexPc \notin {"stopped", "failed"}
    \/ indexReplies # <<>> /\ \E f \in FlushCall : flush[f] = "reply"

FlushesGoOn ==
    \A f \in FlushCall :
        /\ flush[f] \in {"tokens", "replies"} /\ AtMostTwoSend /\ ~NoWorker =>
              WorkerFlushGoesOn
        /\ flush[f] \in {"token", "reply"} => IndexFlushGoesOn

\* A put that was reported as successful stored its block, or found it
\* (TestPutGetStoredBlock gets the block back).
PutsStored == \A p \in Put : outcome[p] = "ok" => Hash[p] \in blobs

-----------------------------------------------------------------------------
(* The store of one process keeps the promise of module BlockStore.        *)

\* Blocks that a put of this process has passed on, or reported as stored,
\* although nothing tells that they are.
Unsure == unchecked \cup {Hash[p] : p \in failed}

\* A read-only store may answer from an index of its own, which it never saves.
SharedView == IF access = "ReadOnly" THEN {} ELSE AddTo(storeIndex, {})

Status == CASE closing = "done" -> "closed"
            [] closing = "died" -> "dead"
            [] OTHER -> "open"

OfThis(value, other) == [p \in {"this", "others"} |-> IF p = "this" THEN value ELSE other]

Promise == INSTANCE BlockStore WITH
    Process   <- {"this", "others"},
    stored    <- blobs,
    lost      <- OfThis(Unsure, Stale),
    listed    <- AddTo(lsi, {}),
    index     <- OfThis(SharedView, {}),
    completed <- OfThis(Completed, {}),
    status    <- OfThis(Status, "open")

\* A put goes on to the index only with a block that has a blob, or whose
\* Exists call failed, and store.lsi and the answers name no other block,
\* unless another process listed it so; no step takes a block out of
\* store.lsi; and Close returns only when store.lsi lists every block that was
\* put and not given up after four failed writes, and every block the process
\* has answered GetExistingContent with and which its caller therefore did not
\* upload.
KeepsPromise == Promise!Spec

-----------------------------------------------------------------------------
(* The inductive invariant.                                                *)

\* In a read-only store no put gets past its refusal, and nothing is added.
ReadOnlyRefuses ==
    access = "ReadOnly" =>
        /\ \A w \in Worker : pc[w] \notin {"write", "send", "answer"}
        /\ \A p \in Put : outcome[p] \notin {"open", "ok"}
        /\ blockIndexChan = <<>> /\ added = {} /\ ~save

SavedIndexIsValid == save => storeIndex # NoIndex

Saveable == InFlight \cup AddTo(lsi, {})

\* A put that is about to be answered was sent to the index worker.
AnswersAreTracked ==
    indexPc \notin {"error", "failed"} =>
        \A w \in Worker : pc[w] = "answer" => Hash[job[w]] \in Saveable

Exited == {w \in Worker : pc[w] = "exited"}

\* The results that Close waits for: one of each worker that has ended, then
\* that of the index worker.
ResultsCounted ==
    /\ closing \in {"open", "workers"} =>
          /\ Cardinality(Exited) = collected + Len(workerErrorChan)
          /\ indexPc \notin {"stopped", "failed"}
    /\ BlockIndexChanClosed => Exited = Worker
    /\ closing = "index" =>
          /\ indexPc \notin {"stopped", "failed"} => workerErrorChan = <<>>
          /\ indexPc = "stopped" => workerErrorChan = <<"nil">>
          /\ indexPc = "failed" => workerErrorChan = <<"error">>
    /\ closing = "done" => indexPc = "stopped"

\* The index worker stops with nothing left to save.
StoppedHasSaved ==
    indexPc = "stopped" /\ access # "ReadOnly" => InFlight \subseteq AddTo(lsi, {})

\* Where an index or a block index on its way may name a block from.
Known == blobs \cup Stale \cup unchecked

OnlyKnownBlocks ==
    /\ AddTo(lsi, Elements(blockIndexChan) \cup added) \subseteq Known
    /\ access # "ReadOnly" => AddTo(storeIndex, {}) \subseteq Known
    /\ \A w \in Worker : pc[w] = "send" => Hash[job[w]] \in blobs \cup unchecked

IndInv ==
    /\ TypeOK
    /\ ReadOnlyRefuses
    /\ SavedIndexIsValid
    /\ PutsTracked
    /\ AnswersAreTracked
    /\ ResultsCounted
    /\ StoppedHasSaved
    /\ OnlyKnownBlocks

Busy == {w \in Worker : pc[w] \in {"write", "send", "answer"}}

\* A put has one worker, which answers it once.
JobsAreOpen ==
    \A w \in Busy : /\ outcome[job[w]] = "open"
                    /\ \A v \in Busy : job[v] = job[w] => v = w

AnswersAreKnown ==
    \A w \in Worker : pc[w] = "answer" => Hash[job[w]] \in blobs \cup unchecked

\* What the index worker answers from and does not mean to save is listed.
AnsweredIsListed ==
    ~save /\ access # "ReadOnly" => AddTo(storeIndex, {}) \subseteq AddTo(lsi, {})

PromiseInv ==
    /\ IndInv
    /\ JobsAreOpen
    /\ AnswersAreKnown
    /\ AnsweredIsListed

\* What the index worker has received and not saved.
Received == added \cup (IF save THEN storeIndex ELSE {})

Replying == {f \in FlushCall : flush[f] = "reply"}

\* The token or the reply of each flush that waits for the index worker is on
\* its way, and no other one.
IndexFlushCounted ==
    /\ IsFiniteSet(Replying)
    /\ indexToken + Len(indexReplies) = Cardinality(Replying)

AloneIsOnly ==
    \A f, h \in FlushCall : FlushOpen(f) /\ due[f].alone /\ FlushOpen(h) => h = f

\* What a flush is to save stays in the hands of the index worker until it is
\* saved, which it is when the reply "ok" is sent.
DueIsSaved ==
    indexPc \notin {"error", "failed"} =>
        \A f \in FlushCall : due[f].alone =>
            /\ FlushOpen(f) => due[f].seen \subseteq Received \cup AddTo(lsi, {})
            /\ flush[f] = "reply" /\ indexReplies = <<"ok">> =>
                  due[f].seen \subseteq AddTo(lsi, {})
            /\ flush[f] = "ok" => due[f].seen \subseteq AddTo(lsi, {})

FlushesInv == IndexFlushCounted /\ AloneIsOnly /\ DueIsSaved

\* The tokens that flushes have sent to the workers, less the replies they
\* have received.
Sent ==
    {m \in FlushCall \X (1..Cardinality(Worker)) :
        \/ flush[m[1]] = "tokens" /\ m[2] <= counted[m[1]]
        \/ flush[m[1]] = "replies" /\ counted[m[1]] < m[2]}

Flushed == {w \in Worker : pc[w] = "flushed"}

\* Each is in the channel of tokens, with a worker, or in the channel of
\* replies, although neither says whose it is.
TokensCounted ==
    /\ IsFiniteSet(Sent)
    /\ Cardinality(Sent) = tokens + replies + Cardinality(Flushed)

CountsAreShort ==
    \A f \in FlushCall :
        /\ flush[f] \in {"tokens", "replies"} => counted[f] < Cardinality(Worker)
        /\ flush[f] = "unmade" => counted[f] = 0

FlushesAreInTime == \A f \in FlushCall : FlushOpen(f) => Open

TokensInv == TokensCounted /\ CountsAreShort /\ FlushesAreInTime
=============================================================================
