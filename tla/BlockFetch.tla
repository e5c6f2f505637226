---------------------------- MODULE BlockFetch ----------------------------
(***************************************************************************)
(* The read side of remoteStore: workers serve GetStoredBlock calls and    *)
(* prefetch preflighted blocks, and share the map prefetchBlocks under a   *)
(* mutex that is not held while a block is read from the blob store.       *)
(*                                                                         *)
(* The map entry of a block is "absent" (no key), "nil" (the key with a    *)
(* nil pointer: the block was handed out), "pending" (an entry without a   *)
(* block) or "ready" (an entry that holds the block); waiters[b] are the   *)
(* entry's completeCallbacks.  A channel is the set of the messages in it, *)
(* taken in any order.  Every block has size 1.  Put messages, which share *)
(* the workers but not this state, are in module RemoteStore; the closed   *)
(* put channel, which ends a worker, is here.                              *)
(***************************************************************************)
EXTENDS Naturals, Sequences, FiniteSets

CONSTANTS Worker,            \* goroutines running remoteWorker
          Block,             \* block hashes
          Get,               \* GetStoredBlock calls, each made at most once
          BlockOf,           \* BlockOf[g]: the block g asks for
          NoJob,             \* what a worker that reads nothing works on
          Preflighted,       \* blocks named by PreflightGet calls
          MaxPreflights,     \* bound: how often each of them is preflighted
          MayFail,           \* blocks whose read from the blob store may fail
          Concurrent,        \* blocks that several gets ask for at a time
          QuietCaller,       \* TRUE: Flush and Close only with no get open
          MaxPrefetchMemory, \* remoteStore.maxPrefetchMemory, in blocks
          MaxFlushes         \* bound: number of Flush calls

ASSUME FetchAssumption ==
    /\ IsFiniteSet(Worker)
    /\ BlockOf \in [Get -> Block]
    /\ Preflighted \subseteq Block
    /\ MayFail \subseteq Block
    /\ Concurrent \subseteq Block
    /\ QuietCaller \in BOOLEAN
    /\ MaxPreflights \in Nat
    /\ MaxPrefetchMemory \in Nat \ {0}
    /\ MaxFlushes \in Nat
    /\ NoJob \notin Get \cup Block

VARIABLES getChan,        \* getBlockChan
          prefetchChan,   \* prefetchBlockChan
          entry,          \* entry[b]: s.prefetchBlocks, see above
          waiters,        \* waiters[b]: completeCallbacks of b's entry
          prefetchMemory, \* s.prefetchMemory
          pc,             \* pc[w]: where worker w is in its loop
          job,            \* job[w]: the get or the block it reads for
          running,        \* running[w]: the loop variable "run"
          outcome,        \* outcome[g]: what OnComplete told the caller of g
          tokens,         \* number of messages in workerFlushChan
          replies,        \* number of messages in workerFlushReplyChan
          closed,         \* putBlockChan is closed
          preflights,     \* preflights[b]: how often b was preflighted
          flushes,        \* Flush calls made
          flushing,       \* a Flush call waits for its replies
          panicked,       \* a worker dereferenced a nil entry
          overlapped      \* history: a block was flushed while being read

map == <<entry, waiters, prefetchMemory>>
worker == <<pc, job, running>>
flushChans == <<tokens, replies>>
caller == <<closed, preflights, flushes, flushing>>
vars == <<getChan, prefetchChan, map, worker, outcome, flushChans, caller,
          panicked, overlapped>>

\* The labels of a worker: "top", the select with a default; "select" and
\* "selectNoPrefetch", the two blocking selects; "fetch" and "prefetch",
\* reading a block without the mutex; "exit" and "exited".
Label == {"top", "select", "selectNoPrefetch", "fetch", "prefetch",
          "exit", "exited"}
Selects == {"select", "selectNoPrefetch"}

Init ==
    /\ getChan = {}
    /\ prefetchChan = {}
    /\ entry = [b \in Block |-> "absent"]
    /\ waiters = [b \in Block |-> <<>>]
    /\ prefetchMemory = 0
    /\ pc = [w \in Worker |-> "top"]
    /\ job = [w \in Worker |-> NoJob]
    /\ running = [w \in Worker |-> TRUE]
    /\ outcome = [g \in Get |-> "unmade"]
    /\ tokens = 0
    /\ replies = 0
    /\ closed = FALSE
    /\ preflights = [b \in Block |-> 0]
    /\ flushes = 0
    /\ flushing = FALSE
    /\ panicked = FALSE
    /\ overlapped = FALSE

\* Worker w is at one of the labels, in a process that has not panicked.
At(w, labels) == ~panicked /\ pc[w] \in labels

Fetches(w, b) == pc[w] = "fetch" /\ BlockOf[job[w]] = b
Prefetches(w, b) == pc[w] = "prefetch" /\ job[w] = b
Reads(w, b) == Fetches(w, b) \/ Prefetches(w, b)

Elements(seq) == {seq[i] : i \in DOMAIN seq}

\* The process takes calls.
Open == ~panicked /\ ~closed

Quiet == \A g \in Get : outcome[g] # "open"

-----------------------------------------------------------------------------
(* The callers.                                                            *)

\* The share store above this one coalesces gets of one block, except of the
\* blocks in Concurrent.
GetStoredBlock(g) ==
    /\ Open
    /\ outcome[g] = "unmade"
    /\ QuietCaller => ~flushing
    /\ BlockOf[g] \in Concurrent \/
       \A h \in Get : BlockOf[h] = BlockOf[g] => outcome[h] # "open"
    /\ getChan' = getChan \cup {g}
    /\ outcome' = [outcome EXCEPT ![g] = "open"]
    /\ UNCHANGED <<prefetchChan, map, worker, flushChans, caller, panicked,
                   overlapped>>

\* The index worker pushes one hash of a PreflightGet call.
Preflight(b) ==
    /\ Open
    /\ preflights[b] < MaxPreflights
    /\ preflights' = [preflights EXCEPT ![b] = @ + 1]
    /\ prefetchChan' = prefetchChan \cup {b}
    /\ UNCHANGED <<getChan, map, worker, outcome, flushChans, closed, flushes,
                   flushing, panicked, overlapped>>

\* Flush sends every worker a token ...
Flush ==
    /\ Open
    /\ ~flushing
    /\ flushes < MaxFlushes
    /\ QuietCaller => Quiet
    /\ flushes' = flushes + 1
    /\ flushing' = TRUE
    /\ tokens' = Cardinality(Worker)
    /\ UNCHANGED <<getChan, prefetchChan, map, worker, outcome, replies,
                   closed, preflights, panicked, overlapped>>

AnyReplied == replies > 0
AllReplied == replies = Cardinality(Worker)

\* ... and waits for as many replies.
FlushReturns ==
    /\ ~panicked /\ flushing
    /\ AllReplied
    /\ replies' = 0
    /\ flushing' = FALSE
    /\ UNCHANGED <<getChan, prefetchChan, map, worker, outcome, tokens, closed,
                   preflights, flushes, panicked, overlapped>>

\* The first step of Close: close(s.putBlockChan).
Close ==
    /\ Open
    /\ QuietCaller => Quiet /\ ~flushing
    /\ closed' = TRUE
    /\ UNCHANGED <<getChan, prefetchChan, map, worker, outcome, flushChans,
                   preflights, flushes, flushing, panicked, overlapped>>

-----------------------------------------------------------------------------
(* The loop of remoteWorker.                                               *)

\* Where the loop goes on after w has handled a message.
NextRound(w) ==
    pc' = [pc EXCEPT ![w] = IF running[w] THEN "top" ELSE "exit"]

AlwaysPrefetch == "select"

BlockingSelect ==
    IF prefetchMemory < MaxPrefetchMemory THEN "select" ELSE "selectNoPrefetch"

\* The default case of the first select; prefetchMemory is looked at before
\* the worker blocks in the second one.
EnterSelect(w) ==
    /\ At(w, {"top"})
    /\ getChan = {}
    /\ ~closed
    /\ pc' = [pc EXCEPT ![w] = BlockingSelect]
    /\ UNCHANGED <<getChan, prefetchChan, map, job, running, outcome,
                   flushChans, caller, panicked, overlapped>>

\* The closed put channel, seen by the first select (the worker still goes
\* through the second one) or by the second (it leaves the loop).
SeeClosed(w) ==
    /\ closed
    /\ \/ At(w, {"top"}) /\ pc' = [pc EXCEPT ![w] = BlockingSelect]
       \/ At(w, Selects) /\ pc' = [pc EXCEPT ![w] = "exit"]
    /\ running' = [running EXCEPT ![w] = FALSE]
    /\ UNCHANGED <<getChan, prefetchChan, map, job, outcome, flushChans,
                   caller, panicked, overlapped>>

-----------------------------------------------------------------------------
(* fetchBlock.                                                             *)

\* OnComplete is called for the gets of seq, one after the other.
Complete(seq, result) ==
    LET calls(g) == {i \in DOMAIN seq : seq[i] = g} IN
    outcome' = [g \in Get |->
        IF calls(g) = {} THEN outcome[g]
        ELSE IF outcome[g] = "open" /\ \A i, j \in calls(g) : i = j THEN result
        ELSE "again"]

ReceiveGet(w, g) ==
    /\ At(w, {"top"} \cup Selects)
    /\ g \in getChan
    /\ getChan' = getChan \ {g}
    /\ UNCHANGED <<prefetchChan, running, flushChans, caller, panicked,
                   overlapped>>

\* The block was prefetched: hand it out.
TakePrefetched(w, g) ==
    /\ ReceiveGet(w, g)
    /\ entry[BlockOf[g]] = "ready"
    /\ entry' = [entry EXCEPT ![BlockOf[g]] = "nil"]
    /\ prefetchMemory' = prefetchMemory - 1
    /\ Complete(<<g>>, "block")
    /\ NextRound(w)
    /\ UNCHANGED <<waiters, job>>

HasKey(b) == entry[b] \in {"pending", "nil"}
BeingRead(b) == entry[b] = "pending"

\* Another worker reads the block: wait for it.
JoinWaiters(w, g) ==
    /\ ReceiveGet(w, g)
    /\ BeingRead(BlockOf[g])
    /\ waiters' = [waiters EXCEPT ![BlockOf[g]] = Append(@, g)]
    /\ NextRound(w)
    /\ UNCHANGED <<entry, prefetchMemory, job, outcome>>

\* Nobody reads it: start to, without holding the mutex.
StartFetch(w, g) ==
    /\ ReceiveGet(w, g)
    /\ entry[BlockOf[g]] \in {"absent", "nil"}
    /\ entry' = [entry EXCEPT ![BlockOf[g]] = "pending"]
    /\ pc' = [pc EXCEPT ![w] = "fetch"]
    /\ job' = [job EXCEPT ![w] = g]
    /\ UNCHANGED <<waiters, prefetchMemory, outcome>>

\* What getStoredBlock may return for b.
ReadResult(b) == IF b \in MayFail THEN {"block", "error"} ELSE {"block"}

ReadDone(w) ==
    /\ job' = [job EXCEPT ![w] = NoJob]
    /\ NextRound(w)
    /\ UNCHANGED <<getChan, prefetchChan, running, flushChans, caller,
                   overlapped>>

NotEmptied(b) == waiters
Emptied(b) == [waiters EXCEPT ![b] = <<>>]

OnlyItself(b, g) == <<g>>
AndItsWaiters(b, g) == Append(waiters[b], g)

\* The entry is locked again: its waiters and the get itself are answered.
FinishFetch(w, g, result) ==
    LET b == BlockOf[g] IN
    /\ At(w, {"fetch"}) /\ job[w] = g
    /\ entry[b] \in {"pending", "ready"}
    /\ entry' = [entry EXCEPT ![b] = "nil"]
    /\ waiters' = Emptied(b)
    /\ Complete(AndItsWaiters(b, g), result)
    /\ ReadDone(w)
    /\ UNCHANGED <<prefetchMemory, panicked>>

\* The block was handed out meanwhile: it is disposed, and the get itself is
\* not answered.
AbandonFetch(w, g) ==
    /\ At(w, {"fetch"}) /\ job[w] = g
    /\ entry[BlockOf[g]] = "nil"
    /\ ReadDone(w)
    /\ UNCHANGED <<map, outcome, panicked>>

\* A flush deleted the entry meanwhile: prefetchedBlock.completeCallbacks
\* dereferences nil and the process ends.
PanicInFetch(w, g) ==
    /\ At(w, {"fetch"}) /\ job[w] = g
    /\ entry[BlockOf[g]] = "absent"
    /\ panicked' = TRUE
    /\ UNCHANGED <<getChan, prefetchChan, map, worker, outcome, flushChans,
                   caller, overlapped>>

-----------------------------------------------------------------------------
(* prefetchBlock.                                                          *)

ReceivePrefetch(w, b) ==
    /\ At(w, {"select"})
    /\ b \in prefetchChan
    /\ prefetchChan' = prefetchChan \ {b}
    /\ UNCHANGED <<getChan, waiters, prefetchMemory, running, outcome,
                   flushChans, caller, panicked, overlapped>>

\* The key is there, be it with a nil pointer: nothing to do.
SkipPrefetch(w, b) ==
    /\ ReceivePrefetch(w, b)
    /\ entry[b] # "absent"
    /\ NextRound(w)
    /\ UNCHANGED <<entry, job>>

StartPrefetch(w, b) ==
    /\ ReceivePrefetch(w, b)
    /\ entry[b] = "absent"
    /\ entry' = [entry EXCEPT ![b] = "pending"]
    /\ pc' = [pc EXCEPT ![w] = "prefetch"]
    /\ job' = [job EXCEPT ![w] = b]

\* The read failed: the entry stays as it is.
PrefetchFails(w, b) ==
    /\ At(w, {"prefetch"}) /\ job[w] = b
    /\ "error" \in ReadResult(b)
    /\ ReadDone(w)
    /\ UNCHANGED <<map, outcome, panicked>>

\* The entry was flushed, or its block handed out: the block is disposed.
DiscardPrefetch(w, b) ==
    /\ At(w, {"prefetch"}) /\ job[w] = b
    /\ entry[b] \in {"absent", "nil"}
    /\ ReadDone(w)
    /\ UNCHANGED <<map, outcome, panicked>>

\* Nobody waits for the block: keep it.
KeepPrefetch(w, b) ==
    /\ At(w, {"prefetch"}) /\ job[w] = b
    /\ entry[b] \in {"pending", "ready"}
    /\ waiters[b] = <<>>
    /\ entry' = [entry EXCEPT ![b] = "ready"]
    /\ prefetchMemory' = prefetchMemory + 1
    /\ ReadDone(w)
    /\ UNCHANGED <<waiters, outcome, panicked>>

\* The waiters that prefetchBlock answers: copies for the callbacks 1 up to
\* len-2, counted from 0, and then the block itself for callback 0.
ServedByPrefetch(seq) == Append(SubSeq(seq, 2, Len(seq) - 1), seq[1])

\* The block is handed out to the waiters.
HandOverPrefetch(w, b) ==
    /\ At(w, {"prefetch"}) /\ job[w] = b
    /\ waiters[b] # <<>>
    /\ entry' = [entry EXCEPT ![b] = "nil"]
    /\ waiters' = Emptied(b)
    /\ Complete(ServedByPrefetch(waiters[b]), "block")
    /\ ReadDone(w)
    /\ UNCHANGED <<prefetchMemory, panicked>>

-----------------------------------------------------------------------------
(* flushPrefetch, for a token of Flush and at the end of a worker.         *)

\* The keys whose entry nobody waits for, those of reads in flight included.
Flushed == {b \in Block : entry[b] # "absent" /\ waiters[b] = <<>>}

FlushedEntries == Cardinality({b \in Flushed : entry[b] # "nil"})
NothingFreed == 0

\* The memory of the blocks that are disposed.
FlushedMemory == Cardinality({b \in Flushed : entry[b] = "ready"})

FlushPrefetch ==
    /\ prefetchChan' = {}
    /\ entry' = [b \in Block |-> IF b \in Flushed THEN "absent" ELSE entry[b]]
    /\ prefetchMemory' = prefetchMemory - FlushedMemory
    /\ overlapped' = (overlapped \/
         \E w \in Worker : \E b \in Flushed : Reads(w, b))
    /\ UNCHANGED <<getChan, waiters, job, running, outcome, caller, panicked>>

FlushWorker(w) ==
    /\ At(w, Selects)
    /\ tokens > 0
    /\ FlushPrefetch
    /\ tokens' = tokens - 1
    /\ replies' = replies + 1
    /\ NextRound(w)

ExitUnflushed(w) ==
    /\ At(w, {"exit"})
    /\ pc' = [pc EXCEPT ![w] = "exited"]
    /\ UNCHANGED <<getChan, prefetchChan, map, job, running, outcome,
                   flushChans, caller, panicked, overlapped>>

ExitWorker(w) ==
    /\ At(w, {"exit"})
    /\ FlushPrefetch
    /\ pc' = [pc EXCEPT ![w] = "exited"]
    /\ UNCHANGED flushChans

-----------------------------------------------------------------------------

WorkerStep(w) ==
    \/ EnterSelect(w)
    \/ SeeClosed(w)
    \/ \E g \in Get :
          \/ TakePrefetched(w, g)
          \/ JoinWaiters(w, g)
          \/ StartFetch(w, g)
          \/ \E result \in ReadResult(BlockOf[g]) : FinishFetch(w, g, result)
          \/ AbandonFetch(w, g)
          \/ PanicInFetch(w, g)
    \/ \E b \in Block :
          \/ SkipPrefetch(w, b)
          \/ StartPrefetch(w, b)
          \/ PrefetchFails(w, b)
          \/ DiscardPrefetch(w, b)
          \/ KeepPrefetch(w, b)
          \/ HandOverPrefetch(w, b)
    \/ FlushWorker(w)
    \/ ExitWorker(w)

CallerStep ==
    \/ \E g \in Get : GetStoredBlock(g)
    \/ \E b \in Preflighted : Preflight(b)
    \/ Flush
    \/ FlushReturns
    \/ Close

Next == CallerStep \/ \E w \in Worker : WorkerStep(w)

\* Goroutines are scheduled; callers may stop calling at any time.
Spec == /\ Init /\ [][Next]_vars
        /\ \A w \in Worker : WF_vars(WorkerStep(w))
        /\ WF_vars(FlushReturns)

-----------------------------------------------------------------------------
(* Properties.                                                             *)

\* Every variable keeps its type.
TypeOK ==
    /\ getChan \subseteq Get
    /\ prefetchChan \subseteq Block
    /\ entry \in [Block -> {"absent", "nil", "pending", "ready"}]
    /\ waiters \in [Block -> Seq(Get)]
    /\ prefetchMemory \in Nat
    /\ pc \in [Worker -> Label]
    /\ job \in [Worker -> Get \cup Block \cup {NoJob}]
    /\ running \in [Worker -> BOOLEAN]
    /\ outcome \in [Get -> {"unmade", "open", "block", "error", "again"}]
    /\ tokens \in Nat
    /\ replies \in Nat
    /\ closed \in BOOLEAN
    /\ preflights \in [Block -> Nat]
    /\ flushes \in Nat
    /\ flushing \in BOOLEAN
    /\ panicked \in BOOLEAN
    /\ overlapped \in BOOLEAN

\* OnComplete is called at most once for a get, whoever reads its block and
\* whatever was flushed meanwhile: the callback object is freed by its first
\* call (fetchBlock and prefetchBlock both empty the list they answer).
AnsweredAtMostOnce == \A g \in Get : outcome[g] # "again"

\* A get on the list of an entry is still open, and some worker reads the
\* block to answer it: no list outlives its reader.
WaitersHaveReader ==
    \A b \in Block : waiters[b] # <<>> =>
        /\ entry[b] = "pending"
        /\ \A g \in Elements(waiters[b]) : outcome[g] = "open"
        /\ \E w \in Worker : Reads(w, b)

\* A get that is not answered waits somewhere: in the channel, with a worker
\* that reads its block, or in the list of its block's entry, which has a
\* reader.  None falls between an emptied list and an entry that was handed
\* out, flushed or replaced (the early returns of fetchBlock and the answers
\* of prefetchBlock).
NoGetForgotten ==
    \A g \in Get : outcome[g] = "open" =>
        \/ g \in getChan
        \/ \E w \in Worker : pc[w] = "fetch" /\ job[w] = g
        \/ g \in Elements(waiters[BlockOf[g]])

\* A worker that reads a block for a get finds its entry again: neither a
\* flush nor a worker that ends deletes it (the dereference of
\* prefetchedBlock in fetchBlock).
NoPanic == ~panicked

Held == {b \in Block : entry[b] = "ready"}

\* prefetchMemory counts the blocks held in the map and never falls below
\* their number; only a flush that deletes an entry still being read can
\* leave it too high.
MemoryAccounted ==
    /\ prefetchMemory >= Cardinality(Held)
    /\ ~overlapped => prefetchMemory = Cardinality(Held)

\* The workers that may add a block before they look at prefetchMemory again.
MayAdd == {w \in Worker : pc[w] \in {"select", "prefetch"}}

\* The workers look at prefetchMemory before they block in select and not
\* when they take a prefetch: the limit is exceeded, but by less than one
\* block for each worker, however long each of them was blocked.
MemoryBounded ==
    prefetchMemory + Cardinality(MayAdd)
        < MaxPrefetchMemory + Cardinality(Worker)

\* When the last worker has ended no block is left in the map.
NothingHeldAfterClose ==
    (\A w \in Worker : pc[w] = "exited") => Held = {}

\* Every get is answered in the end, with the block or with an error, while
\* other workers prefetch the same block, flush it or end.
GetsAnswered ==
    \A g \in Get : outcome[g] = "open" ~> outcome[g] \in {"block", "error"}

-----------------------------------------------------------------------------
(* The inductive invariant.                                                *)

JobsAreTyped ==
    \A w \in Worker :
        /\ pc[w] = "fetch" => job[w] \in Get
        /\ pc[w] = "prefetch" => job[w] \in Block

ListsArePending == \A b \in Block : waiters[b] # <<>> => entry[b] = "pending"

\* A get that is still to be answered is in one place: in the channel, with
\* the worker that reads for it, or once in the list of its block.
WaitsInChannel(g) == g \in getChan
WaitsAt(g, w) == pc[w] = "fetch" /\ job[w] = g
WaitsInList(g, b, i) == i \in DOMAIN waiters[b] /\ waiters[b][i] = g

GetsAreInOnePlace ==
    \A g \in Get :
        /\ WaitsInChannel(g) => outcome[g] = "open"
        /\ \A w \in Worker : WaitsAt(g, w) =>
              /\ outcome[g] = "open" /\ ~WaitsInChannel(g)
              /\ \A v \in Worker : WaitsAt(g, v) => v = w
        /\ \A b \in Block : \A i \in DOMAIN waiters[b] : WaitsInList(g, b, i) =>
              /\ outcome[g] = "open" /\ ~WaitsInChannel(g)
              /\ BlockOf[g] = b
              /\ \A w \in Worker : ~WaitsAt(g, w)
              /\ \A j \in DOMAIN waiters[b] : WaitsInList(g, b, j) => i = j

\* Until a flush meets a read, each block has one reader at most, and its
\* entry waits for it.
ReadersAreAlone ==
    ~overlapped => \A w \in Worker : \A b \in Block : Reads(w, b) =>
        /\ entry[b] = "pending"
        /\ \A v \in Worker : Reads(v, b) => v = w

MemoryIsFinite == IsFiniteSet(Held)

IndInv ==
    /\ TypeOK /\ JobsAreTyped
    /\ ListsArePending
    /\ GetsAreInOnePlace /\ AnsweredAtMostOnce
    /\ ReadersAreAlone /\ MemoryIsFinite /\ MemoryAccounted
    /\ MemoryBounded
    /\ NothingHeldAfterClose

-----------------------------------------------------------------------------
(* Invariants under what the program's callers keep to.                    *)

\* The blocks that are preflighted are read without error.
PreflightsAreRead == Preflighted \cap MayFail = {}

\* ... and at most one get at a time asks for one of them.
PreflightsAreCoalesced == Preflighted \cap Concurrent = {}

PrefetchesArePreflighted ==
    /\ prefetchChan \subseteq Preflighted
    /\ \A w \in Worker : pc[w] = "prefetch" => job[w] \in Preflighted

PendingIsRead ==
    \A b \in Block : entry[b] = "pending" => \E w \in Worker : Reads(w, b)

ReadInv == PrefetchesArePreflighted /\ PendingIsRead

\* The tokens and replies of the flush that is under way.
FlushIsCounted ==
    tokens + replies = IF flushing THEN Cardinality(Worker) ELSE 0

EndingIsClosed == \A w \in Worker : ~running[w] \/ pc[w] = "exit" => closed

NoGetMeanwhile == flushing \/ closed => Quiet

FetchesHaveEntry ==
    \A w \in Worker : \A b \in Block : Fetches(w, b) => entry[b] # "absent"

QuietInv ==
    /\ FlushIsCounted /\ EndingIsClosed /\ NoGetMeanwhile
    /\ FetchesHaveEntry /\ NoPanic

OneGetAtATime ==
    \A g, h \in Get :
        /\ outcome[g] = "open" /\ outcome[h] = "open"
        /\ BlockOf[g] = BlockOf[h] /\ BlockOf[g] \notin Concurrent
        => g = h

HeldIsPreflighted == Held \subseteq Preflighted

\* Nobody hands out or replaces the entry of a block while a get's worker
\* reads it, a prefetch that outlived a flush included.
FetchesKeepEntry ==
    \A w \in Worker : \A b \in Block : Fetches(w, b) =>
        /\ entry[b] \in {"pending", "ready"}
        /\ \A v \in Worker : Fetches(v, b) => v = w

PlaceInv ==
    /\ OneGetAtATime /\ HeldIsPreflighted /\ FetchesKeepEntry
    /\ NoGetForgotten
=============================================================================
