---------------------------- MODULE IndexRebuild ----------------------------
(***************************************************************************)
(* The store index is built from the stored blocks: the blobs are listed,  *)
(* and batches of goroutines, one per client of the blob store, read the   *)
(* block indexes, while other processes write more blocks.  Module         *)
(* RemoteStore takes the whole of it as one step (BuiltIndexes).           *)
(***************************************************************************)
EXTENDS Naturals, FiniteSets, SequencesExt

CONSTANTS Block,       \* block hashes
          Name,        \* blob names that end in ".lsb"
          PathOf,      \* GetBlockPath("chunks", hash)
          WorkerCount, \* clients, and goroutines of a batch
          Faults,      \* subset of {"list", "client", "exists", "read", "memory"}
          Absent, Empty, Junk, \* no blob, one of no bytes, one that is no block
          Nothing      \* an invalid block index

ASSUME RebuildAssumption ==
    /\ PathOf \in [Block -> Name]
    /\ \A b, c \in Block : PathOf[b] = PathOf[c] => b = c
    /\ IsFiniteSet(Name)
    /\ WorkerCount \in Nat \ {0}
    /\ {Absent, Empty, Junk, Nothing} \cap Block = {}

\* Reads of one blob before it is given up.
Attempts == 4

VARIABLES blobs,      \* blobs[n]: the block whose bytes the blob n holds
          pc,         \* the function that builds the index
          items,      \* names of the blobs that were listed
          clients,    \* clients that are open
          batchStart, \* items that were read in earlier batches
          wg,         \* the WaitGroup
          reader,     \* reader[n]: the goroutine that reads blob n
          client,     \* client[n]: the client it uses, its batchPos
          tries,      \* tries[n]: how often its read has failed
          batchBlockIndexes, \* of the batch, by batchPos
          storeIndex, \* blocks that the index lists
          listed      \* history: blocks that were stored under their names
                      \* when the blobs were listed

goroutine == <<reader, tries, wg, batchBlockIndexes>>
vars == <<blobs, pc, items, clients, batchStart, client, goroutine, storeIndex, listed>>

\* Blocks that are stored under their names.
Stored == {b \in Block : blobs[PathOf[b]] = b}

\* "unknown": it could not tell whether the blob exists.
Running == {"exists", "read"}
Ended == {"done", "unknown"}

Init ==
    /\ blobs \in [Name -> Block \cup {Absent, Empty, Junk}]
    /\ pc = "list"
    /\ items = <<>>
    /\ clients = 0
    /\ batchStart = 0
    /\ wg = 0
    /\ reader = [n \in Name |-> "none"]
    /\ client = [n \in Name |-> 0]
    /\ tries = [n \in Name |-> 0]
    /\ batchBlockIndexes = <<>>
    /\ storeIndex = {}
    /\ listed = {}

\* Another process writes a block; it never deletes one.
StoreBlock(b) ==
    /\ blobs[PathOf[b]] = Absent
    /\ blobs' = [blobs EXCEPT ![PathOf[b]] = b]
    /\ UNCHANGED <<pc, items, clients, batchStart, client, goroutine, storeIndex, listed>>

GetObjects ==
    /\ pc = "list"
    /\ items' \in SetToSeqs({n \in Name : blobs[n] \notin {Absent, Empty}})
    /\ listed' = Stored
    /\ pc' = "clients"
    /\ UNCHANGED <<blobs, clients, batchStart, client, goroutine, storeIndex>>

batchCount == IF WorkerCount > Len(items) THEN Len(items) ELSE WorkerCount

NewClients ==
    /\ pc = "clients"
    /\ clients' = batchCount
    /\ pc' = "batch"
    /\ UNCHANGED <<blobs, items, batchStart, client, goroutine, storeIndex, listed>>

batchLength ==
    IF batchStart + batchCount > Len(items) THEN Len(items) - batchStart ELSE batchCount

\* The names of a batch, by batchPos, counted from 1.
Batch == SubSeq(items, batchStart + 1, batchStart + batchLength)

StartBatch ==
    /\ pc = "batch"
    /\ batchStart < Len(items)
    /\ batchBlockIndexes' = [i \in 1..batchLength |-> Nothing]
    /\ wg' = wg + batchLength
    /\ reader' = [n \in Name |-> IF n \in Range(Batch) THEN "exists" ELSE reader[n]]
    /\ client' = [n \in Name |-> IF n \in Range(Batch)
                                 THEN CHOOSE i \in DOMAIN Batch : Batch[i] = n ELSE client[n]]
    /\ pc' = "wait"
    /\ UNCHANGED <<blobs, items, clients, batchStart, tries, storeIndex, listed>>

Unscanned == <<blobs, pc, items, clients, batchStart, client, storeIndex, listed>>

\* readBlobWithRetry: no blob that was listed has gone.
Exists(n) ==
    /\ reader[n] = "exists"
    /\ reader' = [reader EXCEPT ![n] = "read"]
    /\ UNCHANGED <<Unscanned, tries, wg, batchBlockIndexes>>

LeaveWithoutDone(n) ==
    /\ "exists" \in Faults
    /\ reader[n] = "exists"
    /\ reader' = [reader EXCEPT ![n] = "unknown"]
    /\ UNCHANGED <<Unscanned, tries, wg, batchBlockIndexes>>

ExistsFails(n) ==
    /\ "exists" \in Faults
    /\ reader[n] = "exists"
    /\ reader' = [reader EXCEPT ![n] = "unknown"]
    /\ wg' = wg - 1
    /\ UNCHANGED <<Unscanned, tries, batchBlockIndexes>>

GiveUpAtOnce(n) ==
    /\ "read" \in Faults
    /\ reader[n] = "read"
    /\ tries' = [tries EXCEPT ![n] = @ + 1]
    /\ reader' = [reader EXCEPT ![n] = "done"]
    /\ wg' = wg - 1
    /\ UNCHANGED <<Unscanned, batchBlockIndexes>>

ReadFails(n) ==
    /\ "read" \in Faults
    /\ reader[n] = "read"
    /\ tries' = [tries EXCEPT ![n] = @ + 1]
    /\ IF tries'[n] = Attempts
       THEN /\ reader' = [reader EXCEPT ![n] = "done"]
            /\ wg' = wg - 1
       ELSE UNCHANGED <<reader, wg>>
    /\ UNCHANGED <<Unscanned, batchBlockIndexes>>

AnyName(n) == blobs[n] \in Block

\* The block index can be read, and the blob has the name of the block.
Accepted(n) == blobs[n] \in Block /\ PathOf[blobs[n]] = n

Read(n) ==
    /\ reader[n] = "read"
    /\ reader' = [reader EXCEPT ![n] = "done"]
    /\ batchBlockIndexes' = [batchBlockIndexes EXCEPT ![client[n]] =
          IF Accepted(n) THEN blobs[n] ELSE @]
    /\ wg' = wg - 1
    /\ UNCHANGED <<Unscanned, tries>>

JoinAtOnce ==
    /\ pc = "wait"
    /\ pc' = "merge"
    /\ UNCHANGED <<blobs, items, clients, batchStart, client, goroutine, storeIndex, listed>>

\* wg.Wait()
Join ==
    /\ pc = "wait"
    /\ wg = 0
    /\ pc' = "merge"
    /\ UNCHANGED <<blobs, items, clients, batchStart, client, goroutine, storeIndex, listed>>

MergeWholeBatch ==
    /\ pc = "merge"
    /\ storeIndex' = storeIndex \cup (Range(batchBlockIndexes) \ {Nothing})
    /\ batchStart' = batchStart + batchCount
    /\ pc' = "batch"
    /\ UNCHANGED <<blobs, items, clients, client, goroutine, listed>>

KeepLastBatch ==
    /\ pc = "merge"
    /\ storeIndex' = Range(batchBlockIndexes) \ {Nothing}
    /\ batchStart' = batchStart + batchLength
    /\ pc' = "batch"
    /\ UNCHANGED <<blobs, items, clients, client, goroutine, listed>>

\* The valid block indexes of the batch make a store index, which is merged.
MergeBatch ==
    /\ pc = "merge"
    /\ storeIndex' = storeIndex \cup (Range(batchBlockIndexes) \ {Nothing})
    /\ batchStart' = batchStart + batchLength
    /\ pc' = "batch"
    /\ UNCHANGED <<blobs, items, clients, client, goroutine, listed>>

CloseClients ==
    /\ pc = "batch"
    /\ batchStart >= Len(items)
    /\ clients' = 0
    /\ pc' = "done"
    /\ UNCHANGED <<blobs, items, batchStart, client, goroutine, storeIndex, listed>>

\* Every error return gives up the index and leaves the clients open.
Fails ==
    /\ \/ pc = "list" /\ "list" \in Faults /\ UNCHANGED clients
       \/ pc = "clients" /\ "client" \in Faults /\ clients' \in {c \in 0..batchCount : c < batchCount}
       \/ pc = "merge" /\ "memory" \in Faults /\ UNCHANGED clients
    /\ storeIndex' = {}
    /\ pc' = "failed"
    /\ UNCHANGED <<blobs, items, batchStart, client, goroutine, listed>>

Scan(n) == Exists(n) \/ ExistsFails(n) \/ Read(n) \/ ReadFails(n)
Build == GetObjects \/ NewClients \/ StartBatch \/ Join \/ MergeBatch \/ CloseClients \/ Fails

Next == Build \/ (\E n \in Name : Scan(n)) \/ (\E b \in Block : StoreBlock(b))

\* The goroutines are scheduled.
Fairness == WF_vars(Build) /\ \A n \in Name : WF_vars(Scan(n))

Spec == Init /\ [][Next]_vars /\ Fairness

-----------------------------------------------------------------------------
(* Properties.                                                             *)

\* Every variable keeps its type; no batch starts behind the last item.
TypeOK ==
    /\ blobs \in [Name -> Block \cup {Absent, Empty, Junk}]
    /\ pc \in {"list", "clients", "batch", "wait", "merge", "done", "failed"}
    /\ items \in Seq(Name)
    /\ clients \in 0..WorkerCount
    /\ batchStart \in 0..Len(items)
    /\ wg \in 0..WorkerCount
    /\ reader \in [Name -> {"none"} \cup Running \cup Ended]
    /\ client \in [Name -> 0..WorkerCount]
    /\ tries \in [Name -> 0..Attempts]
    /\ batchBlockIndexes \in Seq(Block \cup {Nothing})
    /\ storeIndex \subseteq Block
    /\ listed \subseteq Block

\* The index that is built lists only blocks that are stored under their names,
\* although blobs may be copied under other names and blocks written meanwhile:
\* what RemoteStore takes the built index to be.
IndexIsStored == storeIndex \subseteq Stored

\* Blocks whose reads were given up: as often as the code tries they failed, or
\* it could not tell whether the blob exists.
GivenUp == {b \in Block : tries[PathOf[b]] = Attempts \/ reader[PathOf[b]] = "unknown"}

\* A block that was stored when the blobs were listed is in the index, or its
\* reader has failed as often as the code allows: none is lost by a partial
\* batch, by an invalid blob before it in the batch or by a failed read.
NothingSkipped == pc = "done" => listed \ storeIndex \subseteq GivenUp

\* No two goroutines use one client, or one place in the batch, at a time.
OneReaderPerClient ==
    \A n, m \in Name :
        n # m /\ reader[n] \in Running /\ reader[m] \in Running => client[n] # client[m]

\* The build ends, whichever reads fail: a goroutine that gives up is waited for
\* no longer.
BuildEnds == <>(pc \in {"done", "failed"})

-----------------------------------------------------------------------------
(* The rebuild keeps the promise of module BuiltIndex.                     *)

Phase == CASE pc = "list" -> "begun"
           [] pc \in {"done", "failed"} -> pc
           [] OTHER -> "listed"

Snapshot == INSTANCE BuiltIndex WITH
    stored  <- Stored,
    phase   <- Phase,
    seen    <- listed,
    givenUp <- GivenUp,
    built   <- IF pc = "done" THEN storeIndex ELSE {}

\* The goroutines of all batches together return what was stored at the one
\* moment at which the blobs were listed: nothing that was written while they
\* read, and everything else but the blocks whose reads were given up, which is
\* all of it when none was.
RebuildIsSnapshot == Snapshot!Spec

-----------------------------------------------------------------------------
(* The inductive invariant.                                                *)

Batching == pc \in {"wait", "merge"}

\* Every block that was stored when the blobs were listed is among the items.
ItemsAreListed ==
    /\ \A i, j \in DOMAIN items : items[i] = items[j] => i = j
    /\ listed \subseteq Stored
    /\ \A b \in listed : \E i \in DOMAIN items : items[i] = PathOf[b]
    /\ pc \in {"list", "clients"} => batchStart = 0
    /\ pc = "list" => items = <<>>

\* What is read is in the batch, each item at its place, and the items of
\* earlier batches have been read.
ReadersAreInBatch ==
    /\ Batching => batchStart < Len(items) /\ Len(batchBlockIndexes) = batchLength
    /\ pc = "done" => batchStart = Len(items)
    /\ \A n \in Name :
          /\ pc = "list" => reader[n] = "none"
          /\ reader[n] = "none" => tries[n] = 0
          /\ reader[n] \in Running =>
                /\ pc = "wait" /\ tries[n] < Attempts
                /\ client[n] \in 1..batchLength
                /\ items[batchStart + client[n]] = n
    /\ \A i \in DOMAIN items :
          /\ i <= batchStart => reader[items[i]] \in Ended
          /\ Batching /\ batchStart < i /\ i <= batchStart + batchLength =>
                reader[items[i]] # "none" /\ client[items[i]] = i - batchStart
          /\ pc # "failed" /\ i > batchStart + (IF Batching THEN batchLength ELSE 0) =>
                reader[items[i]] = "none"

Readers == {n \in Name : reader[n] \in Running}

WaitGroupCounts == wg = Cardinality(Readers)

Readable(b) == reader[PathOf[b]] = "done" /\ tries[PathOf[b]] # Attempts

\* What has been read is at its place of the batch, and then in the index.
ReadsAreKept ==
    /\ \A k \in DOMAIN batchBlockIndexes :
          batchBlockIndexes[k] \in Stored \cup {Nothing}
    /\ Batching => \A b \in listed : \A k \in 1..batchLength :
          items[batchStart + k] = PathOf[b] /\ Readable(b) => batchBlockIndexes[k] = b
    /\ pc # "failed" => \A b \in listed : \A i \in 1..batchStart :
          items[i] = PathOf[b] /\ Readable(b) => b \in storeIndex

IndInv ==
    /\ TypeOK
    /\ ItemsAreListed
    /\ ReadersAreInBatch
    /\ WaitGroupCounts
    /\ ReadsAreKept
    /\ IndexIsStored

\* A blob that is listed is never written again, so that what is read was
\* stored when it was listed.
OnlyListedRead ==
    /\ \A i \in DOMAIN items : blobs[items[i]] # Absent
    /\ \A b \in Stored :
          (\E i \in DOMAIN items : items[i] = PathOf[b]) => b \in listed
    /\ Range(batchBlockIndexes) \subseteq listed \cup {Nothing}
    /\ storeIndex \subseteq listed
=============================================================================
