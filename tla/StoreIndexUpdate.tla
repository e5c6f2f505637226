-------------------------- MODULE StoreIndexUpdate --------------------------
(***************************************************************************)
(* Several longtail processes update one "store.lsi" object with the       *)
(* optimistic protocol of tryUpdateRemoteStoreIndex: lock the version      *)
(* (remember the object's generation), read, merge, write on condition     *)
(* that the generation is still the remembered one, and start over when it *)
(* is not.  A client is the contentIndexWorker of one process; its index   *)
(* and its saveStoreIndex flag survive from one update to the next.        *)
(*                                                                         *)
(* An index is the set of its blocks and MergeStoreIndex is set union.     *)
(* The object follows gcsstore.go: generation 0 stands for an object that  *)
(* does not exist, so that condition 0 is DoesNotExist and any other       *)
(* condition is GenerationMatch.                                           *)
(***************************************************************************)
EXTENDS Naturals

CONSTANTS Client,       \* processes that hold the remote store open
          Block,        \* block hashes
          MaxGeneration \* bound: no update starts at this generation

ASSUME BoundAssumption == MaxGeneration \in Nat

VARIABLES generation, \* generation of store.lsi, 0 when it does not exist
          stored,     \* blocks listed by store.lsi
          pc,         \* pc[c]: where c is in updateRemoteStoreIndex
          condition,  \* condition[c]: generation of c's last LockWriteVersion
          merged,     \* merged[c]: the index c is about to write
          storeIndex, \* storeIndex[c]: the index c holds in memory
          save,       \* save[c]: c's saveStoreIndex flag
          acked       \* history: blocks some update reported as saved

object == <<generation, stored>>
vars == <<object, pc, condition, merged, storeIndex, save, acked>>

Init ==
    /\ generation = 0
    /\ stored = {}
    /\ pc = [c \in Client |-> "idle"]
    /\ condition = [c \in Client |-> 0]
    /\ merged = [c \in Client |-> {}]
    /\ storeIndex = [c \in Client |-> {}]
    /\ save = [c \in Client |-> FALSE]
    /\ acked = {}

Exists == generation # 0

At(c, label) == pc[c] = label
GoTo(c, label) == pc' = [pc EXCEPT ![c] = label]

-----------------------------------------------------------------------------
(* The steps of one client.                                                *)

\* readStoreStoreIndex, for a client that holds no index yet.
LoadIndex(c) ==
    /\ At(c, "idle")
    /\ Exists
    /\ ~save[c]
    /\ storeIndex[c] = {}
    /\ storeIndex' = [storeIndex EXCEPT ![c] = stored]
    /\ UNCHANGED <<object, pc, condition, merged, save, acked>>

\* Blocks were added, or an earlier update failed: the index is to be saved.
BeginUpdate(c, new) ==
    /\ At(c, "idle")
    /\ generation < MaxGeneration
    /\ new # {} \/ save[c]
    /\ GoTo(c, "lock")
    /\ storeIndex' = [storeIndex EXCEPT ![c] = @ \cup new]
    /\ save' = [save EXCEPT ![c] = TRUE]
    /\ UNCHANGED <<object, condition, merged, acked>>

LockForgetsCondition(c) ==
    /\ At(c, "lock")
    /\ condition' = [condition EXCEPT ![c] = IF Exists THEN generation ELSE 0 - 1]
    /\ GoTo(c, IF Exists THEN "read" ELSE "write")
    /\ merged' = [merged EXCEPT ![c] = IF Exists THEN {} ELSE storeIndex[c]]
    /\ UNCHANGED <<object, storeIndex, save, acked>>

\* LockWriteVersion: without an object there is nothing to merge with.
LockWriteVersion(c) ==
    /\ At(c, "lock")
    /\ condition' = [condition EXCEPT ![c] = generation]
    /\ GoTo(c, IF Exists THEN "read" ELSE "write")
    /\ merged' = [merged EXCEPT ![c] = IF Exists THEN {} ELSE storeIndex[c]]
    /\ UNCHANGED <<object, storeIndex, save, acked>>

\* Read and MergeStoreIndex.  The newest object is read, which may be newer
\* than the one whose generation was locked.
ReadAndMerge(c) ==
    /\ At(c, "read")
    /\ merged' = [merged EXCEPT ![c] = storeIndex[c] \cup stored]
    /\ GoTo(c, "write")
    /\ UNCHANGED <<object, condition, storeIndex, save, acked>>

AcceptsAlways(c) == TRUE
AcceptsCreate(c) == condition[c] = 0 \/ condition[c] = generation

\* The service writes only when the generation is still the locked one.
Accepts(c) == condition[c] = generation

WriteObject(c) ==
    /\ At(c, "write")
    /\ Accepts(c)
    /\ generation' = generation + 1
    /\ stored' = merged[c]
    /\ GoTo(c, "idle")

\* After a merge the merged index becomes the caller's index; after a first
\* write an invalid index is returned and the caller keeps its own.
Returned(c) == IF condition[c] = 0 THEN storeIndex[c] ELSE merged[c]

WriteSucceeds(c) ==
    /\ WriteObject(c)
    /\ acked' = acked \cup storeIndex[c]
    /\ storeIndex' = [storeIndex EXCEPT ![c] = Returned(c)]
    /\ save' = [save EXCEPT ![c] = FALSE]
    /\ UNCHANGED <<condition, merged>>

\* The data is written but the update of its metadata fails: Write returns
\* (true, err), which the caller reports as a failed update.
WriteUnconfirmed(c) ==
    /\ WriteObject(c)
    /\ UNCHANGED <<condition, merged, storeIndex, save, acked>>

RetryWithoutRead(c) ==
    /\ At(c, "write")
    /\ condition' = [condition EXCEPT ![c] = generation]
    /\ UNCHANGED <<object, pc, merged, storeIndex, save, acked>>

\* Status 412, the condition does not hold, or 429, too many requests: Write
\* returns (false, nil) and the loop of updateRemoteStoreIndex starts over.
WriteRejected(c) ==
    /\ At(c, "write")
    /\ GoTo(c, "lock")
    /\ UNCHANGED <<object, condition, merged, storeIndex, save, acked>>

FailClearsFlag(c) ==
    /\ pc[c] \in {"lock", "read", "write"}
    /\ GoTo(c, "idle")
    /\ save' = [save EXCEPT ![c] = FALSE]
    /\ UNCHANGED <<object, condition, merged, storeIndex, acked>>

\* An error of LockWriteVersion, Read, the parser or Write with nothing
\* written ends the update; the saveStoreIndex flag stays up.
UpdateFails(c) ==
    /\ pc[c] \in {"lock", "read", "write"}
    /\ GoTo(c, "idle")
    /\ UNCHANGED <<object, condition, merged, storeIndex, save, acked>>

\* The process dies; another one starts in its place with nothing in memory.
Crash(c) ==
    /\ GoTo(c, "idle")
    /\ storeIndex' = [storeIndex EXCEPT ![c] = {}]
    /\ save' = [save EXCEPT ![c] = FALSE]
    /\ UNCHANGED <<object, condition, merged, acked>>

Next ==
    \E c \in Client :
        \/ LoadIndex(c)
        \/ \E new \in SUBSET Block : BeginUpdate(c, new)
        \/ LockWriteVersion(c)
        \/ ReadAndMerge(c)
        \/ WriteSucceeds(c)
        \/ WriteUnconfirmed(c)
        \/ WriteRejected(c)
        \/ UpdateFails(c)
        \/ Crash(c)

Safety == Init /\ [][Next]_vars

\* A started process keeps running, and the service does not answer 429 to
\* every attempt of a client for ever.
Fairness ==
    \A c \in Client :
        /\ WF_vars(LockWriteVersion(c))
        /\ WF_vars(ReadAndMerge(c))
        /\ WF_vars(WriteRejected(c) \/ WriteSucceeds(c))
        /\ SF_vars(WriteSucceeds(c))

Spec == Safety /\ Fairness

-----------------------------------------------------------------------------
(* Properties.                                                             *)

\* Every variable keeps its type.
TypeOK ==
    /\ generation \in Nat
    /\ stored \subseteq Block
    /\ pc \in [Client -> {"idle", "lock", "read", "write"}]
    /\ condition \in [Client -> Nat]
    /\ merged \in [Client -> SUBSET Block]
    /\ storeIndex \in [Client -> SUBSET Block]
    /\ save \in [Client -> BOOLEAN]
    /\ acked \subseteq Block

\* No lost update: a block that some client's update reported as saved is
\* listed by store.lsi ever after, whatever the other clients write
\* (tryUpdateRemoteStoreIndex merges with the generation it then replaces).
AckedKept == acked \subseteq stored

\* A client with nothing left to save holds no block that store.lsi does not
\* list: what GetExistingContent answers from such an index is a block every
\* other process finds too, even when failed or unconfirmed writes and other
\* clients' writes came in between.
SavedViewIsStored ==
    \A c \in Client : ~save[c] => storeIndex[c] \subseteq stored

\* store.lsi never loses a block in any step, also not in a step that
\* replaces it by an index merged earlier.
StoreNeverShrinks == [][stored \subseteq stored']_stored

\* The protocol implements the atomic union of SharedStoreIndex, and every
\* update returns: a conflict is retried only after another client's update
\* succeeded.
Shared == INSTANCE SharedStoreIndex
    WITH updating <- [c \in Client |-> pc[c] # "idle"]

UpdateIsAtomic == Shared!Spec

-----------------------------------------------------------------------------
(* The inductive invariant.                                                *)

\* A locked generation is a past one.
ConditionIsPast ==
    \A c \in Client : pc[c] \in {"read", "write"} => condition[c] <= generation

\* What a client would write under a condition that still holds is its own
\* index merged with the object as it is now.
MergeIsFresh ==
    \A c \in Client :
        pc[c] = "write" /\ condition[c] = generation
            => merged[c] = storeIndex[c] \cup stored

NothingBeforeFirstWrite == generation = 0 => stored = {}

IndInv ==
    /\ TypeOK
    /\ ConditionIsPast
    /\ MergeIsFresh
    /\ NothingBeforeFirstWrite
    /\ SavedViewIsStored
    /\ AckedKept
=============================================================================
