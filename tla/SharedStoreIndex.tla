-------------------------- MODULE SharedStoreIndex --------------------------
(***************************************************************************)
(* What the remote store promises about "store.lsi", the index object that *)
(* several longtail processes share without a lock server: an update is    *)
(* one atomic union of the updater's index into the shared index.  The     *)
(* protocol that keeps this promise with optimistic conditional writes is  *)
(* module StoreIndexUpdate.                                                *)
(***************************************************************************)

CONSTANTS Client, \* processes that hold the remote store open
          Block   \* block hashes

VARIABLES stored,     \* blocks listed by store.lsi
          updating,   \* updating[c]: c is inside updateRemoteStoreIndex
          storeIndex, \* storeIndex[c]: the index c holds in memory
          acked       \* history: blocks some update reported as saved

vars == <<stored, updating, storeIndex, acked>>

Init ==
    /\ stored = {}
    /\ updating = [c \in Client |-> FALSE]
    /\ storeIndex = [c \in Client |-> {}]
    /\ acked = {}

\* A client takes the current shared index as its own.
Load(c) ==
    /\ ~updating[c]
    /\ storeIndex' = [storeIndex EXCEPT ![c] = stored]
    /\ UNCHANGED <<stored, updating, acked>>

\* A client adds blocks to its index and starts to save it.
Begin(c) ==
    /\ ~updating[c]
    /\ \E new \in SUBSET Block :
          storeIndex' = [storeIndex EXCEPT ![c] = @ \cup new]
    /\ updating' = [updating EXCEPT ![c] = TRUE]
    /\ UNCHANGED <<stored, acked>>

\* The atomic update.  The caller's index may come back merged with what was
\* stored before.
Commit(c) ==
    /\ updating[c]
    /\ updating' = [updating EXCEPT ![c] = FALSE]
    /\ stored' = stored \cup storeIndex[c]
    /\ acked' = acked \cup storeIndex[c]
    /\ storeIndex' \in {storeIndex,
                        [storeIndex EXCEPT ![c] = @ \cup stored]}

\* An update that fails: the caller sees an error whether or not the object
\* was written.
Fail(c) ==
    /\ updating[c]
    /\ updating' = [updating EXCEPT ![c] = FALSE]
    /\ stored' \in {stored, stored \cup storeIndex[c]}
    /\ UNCHANGED <<storeIndex, acked>>

\* A process dies and another one starts with nothing in memory.
Crash(c) ==
    /\ updating' = [updating EXCEPT ![c] = FALSE]
    /\ storeIndex' = [storeIndex EXCEPT ![c] = {}]
    /\ UNCHANGED <<stored, acked>>

Next ==
    \E c \in Client : Load(c) \/ Begin(c) \/ Commit(c) \/ Fail(c) \/ Crash(c)

Finish(c) == Commit(c) \/ Fail(c)

Safety == Init /\ [][Next]_vars

\* Every update returns: updateRemoteStoreIndex does not retry for ever.
Spec == Safety /\ \A c \in Client : WF_vars(Finish(c))
=============================================================================
