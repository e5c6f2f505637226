----------------------------- MODULE BlockStore -----------------------------
(***************************************************************************)
(* What the block store promises the commands that open it, each in a      *)
(* process of its own: which blocks are stored, which ones a put lost,     *)
(* which ones store.lsi lists, and what a process that has closed its      *)
(* store may rely on.                                                      *)
(* Module RemoteStore, the goroutines and channels of one process,         *)
(* implements it; module Versions runs the commands over it.               *)
(***************************************************************************)

CONSTANTS Process, \* processes that open the store
          Block    \* block hashes

VARIABLES stored,    \* blocks that are stored
          lost,      \* lost[p]: blocks that p put without storing them, or
                     \* without knowing that it did
          listed,    \* blocks that store.lsi lists
          index,     \* index[p]: the store index that p answers from
          completed, \* completed[p]: blocks that p has put with success
          status     \* status[p]: state of the store that p has opened

storeVars == <<stored, lost, listed, index, completed, status>>

Lost == UNION {lost[p] : p \in Process}

Init ==
    /\ stored \in SUBSET Block
    /\ lost \in [Process -> SUBSET Block]
    /\ listed \in SUBSET (stored \cup Lost)
    /\ index = [p \in Process |-> {}]
    /\ completed = [p \in Process |-> {}]
    /\ status = [p \in Process |-> "open"]

\* A block is written, on its own or, by a process that is not among Process,
\* listed in the same step.
StoreBlock(b, listing) ==
    /\ stored' = stored \cup {b}
    /\ listed' = listed \cup listing
    /\ UNCHANGED <<lost, index, completed, status>>

\* The call that tells p whether a block is stored fails, or every call that
\* writes it does, the last of them perhaps after it wrote the block: the put
\* goes on as if the block were stored.
LoseBlock(p, b) ==
    /\ status[p] = "open"
    /\ lost' = [lost EXCEPT ![p] = @ \cup {b}]
    /\ stored' \in {stored, stored \cup {b}}
    /\ UNCHANGED <<listed, index, completed, status>>

\* A put returns success only for a block that is stored, or that its process
\* lost.
Complete(p, b) ==
    /\ status[p] = "open"
    /\ b \in stored \cup lost[p]
    /\ completed' = [completed EXCEPT ![p] = @ \cup {b}]
    /\ UNCHANGED <<stored, lost, listed, index, status>>

\* Process p loads, builds or saves an index: blocks are added to store.lsi,
\* none is ever removed, and view becomes the index of p.
UpdateIndex(p, blocks, view) ==
    /\ status[p] = "open"
    /\ blocks \cup view \subseteq stored \cup Lost
    /\ listed' = listed \cup blocks
    /\ index' = [index EXCEPT ![p] = view]
    /\ UNCHANGED <<stored, lost, completed, status>>

\* Close returns only when what p has put, and what p has answered with, is
\* listed; otherwise it ends the process.
Close(p) ==
    /\ status[p] = "open"
    /\ completed[p] \cup index[p] \subseteq listed
    /\ status' = [status EXCEPT ![p] = "closed"]
    /\ UNCHANGED <<stored, lost, listed, index, completed>>

Die(p) ==
    /\ status[p] = "open"
    /\ status' = [status EXCEPT ![p] = "dead"]
    /\ UNCHANGED <<stored, lost, listed, index, completed>>

Next ==
    \/ \E b \in Block : StoreBlock(b, {}) \/ StoreBlock(b, {b})
    \/ \E p \in Process :
          \/ \E b \in Block : LoseBlock(p, b) \/ Complete(p, b)
          \/ \E blocks, view \in SUBSET Block : UpdateIndex(p, blocks, view)
          \/ Close(p) \/ Die(p)

Spec == Init /\ [][Next]_storeVars
=============================================================================
