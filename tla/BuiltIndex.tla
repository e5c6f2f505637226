----------------------------- MODULE BuiltIndex -----------------------------
(***************************************************************************)
(* What the rebuild of a store index promises its caller, getStoreIndex:   *)
(* the blocks that were stored at one moment of the call, whatever is      *)
(* written while it reads them, and nothing else.  Only a block whose blob *)
(* it gave up reading may be left out.  Module IndexRebuild implements it, *)
(* module RemoteStore relies on it.                                        *)
(***************************************************************************)

CONSTANT Block \* block hashes

VARIABLES stored,  \* blocks that are stored
          phase,   \* how far the call has got
          seen,    \* blocks that were stored when it listed the blobs
          givenUp, \* blocks that it gave up reading
          built    \* the index it returns

vars == <<stored, phase, seen, givenUp, built>>

Init ==
    /\ stored \in SUBSET Block
    /\ phase = "begun"
    /\ seen = {}
    /\ givenUp = {}
    /\ built = {}

\* Blocks are written all the time, and never deleted.
Store(b) ==
    /\ stored' = stored \cup {b}
    /\ UNCHANGED <<phase, seen, givenUp, built>>

List ==
    /\ phase = "begun"
    /\ phase' = "listed"
    /\ seen' = stored
    /\ UNCHANGED <<stored, givenUp, built>>

GiveUp(b) ==
    /\ phase = "listed"
    /\ givenUp' = givenUp \cup {b}
    /\ UNCHANGED <<stored, phase, seen, built>>

Return ==
    /\ phase = "listed"
    /\ phase' = "done"
    /\ built' \in SUBSET seen
    /\ seen \ givenUp \subseteq built'
    /\ UNCHANGED <<stored, seen, givenUp>>

Fail ==
    /\ phase \in {"begun", "listed"}
    /\ phase' = "failed"
    /\ UNCHANGED <<stored, seen, givenUp, built>>

Next == (\E b \in Block : Store(b) \/ GiveUp(b)) \/ List \/ Return \/ Fail

Spec == Init /\ [][Next]_vars
=============================================================================
