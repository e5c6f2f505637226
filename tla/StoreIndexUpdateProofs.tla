----------------------- MODULE StoreIndexUpdateProofs -----------------------
(***************************************************************************)
(* Proofs about StoreIndexUpdate for any number of clients and blocks.     *)
(* AckedKept is not inductive: that a replacing write keeps what is stored *)
(* follows from MergeIsFresh, which in turn needs ConditionIsPast, since a *)
(* write makes every condition locked earlier fail for ever.               *)
(***************************************************************************)
EXTENDS StoreIndexUpdate, TLAPS

\* The initial state satisfies the inductive invariant.
LEMMA InitInv == Init => IndInv
  BY DEF Init, IndInv, TypeOK, ConditionIsPast, MergeIsFresh,
         NothingBeforeFirstWrite, SavedViewIsStored, AckedKept

\* A write under a condition that holds adds the writer's index to what was
\* stored and takes nothing away (gcsBlobObject.Write after a merge).
LEMMA AcceptedWriteIsUnion ==
  ASSUME IndInv, NEW c \in Client, WriteObject(c)
  PROVE  /\ stored' = stored \cup storeIndex[c]
         /\ generation' = generation + 1
         /\ merged[c] = storeIndex[c] \cup stored
  BY DEF IndInv, MergeIsFresh, WriteObject, Accepts, At

\* After an accepted write no condition locked before it holds any more.
LEMMA WriteInvalidatesConditions ==
  ASSUME IndInv, NEW c \in Client, WriteObject(c), UNCHANGED condition
  PROVE  /\ ConditionIsPast'
         /\ \A d \in Client :
               pc'[d] = "write" => condition'[d] # generation'
<1>1. TypeOK /\ ConditionIsPast
  BY DEF IndInv
<1>2. pc' = [pc EXCEPT ![c] = "idle"] /\ generation' = generation + 1
  BY DEF WriteObject, GoTo
<1>3. ASSUME NEW d \in Client, pc'[d] \in {"read", "write"}
      PROVE  condition'[d] <= generation
  BY <1>1, <1>2, <1>3 DEF TypeOK, ConditionIsPast
<1>4. QED
  BY <1>1, <1>2, <1>3 DEF TypeOK, ConditionIsPast

\* Every step preserves the inductive invariant.
LEMMA NextInv == IndInv /\ [Next]_vars => IndInv'
<1> SUFFICES ASSUME IndInv, [Next]_vars
             PROVE  IndInv'
  OBVIOUS
<1> USE DEF IndInv, TypeOK
<1>1. ASSUME NEW c \in Client, LoadIndex(c)
      PROVE  IndInv'
  BY <1>1 DEF LoadIndex, At, object, ConditionIsPast, MergeIsFresh,
       NothingBeforeFirstWrite, SavedViewIsStored, AckedKept
<1>2. ASSUME NEW c \in Client, NEW new \in SUBSET Block, BeginUpdate(c, new)
      PROVE  IndInv'
  BY <1>2 DEF BeginUpdate, At, GoTo, object, ConditionIsPast, MergeIsFresh,
       NothingBeforeFirstWrite, SavedViewIsStored, AckedKept
<1>3. ASSUME NEW c \in Client, LockWriteVersion(c)
      PROVE  IndInv'
  BY <1>3 DEF LockWriteVersion, At, GoTo, Exists, object, ConditionIsPast,
       MergeIsFresh, NothingBeforeFirstWrite, SavedViewIsStored, AckedKept
<1>4. ASSUME NEW c \in Client, ReadAndMerge(c)
      PROVE  IndInv'
  BY <1>4 DEF ReadAndMerge, At, GoTo, object, ConditionIsPast, MergeIsFresh,
       NothingBeforeFirstWrite, SavedViewIsStored, AckedKept
<1>5. ASSUME NEW c \in Client, WriteSucceeds(c)
      PROVE  IndInv'
  <2>1. WriteObject(c) /\ UNCHANGED <<condition, merged>>
    BY <1>5 DEF WriteSucceeds
  <2>2. /\ stored' = stored \cup storeIndex[c]
        /\ generation' = generation + 1
        /\ merged[c] = storeIndex[c] \cup stored
    BY <2>1, AcceptedWriteIsUnion
  <2>3. ConditionIsPast' /\ MergeIsFresh'
    BY <2>1, WriteInvalidatesConditions DEF MergeIsFresh
  <2>4. Returned(c) \in {storeIndex[c], merged[c]}
    BY DEF Returned
  <2>5. TypeOK'
    BY <1>5, <2>2, <2>4 DEF WriteSucceeds, WriteObject, GoTo
  <2>6. SavedViewIsStored'
    BY <1>5, <2>2, <2>4 DEF WriteSucceeds, SavedViewIsStored
  <2>7. AckedKept' /\ NothingBeforeFirstWrite'
    BY <1>5, <2>2 DEF WriteSucceeds, AckedKept, NothingBeforeFirstWrite
  <2>8. QED
    BY <2>3, <2>5, <2>6, <2>7
<1>6. ASSUME NEW c \in Client, WriteUnconfirmed(c)
      PROVE  IndInv'
  <2>1. WriteObject(c) /\ UNCHANGED <<condition, merged, storeIndex, save, acked>>
    BY <1>6 DEF WriteUnconfirmed
  <2>2. stored' = stored \cup storeIndex[c] /\ generation' = generation + 1
    BY <2>1, AcceptedWriteIsUnion
  <2>3. ConditionIsPast' /\ MergeIsFresh'
    BY <2>1, WriteInvalidatesConditions DEF MergeIsFresh
  <2>4. TypeOK'
    BY <2>1, <2>2 DEF WriteObject, GoTo
  <2>5. QED
    BY <2>1, <2>2, <2>3, <2>4
       DEF SavedViewIsStored, AckedKept, NothingBeforeFirstWrite
<1>7. ASSUME NEW c \in Client, WriteRejected(c)
      PROVE  IndInv'
  BY <1>7 DEF WriteRejected, At, GoTo, object, ConditionIsPast, MergeIsFresh,
       NothingBeforeFirstWrite, SavedViewIsStored, AckedKept
<1>8. ASSUME NEW c \in Client, UpdateFails(c)
      PROVE  IndInv'
  BY <1>8 DEF UpdateFails, GoTo, object, ConditionIsPast, MergeIsFresh,
       NothingBeforeFirstWrite, SavedViewIsStored, AckedKept
<1>9. ASSUME NEW c \in Client, Crash(c)
      PROVE  IndInv'
  BY <1>9 DEF Crash, GoTo, object, ConditionIsPast, MergeIsFresh,
       NothingBeforeFirstWrite, SavedViewIsStored, AckedKept
<1>10. CASE UNCHANGED vars
  BY <1>10 DEF vars, object, ConditionIsPast, MergeIsFresh,
       NothingBeforeFirstWrite, SavedViewIsStored, AckedKept
<1>11. QED
  BY <1>1, <1>2, <1>3, <1>4, <1>5, <1>6, <1>7, <1>8, <1>9, <1>10 DEF Next

\* The inductive invariant holds in every reachable state.
THEOREM Invariance == Safety => []IndInv
  BY InitInv, NextInv, PTL DEF Safety

\* The variables of the update protocol keep their types.
THEOREM TypeCorrect == Spec => []TypeOK
<1>1. IndInv => TypeOK
  BY DEF IndInv
<1>2. QED
  BY <1>1, Invariance, PTL DEF Spec

\* No update reported as saved is ever lost from store.lsi, for any number
\* of processes (tryUpdateRemoteStoreIndex).
THEOREM NoLostUpdate == Spec => []AckedKept
<1>1. IndInv => AckedKept
  BY DEF IndInv
<1>2. QED
  BY <1>1, Invariance, PTL DEF Spec

\* A client with saveStoreIndex down holds only blocks that store.lsi lists.
THEOREM SavedViews == Spec => []SavedViewIsStored
<1>1. IndInv => SavedViewIsStored
  BY DEF IndInv
<1>2. QED
  BY <1>1, Invariance, PTL DEF Spec

\* Only an accepted write changes what is stored, and it takes nothing away.
LEMMA StepKeepsStored == IndInv /\ [Next]_vars => stored \subseteq stored'
<1> SUFFICES ASSUME IndInv, [Next]_vars
             PROVE  stored \subseteq stored'
  OBVIOUS
<1>1. ASSUME NEW c \in Client, WriteObject(c)
      PROVE  stored \subseteq stored'
  BY <1>1, AcceptedWriteIsUnion
<1>2. CASE \E c \in Client : WriteSucceeds(c) \/ WriteUnconfirmed(c)
  BY <1>1, <1>2 DEF WriteSucceeds, WriteUnconfirmed
<1>3. CASE UNCHANGED stored
  BY <1>3
<1>4. (\E c \in Client : WriteSucceeds(c) \/ WriteUnconfirmed(c)) \/ UNCHANGED stored
  BY DEF Next, vars, object, LoadIndex, BeginUpdate, LockWriteVersion,
         ReadAndMerge, WriteRejected, UpdateFails, Crash
<1>5. QED
  BY <1>2, <1>3, <1>4

\* store.lsi only grows, for any number of processes.
THEOREM GrowOnly == Spec => StoreNeverShrinks
<1>1. IndInv /\ [Next]_vars => [stored \subseteq stored']_stored
  BY StepKeepsStored
<1>2. QED
  BY <1>1, Invariance, PTL DEF Spec, Safety, StoreNeverShrinks

-----------------------------------------------------------------------------
(* The protocol implements the atomic index of SharedStoreIndex.           *)

updating == [c \in Client |-> pc[c] # "idle"]

\* A step that sends client c to another label changes its updating flag and
\* no other.
LEMMA UpdatingAfterGoTo ==
  ASSUME TypeOK, NEW c \in Client, NEW label, GoTo(c, label)
  PROVE  updating' = [updating EXCEPT ![c] = (label # "idle")]
<1>1. pc' = [pc EXCEPT ![c] = label] /\ pc \in [Client -> {"idle", "lock", "read", "write"}]
  BY DEF GoTo, TypeOK
<1>2. ASSUME NEW d \in Client
      PROVE  (pc'[d] # "idle") <=> (IF d = c THEN label # "idle" ELSE pc[d] # "idle")
  BY <1>1
<1>3. updating' = [d \in Client |-> pc'[d] # "idle"]
  BY DEF updating
<1>4. [updating EXCEPT ![c] = (label # "idle")]
      = [d \in Client |-> IF d = c THEN label # "idle" ELSE pc[d] # "idle"]
  BY Zenon DEF updating
<1>5. QED
  BY <1>2, <1>3, <1>4, Zenon

\* A step between two labels that are not "idle" keeps every updating flag.
LEMMA UpdatingKept ==
  ASSUME TypeOK, NEW c \in Client, NEW label, GoTo(c, label),
         pc[c] # "idle", label # "idle"
  PROVE  UNCHANGED updating
<1>1. updating' = [updating EXCEPT ![c] = (label # "idle")]
  BY UpdatingAfterGoTo
<1>2. updating[c] <=> (label # "idle")
  BY Zenon DEF updating
<1>3. QED
  BY <1>1, <1>2, Zenon DEF updating

\* Every step of the protocol is a step of the atomic index or leaves it
\* alone: the accepted write is the atomic union, a rejected one is nothing.
LEMMA StepImplements == IndInv /\ [Next]_vars => [Shared!Next]_(Shared!vars)
<1> SUFFICES ASSUME IndInv, [Next]_vars
             PROVE  Shared!Next \/ UNCHANGED Shared!vars
  OBVIOUS
<1>0. TypeOK
  BY DEF IndInv
<1>a. Shared!vars = <<stored, updating, storeIndex, acked>>
  BY DEF Shared!vars, updating
<1>1. ASSUME NEW c \in Client, LoadIndex(c)
      PROVE  Shared!Load(c)
  BY <1>1, Zenon DEF LoadIndex, At, object, Shared!Load
<1>2. ASSUME NEW c \in Client, NEW new \in SUBSET Block, BeginUpdate(c, new)
      PROVE  Shared!Begin(c)
  <2>1. updating' = [updating EXCEPT ![c] = TRUE]
    <3>1. GoTo(c, "lock")
      BY <1>2 DEF BeginUpdate
    <3>2. updating' = [updating EXCEPT ![c] = ("lock" # "idle")]
      BY <1>0, <3>1, UpdatingAfterGoTo
    <3>3. ("lock" # "idle") = TRUE
      OBVIOUS
    <3>4. QED
      BY <3>2, <3>3, Zenon
  <2>2. ~updating[c]
    BY <1>2, Zenon DEF updating, BeginUpdate, At
  <2>3. QED
    BY <1>2, <2>1, <2>2, Zenon DEF BeginUpdate, Shared!Begin, updating, object
<1>3. ASSUME NEW c \in Client, LockWriteVersion(c)
      PROVE  UNCHANGED Shared!vars
  <2>1. PICK label \in {"read", "write"} : GoTo(c, label)
    BY <1>3 DEF LockWriteVersion
  <2>2. UNCHANGED updating
    BY <1>0, <1>3, <2>1, UpdatingKept DEF LockWriteVersion, At
  <2>3. QED
    BY <1>3, <1>a, <2>2 DEF LockWriteVersion, object, updating, Shared!vars
<1>4. ASSUME NEW c \in Client, ReadAndMerge(c)
      PROVE  UNCHANGED Shared!vars
  <2>1. UNCHANGED updating
    BY <1>0, <1>4, UpdatingKept DEF ReadAndMerge, At
  <2>2. QED
    BY <1>4, <2>1 DEF ReadAndMerge, object, updating, Shared!vars
<1>5. ASSUME NEW c \in Client, WriteObject(c)
      PROVE  /\ updating[c]
             /\ updating' = [updating EXCEPT ![c] = FALSE]
             /\ stored' = stored \cup storeIndex[c]
             /\ merged[c] = storeIndex[c] \cup stored
  <2>1. updating' = [updating EXCEPT ![c] = FALSE]
    BY <1>0, <1>5, UpdatingAfterGoTo DEF WriteObject
  <2>2. updating[c]
    BY <1>5, Zenon DEF updating, WriteObject, At
  <2>3. QED
    BY <1>5, <2>1, <2>2, AcceptedWriteIsUnion
<1>6. ASSUME NEW c \in Client, WriteSucceeds(c)
      PROVE  Shared!Commit(c)
  <2>1. storeIndex' \in {storeIndex, [storeIndex EXCEPT ![c] = @ \cup stored]}
    BY <1>0, <1>5, <1>6 DEF WriteSucceeds, Returned, TypeOK
  <2>2. acked' = acked \cup storeIndex[c]
    BY <1>6 DEF WriteSucceeds
  <2>3. WriteObject(c)
    BY <1>6 DEF WriteSucceeds
  <2>4. QED
    BY <1>5, <2>1, <2>2, <2>3, Zenon DEF Shared!Commit, updating
<1>7. ASSUME NEW c \in Client, WriteUnconfirmed(c)
      PROVE  Shared!Fail(c)
  <2>1. WriteObject(c) /\ UNCHANGED <<storeIndex, acked>>
    BY <1>7 DEF WriteUnconfirmed
  <2>2. QED
    BY <1>5, <2>1, Zenon DEF Shared!Fail, updating
<1>8. ASSUME NEW c \in Client, WriteRejected(c)
      PROVE  UNCHANGED Shared!vars
  <2>1. UNCHANGED updating
    BY <1>0, <1>8, UpdatingKept DEF WriteRejected, At
  <2>2. QED
    BY <1>8, <2>1 DEF WriteRejected, object, updating, Shared!vars
<1>9. ASSUME NEW c \in Client, UpdateFails(c)
      PROVE  Shared!Fail(c)
  <2>1. updating' = [updating EXCEPT ![c] = FALSE]
    BY <1>0, <1>9, UpdatingAfterGoTo DEF UpdateFails
  <2>2. updating[c]
    BY <1>9 DEF updating, UpdateFails
  <2>3. QED
    BY <1>9, <2>1, <2>2, Zenon DEF UpdateFails, Shared!Fail, updating, object
<1>10. ASSUME NEW c \in Client, Crash(c)
       PROVE  Shared!Crash(c)
  <2>1. updating' = [updating EXCEPT ![c] = FALSE]
    BY <1>0, <1>10, UpdatingAfterGoTo DEF Crash
  <2>2. QED
    BY <1>10, <2>1, Zenon DEF Crash, Shared!Crash, updating, object
<1>11. CASE UNCHANGED vars
  BY <1>11 DEF vars, object, Shared!vars
<1>12. QED
  BY <1>1, <1>2, <1>3, <1>4, <1>6, <1>7, <1>8, <1>9, <1>10, <1>11
     DEF Next, Shared!Next

\* Seen through store.lsi, a client's index and whether it is updating, the
\* optimistic protocol is an atomic union, for any number of processes.
THEOREM Implementation == Safety => Shared!Safety
<1>1. Init => Shared!Init
  BY DEF Init, Shared!Init
<1>2. QED
  BY <1>1, StepImplements, Invariance, PTL DEF Safety, Shared!Safety
=============================================================================
