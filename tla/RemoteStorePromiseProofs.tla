---------------------- MODULE RemoteStorePromiseProofs ----------------------
(***************************************************************************)
(* RemoteStore implements BlockStore, for any number of workers, puts,     *)
(* asks, flushes and blocks, any capacity of blockIndexChan and any faults.*)
(***************************************************************************)
EXTENDS RemoteStoreProofs


-----------------------------------------------------------------------------
(* The additional invariants.                                              *)

LEMMA InitPromise == Init => PromiseInv
<1> SUFFICES ASSUME Init PROVE PromiseInv
  OBVIOUS
<1>1. pc \in [Worker -> {"top", "exited"}]
  BY DEF Init
<1>2. JobsAreOpen /\ AnswersAreKnown
  BY <1>1 DEF JobsAreOpen, Busy, AnswersAreKnown
<1>3. AnsweredIsListed
  BY DEF Init, AnsweredIsListed, AddTo
<1> QED
  BY <1>2, <1>3, InitInv DEF PromiseInv

\* A worker takes a put that no other worker has, and lets it go when it
\* answers.
LEMMA WorkerJobs ==
  ASSUME PromiseInv, NEW w \in Worker, WorkerStep(w)
  PROVE  JobsAreOpen'
<1> USE DEF PromiseInv, IndInv, TypeOK, WorkerAt, GoTo, JobsAreOpen, Busy
<1>1. CASE EnterSelect(w) \/ FlushWorker(w) \/ ReplyFlush(w) \/ StopWorker(w)
  BY <1>1 DEF EnterSelect, FlushWorker, ReplyFlush, LeaveFlush, StopWorker
<1>2. ASSUME NEW p \in Put, RefusePut(w, p)
      PROVE  JobsAreOpen'
  BY <1>2 DEF RefusePut
<1>3. ASSUME NEW p \in Put, TakePut(w, p)
      PROVE  JobsAreOpen'
  <2>1. /\ outcome[p] = "queued"
        /\ outcome' = [outcome EXCEPT ![p] = "open"]
        /\ job' = [job EXCEPT ![w] = p]
        /\ \E l \in {"send", "write"} : pc' = [pc EXCEPT ![w] = l]
    BY <1>3 DEF TakePut, StartPut
  <2>2. \A v \in Busy : job[v] # p
    BY <2>1
  <2> QED
    BY <2>1, <2>2
<1>4. CASE WriteBlock(w) \/ SendBlockIndex(w)
  BY <1>4 DEF WriteBlock, StoreBlob, SendBlockIndex, Send
<1>5. CASE WriteFails(w) \/ PutFails(w) \/ AnswerPut(w)
  <2>1. w \in Busy
    BY <1>5 DEF WriteFails, PutFails, AnswerPut
  <2>2. /\ \E result : outcome' = [outcome EXCEPT ![job[w]] = result]
        /\ job' = [job EXCEPT ![w] = NoPut]
        /\ pc' = [pc EXCEPT ![w] = "top"]
    BY <1>5 DEF WriteFails, PutFails, AnswerPut, Answer
  <2>3. \A v \in Busy' : v \in Busy /\ v # w /\ job'[v] = job[v]
    BY <2>2
  <2> QED
    BY <2>1, <2>2, <2>3
<1> QED
  BY <1>1, <1>2, <1>3, <1>4, <1>5 DEF WorkerStep

LEMMA WorkerPromise ==
  ASSUME PromiseInv, NEW w \in Worker, WorkerStep(w)
  PROVE  PromiseInv'
<1> USE DEF PromiseInv
<1>1. AnswersAreKnown'
  <2> SUFFICES ASSUME NEW v \in Worker, pc'[v] = "answer"
               PROVE  Hash[job'[v]] \in (blobs \cup unchecked)'
    BY DEF AnswersAreKnown
  <2>1. /\ job'[v] = job[v]
        /\ pc[v] = "answer" \/ (v = w /\ SendBlockIndex(w))
    BY WorkerMoves DEF IndInv
  <2>2. Hash[job[v]] \in blobs \cup unchecked
    BY <2>1 DEF AnswersAreKnown, IndInv, OnlyKnownBlocks, SendBlockIndex, Send, WorkerAt
  <2> QED
    BY <2>1, <2>2, WorkerStored DEF IndInv
<1>2. AnsweredIsListed'
  BY WorkerKeeps DEF AnsweredIsListed, indexer
<1> QED
  BY <1>1, <1>2, WorkerInv, WorkerJobs

\* However the index is obtained, store.lsi has it, or it is to be saved.
LEMMA ObtainedIsListed ==
  ASSUME PromiseInv, GetStoreIndex, access # "ReadOnly", ~save'
  PROVE  AddTo(storeIndex', {}) \subseteq AddTo(lsi', {})
<1> USE DEF PromiseInv, IndInv, TypeOK
<1>1. ASSUME NEW index, NEW flag, NEW stored, Obtain(index, flag, stored)
      PROVE  storeIndex' = index /\ ~flag /\ lsi' = stored
  BY <1>1 DEF Obtain
<1>2. CASE HoldIndex
  BY <1>1, <1>2 DEF HoldIndex, AnsweredIsListed
<1>3. CASE ReadStoreIndex
  BY <1>1, <1>3 DEF ReadStoreIndex
<1>4. CASE RebuildIndex
  <2>1. PICK built \in BuiltIndexes : \E r \in SaveResults(built) :
           Obtain(r.index, save \/ access = "Init" \/ ~r.ok, r.lsi)
    BY <1>4 DEF RebuildIndex
  <2>2. PICK r \in SaveResults(built) :
           Obtain(r.index, save \/ access = "Init" \/ ~r.ok, r.lsi)
    BY <2>1
  <2>3. storeIndex' = r.index /\ r.ok /\ lsi' = r.lsi
    BY <1>1, <2>2
  <2>4. r.index = r.lsi
    BY <2>3, UpdateResult
  <2> QED
    BY <2>3, <2>4
<1>5. CASE RebuildFails
  BY <1>5 DEF RebuildFails, AddTo
<1>6. ~ReadLocalIndex /\ ~EmptyIndex
  BY DEF ReadLocalIndex, EmptyIndex
<1> QED
  BY <1>2, <1>3, <1>4, <1>5, <1>6 DEF GetStoreIndex

\* The index worker takes nothing out of store.lsi.
LEMMA IndexListed ==
  ASSUME PromiseInv, IndexStep
  PROVE  /\ AddTo(lsi, {}) \subseteq AddTo(lsi', {})
         /\ AnsweredIsListed'
<1> USE DEF PromiseInv, IndInv, TypeOK
<1>1. ASSUME NEW a \in Ask, AnswerAsk(a) \/ AskFails(a)
      PROVE  /\ AddTo(lsi, {}) \subseteq AddTo(lsi', {})
             /\ AnsweredIsListed'
  <2>1. (GetStoreIndex \/ EmptyIndexFails) /\ UNCHANGED <<added, access>>
    BY <1>1 DEF AnswerAsk, AskFails
  <2>2. access # "ReadOnly" => GetStoreIndex
    BY <2>1 DEF EmptyIndexFails
  <2> QED
    BY <2>1, <2>2, ObtainedIndex, ObtainedIsListed DEF AnsweredIsListed
<1>2. ASSUME NEW index \in SUBSET Block, NEW r \in SaveResults(index)
      PROVE  /\ AddTo(lsi, {}) \subseteq AddTo(r.lsi, {})
             /\ r.ok => AddTo(r.index, {}) \subseteq AddTo(r.lsi, {})
  <2>1. /\ r.lsi \in {lsi, AddTo(lsi, index)}
        /\ r.ok => r.index = r.lsi
    BY UpdateResult
  <2>2. AddTo(lsi, index) # NoIndex
    BY AddToType
  <2>3. AddTo(lsi, {}) \subseteq AddTo(AddTo(lsi, index), {})
    BY <2>2 DEF AddTo
  <2> QED
    BY <2>1, <2>3
<1>3. AddTo(storeIndex, added) \in SUBSET Block
  BY AddToType DEF IsIndex
<1>4. CASE FlushIndex
  <2>1. PICK r \in SaveResults(AddTo(storeIndex, added)) :
           storeIndex' = r.index /\ lsi' = r.lsi /\ save' = ~r.ok
    BY <1>4 DEF FlushIndex
  <2> QED
    BY <1>2, <1>3, <2>1 DEF AnsweredIsListed
<1>5. CASE StopIndexWorker
  <2>1. AddTo(lsi, {}) \subseteq AddTo(lsi', {})
    BY <1>2, <1>3, <1>5 DEF StopIndexWorker
  <2> QED
    BY <1>5, <2>1 DEF StopIndexWorker, AnsweredIsListed
<1>6. ASSUME UNCHANGED <<lsi, storeIndex, save, access>>
      PROVE  /\ AddTo(lsi, {}) \subseteq AddTo(lsi', {})
             /\ AnsweredIsListed'
  BY <1>6 DEF AnsweredIsListed
<1>7. CASE \/ \E a \in Ask : FailAsk(a)
           \/ ReceiveBlockIndex \/ EnterIndexSelect \/ FlushNothing \/ FlushIndexFails
           \/ FlushInErrorState \/ DropBlockIndex \/ LeaveErrorState
  BY <1>6, <1>7 DEF FailAsk, ReceiveBlockIndex, EnterIndexSelect, FlushNothing,
     FlushIndexFails, FlushInErrorState, DropBlockIndex, LeaveErrorState,
     ReplyIndexFlush, store, indexer
<1> QED
  BY <1>1, <1>4, <1>5, <1>7 DEF IndexStep

LEMMA IndexPromise ==
  ASSUME PromiseInv, IndexStep
  PROVE  PromiseInv'
<1> USE DEF PromiseInv
<1>1. UNCHANGED <<blobs, outcome, pc, job, unchecked, failed>>
  BY IndexKeeps DEF worker, history
<1>2. JobsAreOpen' /\ AnswersAreKnown'
  BY <1>1 DEF JobsAreOpen, Busy, AnswersAreKnown
<1> QED
  BY <1>2, IndexInv, IndexListed

\* What another process does to store.lsi.
LEMMA OtherListed ==
  ASSUME TypeOK, NEW b \in Block, OtherProcess(b)
  PROVE  AddTo(lsi, {})' = AddTo(lsi, {}) \cup {b}
<1>1. lsi' = AddTo(lsi, {}) \cup {b}
  BY DEF OtherProcess, AddTo
<1>2. AddTo(lsi, {}) \cup {b} \in SUBSET Block
  BY AddToType DEF TypeOK
<1>3. lsi' # NoIndex
  BY <1>1, <1>2, StoreAssumption DEF StoreAssumption
<1> QED
  BY <1>1, <1>3 DEF AddTo

\* The other steps change nothing of this, but for puts that are made and
\* blocks that other processes store.
LEMMA OtherPromise ==
  ASSUME PromiseInv,
         \/ UNCHANGED vars \/ CallerStep \/ CloseStep
         \/ \E b \in Block : OtherProcess(b)
         \/ \E f \in FlushCall : FlushStep(f)
  PROVE  PromiseInv'
<1> USE DEF PromiseInv
<1>1. IndInv'
  BY NextInv DEF Next
<1>2. ASSUME \/ UNCHANGED vars \/ CloseStep
             \/ \E f \in FlushCall : FlushStep(f)
      PROVE  PromiseInv'
  <2>1. UNCHANGED <<access, store, outcome, worker, indexer, unchecked>>
    BY <1>2, FlushKeeps, CloseKeeps DEF vars, history
  <2> QED
    BY <1>1, <2>1 DEF JobsAreOpen, Busy, AnswersAreKnown, AnsweredIsListed,
       store, worker, indexer
<1>3. CASE CallerStep
  <2>1. UNCHANGED <<access, store, worker, indexer, unchecked>>
    BY <1>3, CallerKeeps
  <2>2. \A p \in Put : outcome[p] = "open" => outcome'[p] = "open"
    BY <1>3 DEF CallerStep, PutStoredBlock, AskIndex, Flush, Close, IndInv, TypeOK
  <2>3. JobsAreOpen'
    BY <2>1, <2>2 DEF JobsAreOpen, Busy, worker, IndInv, TypeOK
  <2>4. AnswersAreKnown' /\ AnsweredIsListed'
    BY <2>1 DEF AnswersAreKnown, AnsweredIsListed, store, worker, indexer
  <2> QED
    BY <1>1, <2>3, <2>4
<1>4. CASE \E b \in Block : OtherProcess(b)
  <2>1. PICK b \in Block : OtherProcess(b)
    BY <1>4
  <2>2. /\ UNCHANGED <<access, outcome, worker, indexer, unchecked>>
        /\ blobs \subseteq blobs'
    BY <2>1 DEF OtherProcess, history
  <2>3. AddTo(lsi, {}) \subseteq AddTo(lsi', {})
    BY <2>1, OtherListed DEF IndInv
  <2> QED
    BY <1>1, <2>2, <2>3 DEF JobsAreOpen, Busy, AnswersAreKnown, AnsweredIsListed,
       worker, indexer
<1> QED
  BY <1>2, <1>3, <1>4

\* PromiseInv holds in every reachable state.
THEOREM PromiseInvariance == Safety => []PromiseInv
<1>1. PromiseInv /\ [Next]_vars => PromiseInv'
  BY WorkerPromise, IndexPromise, OtherPromise DEF Next
<1> QED
  BY <1>1, InitPromise, PTL DEF Safety

-----------------------------------------------------------------------------
(* The refinement.                                                         *)

\* The abstract variables.
Same == /\ UNCHANGED <<blobs, Unsure, SharedView, Completed, Status>>
        /\ AddTo(lsi, {})' = AddTo(lsi, {})

AbstractStep == [Promise!Next]_(Promise!storeVars)

LEMMA Stutters ==
  ASSUME Same
  PROVE  AbstractStep
  BY DEF Same, AbstractStep, Promise!storeVars, OfThis

LEMMA OfThisValues ==
  ASSUME NEW value, NEW other
  PROVE  /\ OfThis(value, other)["this"] = value
         /\ OfThis(value, other)["others"] = other
  BY DEF OfThis

\* The blocks of abstract puts without a blob.
LEMMA LostBlocks == Promise!Lost = Unsure \cup Stale
<1> DEFINE lost == OfThis(Unsure, Stale)
<1>1. lost["this"] = Unsure /\ lost["others"] = Stale
  BY OfThisValues
<1>2. {lost[p] : p \in {"this", "others"}} = {Unsure, Stale}
  <2> HIDE DEF lost
  <2> QED
    BY <1>1
<1>3. UNION {Unsure, Stale} = Unsure \cup Stale
  OBVIOUS
<1> QED
  BY <1>2, <1>3 DEF Promise!Lost

\* Blocks that are stored.
LEMMA Stores ==
  ASSUME NEW b \in Block, NEW listing \in {{}, {b}},
         blobs' = blobs \cup {b},
         AddTo(lsi, {})' = AddTo(lsi, {}) \cup listing,
         UNCHANGED <<Unsure, SharedView, Completed, Status>>
  PROVE  AbstractStep
<1>1. Promise!StoreBlock(b, listing)
  BY DEF Promise!StoreBlock, OfThis
<1> QED
  BY <1>1 DEF AbstractStep, Promise!Next

\* A block that is passed on, or reported, without knowing that it is stored.
LEMMA Loses ==
  ASSUME NEW b \in Block, Status = "open",
         Unsure' = Unsure \cup {b},
         blobs' \in {blobs, blobs \cup {b}},
         AddTo(lsi, {})' = AddTo(lsi, {}),
         UNCHANGED <<SharedView, Completed, Status>>
  PROVE  AbstractStep
<1>1. OfThis(Unsure, Stale)' = [OfThis(Unsure, Stale) EXCEPT !["this"] = @ \cup {b}]
  BY DEF OfThis
<1>2. OfThis(Status, "open")["this"] = "open"
  BY OfThisValues
<1>3. Promise!LoseBlock("this", b)
  BY <1>1, <1>2 DEF Promise!LoseBlock, OfThis
<1> QED
  BY <1>3 DEF AbstractStep, Promise!Next

LEMMA CompletedSame ==
  ASSUME UNCHANGED <<outcome, failed>>
  PROVE  Completed' = Completed
  BY DEF Completed

LEMMA ViewSame ==
  ASSUME UNCHANGED <<access, indexer, lsi>>
  PROVE  SharedView' = SharedView /\ AddTo(lsi, {})' = AddTo(lsi, {})
  BY DEF SharedView, indexer, AddTo

\* A worker stores or loses a block, or answers a put whose block is stored or
\* lost.
LEMMA WorkerRefines ==
  ASSUME PromiseInv, NEW w \in Worker, WorkerStep(w)
  PROVE  AbstractStep
<1> USE DEF PromiseInv, IndInv, TypeOK, WorkerAt
<1>1. /\ SharedView' = SharedView
      /\ AddTo(lsi, {})' = AddTo(lsi, {})
      /\ Status' = Status
  BY WorkerKeeps, ViewSame DEF Status
<1>2. Status = "open"
  <2>1. closing \in {"open", "workers"}
    BY NoWorkerAfterClose
  <2> QED
    BY <2>1 DEF Status
<1>3. ASSUME UNCHANGED <<blobs, Unsure, Completed>>
      PROVE  AbstractStep
  BY <1>1, <1>3, Stutters DEF Same
<1>4. CASE \/ EnterSelect(w) \/ FlushWorker(w) \/ ReplyFlush(w) \/ StopWorker(w)
           \/ SendBlockIndex(w)
  <2>1. UNCHANGED <<blobs, unchecked, outcome, failed>>
    BY <1>4 DEF EnterSelect, FlushWorker, ReplyFlush, LeaveFlush, StopWorker,
       SendBlockIndex, Send, store, history
  <2> QED
    BY <1>3, <2>1, CompletedSame DEF Unsure
<1>5. CASE WriteBlock(w)
  <2>1. Hash[job[w]] \in Block
    BY <1>5, StoreAssumption DEF WriteBlock, StoreBlob, StoreAssumption
  <2>2. /\ UNCHANGED <<outcome, failed, unchecked>>
        /\ blobs' = blobs \cup {Hash[job[w]]}
    BY <1>5 DEF WriteBlock, StoreBlob, history
  <2> QED
    BY <1>1, <2>1, <2>2, CompletedSame, Stores DEF Unsure
<1>6. ASSUME NEW p \in Put, RefusePut(w, p) \/ TakePut(w, p)
      PROVE  AbstractStep
  <2>1. /\ outcome[p] = "queued" /\ blobs' = blobs /\ failed' = failed
        /\ unchecked' \in {unchecked, unchecked \cup {Hash[p]}}
        /\ \E o \in {"open", "error"} : outcome' = [outcome EXCEPT ![p] = o]
    BY <1>6 DEF RefusePut, TakePut, StartPut, store, history
  <2>2. \A q \in Put : outcome'[q] = "ok" <=> outcome[q] = "ok"
    BY <2>1
  <2>3. Completed' = Completed
    BY <2>1, <2>2 DEF Completed
  <2>4. Hash[p] \in Block
    BY StoreAssumption DEF StoreAssumption
  <2>5. Unsure' \in {Unsure, Unsure \cup {Hash[p]}}
    BY <2>1 DEF Unsure
  <2> QED
    BY <1>1, <1>2, <1>3, <2>1, <2>3, <2>4, <2>5, Loses
<1>7. CASE WriteFails(w)
  <2>1. /\ w \in Busy /\ unchecked' = unchecked
        /\ blobs' \in {blobs, blobs \cup {Hash[job[w]]}}
        /\ failed' = failed \cup {job[w]}
        /\ outcome' = [outcome EXCEPT ![job[w]] = "ok"]
    BY <1>7 DEF WriteFails, Answer, Busy
  <2>2. job[w] \in Put /\ outcome[job[w]] = "open" /\ Hash[job[w]] \in Block
    BY <2>1, StoreAssumption DEF JobsAreOpen, Busy, StoreAssumption
  <2>3. \A q \in Put : (outcome'[q] = "ok" /\ q \notin failed')
                          <=> (outcome[q] = "ok" /\ q \notin failed)
    BY <2>1, <2>2
  <2>4. Completed' = Completed
    BY <2>3 DEF Completed
  <2>5. Unsure' = Unsure \cup {Hash[job[w]]}
    BY <2>1 DEF Unsure
  <2> QED
    BY <1>1, <1>2, <2>1, <2>2, <2>4, <2>5, Loses
<1>8. CASE PutFails(w)
  <2>1. /\ w \in Busy /\ UNCHANGED <<blobs, unchecked, failed>>
        /\ outcome' = [outcome EXCEPT ![job[w]] = "error"]
    BY <1>8 DEF PutFails, Answer, Busy
  <2>2. job[w] \in Put /\ outcome[job[w]] = "open"
    BY <2>1 DEF JobsAreOpen, Busy
  <2>3. \A q \in Put : outcome'[q] = "ok" <=> outcome[q] = "ok"
    BY <2>1, <2>2
  <2>4. UNCHANGED <<Completed, Unsure>>
    BY <2>1, <2>3 DEF Completed, Unsure
  <2> QED
    BY <1>3, <2>1, <2>4
<1>9. CASE AnswerPut(w)
  <2>1. /\ w \in Busy /\ pc[w] = "answer"
        /\ UNCHANGED <<blobs, unchecked, failed>>
        /\ outcome' = [outcome EXCEPT ![job[w]] = "ok"]
    BY <1>9 DEF AnswerPut, Answer, Busy
  <2>2. /\ job[w] \in Put /\ Hash[job[w]] \in Block
        /\ Hash[job[w]] \in blobs \cup Unsure
    BY <2>1, StoreAssumption DEF AnswersAreKnown, StoreAssumption, Unsure
  <2>3. Completed' \in {Completed, Completed \cup {Hash[job[w]]}}
    <3>1. \A q \in Put : outcome'[q] = "ok" <=> outcome[q] = "ok" \/ q = job[w]
      BY <2>1, <2>2
    <3> QED
      BY <2>1, <2>2, <3>1 DEF Completed
  <2>4. UNCHANGED <<blobs, Unsure>>
    BY <2>1 DEF Unsure
  <2>5. CASE Completed' = Completed
    BY <1>3, <2>4, <2>5
  <2>6. CASE Completed' = Completed \cup {Hash[job[w]]}
    <3>1. OfThis(Completed, {})' =
             [OfThis(Completed, {}) EXCEPT !["this"] = @ \cup {Hash[job[w]]}]
      BY <2>6 DEF OfThis
    <3>2. /\ OfThis(Status, "open")["this"] = "open"
          /\ Hash[job[w]] \in blobs \cup OfThis(Unsure, Stale)["this"]
      BY <1>2, <2>2, OfThisValues
    <3>3. Promise!Complete("this", Hash[job[w]])
      BY <1>1, <2>4, <3>1, <3>2 DEF Promise!Complete, OfThis
    <3> QED
      BY <2>2, <3>3 DEF AbstractStep, Promise!Next
  <2> QED
    BY <2>3, <2>5, <2>6
<1> QED
  BY <1>4, <1>5, <1>6, <1>7, <1>8, <1>9 DEF WorkerStep

\* Whatever the index worker does is an update of the index.
LEMMA IndexRefines ==
  ASSUME PromiseInv, IndexStep
  PROVE  AbstractStep
<1> USE DEF PromiseInv, IndInv, TypeOK
<1>1. UNCHANGED <<access, blobs, outcome, closing, unchecked, failed>>
  BY IndexKeeps DEF history
<1>2. UNCHANGED <<blobs, Unsure, Completed, Status>>
  BY <1>1, CompletedSame DEF Unsure, Status
<1>3. closing \notin {"done", "died"}
  <2>1. Alive /\ indexPc # "stopped"
    BY DEF IndexStep, AnswerAsk, AskFails, FailAsk, ReceiveBlockIndex, EnterIndexSelect,
       FlushIndex, FlushNothing, FlushIndexFails, StopIndexWorker, FlushInErrorState,
       DropBlockIndex, LeaveErrorState, IndexAt
  <2> QED
    BY <2>1 DEF Alive, ResultsCounted
<1>4. PromiseInv'
  BY IndexPromise
<1> DEFINE listing == AddTo(lsi', {})
           view == SharedView'
<1>5. listing \in SUBSET Block /\ view \in SUBSET Block
  <2>1. IsIndex(lsi)' /\ IsIndex(storeIndex)'
    BY <1>4
  <2> QED
    BY <2>1 DEF IsIndex, AddTo, SharedView
<1>6. listing \cup view \subseteq blobs \cup Promise!Lost
  <2>1. OnlyKnownBlocks'
    BY <1>4
  <2>2. listing \subseteq Known' /\ view \subseteq Known'
    BY <2>1 DEF OnlyKnownBlocks, SharedView, AddTo
  <2>3. Known' \subseteq blobs \cup Promise!Lost
    BY <1>1, LostBlocks DEF Known, Unsure
  <2> QED
    BY <2>2, <2>3
<1>7. AddTo(lsi, {})' = AddTo(lsi, {}) \cup listing
  BY IndexListed DEF AddTo
<1>8. OfThis(Status, "open")["this"] = "open"
  BY <1>3, OfThisValues DEF Status
<1>9. OfThis(SharedView, {})' = [OfThis(SharedView, {}) EXCEPT !["this"] = view]
  BY OfThisValues DEF OfThis
<1>10. Promise!UpdateIndex("this", listing, view)
  BY <1>2, <1>6, <1>7, <1>8, <1>9 DEF Promise!UpdateIndex, OfThis
<1> QED
  BY <1>5, <1>10 DEF AbstractStep, Promise!Next

\* Close returns when everything is listed.
LEMMA CloseRefines ==
  ASSUME PromiseInv, CloseStep
  PROVE  AbstractStep
<1> USE DEF PromiseInv, IndInv, TypeOK
<1>1. /\ UNCHANGED <<access, store, outcome, indexer, unchecked, failed>>
      /\ closing \in {"workers", "index"}
  BY CloseKeeps DEF history, CloseStep, CollectWorker, CollectIndexWorker
<1>2. /\ UNCHANGED <<blobs, Unsure, SharedView, Completed>>
      /\ AddTo(lsi, {})' = AddTo(lsi, {})
  BY <1>1, CompletedSame, ViewSame DEF Unsure, store
<1>3. Status = "open"
  BY <1>1 DEF Status
<1>4. OfThis(Status, "open")' = [OfThis(Status, "open") EXCEPT !["this"] = Status']
  BY DEF OfThis
<1>5. CASE closing' \in {"workers", "index"}
  BY <1>1, <1>2, <1>5, Stutters DEF Same, Status
<1>6. CASE closing' = "died"
  <2>1. Promise!Die("this")
    BY <1>2, <1>3, <1>4, <1>6, OfThisValues DEF Promise!Die, Status, OfThis
  <2> QED
    BY <2>1 DEF AbstractStep, Promise!Next
<1>7. CASE closing' = "done"
  <2>1. closing = "index" /\ workerErrorChan # <<>> /\ Head(workerErrorChan) # "error"
    BY <1>7 DEF CloseStep, CollectWorker, CollectIndexWorker
  <2>2. indexPc = "stopped"
    BY <2>1 DEF ResultsCounted
  <2>3. Completed \subseteq AddTo(lsi, {})
    <3>1. Completed \subseteq InFlight \cup AddTo(lsi, {})
      BY <2>2 DEF PutsTracked
    <3>2. access = "ReadOnly" => Completed = {}
      BY DEF ReadOnlyRefuses, Completed
    <3> QED
      BY <2>2, <3>1, <3>2 DEF StoppedHasSaved
  <2>4. SharedView \subseteq AddTo(lsi, {})
    <3>1. CASE save
      BY <2>2, <3>1 DEF StoppedHasSaved, InFlight, SharedView, AddTo, SavedIndexIsValid
    <3>2. CASE ~save
      BY <3>2 DEF AnsweredIsListed, SharedView
    <3> QED
      BY <3>1, <3>2
  <2>5. /\ OfThis(Status, "open")["this"] = "open"
        /\ OfThis(Completed, {})["this"] \cup OfThis(SharedView, {})["this"]
              \subseteq AddTo(lsi, {})
    BY <1>3, <2>3, <2>4, OfThisValues
  <2>6. Status' = "closed"
    BY <1>7 DEF Status
  <2>7. Promise!Close("this")
    BY <1>2, <1>4, <2>5, <2>6 DEF Promise!Close, OfThis
  <2> QED
    BY <2>7 DEF AbstractStep, Promise!Next
<1> QED
  BY <1>5, <1>6, <1>7 DEF CloseStep, CollectWorker, CollectIndexWorker

\* Another process stores a block and lists it, or lists one that it lost.
LEMMA OtherRefines ==
  ASSUME PromiseInv, NEW b \in Block, OtherProcess(b)
  PROVE  AbstractStep
<1>1. /\ UNCHANGED <<access, outcome, indexer, closing, unchecked, failed>>
      /\ blobs' = blobs \cup ({b} \cap Foreign)
  BY DEF OtherProcess, close, history
<1>2. AddTo(lsi, {})' = AddTo(lsi, {}) \cup {b}
  BY OtherListed DEF PromiseInv, IndInv
<1>3. UNCHANGED <<Unsure, SharedView, Completed, Status>>
  BY <1>1, CompletedSame DEF Unsure, SharedView, AddTo, Status, indexer
<1>4. CASE b \in Foreign
  BY <1>1, <1>2, <1>3, <1>4, Stores
<1>5. CASE b \notin Foreign
  <2>1. b \in Stale /\ blobs' = blobs
    BY <1>1, <1>5 DEF OtherProcess
  <2>2. {b} \cup {} \subseteq blobs \cup Promise!Lost
    BY <2>1, LostBlocks
  <2>3. OfThis(SharedView, {})' = [OfThis(SharedView, {}) EXCEPT !["others"] = {}]
    BY <1>3, OfThisValues DEF OfThis
  <2>4. OfThis(Status, "open")["others"] = "open"
    BY OfThisValues
  <2>5. Promise!UpdateIndex("others", {b}, {})
    BY <1>2, <1>3, <2>1, <2>2, <2>3, <2>4 DEF Promise!UpdateIndex, OfThis
  <2> QED
    BY <2>5 DEF AbstractStep, Promise!Next
<1> QED
  BY <1>4, <1>5

LEMMA InitRefines == Init => Promise!Init
<1> SUFFICES ASSUME Init PROVE Promise!Init
  OBVIOUS
<1>1. blobs \in SUBSET Block /\ Unsure = {} /\ Stale \subseteq Block
  BY StoreAssumption DEF Init, Unsure, StoreAssumption
<1>2. AddTo(lsi, {}) \in SUBSET (blobs \cup Promise!Lost)
  BY LostBlocks DEF Init, AddTo
<1>3. SharedView = {} /\ Completed = {} /\ Status = "open"
  BY DEF Init, SharedView, AddTo, Completed, Status
<1>4. OfThis(Unsure, Stale) \in [{"this", "others"} -> SUBSET Block]
  BY <1>1 DEF OfThis
<1> QED
  BY <1>1, <1>2, <1>3, <1>4 DEF Promise!Init, OfThis

LEMMA StepRefines == PromiseInv /\ [Next]_vars => AbstractStep
<1> SUFFICES ASSUME PromiseInv, [Next]_vars PROVE AbstractStep
  OBVIOUS
<1>1. ASSUME \/ UNCHANGED vars \/ CallerStep
             \/ \E f \in FlushCall : FlushStep(f)
      PROVE  AbstractStep
  <2>1. UNCHANGED <<access, store, indexer, unchecked, failed>>
    BY <1>1, FlushKeeps, CallerKeeps DEF vars, history
  <2>2. \A p \in Put : outcome'[p] = "ok" <=> outcome[p] = "ok"
    BY <1>1, FlushKeeps DEF vars, CallerStep, PutStoredBlock, AskIndex, Flush, Close,
       PromiseInv, IndInv, TypeOK
  <2>3. Completed' = Completed
    BY <2>1, <2>2 DEF Completed
  <2>4. Status' = Status
    BY <1>1, FlushKeeps DEF vars, close, CallerStep, PutStoredBlock, AskIndex, Flush,
       Close, Open, Status
  <2> QED
    BY <2>1, <2>3, <2>4, ViewSame, Stutters DEF Same, Unsure, store
<1> QED
  BY <1>1, WorkerRefines, IndexRefines, CloseRefines, OtherRefines DEF Next

\* remoteStore, with its goroutines, channels and failures, does only what
\* module BlockStore allows, its blobs being what is stored there and the
\* blocks of failed Exists and Write calls what is lost: the promise that the
\* commands of module Versions are built on.
THEOREM RemoteStoreKeepsPromise == Safety => KeepsPromise
<1>1. PromiseInv /\ [Next]_vars => [Promise!Next]_(Promise!storeVars)
  BY StepRefines DEF AbstractStep
<1> QED
  BY <1>1, InitRefines, PromiseInvariance, PTL DEF Safety, KeepsPromise, Promise!Spec
=============================================================================
