------------------------- MODULE RemoteStoreProofs -------------------------
(***************************************************************************)
(* Proofs about RemoteStore, for any number of workers, puts, asks,        *)
(* flushes and blocks, any capacity of blockIndexChan and any faults.      *)
(***************************************************************************)
EXTENDS RemoteStore, FiniteSetTheorems, SequenceTheorems, TLAPS

\* There is a positive number of workers.
LEMMA WorkerCount == Cardinality(Worker) \in Nat \ {0}
  BY FS_CardinalityType, FS_EmptySet, StoreAssumption DEF StoreAssumption

\* What a channel holds after a send.
LEMMA ElementsOfAppend ==
  ASSUME NEW S, NEW seq \in Seq(S), NEW e \in S
  PROVE  Elements(Append(seq, e)) = Elements(seq) \cup {e}
  <1>1. DOMAIN Append(seq, e) = DOMAIN seq \cup {Len(seq) + 1}
    OBVIOUS
  <1>2. /\ \A i \in DOMAIN seq : Append(seq, e)[i] = seq[i]
        /\ Append(seq, e)[Len(seq) + 1] = e
    OBVIOUS
  <1> QED
    BY <1>1, <1>2, Zenon DEF Elements

\* What a channel holds after a receive.
LEMMA ElementsOfHeadTail ==
  ASSUME NEW S, NEW seq \in Seq(S), seq # <<>>
  PROVE  Elements(seq) = {Head(seq)} \cup Elements(Tail(seq))
  <1>1. /\ DOMAIN seq = 1..Len(seq)
        /\ DOMAIN Tail(seq) = 1..(Len(seq) - 1)
        /\ \A i \in DOMAIN Tail(seq) : Tail(seq)[i] = seq[i + 1]
        /\ Head(seq) = seq[1]
        /\ Len(seq) \in Nat \ {0}
    OBVIOUS
  <1>2. Elements(seq) \subseteq {Head(seq)} \cup Elements(Tail(seq))
    <2> SUFFICES ASSUME NEW i \in DOMAIN seq, i # 1
                 PROVE  seq[i] \in Elements(Tail(seq))
      BY <1>1 DEF Elements
    <2>1. /\ i - 1 \in DOMAIN Tail(seq)
          /\ (i - 1) + 1 = i
      BY <1>1
    <2> QED
      BY <1>1, <2>1 DEF Elements
  <1>3. {Head(seq)} \cup Elements(Tail(seq)) \subseteq Elements(seq)
    <2>1. \A i \in DOMAIN Tail(seq) : i + 1 \in DOMAIN seq
      BY <1>1
    <2>2. 1 \in DOMAIN seq
      BY <1>1
    <2> QED
      BY <1>1, <2>1, <2>2 DEF Elements
  <1> QED
    BY <1>2, <1>3

\* What an update of store.lsi by an index may return and leave behind.
LEMMA UpdateResult ==
  ASSUME NEW index, NEW r \in SaveResults(index)
  PROVE  /\ r.ok \in BOOLEAN
         /\ r.index \in {index, AddTo(lsi, index)}
         /\ r.lsi \in {lsi, AddTo(lsi, index)}
         /\ r.ok => r.index = AddTo(lsi, index) /\ r.lsi = AddTo(lsi, index)
         /\ ~r.ok => r.index = index
  <1>1. r = Saved(index) \/ \E l \in {lsi, AddTo(lsi, index)} :
                              r = [ok |-> FALSE, index |-> index, lsi |-> l]
    BY Zenon DEF SaveResults, Unsaved
  <1>2. CASE r = Saved(index)
    BY <1>2 DEF Saved
  <1>3. CASE \E l \in {lsi, AddTo(lsi, index)} :
                r = [ok |-> FALSE, index |-> index, lsi |-> l]
    BY <1>3
  <1> QED
    BY <1>1, <1>2, <1>3

\* NoIndex is no set of blocks, and merging yields one.
LEMMA AddToType ==
  ASSUME NEW index, IsIndex(index), NEW blocks \in SUBSET Block
  PROVE  /\ AddTo(index, blocks) \in SUBSET Block
         /\ AddTo(index, blocks) # NoIndex
  BY StoreAssumption DEF StoreAssumption, AddTo, IsIndex

-----------------------------------------------------------------------------
(* Types.                                                                  *)

\* The initial states have their types.
LEMMA InitType == Init => TypeOK
<1> SUFFICES ASSUME Init
             PROVE  TypeOK
  OBVIOUS
<1> USE StoreAssumption DEF StoreAssumption
<1>1. blobs \subseteq Block /\ IsIndex(lsi)
  <2>1. blobs \subseteq Old /\ lsi \in {NoIndex} \cup SUBSET (blobs \cup Stale)
    BY DEF Init
  <2>2. Old \subseteq Block /\ Stale \subseteq Block
    OBVIOUS
  <2>3. ASSUME lsi # NoIndex
        PROVE  lsi \subseteq Block
    <3>1. lsi \in SUBSET (blobs \cup Stale)
      BY <2>1, <2>3
    <3> QED
      BY <2>1, <2>2, <3>1
  <2> QED
    BY <2>1, <2>2, <2>3 DEF IsIndex
<1>2. workerErrorChan \in Seq({"nil", "error"})
  <2>1. PICK unstarted \in SUBSET Worker :
           workerErrorChan = [i \in 1..Cardinality(unstarted) |-> "error"]
    BY DEF Init
  <2>2. Cardinality(unstarted) \in Nat
    BY FS_Subset, FS_CardinalityType
  <2> QED
    BY <2>1, <2>2
<1>3. /\ pc \in [Worker -> {"top", "exited"}]
      /\ indexPc \in {"top", "error"}
  BY DEF Init
<1>4. /\ 0 \in 0..Cardinality(Worker)
      /\ blockIndexChan \in Seq(Block) /\ Len(blockIndexChan) <= IndexCapacity
      /\ indexReplies \in Seq({"ok", "error"})
  BY WorkerCount DEF Init
<1>5. /\ IsIndex(storeIndex)
      /\ pc \in [Worker -> WorkerLabel]
      /\ \A w \in Worker : pc[w] \notin {"write", "send", "answer"}
      /\ indexPc \in IndexLabel
      /\ flush \in [FlushCall -> FlushLabel]
  BY <1>3 DEF Init, IsIndex, WorkerLabel, IndexLabel, FlushLabel
<1>6. /\ outcome \in [Put -> {"unmade", "queued", "open", "ok", "error"}]
      /\ job \in [Worker -> Put \cup {NoPut}]
      /\ asked \in [Ask -> {"unmade", "open", "answered", "error"}]
      /\ counted \in [FlushCall -> Nat]
      /\ due \in [FlushCall -> [seen : SUBSET Block, alone : BOOLEAN]]
  BY DEF Init
<1> QED
  BY <1>1, <1>2, <1>4, <1>5, <1>6 DEF Init, TypeOK

\* A step of a worker preserves the types.
LEMMA WorkerType ==
  ASSUME TypeOK, NEW w \in Worker, WorkerStep(w)
  PROVE  TypeOK'
<1> USE StoreAssumption, WorkerCount DEF StoreAssumption, TypeOK, WorkerLabel,
        WorkerAt, GoTo, store, worker, indexer, workerFlush, indexFlush,
        flushing, close, history, IsIndex
<1>1. CASE EnterSelect(w)
  BY <1>1 DEF EnterSelect
<1>2. ASSUME NEW p \in Put, RefusePut(w, p)
      PROVE  TypeOK'
  BY <1>2 DEF RefusePut
<1>3. ASSUME NEW p \in Put, TakePut(w, p)
      PROVE  TypeOK'
  <2>1. Hash[p] \in Block
    OBVIOUS
  <2>2. pc' \in [Worker -> WorkerLabel] /\ pc'[w] \in {"send", "write"}
        /\ \A v \in Worker \ {w} : pc'[v] = pc[v]
    BY <1>3 DEF TakePut, StartPut
  <2>3. unchecked' \subseteq Block
    BY <1>3, <2>1 DEF TakePut, StartPut
  <2> QED
    BY <1>3, <2>2, <2>3 DEF TakePut, StartPut
<1>4. CASE WriteBlock(w)
  BY <1>4 DEF WriteBlock, StoreBlob
<1>5. CASE WriteFails(w)
  BY <1>5 DEF WriteFails, Answer
<1>6. CASE PutFails(w)
  BY <1>6 DEF PutFails, Answer
<1>7. CASE SendBlockIndex(w)
  <2>1. /\ Hash[job[w]] \in Block
        /\ blockIndexChan' = Append(blockIndexChan, Hash[job[w]])
        /\ Len(blockIndexChan) < IndexCapacity
    BY <1>7 DEF SendBlockIndex, Send
  <2>2. blockIndexChan' \in Seq(Block) /\ Len(blockIndexChan') <= IndexCapacity
    BY <2>1
  <2> QED
    BY <1>7, <2>2 DEF SendBlockIndex, Send
<1>8. CASE AnswerPut(w)
  BY <1>8 DEF AnswerPut, Answer
<1>9. CASE FlushWorker(w)
  BY <1>9 DEF FlushWorker
<1>10. CASE ReplyFlush(w)
  BY <1>10 DEF ReplyFlush, LeaveFlush
<1>11. CASE StopWorker(w)
  BY <1>11 DEF StopWorker
<1> QED
  BY <1>1, <1>2, <1>3, <1>4, <1>5, <1>6, <1>7, <1>8, <1>9, <1>10, <1>11
     DEF WorkerStep

\* getStoreIndex leaves an index or nothing, in memory and in store.lsi.
LEMMA GetStoreIndexType ==
  ASSUME TypeOK, GetStoreIndex \/ EmptyIndexFails
  PROVE  IsIndex(storeIndex)' /\ IsIndex(lsi)' /\ save' \in BOOLEAN
<1> USE StoreAssumption DEF StoreAssumption, TypeOK
<1>1. ASSUME NEW index, IsIndex(index), index # NoIndex, NEW flag \in BOOLEAN,
             NEW stored, IsIndex(stored), Obtain(index, flag, stored)
      PROVE  IsIndex(storeIndex)' /\ IsIndex(lsi)' /\ save' \in BOOLEAN
  BY <1>1 DEF Obtain, IsIndex
<1>2. CASE HoldIndex
  BY <1>1, <1>2 DEF HoldIndex
<1>3. CASE ReadLocalIndex
  BY <1>1, <1>3 DEF ReadLocalIndex, IsIndex
<1>4. CASE ReadStoreIndex
  BY <1>1, <1>4 DEF ReadStoreIndex
<1>5. CASE EmptyIndex
  <2>1. /\ storeIndex' = added
        /\ save' = (save \/ added # {})
        /\ lsi' = lsi
    BY <1>5 DEF EmptyIndex, Obtain
  <2> QED
    BY <2>1 DEF IsIndex
<1>6. CASE RebuildIndex
  <2>0. PICK built \in SUBSET blobs : \E r \in SaveResults(built) :
           Obtain(r.index, save \/ access = "Init" \/ ~r.ok, r.lsi)
    BY <1>6 DEF RebuildIndex, BuiltIndexes
  <2>1. PICK r \in SaveResults(built) :
           Obtain(r.index, save \/ access = "Init" \/ ~r.ok, r.lsi)
    BY <2>0
  <2>2. built \in SUBSET Block /\ built # NoIndex
    OBVIOUS
  <2>3. /\ r.index \in {built, AddTo(lsi, built)}
        /\ r.lsi \in {lsi, AddTo(lsi, built)}
        /\ r.ok \in BOOLEAN
    BY UpdateResult
  <2>4. AddTo(lsi, built) \in SUBSET Block /\ AddTo(lsi, built) # NoIndex
    BY <2>2, AddToType
  <2>5. IsIndex(r.lsi) /\ IsIndex(r.index) /\ r.index # NoIndex
    BY <2>2, <2>3, <2>4 DEF IsIndex
  <2> QED
    BY <1>1, <2>1, <2>3, <2>5
<1>7. CASE RebuildFails
  BY <1>7 DEF RebuildFails, IsIndex
<1>8. CASE EmptyIndexFails
  BY <1>8 DEF EmptyIndexFails, IsIndex
<1> QED
  BY <1>2, <1>3, <1>4, <1>5, <1>6, <1>7, <1>8 DEF GetStoreIndex

\* A flush reply keeps the types of the index worker's channels.
LEMMA ReplyType ==
  ASSUME TypeOK, NEW result \in {"ok", "error"}, ReplyIndexFlush(result)
  PROVE  /\ indexToken' \in {0, 1}
         /\ indexReplies' \in Seq({"ok", "error"})
  BY DEF TypeOK, ReplyIndexFlush

\* A step of the index worker preserves the types.
LEMMA IndexType ==
  ASSUME TypeOK, IndexStep
  PROVE  TypeOK'
<1> USE DEF TypeOK, IndexLabel, store, worker, indexer, workerFlush,
        indexFlush, flushing, close, history
<1>1. ASSUME NEW a \in Ask, AnswerAsk(a) \/ AskFails(a)
      PROVE  TypeOK'
  <2>1. IsIndex(storeIndex)' /\ IsIndex(lsi)' /\ save' \in BOOLEAN
    BY <1>1, GetStoreIndexType DEF AnswerAsk, AskFails
  <2> QED
    BY <1>1, <2>1 DEF AnswerAsk, AskFails
<1>2. ASSUME NEW a \in Ask, FailAsk(a)
      PROVE  TypeOK'
  BY <1>2 DEF FailAsk, IsIndex
<1>3. CASE ReceiveBlockIndex
  <2>1. /\ Head(blockIndexChan) \in Block
        /\ Tail(blockIndexChan) \in Seq(Block)
        /\ Len(Tail(blockIndexChan)) <= IndexCapacity
    BY <1>3, StoreAssumption DEF ReceiveBlockIndex, StoreAssumption
  <2> QED
    BY <1>3, <2>1 DEF ReceiveBlockIndex, IsIndex
<1>4. CASE EnterIndexSelect
  BY <1>4 DEF EnterIndexSelect, IsIndex
<1>5. CASE FlushIndex
  <2>1. PICK r \in SaveResults(AddTo(storeIndex, added)) :
           /\ storeIndex' = r.index /\ lsi' = r.lsi /\ save' = ~r.ok
           /\ ReplyIndexFlush(IF r.ok THEN "ok" ELSE "error")
    BY <1>5 DEF FlushIndex
  <2>2. IsIndex(lsi') /\ IsIndex(storeIndex') /\ save' \in BOOLEAN
    BY <2>1, UpdateResult, AddToType DEF IsIndex
  <2>3. /\ indexToken' \in {0, 1}
        /\ indexReplies' \in Seq({"ok", "error"})
    BY <2>1, ReplyType
  <2> QED
    BY <1>5, <2>1, <2>2, <2>3 DEF FlushIndex, ReplyIndexFlush, IsIndex
<1>6. CASE FlushNothing \/ FlushIndexFails
  <2>1. /\ indexToken' \in {0, 1}
        /\ indexReplies' \in Seq({"ok", "error"})
    BY <1>6, ReplyType DEF FlushNothing, FlushIndexFails
  <2> QED
    BY <1>6, <2>1 DEF FlushNothing, FlushIndexFails, ReplyIndexFlush, IsIndex
<1>7. CASE StopIndexWorker
  <2>1. IsIndex(lsi)'
    <3>1. \A r \in SaveResults(AddTo(storeIndex, added)) : IsIndex(r.lsi)
      BY UpdateResult, AddToType DEF IsIndex
    <3> QED
      BY <1>7, <3>1 DEF StopIndexWorker
  <2>2. workerErrorChan' \in Seq({"nil", "error"}) /\ indexPc' \in IndexLabel
    BY <1>7 DEF StopIndexWorker
  <2> QED
    BY <1>7, <2>1, <2>2 DEF StopIndexWorker, IsIndex
<1>8. CASE FlushInErrorState
  <2>1. /\ indexToken' \in {0, 1}
        /\ indexReplies' \in Seq({"ok", "error"})
    BY <1>8, ReplyType DEF FlushInErrorState
  <2> QED
    BY <1>8, <2>1 DEF FlushInErrorState, ReplyIndexFlush, IsIndex
<1>9. CASE DropBlockIndex
  <2>1. /\ Tail(blockIndexChan) \in Seq(Block)
        /\ Len(Tail(blockIndexChan)) <= IndexCapacity
    BY <1>9, StoreAssumption DEF DropBlockIndex, StoreAssumption
  <2> QED
    BY <1>9, <2>1 DEF DropBlockIndex, IsIndex
<1>10. CASE LeaveErrorState
  BY <1>10 DEF LeaveErrorState, IsIndex
<1> QED
  BY <1>1, <1>2, <1>3, <1>4, <1>5, <1>6, <1>7, <1>8, <1>9, <1>10
     DEF IndexStep

\* A step of the goroutine of a Flush preserves the types.
LEMMA FlushType ==
  ASSUME TypeOK, NEW f \in FlushCall, FlushStep(f)
  PROVE  TypeOK'
<1> USE WorkerCount DEF TypeOK, FlushLabel, store, worker, indexer,
        workerFlush, indexFlush, flushing, close, history, IsIndex
<1>1. ASSUME NEW next \in {"replies", "token"}, Count(f, next)
      PROVE  flush' \in [FlushCall -> FlushLabel] /\ counted' \in [FlushCall -> Nat]
  <2>1. CASE counted[f] + 1 = Cardinality(Worker)
    <3>1. /\ flush' = [flush EXCEPT ![f] = next]
          /\ counted' = [counted EXCEPT ![f] = 0]
      BY <1>1, <2>1 DEF Count
    <3> QED
      BY <1>1, <3>1
  <2>2. CASE counted[f] + 1 # Cardinality(Worker)
    <3>1. /\ flush' = flush
          /\ counted' = [counted EXCEPT ![f] = @ + 1]
      BY <1>1, <2>2 DEF Count
    <3> QED
      BY <3>1
  <2> QED
    BY <2>1, <2>2
<1>2. CASE SendToken(f)
  BY <1>1, <1>2 DEF SendToken
<1>3. CASE ReceiveReply(f)
  BY <1>1, <1>3 DEF ReceiveReply
<1>4. CASE SendIndexToken(f)
  BY <1>4 DEF SendIndexToken
<1>5. CASE ReceiveIndexReply(f)
  <2>1. /\ Head(indexReplies) \in {"ok", "error"}
        /\ Tail(indexReplies) \in Seq({"ok", "error"})
    BY <1>5 DEF ReceiveIndexReply
  <2> QED
    BY <1>5, <2>1 DEF ReceiveIndexReply
<1> QED
  BY <1>2, <1>3, <1>4, <1>5 DEF FlushStep

\* A call, the progress of Close and a step of another process preserve the
\* types.
LEMMA CallerType ==
  ASSUME TypeOK, SavedIndexIsValid,
         CallerStep \/ CloseStep \/ \E b \in Block : OtherProcess(b)
  PROVE  TypeOK'
<1> USE DEF TypeOK, store, worker, indexer, workerFlush, indexFlush, flushing,
        close, history, IsIndex
<1>1. ASSUME NEW p \in Put, PutStoredBlock(p)
      PROVE  TypeOK'
  BY <1>1 DEF PutStoredBlock
<1>2. ASSUME NEW a \in Ask, AskIndex(a)
      PROVE  TypeOK'
  BY <1>2 DEF AskIndex
<1>3. ASSUME NEW f \in FlushCall, Flush(f)
      PROVE  TypeOK'
  <2>1. flush' \in [FlushCall -> FlushLabel]
    BY <1>3 DEF Flush, FlushLabel
  <2>2. added \cup (IF save THEN storeIndex ELSE {}) \in SUBSET Block
    BY DEF SavedIndexIsValid
  <2>3. due' \in [FlushCall -> [seen : SUBSET Block, alone : BOOLEAN]]
    BY <1>3, <2>2 DEF Flush
  <2> QED
    BY <1>3, <2>1, <2>3 DEF Flush
<1>4. CASE Close
  BY <1>4 DEF Close
<1>5. CASE CloseStep
  <2>1. workerErrorChan # <<>> /\ workerErrorChan' = Tail(workerErrorChan)
    BY <1>5 DEF CloseStep, CollectWorker, CollectIndexWorker
  <2>2. workerErrorChan' \in Seq({"nil", "error"})
    BY <2>1
  <2> QED
    BY <1>5, <2>2 DEF CloseStep, CollectWorker, CollectIndexWorker
<1>6. ASSUME NEW b \in Block, OtherProcess(b)
      PROVE  TypeOK'
  <2>1. b \in Block
    OBVIOUS
  <2>2. lsi' \subseteq Block /\ blobs' \subseteq Block
    <3>1. AddTo(lsi, {b}) \subseteq Block
      BY <2>1, AddToType
    <3> QED
      BY <1>6, <2>1, <3>1 DEF OtherProcess
  <2> QED
    BY <1>6, <2>2 DEF OtherProcess
<1> QED
  BY <1>1, <1>2, <1>3, <1>4, <1>5, <1>6 DEF CallerStep

\* Every step preserves the types.
LEMMA NextType ==
  ASSUME TypeOK, SavedIndexIsValid, [Next]_vars
  PROVE  TypeOK'
<1>1. CASE UNCHANGED vars
  BY <1>1 DEF TypeOK, vars, store, worker, indexer, workerFlush, indexFlush,
              flushing, close, history, IsIndex
<1> QED
  BY <1>1, WorkerType, IndexType, FlushType, CallerType DEF Next

-----------------------------------------------------------------------------
(* The parts of the invariant that speak of one component each.            *)

\* What a call leaves alone.
LEMMA CallerKeeps ==
  ASSUME CallerStep
  PROVE  UNCHANGED <<access, store, worker, blockIndexChan, indexer,
                     unchecked, failed, workerErrorChan, collected>>
  BY DEF CallerStep, PutStoredBlock, AskIndex, Flush, Close, store, worker,
         indexer, history, close

\* What the goroutine of a Flush leaves alone.
LEMMA FlushKeeps ==
  ASSUME NEW f \in FlushCall, FlushStep(f)
  PROVE  UNCHANGED <<access, store, outcome, worker, blockIndexChan, indexer,
                     close, history>> /\ Alive
  BY DEF FlushStep, SendToken, ReceiveReply, SendIndexToken, ReceiveIndexReply,
         store, worker, indexer, close, history

\* What the progress of Close leaves alone.
LEMMA CloseKeeps ==
  ASSUME CloseStep
  PROVE  UNCHANGED <<access, store, outcome, worker, blockIndexChan, indexer,
                     history>>
  BY DEF CloseStep, CollectWorker, CollectIndexWorker, store, worker, indexer,
         history

\* What a worker leaves alone, and when it can move at all.
LEMMA WorkerKeeps ==
  ASSUME NEW w \in Worker, WorkerStep(w)
  PROVE  /\ UNCHANGED <<access, lsi, indexer, closing, collected>>
         /\ Alive /\ pc[w] # "exited"
  BY DEF WorkerStep, EnterSelect, RefusePut, TakePut, StartPut, WriteBlock,
         StoreBlob, WriteFails, PutFails, Answer, SendBlockIndex, Send,
         AnswerPut, FlushWorker, ReplyFlush, LeaveFlush, StopWorker, WorkerAt,
         store, indexer, close

\* What the index worker leaves alone, and when it can move at all.
LEMMA IndexKeeps ==
  ASSUME IndexStep
  PROVE  /\ UNCHANGED <<access, blobs, outcome, worker, closing, collected,
                        history>>
         /\ Alive
  BY DEF IndexStep, AnswerAsk, AskFails, FailAsk, ReceiveBlockIndex,
         EnterIndexSelect, FlushIndex, FlushNothing, FlushIndexFails,
         ReplyIndexFlush, StopIndexWorker, FlushInErrorState, DropBlockIndex,
         LeaveErrorState, IndexAt, store, indexer, close, worker

-----------------------------------------------------------------------------
(* A step of a worker preserves the invariant.                             *)

\* After blockIndexChan was closed no worker takes a step, and the index
\* worker has not stopped before.
LEMMA NoWorkerAfterClose ==
  ASSUME IndInv, NEW w \in Worker, WorkerStep(w)
  PROVE  closing \in {"open", "workers"} /\ indexPc \notin {"stopped", "failed"}
<1>1. Alive /\ pc[w] # "exited"
  BY WorkerKeeps
<1>2. closing \in {"open", "workers", "index", "done"}
  BY <1>1 DEF IndInv, TypeOK, Alive
<1>3. ~BlockIndexChanClosed
  BY <1>1 DEF IndInv, ResultsCounted, Exited
<1> QED
  BY <1>2, <1>3 DEF IndInv, ResultsCounted, BlockIndexChanClosed

\* A worker that ends adds one result; the others keep their number.
LEMMA WorkerResults ==
  ASSUME IndInv, NEW w \in Worker, WorkerStep(w)
  PROVE  ResultsCounted'
<1> USE DEF IndInv, TypeOK
<1>1. /\ closing \in {"open", "workers"} /\ closing' = closing
      /\ indexPc \notin {"stopped", "failed"} /\ indexPc' = indexPc
      /\ collected' = collected /\ pc[w] # "exited"
  BY NoWorkerAfterClose, WorkerKeeps DEF indexer
<1>2. Cardinality(Exited) = collected + Len(workerErrorChan)
  BY <1>1 DEF ResultsCounted
<1>3. Cardinality(Exited)' = collected' + Len(workerErrorChan)'
  <2>1. CASE StopWorker(w)
    <3>1. /\ Exited' = Exited \cup {w}
          /\ w \notin Exited
          /\ workerErrorChan' = Append(workerErrorChan, "nil")
      BY <1>1, <2>1 DEF StopWorker, GoTo, Exited
    <3>2. IsFiniteSet(Exited)
      BY StoreAssumption, FS_Subset DEF StoreAssumption, Exited
    <3>3. Cardinality(Exited') = Cardinality(Exited) + 1
      BY <3>1, <3>2, FS_AddElement
    <3>4. Len(workerErrorChan') = Len(workerErrorChan) + 1
      BY <3>1
    <3> QED
      BY <1>1, <1>2, <3>3, <3>4
  <2>2. CASE ~StopWorker(w)
    <3>1. Exited' = Exited /\ workerErrorChan' = workerErrorChan
      BY <1>1, <2>2 DEF WorkerStep, EnterSelect, RefusePut, TakePut, StartPut,
         WriteBlock, StoreBlob, WriteFails, PutFails, Answer, SendBlockIndex,
         Send, AnswerPut, FlushWorker, ReplyFlush, LeaveFlush, GoTo, Exited,
         close
    <3> QED
      BY <1>1, <1>2, <3>1
  <2> QED
    BY <2>1, <2>2
<1> QED
  BY <1>1, <1>3 DEF ResultsCounted, BlockIndexChanClosed

\* A worker puts into blockIndexChan and takes nothing away.
LEMMA WorkerSaveable ==
  ASSUME IndInv, NEW w \in Worker, WorkerStep(w)
  PROVE  /\ Saveable \subseteq Saveable'
         /\ SendBlockIndex(w) => Hash[job[w]] \in Elements(blockIndexChan)'
         /\ Elements(blockIndexChan)' \subseteq
               Elements(blockIndexChan) \cup {Hash[job[w]]}
         /\ ~SendBlockIndex(w) => blockIndexChan' = blockIndexChan
<1>1. UNCHANGED <<lsi, indexer>>
  BY WorkerKeeps
<1>2. CASE SendBlockIndex(w)
  <2>1. blockIndexChan' = Append(blockIndexChan, Hash[job[w]])
    BY <1>2 DEF SendBlockIndex, Send
  <2>2. blockIndexChan \in Seq(Block) /\ Hash[job[w]] \in Block
    BY <1>2, StoreAssumption
       DEF IndInv, TypeOK, StoreAssumption, SendBlockIndex, Send, WorkerAt
  <2>3. Elements(blockIndexChan') = Elements(blockIndexChan) \cup {Hash[job[w]]}
    BY <2>1, <2>2, ElementsOfAppend
  <2>4. Elements(blockIndexChan)' = Elements(blockIndexChan')
    BY DEF Elements
  <2> QED
    BY <1>1, <1>2, <2>3, <2>4 DEF Saveable, InFlight, AddTo, indexer
<1>3. CASE ~SendBlockIndex(w)
  <2>1. blockIndexChan' = blockIndexChan
    BY <1>3 DEF WorkerStep, EnterSelect, RefusePut, TakePut, StartPut,
       WriteBlock, StoreBlob, WriteFails, PutFails, Answer, AnswerPut,
       FlushWorker, ReplyFlush, LeaveFlush, StopWorker
  <2>2. Elements(blockIndexChan)' = Elements(blockIndexChan)
    BY <2>1 DEF Elements
  <2> QED
    BY <1>1, <1>3, <2>1, <2>2 DEF Saveable, InFlight, AddTo, indexer
<1> QED
  BY <1>2, <1>3

\* A put completes only in AnswerPut, or as one whose writes all failed.
LEMMA WorkerCompletes ==
  ASSUME TypeOK, NEW w \in Worker, WorkerStep(w),
         NEW p \in Put, outcome'[p] = "ok", p \notin failed'
  PROVE  \/ outcome[p] = "ok" /\ p \notin failed
         \/ AnswerPut(w) /\ p = job[w]
<1> USE DEF TypeOK, WorkerAt, history
<1>1. CASE EnterSelect(w) \/ FlushWorker(w) \/ ReplyFlush(w) \/ StopWorker(w)
  BY <1>1 DEF EnterSelect, FlushWorker, ReplyFlush, LeaveFlush, StopWorker
<1>2. ASSUME NEW q \in Put, RefusePut(w, q) \/ TakePut(w, q)
      PROVE  outcome[p] = "ok" /\ p \notin failed
  BY <1>2 DEF RefusePut, TakePut, StartPut
<1>3. CASE WriteBlock(w) \/ SendBlockIndex(w)
  BY <1>3 DEF WriteBlock, StoreBlob, SendBlockIndex, Send
<1>4. CASE WriteFails(w) \/ PutFails(w) \/ AnswerPut(w)
  BY <1>4 DEF WriteFails, PutFails, AnswerPut, Answer
<1> QED
  BY <1>1, <1>2, <1>3, <1>4 DEF WorkerStep

\* What a worker that is about to send, or to answer, has done before.
LEMMA WorkerMoves ==
  ASSUME TypeOK, NEW w \in Worker, WorkerStep(w), NEW v \in Worker
  PROVE  /\ pc'[v] = "answer" =>
               /\ job'[v] = job[v]
               /\ pc[v] = "answer" \/ (v = w /\ SendBlockIndex(w))
         /\ pc'[v] = "send" =>
               \/ pc[v] = "send" /\ job'[v] = job[v]
               \/ Hash[job'[v]] \in blobs' \cup unchecked'
<1> USE DEF TypeOK, WorkerAt, GoTo, worker, store
<1>1. CASE EnterSelect(w) \/ FlushWorker(w) \/ ReplyFlush(w) \/ StopWorker(w)
  BY <1>1 DEF EnterSelect, FlushWorker, ReplyFlush, LeaveFlush, StopWorker
<1>2. ASSUME NEW p \in Put, RefusePut(w, p)
      PROVE  /\ pc'[v] = "answer" => job'[v] = job[v] /\ pc[v] = "answer"
             /\ pc'[v] = "send" => job'[v] = job[v] /\ pc[v] = "send"
  BY <1>2 DEF RefusePut
<1>3. ASSUME NEW p \in Put, TakePut(w, p)
      PROVE  /\ pc'[v] = "answer" => job'[v] = job[v] /\ pc[v] = "answer"
             /\ pc'[v] = "send" =>
                   \/ pc[v] = "send" /\ job'[v] = job[v]
                   \/ Hash[job'[v]] \in blobs' \cup unchecked'
  <2>1. CASE v # w
    BY <1>3, <2>1 DEF TakePut, StartPut
  <2>2. CASE v = w
    <3>1. job'[w] = p /\ blobs' = blobs /\ pc'[w] \in {"send", "write"}
      BY <1>3 DEF TakePut, StartPut
    <3>2. pc'[w] = "send" => Hash[p] \in blobs \cup unchecked'
      BY <1>3 DEF TakePut, StartPut
    <3> QED
      BY <2>2, <3>1, <3>2
  <2> QED
    BY <2>1, <2>2
<1>4. CASE WriteBlock(w)
  BY <1>4 DEF WriteBlock, StoreBlob
<1>5. CASE WriteFails(w) \/ PutFails(w) \/ AnswerPut(w)
  BY <1>5 DEF WriteFails, PutFails, AnswerPut, Answer
<1>6. CASE SendBlockIndex(w)
  BY <1>6 DEF SendBlockIndex, Send
<1> QED
  BY <1>1, <1>2, <1>3, <1>4, <1>5, <1>6 DEF WorkerStep

\* What was stored, or passed on unchecked, stays so.
LEMMA WorkerStored ==
  ASSUME TypeOK, NEW w \in Worker, WorkerStep(w)
  PROVE  blobs \subseteq blobs' /\ unchecked \subseteq unchecked'
  BY DEF WorkerStep, EnterSelect, RefusePut, TakePut, StartPut, WriteBlock,
         StoreBlob, WriteFails, PutFails, Answer, SendBlockIndex, Send,
         AnswerPut, FlushWorker, ReplyFlush, LeaveFlush, StopWorker, store,
         history

LEMMA WorkerKnown ==
  ASSUME TypeOK, NEW w \in Worker, WorkerStep(w)
  PROVE  Known \subseteq Known'
  BY WorkerStored DEF Known

\* In a read-only store a worker only refuses puts, flushes and stops.
LEMMA WorkerReadOnly ==
  ASSUME IndInv, NEW w \in Worker, WorkerStep(w), access = "ReadOnly"
  PROVE  ReadOnlyRefuses' /\ UNCHANGED <<store, blockIndexChan>>
<1> USE DEF IndInv, TypeOK, WorkerAt, GoTo
<1>1. pc[w] \notin {"write", "send", "answer"}
  BY DEF ReadOnlyRefuses
<1>2. \/ EnterSelect(w) \/ FlushWorker(w) \/ ReplyFlush(w) \/ StopWorker(w)
      \/ \E p \in Put : RefusePut(w, p)
  BY <1>1 DEF WorkerStep, WriteBlock, StoreBlob, WriteFails, PutFails,
     SendBlockIndex, Send, AnswerPut, TakePut
<1>3. UNCHANGED <<indexer, access, store, blockIndexChan>>
  BY <1>2 DEF EnterSelect, RefusePut, FlushWorker, ReplyFlush, LeaveFlush,
     StopWorker
<1>4. \A v \in Worker : pc'[v] \notin {"write", "send", "answer"}
  BY <1>2 DEF EnterSelect, RefusePut, FlushWorker, ReplyFlush, LeaveFlush,
     StopWorker, ReadOnlyRefuses
<1>5. \A p \in Put : outcome'[p] \notin {"open", "ok"}
  BY <1>2 DEF EnterSelect, RefusePut, FlushWorker, ReplyFlush, LeaveFlush,
     StopWorker, ReadOnlyRefuses
<1> QED
  BY <1>3, <1>4, <1>5 DEF ReadOnlyRefuses, indexer

\* A step of a worker preserves every part of the invariant.
LEMMA WorkerInv ==
  ASSUME IndInv, NEW w \in Worker, WorkerStep(w)
  PROVE  IndInv'
<1>1. TypeOK
  BY DEF IndInv
<1>2. UNCHANGED <<access, lsi, indexer>>
  BY WorkerKeeps
<1>3. Saveable \subseteq Saveable'
  BY WorkerSaveable
<1>4. TypeOK'
  BY <1>1, WorkerType
<1>5. ReadOnlyRefuses'
  BY <1>2, WorkerReadOnly DEF ReadOnlyRefuses
<1>6. SavedIndexIsValid'
  BY <1>2 DEF IndInv, SavedIndexIsValid, indexer
<1>7. ASSUME indexPc' \notin {"error", "failed"},
             NEW p \in Put, outcome'[p] = "ok", p \notin failed'
      PROVE  Hash[p] \in Saveable'
  <2>1. indexPc \notin {"error", "failed"}
    BY <1>2, <1>7 DEF indexer
  <2>2. CASE outcome[p] = "ok" /\ p \notin failed
    BY <1>3, <2>1, <2>2 DEF IndInv, PutsTracked, Completed, Saveable
  <2>3. CASE AnswerPut(w) /\ p = job[w]
    BY <1>3, <2>1, <2>3 DEF IndInv, AnswersAreTracked, AnswerPut, WorkerAt
  <2> QED
    BY <1>1, <1>7, <2>2, <2>3, WorkerCompletes
<1>8. PutsTracked'
  BY <1>7 DEF PutsTracked, Completed, Saveable
<1>9. AnswersAreTracked'
  <2> SUFFICES ASSUME indexPc' \notin {"error", "failed"},
                      NEW v \in Worker, pc'[v] = "answer"
               PROVE  Hash[job'[v]] \in Saveable'
    BY DEF AnswersAreTracked
  <2>1. indexPc \notin {"error", "failed"}
    BY <1>2 DEF indexer
  <2>2. /\ job'[v] = job[v]
        /\ pc[v] = "answer" \/ (v = w /\ SendBlockIndex(w))
    BY <1>1, WorkerMoves
  <2>3. CASE pc[v] = "answer"
    BY <1>3, <2>1, <2>2, <2>3 DEF IndInv, AnswersAreTracked
  <2>4. CASE v = w /\ SendBlockIndex(w)
    BY <2>2, <2>4, WorkerSaveable DEF Saveable, InFlight
  <2> QED
    BY <2>2, <2>3, <2>4
<1>10. ResultsCounted'
  BY WorkerResults
<1>11. StoppedHasSaved'
  BY <1>2, NoWorkerAfterClose DEF StoppedHasSaved, indexer
<1>12. OnlyKnownBlocks'
  <2>1. Known \subseteq Known'
    BY <1>1, WorkerKnown
  <2>2. Elements(blockIndexChan)' \subseteq Known'
    <3>1. SendBlockIndex(w) => Hash[job[w]] \in Known
      BY DEF IndInv, OnlyKnownBlocks, Known, SendBlockIndex, Send, WorkerAt
    <3>2. Elements(blockIndexChan) \subseteq Known
      BY DEF IndInv, OnlyKnownBlocks, AddTo
    <3>3. CASE ~SendBlockIndex(w)
      BY <2>1, <3>2, <3>3, WorkerSaveable DEF Elements
    <3>4. CASE SendBlockIndex(w)
      BY <2>1, <3>1, <3>2, <3>4, WorkerSaveable
    <3> QED
      BY <3>3, <3>4
  <2>3. \A v \in Worker : pc'[v] = "send" => Hash[job'[v]] \in (blobs \cup unchecked)'
    BY <1>1, WorkerStored, WorkerMoves DEF IndInv, OnlyKnownBlocks
  <2> QED
    BY <1>2, <2>1, <2>2, <2>3 DEF IndInv, OnlyKnownBlocks, AddTo, indexer
<1> QED
  BY <1>4, <1>5, <1>6, <1>8, <1>9, <1>10, <1>11, <1>12 DEF IndInv

-----------------------------------------------------------------------------
(* A step of the index worker preserves the invariant.                     *)

\* Every way to obtain the index keeps what is to be saved or is stored, and
\* makes up no block.
LEMMA ObtainedIndex ==
  ASSUME IndInv, GetStoreIndex \/ EmptyIndexFails, UNCHANGED added
  PROVE  /\ AddTo(lsi, {}) \subseteq AddTo(lsi', {})
         /\ save => save' /\ storeIndex \subseteq storeIndex'
         /\ save' => storeIndex' # NoIndex
         /\ access = "ReadOnly" => lsi' = lsi /\ ~save'
         /\ AddTo(lsi', {}) \subseteq Known
         /\ access # "ReadOnly" => AddTo(storeIndex', {}) \subseteq Known
<1> USE DEF IndInv, TypeOK, SavedIndexIsValid
<1>1. /\ IsIndex(storeIndex)' /\ IsIndex(lsi)' /\ save' \in BOOLEAN
  BY GetStoreIndexType
<1>2. /\ AddTo(lsi, {}) \subseteq Known
      /\ added \subseteq Known
      /\ access # "ReadOnly" => AddTo(storeIndex, {}) \subseteq Known
      /\ access = "ReadOnly" => added = {} /\ ~save
  BY DEF OnlyKnownBlocks, AddTo, ReadOnlyRefuses
<1>3. ASSUME NEW index, index \in SUBSET Block, NEW flag, NEW stored,
             Obtain(index, flag, stored)
      PROVE  /\ storeIndex' = index \cup added /\ storeIndex' # NoIndex
             /\ save' = (flag \/ added # {})
             /\ lsi' = stored
  <2>1. index \cup added \in SUBSET Block
    BY <1>3
  <2> QED
    BY <1>3, <2>1, StoreAssumption DEF Obtain, StoreAssumption
<1>4. CASE HoldIndex
  <2>1. storeIndex \in SUBSET Block
    BY <1>4 DEF HoldIndex, IsIndex
  <2>2. /\ storeIndex' = storeIndex \cup added /\ storeIndex' # NoIndex
        /\ save' = (save \/ added # {})
        /\ lsi' = lsi
    BY <1>3, <1>4, <2>1 DEF HoldIndex
  <2> QED
    BY <1>2, <1>4, <2>2 DEF HoldIndex, AddTo
<1>5. CASE ReadLocalIndex
  <2>1. LocalIndex \in SUBSET Block
    BY <1>5, StoreAssumption DEF ReadLocalIndex, StoreAssumption
  <2>2. /\ storeIndex' # NoIndex
        /\ save' = (save \/ added # {})
        /\ lsi' = lsi
    <3>1. Obtain(LocalIndex, save, lsi)
      BY <1>5 DEF ReadLocalIndex
    <3>2. LocalIndex \cup added \in SUBSET Block
      BY <2>1
    <3> QED
      BY <3>1, <3>2, StoreAssumption DEF Obtain, StoreAssumption
  <2> QED
    BY <1>2, <1>5, <2>2 DEF ReadLocalIndex, AddTo
<1>6. CASE ReadStoreIndex
  <2>1. lsi \in SUBSET Block
    BY <1>6 DEF ReadStoreIndex, IsIndex
  <2>2. /\ storeIndex' = lsi \cup added /\ storeIndex' # NoIndex
        /\ save' = (save \/ added # {})
        /\ lsi' = lsi
    BY <1>3, <1>6, <2>1 DEF ReadStoreIndex
  <2> QED
    BY <1>2, <1>6, <2>2 DEF ReadStoreIndex, AddTo
<1>7. CASE EmptyIndex
  <2>1. /\ storeIndex' = added
        /\ save' = (save \/ added # {})
        /\ lsi' = lsi
        /\ access = "ReadOnly" /\ storeIndex = NoIndex
    BY <1>7 DEF EmptyIndex, NothingRead, Obtain
  <2> QED
    BY <1>2, <2>1 DEF AddTo
<1>8. CASE RebuildIndex
  <2>0. PICK built \in SUBSET blobs : \E r \in SaveResults(built) :
           Obtain(r.index, save \/ access = "Init" \/ ~r.ok, r.lsi)
    BY <1>8 DEF RebuildIndex, BuiltIndexes
  <2>1. PICK r \in SaveResults(built) :
           Obtain(r.index, save \/ access = "Init" \/ ~r.ok, r.lsi)
    BY <2>0
  <2>2. built \in SUBSET Block /\ built \subseteq Known
    BY DEF Known
  <2>3. AddTo(lsi, built) = AddTo(lsi, {}) \cup built
    BY DEF AddTo
  <2>4. r.index \in {built, AddTo(lsi, built)} /\ r.lsi \in {lsi, AddTo(lsi, built)}
    BY UpdateResult
  <2>5. AddTo(lsi, built) \in SUBSET Block /\ AddTo(lsi, built) # NoIndex
    BY <2>2, AddToType
  <2>6. /\ storeIndex' = r.index \cup added /\ storeIndex' # NoIndex
        /\ lsi' = r.lsi
    BY <1>3, <2>1, <2>2, <2>4, <2>5
  <2>7. AddTo(AddTo(lsi, built), {}) = AddTo(lsi, built)
    BY <2>5 DEF AddTo
  <2>8. /\ AddTo(lsi, {}) \subseteq AddTo(lsi', {})
        /\ AddTo(lsi', {}) \subseteq Known
    BY <1>2, <2>2, <2>3, <2>4, <2>6, <2>7
  <2>9. AddTo(storeIndex', {}) \subseteq Known
    BY <1>2, <2>2, <2>3, <2>4, <2>6 DEF AddTo
  <2>10. ~save /\ access # "ReadOnly"
    BY <1>8 DEF RebuildIndex, NothingRead
  <2> QED
    BY <2>6, <2>8, <2>9, <2>10
<1>9. CASE RebuildFails
  BY <1>2, <1>9 DEF RebuildFails, NothingRead, AddTo
<1>10. CASE EmptyIndexFails
  BY <1>2, <1>10 DEF EmptyIndexFails, AddTo
<1> QED
  BY <1>4, <1>5, <1>6, <1>7, <1>8, <1>9, <1>10 DEF GetStoreIndex

\* The index worker reports its result once, when it ends.
LEMMA IndexResults ==
  ASSUME IndInv, IndexStep
  PROVE  ResultsCounted'
<1> USE DEF IndInv, TypeOK, IndexAt
<1>1. /\ Exited' = Exited /\ closing' = closing /\ collected' = collected
      /\ closing # "died"
  BY IndexKeeps DEF Exited, worker, Alive
<1>2. indexPc \notin {"stopped", "failed"}
  BY DEF IndexStep, AnswerAsk, AskFails, FailAsk, ReceiveBlockIndex,
     EnterIndexSelect, FlushIndex, FlushNothing, FlushIndexFails,
     StopIndexWorker, FlushInErrorState, DropBlockIndex, LeaveErrorState
<1>3. CASE StopIndexWorker \/ LeaveErrorState
  <2>1. closing = "index" /\ workerErrorChan = <<>>
    BY <1>2, <1>3 DEF StopIndexWorker, LeaveErrorState, BlockIndexChanClosed,
       ResultsCounted
  <2>2. \/ indexPc' = "stopped" /\ workerErrorChan' = <<"nil">>
        \/ indexPc' = "failed" /\ workerErrorChan' = <<"error">>
    BY <1>3, <2>1 DEF StopIndexWorker, LeaveErrorState
  <2> QED
    BY <1>1, <2>1, <2>2 DEF ResultsCounted, BlockIndexChanClosed
<1>4. CASE ~(StopIndexWorker \/ LeaveErrorState)
  <2>1. workerErrorChan' = workerErrorChan /\ indexPc' \notin {"stopped", "failed"}
    BY <1>2, <1>4 DEF IndexStep, AnswerAsk, AskFails, FailAsk,
       ReceiveBlockIndex, EnterIndexSelect, FlushIndex, FlushNothing,
       FlushIndexFails, ReplyIndexFlush, FlushInErrorState, DropBlockIndex,
       close, indexer
  <2>2. Cardinality(Exited)' = Cardinality(Exited)
    BY <1>1
  <2> QED
    BY <1>1, <1>2, <2>1, <2>2 DEF ResultsCounted, BlockIndexChanClosed
<1> QED
  BY <1>3, <1>4

\* Once the index worker is in its error state it never saves again.
LEMMA IndexErrors ==
  ASSUME TypeOK, IndexStep, indexPc' \notin {"error", "failed"}
  PROVE  indexPc \notin {"error", "failed"}
  BY DEF TypeOK, IndexStep, AnswerAsk, AskFails, FailAsk, ReceiveBlockIndex,
         EnterIndexSelect, FlushIndex, FlushNothing, FlushIndexFails,
         StopIndexWorker, FlushInErrorState, DropBlockIndex, LeaveErrorState,
         IndexAt, indexer

\* When nothing that is to be saved gets lost, puts stay tracked.
LEMMA IndexTracks ==
  ASSUME IndInv, IndexStep,
         indexPc' \notin {"error", "failed"} => Saveable \subseteq Saveable'
  PROVE  PutsTracked' /\ AnswersAreTracked'
<1> SUFFICES ASSUME indexPc' \notin {"error", "failed"}
             PROVE  PutsTracked' /\ AnswersAreTracked'
  BY DEF PutsTracked, AnswersAreTracked
<1>1. indexPc \notin {"error", "failed"}
  BY IndexErrors DEF IndInv
<1>2. UNCHANGED <<outcome, failed, pc, job>>
  BY IndexKeeps DEF worker, history
<1>3. Completed' = Completed
  BY <1>2 DEF Completed
<1>4. PutsTracked'
  BY <1>1, <1>3 DEF IndInv, PutsTracked, Saveable
<1>5. AnswersAreTracked'
  BY <1>1, <1>2 DEF IndInv, AnswersAreTracked
<1> QED
  BY <1>4, <1>5

\* An ask.
LEMMA AskInv ==
  ASSUME IndInv, IndexStep, NEW a \in Ask, AnswerAsk(a) \/ AskFails(a)
  PROVE  IndInv'
<1>1. /\ GetStoreIndex \/ EmptyIndexFails
      /\ UNCHANGED <<access, blobs, outcome, worker, blockIndexChan, added,
                     history>>
      /\ indexPc' \in {"top", "error"}
  BY DEF AnswerAsk, AskFails
<1>2. /\ AddTo(lsi, {}) \subseteq AddTo(lsi', {})
      /\ save => save' /\ storeIndex \subseteq storeIndex'
      /\ save' => storeIndex' # NoIndex
      /\ access = "ReadOnly" => lsi' = lsi /\ ~save'
      /\ AddTo(lsi', {}) \subseteq Known
      /\ access # "ReadOnly" => AddTo(storeIndex', {}) \subseteq Known
  BY <1>1, ObtainedIndex
<1>3. Elements(blockIndexChan)' = Elements(blockIndexChan)
  BY <1>1 DEF Elements
<1>4. Saveable \subseteq Saveable'
  BY <1>1, <1>2, <1>3 DEF Saveable, InFlight, AddTo
<1>5. TypeOK'
  BY IndexType DEF IndInv
<1>6. ReadOnlyRefuses'
  BY <1>1, <1>2 DEF IndInv, ReadOnlyRefuses, worker
<1>7. StoppedHasSaved' /\ SavedIndexIsValid'
  BY <1>1, <1>2 DEF StoppedHasSaved, SavedIndexIsValid
<1>8. OnlyKnownBlocks'
  <2>1. Known' = Known
    BY <1>1 DEF Known, history
  <2> QED
    BY <1>1, <1>2, <1>3, <2>1 DEF IndInv, OnlyKnownBlocks, AddTo, worker, history
<1> QED
  BY <1>4, <1>5, <1>6, <1>7, <1>8, IndexTracks, IndexResults DEF IndInv

\* A flush that saves: what was added moves to storeIndex, and to store.lsi
\* unless the update fails.
LEMMA FlushInv ==
  ASSUME IndInv, IndexStep, FlushIndex
  PROVE  IndInv'
<1> DEFINE index == AddTo(storeIndex, added)
<1> USE DEF IndInv, TypeOK
<1>1. PICK r \in SaveResults(index) :
         /\ storeIndex' = r.index /\ lsi' = r.lsi /\ save' = ~r.ok
         /\ ReplyIndexFlush(IF r.ok THEN "ok" ELSE "error")
  BY DEF FlushIndex
<1>2. /\ UNCHANGED <<access, blobs, outcome, worker, blockIndexChan, history>>
      /\ added' = {} /\ indexPc' = "top"
  BY <1>1 DEF FlushIndex, ReplyIndexFlush
<1>3. /\ index \in SUBSET Block /\ index # NoIndex
      /\ AddTo(lsi, index) \in SUBSET Block /\ AddTo(lsi, index) # NoIndex
  BY AddToType
<1>4. /\ AddTo(lsi, index) = AddTo(lsi, {}) \cup index
      /\ index = AddTo(storeIndex, {}) \cup added
      /\ AddTo(AddTo(lsi, index), {}) = AddTo(lsi, index)
  BY <1>3 DEF AddTo
<1>5. access # "ReadOnly"
  BY DEF FlushIndex, Unwritten, ReadOnlyRefuses
<1>6. /\ r.index \in {index, AddTo(lsi, index)} /\ r.lsi \in {lsi, AddTo(lsi, index)}
      /\ r.ok \in BOOLEAN
      /\ r.ok => r.lsi = AddTo(lsi, index)
      /\ ~r.ok => r.index = index
  BY UpdateResult
<1>7. Elements(blockIndexChan)' = Elements(blockIndexChan)
  BY <1>2 DEF Elements
<1>8. /\ AddTo(lsi, {}) \subseteq AddTo(lsi', {})
      /\ r.ok => index \subseteq AddTo(lsi', {})
      /\ ~r.ok => index \subseteq storeIndex' /\ save'
  BY <1>1, <1>4, <1>6
<1>9. save => storeIndex \subseteq index
  BY <1>4 DEF SavedIndexIsValid, AddTo
<1>10. Saveable \subseteq Saveable'
  BY <1>2, <1>4, <1>6, <1>7, <1>8, <1>9 DEF Saveable, InFlight
<1>11. TypeOK'
  BY IndexType
<1>12. ReadOnlyRefuses' /\ StoppedHasSaved' /\ SavedIndexIsValid'
  BY <1>1, <1>2, <1>3, <1>5, <1>6
     DEF ReadOnlyRefuses, StoppedHasSaved, SavedIndexIsValid
<1>13. OnlyKnownBlocks'
  <2>1. Known' = Known
    BY <1>2 DEF Known, history
  <2>2. /\ AddTo(lsi, {}) \subseteq Known /\ index \subseteq Known
        /\ Elements(blockIndexChan) \subseteq Known
    BY <1>4, <1>5 DEF OnlyKnownBlocks, AddTo
  <2>3. AddTo(lsi, index) \subseteq Known
    BY <1>4, <2>2
  <2>4. AddTo(lsi', {}) \subseteq Known
    BY <1>1, <1>4, <1>6, <2>2, <2>3
  <2>5. AddTo(storeIndex', {}) \subseteq Known
    BY <1>1, <1>6, <2>2, <2>3 DEF AddTo
  <2> QED
    BY <1>2, <1>7, <2>1, <2>2, <2>4, <2>5 DEF OnlyKnownBlocks, AddTo, worker, history
<1> QED
  BY <1>10, <1>11, <1>12, <1>13, IndexTracks, IndexResults

\* A block index moves from the channel to the added blocks.
LEMMA ReceiveInv ==
  ASSUME IndInv, IndexStep, ReceiveBlockIndex
  PROVE  IndInv'
<1> USE DEF IndInv, TypeOK
<1>1. /\ UNCHANGED <<access, store, outcome, worker, storeIndex, save, history>>
      /\ added' = added \cup {Head(blockIndexChan)} /\ indexPc' = "top"
      /\ blockIndexChan # <<>> /\ blockIndexChan' = Tail(blockIndexChan)
  BY DEF ReceiveBlockIndex
<1>2. Elements(blockIndexChan) =
        {Head(blockIndexChan)} \cup Elements(Tail(blockIndexChan))
  BY <1>1, ElementsOfHeadTail
<1>3. Elements(blockIndexChan)' = Elements(Tail(blockIndexChan))
  BY <1>1 DEF Elements
<1>4. Elements(blockIndexChan)' \cup added' = Elements(blockIndexChan) \cup added
  BY <1>1, <1>2, <1>3
<1>5. AddTo(lsi, {})' = AddTo(lsi, {}) /\ Known' = Known
  BY <1>1 DEF AddTo, Known, store, history
<1>6. Saveable \subseteq Saveable'
  BY <1>1, <1>4, <1>5 DEF Saveable, InFlight
<1>7. TypeOK'
  BY IndexType
<1>8. ReadOnlyRefuses' /\ StoppedHasSaved' /\ SavedIndexIsValid'
  BY <1>1 DEF ReadOnlyRefuses, StoppedHasSaved, SavedIndexIsValid
<1>9. OnlyKnownBlocks'
  BY <1>1, <1>4, <1>5 DEF OnlyKnownBlocks, AddTo, worker, store, history
<1> QED
  BY <1>6, <1>7, <1>8, <1>9, IndexTracks, IndexResults

\* The end of the index worker saves what is left, or reports an error.
LEMMA StopInv ==
  ASSUME IndInv, IndexStep, StopIndexWorker
  PROVE  IndInv'
<1> DEFINE index == AddTo(storeIndex, added)
<1> USE DEF IndInv, TypeOK
<1>1. /\ UNCHANGED <<access, blobs, outcome, worker, blockIndexChan, storeIndex,
                     added, save, history>>
      /\ blockIndexChan = <<>>
      /\ indexPc' \in {"stopped", "failed"}
  BY DEF StopIndexWorker
<1>2. /\ index \in SUBSET Block
      /\ AddTo(lsi, index) \in SUBSET Block /\ AddTo(lsi, index) # NoIndex
  BY AddToType
<1>3. /\ AddTo(lsi, index) = AddTo(lsi, {}) \cup index
      /\ index = AddTo(storeIndex, {}) \cup added
      /\ AddTo(AddTo(lsi, index), {}) = AddTo(lsi, index)
  BY <1>2 DEF AddTo
<1>4. \/ /\ access # "ReadOnly"
         /\ lsi' \in {lsi, AddTo(lsi, index)}
         /\ indexPc' = "stopped" => lsi' = AddTo(lsi, index)
      \/ /\ indexPc' = "stopped" /\ lsi' = lsi
         /\ access # "ReadOnly" => added = {} /\ ~save
      \/ indexPc' = "failed" /\ lsi' = lsi
  <2>1. CASE \E r \in SaveResults(index) :
                /\ lsi' = r.lsi
                /\ indexPc' = IF r.ok THEN "stopped" ELSE "failed"
    <3>1. PICK r \in SaveResults(index) :
             /\ lsi' = r.lsi
             /\ indexPc' = IF r.ok THEN "stopped" ELSE "failed"
      BY <2>1
    <3>2. /\ r.lsi \in {lsi, AddTo(lsi, index)}
          /\ r.ok \in BOOLEAN
          /\ r.ok => r.lsi = AddTo(lsi, index)
      BY UpdateResult
    <3>3. access = "ReadOnly" => added = {} /\ ~save
      BY DEF ReadOnlyRefuses
    <3>4. CASE access # "ReadOnly"
      BY <3>1, <3>2, <3>4
    <3>5. CASE access = "ReadOnly"
      BY <3>3, <3>5 DEF StopIndexWorker, Unwritten
    <3> QED
      BY <3>4, <3>5
  <2>2. CASE /\ ~Unwritten /\ (save => access = "ReadOnly")
             /\ indexPc' = "stopped" /\ lsi' = lsi
    BY <2>2 DEF Unwritten
  <2>3. CASE indexPc' = "failed" /\ lsi' = lsi
    BY <2>3
  <2> QED
    BY <2>1, <2>2, <2>3 DEF StopIndexWorker
<1>5. Elements(blockIndexChan)' = Elements(blockIndexChan)
      /\ Elements(blockIndexChan) = {}
  BY <1>1 DEF Elements
<1>6. AddTo(lsi, {}) \subseteq AddTo(lsi', {})
  BY <1>3, <1>4
<1>7. InFlight' = InFlight /\ InFlight \subseteq index
  BY <1>1, <1>3, <1>5 DEF InFlight, SavedIndexIsValid, AddTo
<1>8. Saveable \subseteq Saveable'
  BY <1>6, <1>7 DEF Saveable, AddTo
<1>9. TypeOK'
  BY IndexType
<1>10. ReadOnlyRefuses' /\ SavedIndexIsValid'
  BY <1>1 DEF ReadOnlyRefuses, SavedIndexIsValid, worker
<1>11. StoppedHasSaved'
  <2> SUFFICES ASSUME indexPc' = "stopped", access # "ReadOnly"
               PROVE  InFlight \subseteq AddTo(lsi', {})
    BY <1>1, <1>7 DEF StoppedHasSaved, AddTo
  <2>1. CASE lsi' = AddTo(lsi, index)
    BY <1>3, <1>7, <2>1
  <2>2. CASE added = {} /\ ~save
    BY <1>5, <2>2 DEF InFlight
  <2> QED
    BY <1>4, <2>1, <2>2
<1>12. OnlyKnownBlocks'
  <2>1. Known' = Known
    BY <1>1 DEF Known, history
  <2>2. AddTo(lsi, {}) \subseteq Known /\ added \subseteq Known
    BY DEF OnlyKnownBlocks, AddTo
  <2>3. AddTo(lsi', {}) \subseteq Known
    <3>1. access # "ReadOnly" => index \subseteq Known
      BY <1>3, <2>2 DEF OnlyKnownBlocks
    <3> QED
      BY <1>3, <1>4, <2>2, <3>1
  <2> QED
    BY <1>1, <1>5, <2>1, <2>2, <2>3 DEF OnlyKnownBlocks, AddTo, worker, history
<1> QED
  BY <1>8, <1>9, <1>10, <1>11, <1>12, IndexTracks, IndexResults

\* Every step of the index worker preserves it: those without a lemma of
\* their own move no block, but for the error state, in which block indexes
\* are dropped.
LEMMA IndexInv ==
  ASSUME IndInv, IndexStep
  PROVE  IndInv'
<1> USE DEF IndInv, TypeOK
<1>1. CASE \E a \in Ask : AnswerAsk(a) \/ AskFails(a)
  BY <1>1, AskInv
<1>2. CASE FlushIndex
  BY <1>2, FlushInv
<1>3. CASE ReceiveBlockIndex
  BY <1>3, ReceiveInv
<1>4. CASE StopIndexWorker
  BY <1>4, StopInv
<1>5. CASE \/ \E a \in Ask : FailAsk(a)
           \/ EnterIndexSelect \/ FlushNothing \/ FlushIndexFails
           \/ FlushInErrorState \/ LeaveErrorState
  <2>1. /\ UNCHANGED <<access, blobs, lsi, outcome, worker, blockIndexChan,
                       storeIndex, added, save, history>>
        /\ indexPc' # "stopped"
    BY <1>5 DEF FailAsk, EnterIndexSelect, FlushNothing, FlushIndexFails,
       FlushInErrorState, LeaveErrorState, ReplyIndexFlush, store, indexer,
       IndexAt
  <2>2. /\ Saveable' = Saveable /\ Known' = Known
        /\ Elements(blockIndexChan)' = Elements(blockIndexChan)
    BY <2>1 DEF Saveable, InFlight, AddTo, Known, Elements, history
  <2>3. /\ ReadOnlyRefuses' /\ SavedIndexIsValid' /\ StoppedHasSaved'
        /\ OnlyKnownBlocks'
    BY <2>1, <2>2 DEF ReadOnlyRefuses, SavedIndexIsValid, StoppedHasSaved,
       OnlyKnownBlocks, AddTo, worker, history
  <2> QED
    BY <2>2, <2>3, IndexTracks, IndexResults, IndexType
<1>6. CASE DropBlockIndex
  <2>1. /\ UNCHANGED <<access, blobs, lsi, outcome, worker, indexPc, storeIndex,
                       added, save, history>>
        /\ indexPc = "error"
        /\ blockIndexChan # <<>> /\ blockIndexChan' = Tail(blockIndexChan)
    BY <1>6 DEF DropBlockIndex, IndexAt, store, indexer
  <2>2. Elements(blockIndexChan)' \subseteq Elements(blockIndexChan)
    <3>1. Elements(blockIndexChan)' = Elements(Tail(blockIndexChan))
      BY <2>1 DEF Elements
    <3> QED
      BY <2>1, <3>1, ElementsOfHeadTail
  <2>3. ReadOnlyRefuses' /\ SavedIndexIsValid' /\ StoppedHasSaved'
    BY <2>1 DEF ReadOnlyRefuses, SavedIndexIsValid, StoppedHasSaved, worker
  <2>4. OnlyKnownBlocks'
    BY <2>1, <2>2 DEF OnlyKnownBlocks, AddTo, Known, worker, history
  <2>5. PutsTracked' /\ AnswersAreTracked'
    BY <2>1 DEF PutsTracked, AnswersAreTracked
  <2> QED
    BY <2>3, <2>4, <2>5, IndexResults, IndexType
<1> QED
  BY <1>1, <1>2, <1>3, <1>4, <1>5, <1>6 DEF IndexStep

-----------------------------------------------------------------------------
(* The other steps preserve the invariant.                                 *)

\* A step that changes none of what puts are tracked by, nor Close's results,
\* preserves the invariant if it preserves the types.
LEMMA OtherInv ==
  ASSUME IndInv, TypeOK',
         UNCHANGED <<access, store, worker, blockIndexChan, indexer, unchecked,
                     failed>>,
         \A p \in Put : outcome'[p] \in {"open", "ok"} => outcome'[p] = outcome[p],
         ResultsCounted'
  PROVE  IndInv'
<1> USE DEF store, worker, indexer
<1>1. /\ Saveable' = Saveable /\ InFlight' = InFlight /\ Known' = Known
      /\ Elements(blockIndexChan)' = Elements(blockIndexChan)
  BY DEF Saveable, InFlight, AddTo, Known, Elements
<1>2. Completed' \subseteq Completed
  BY DEF Completed
<1>3. ReadOnlyRefuses' /\ SavedIndexIsValid' /\ StoppedHasSaved'
  BY <1>1 DEF IndInv, ReadOnlyRefuses, SavedIndexIsValid, StoppedHasSaved, AddTo
<1>4. PutsTracked' /\ AnswersAreTracked'
  BY <1>1, <1>2 DEF IndInv, PutsTracked, AnswersAreTracked, Saveable
<1>5. OnlyKnownBlocks'
  BY <1>1 DEF IndInv, OnlyKnownBlocks, AddTo
<1> QED
  BY <1>3, <1>4, <1>5 DEF IndInv

\* A call that is made, or Close called.
LEMMA CallerInv ==
  ASSUME IndInv, CallerStep
  PROVE  IndInv'
<1>1. TypeOK'
  BY CallerType DEF IndInv
<1>2. UNCHANGED <<access, store, worker, blockIndexChan, indexer, unchecked,
                  failed, workerErrorChan, collected>>
  BY CallerKeeps
<1>3. \A p \in Put : outcome'[p] \in {"open", "ok"} => outcome'[p] = outcome[p]
  BY DEF IndInv, TypeOK, CallerStep, PutStoredBlock, AskIndex, Flush, Close
<1>4. closing = "open" /\ closing' \in {"open", "workers"}
  BY DEF CallerStep, PutStoredBlock, AskIndex, Flush, Close, Open, close
<1>5. Cardinality(Exited)' = Cardinality(Exited) /\ indexPc' = indexPc
  BY <1>2 DEF Exited, worker, indexer
<1>6. ResultsCounted'
  BY <1>2, <1>4, <1>5 DEF IndInv, ResultsCounted, BlockIndexChanClosed
<1> QED
  BY <1>1, <1>2, <1>3, <1>6, OtherInv

\* A step of the goroutine of a Flush.
LEMMA FlushStepInv ==
  ASSUME IndInv, NEW f \in FlushCall, FlushStep(f)
  PROVE  IndInv'
<1>1. TypeOK'
  BY FlushType DEF IndInv
<1>2. UNCHANGED <<access, store, outcome, worker, blockIndexChan, indexer,
                  close, history>>
  BY FlushKeeps
<1>3. Exited' = Exited
  BY <1>2 DEF Exited, worker
<1>4. ResultsCounted'
  BY <1>2, <1>3
     DEF IndInv, ResultsCounted, BlockIndexChanClosed, close, indexer
<1> QED
  BY <1>1, <1>2, <1>4, OtherInv DEF history

\* Close receives a result; when it was the last worker's, all have ended.
LEMMA CloseInv ==
  ASSUME IndInv, CloseStep
  PROVE  IndInv'
<1> USE DEF IndInv, TypeOK
<1>1. TypeOK'
  BY CallerType
<1>2. UNCHANGED <<access, store, outcome, worker, blockIndexChan, indexer,
                  history>>
  BY CloseKeeps
<1>3. Exited' = Exited /\ indexPc' = indexPc
  BY <1>2 DEF Exited, worker, indexer
<1>4. CASE CollectWorker
  <2>1. /\ closing = "workers" /\ workerErrorChan # <<>>
        /\ workerErrorChan' = Tail(workerErrorChan)
        /\ collected' = collected + 1
        /\ closing' \in {"died", "index", "workers"}
        /\ closing' = "index" => collected' = Cardinality(Worker)
    BY <1>4 DEF CollectWorker, AllWorkers
  <2>2. /\ Cardinality(Exited) = collected + Len(workerErrorChan)
        /\ indexPc \notin {"stopped", "failed"}
    BY <2>1 DEF ResultsCounted
  <2>3. /\ Len(workerErrorChan) \in Nat \ {0}
        /\ Len(Tail(workerErrorChan)) = Len(workerErrorChan) - 1
    BY <2>1
  <2>4. Cardinality(Exited) = collected' + Len(workerErrorChan')
    BY <2>1, <2>2, <2>3
  <2>5. ASSUME closing' = "index"
        PROVE  Exited = Worker /\ workerErrorChan' = <<>>
    <3>1. /\ IsFiniteSet(Worker) /\ Exited \subseteq Worker
          /\ IsFiniteSet(Exited)
          /\ Cardinality(Exited) <= Cardinality(Worker)
          /\ Cardinality(Exited) = Cardinality(Worker) => Exited = Worker
      BY StoreAssumption, FS_Subset DEF StoreAssumption, Exited
    <3>2. /\ Cardinality(Worker) \in Nat
          /\ Len(workerErrorChan') \in Nat
          /\ collected' = Cardinality(Worker)
      BY <2>1, <2>3, <2>5, WorkerCount
    <3>3. Len(workerErrorChan') = 0 /\ Cardinality(Exited) = Cardinality(Worker)
      BY <2>4, <3>1, <3>2, FS_CardinalityType
    <3> QED
      BY <1>1, <3>1, <3>3
  <2>6. ResultsCounted'
    BY <1>3, <2>1, <2>2, <2>4, <2>5 DEF ResultsCounted, BlockIndexChanClosed
  <2> QED
    BY <1>1, <1>2, <2>6, OtherInv DEF history
<1>5. CASE CollectIndexWorker
  <2>1. /\ closing = "index" /\ workerErrorChan # <<>>
        /\ closing' = IF Head(workerErrorChan) = "error" THEN "died" ELSE "done"
    BY <1>5 DEF CollectIndexWorker
  <2>2. Exited = Worker
    BY <2>1 DEF ResultsCounted, BlockIndexChanClosed
  <2>3. closing' = "done" => indexPc = "stopped"
    BY <2>1 DEF ResultsCounted
  <2>4. ResultsCounted'
    BY <1>3, <2>1, <2>2, <2>3 DEF ResultsCounted, BlockIndexChanClosed
  <2> QED
    BY <1>1, <1>2, <2>4, OtherInv DEF history
<1> QED
  BY <1>4, <1>5 DEF CloseStep

\* Another process adds to store.lsi only a block that it stored.
LEMMA OtherProcessInv ==
  ASSUME IndInv, NEW b \in Block, OtherProcess(b)
  PROVE  IndInv'
<1>1. TypeOK'
  BY CallerType DEF IndInv
<1>2. /\ UNCHANGED <<access, outcome, worker, blockIndexChan, indexer, close,
                     history>>
      /\ blobs \subseteq blobs' /\ b \in blobs' \cup Stale
      /\ lsi' = AddTo(lsi, {b})
  BY DEF OtherProcess
<1>3. /\ AddTo(lsi', {}) = AddTo(lsi, {}) \cup {b}
      /\ Known \cup {b} \subseteq Known'
      /\ Elements(blockIndexChan)' = Elements(blockIndexChan)
  <2>1. lsi' # NoIndex
    BY <1>2, AddToType, StoreAssumption DEF IndInv, TypeOK, StoreAssumption
  <2>2. AddTo(lsi', {}) = AddTo(lsi, {}) \cup {b}
    BY <1>2, <2>1 DEF AddTo
  <2> QED
    BY <1>2, <2>2 DEF Known, history, Elements
<1>4. InFlight' = InFlight /\ Saveable \subseteq Saveable'
  BY <1>2, <1>3 DEF Saveable, InFlight, indexer, AddTo
<1>5. ReadOnlyRefuses' /\ SavedIndexIsValid'
  BY <1>2 DEF IndInv, ReadOnlyRefuses, SavedIndexIsValid, worker, indexer
<1>6. StoppedHasSaved'
  BY <1>2, <1>3, <1>4 DEF IndInv, StoppedHasSaved, indexer
<1>7. PutsTracked' /\ AnswersAreTracked'
  <2>1. Completed' = Completed
    BY <1>2 DEF Completed, history
  <2> QED
    BY <1>2, <1>4, <2>1
       DEF IndInv, PutsTracked, AnswersAreTracked, Saveable, worker, indexer
<1>8. ResultsCounted'
  <2>1. Exited' = Exited
    BY <1>2 DEF Exited, worker
  <2> QED
    BY <1>2, <2>1
       DEF IndInv, ResultsCounted, BlockIndexChanClosed, close, indexer
<1>9. OnlyKnownBlocks'
  BY <1>2, <1>3 DEF IndInv, OnlyKnownBlocks, AddTo, worker, indexer, history
<1> QED
  BY <1>1, <1>5, <1>6, <1>7, <1>8, <1>9 DEF IndInv

-----------------------------------------------------------------------------
(* The invariant.                                                          *)

\* It holds initially: a goroutine that failed to start has left its result.
LEMMA InitInv == Init => IndInv
<1> SUFFICES ASSUME Init
             PROVE  IndInv
  OBVIOUS
<1>1. TypeOK
  BY InitType
<1>2. PICK unstarted \in SUBSET Worker :
         /\ pc = [w \in Worker |-> IF w \in unstarted THEN "exited" ELSE "top"]
         /\ workerErrorChan = [i \in 1..Cardinality(unstarted) |-> "error"]
  BY DEF Init
<1>3. Exited = unstarted /\ Len(workerErrorChan) = Cardinality(unstarted)
  <2>1. Cardinality(unstarted) \in Nat
    BY FS_Subset, FS_CardinalityType, StoreAssumption DEF StoreAssumption
  <2> QED
    BY <1>2, <2>1 DEF Exited
<1>4. ResultsCounted
  <2>1. Cardinality(unstarted) \in Nat
    BY FS_Subset, FS_CardinalityType, StoreAssumption DEF StoreAssumption
  <2>2. closing = "open" /\ collected = 0 /\ indexPc \in {"top", "error"}
    BY DEF Init
  <2>3. Cardinality(Exited) = collected + Len(workerErrorChan)
    BY <1>3, <2>1, <2>2
  <2> QED
    BY <2>2, <2>3 DEF ResultsCounted, BlockIndexChanClosed
<1>5. \A w \in Worker : pc[w] \in {"top", "exited"}
  BY <1>2
<1>6. Elements(blockIndexChan) = {} /\ Completed = {}
  BY DEF Init, Elements, Completed
<1>7. ReadOnlyRefuses /\ SavedIndexIsValid
  BY <1>5 DEF Init, ReadOnlyRefuses, SavedIndexIsValid
<1>8. PutsTracked /\ AnswersAreTracked /\ StoppedHasSaved
  BY <1>5, <1>6 DEF Init, PutsTracked, AnswersAreTracked, StoppedHasSaved
<1>9. OnlyKnownBlocks
  <2>1. AddTo(lsi, {}) \subseteq Known /\ added = {} /\ storeIndex = NoIndex
    BY DEF Init, AddTo, Known
  <2> QED
    BY <1>5, <1>6, <2>1 DEF OnlyKnownBlocks, AddTo
<1> QED
  BY <1>1, <1>4, <1>7, <1>8, <1>9 DEF IndInv

\* Every step preserves it.
LEMMA NextInv == IndInv /\ [Next]_vars => IndInv'
<1> SUFFICES ASSUME IndInv, [Next]_vars
             PROVE  IndInv'
  OBVIOUS
<1>1. CASE UNCHANGED vars
  <2>1. TypeOK'
    BY NextType DEF IndInv
  <2>2. Exited' = Exited
    BY <1>1 DEF vars, worker, Exited
  <2>3. ResultsCounted'
    BY <1>1, <2>2
       DEF IndInv, ResultsCounted, BlockIndexChanClosed, vars, close, indexer
  <2> QED
    BY <1>1, <2>1, <2>3, OtherInv DEF vars, history
<1>2. CASE Next
  BY <1>2, OtherProcessInv, CallerInv, WorkerInv, IndexInv, FlushStepInv,
     CloseInv DEF Next
<1> QED
  BY <1>1, <1>2

\* The strengthened invariant holds in every reachable state.
THEOREM Invariance == Safety => []IndInv
  BY InitInv, NextInv, PTL DEF Safety

\* Every variable keeps its type, and no channel holds more than it can.
THEOREM Types == Spec => []TypeOK
<1>1. IndInv => TypeOK
  BY DEF IndInv
<1> QED
  BY <1>1, Invariance, PTL DEF Spec

\* A put reported as successful is never forgotten before it is in store.lsi,
\* whatever the order in which workers and the index worker go on.
THEOREM NothingForgotten == Spec => []PutsTracked
<1>1. IndInv => PutsTracked
  BY DEF IndInv
<1> QED
  BY <1>1, Invariance, PTL DEF Spec

\* Close saves every put that was reported as successful.
THEOREM CloseSaves == Spec => []CloseSavesPuts
<1>1. IndInv => CloseSavesPuts
  <2> SUFFICES ASSUME IndInv, closing = "done"
               PROVE  Completed \subseteq AddTo(lsi, {})
    BY DEF CloseSavesPuts
  <2>1. indexPc = "stopped"
    BY DEF IndInv, ResultsCounted
  <2>2. Completed \subseteq InFlight \cup AddTo(lsi, {})
    BY <2>1 DEF IndInv, PutsTracked
  <2>3. CASE access = "ReadOnly"
    BY <2>3 DEF IndInv, ReadOnlyRefuses, Completed
  <2>4. CASE access # "ReadOnly"
    BY <2>1, <2>2, <2>4 DEF IndInv, StoppedHasSaved
  <2> QED
    BY <2>3, <2>4
<1> QED
  BY <1>1, Invariance, PTL DEF Spec

\* A block that an index lists, or that is on its way to one, has a blob, or
\* the Exists call of a put of this process failed for it, or it is one of
\* Stale, which other processes listed without a blob.
THEOREM NothingUnknownListed == Spec => []IndexedBlocksStored
<1>1. IndInv => IndexedBlocksStored
  <2> SUFFICES ASSUME IndInv
               PROVE  AddTo(lsi, InFlight) \subseteq Known
    BY DEF IndexedBlocksStored, Known
  <2>1. AddTo(lsi, Elements(blockIndexChan) \cup added) \subseteq Known
    BY DEF IndInv, OnlyKnownBlocks
  <2>2. save => storeIndex \subseteq Known
    BY DEF IndInv, OnlyKnownBlocks, ReadOnlyRefuses, SavedIndexIsValid, AddTo
  <2> QED
    BY <2>1, <2>2 DEF InFlight, AddTo
<1> QED
  BY <1>1, Invariance, PTL DEF Spec

\* Close counts the results of all workers before it closes blockIndexChan.
THEOREM NoSendAfterClose == Spec => []NoSendOnClosedChannel
<1>1. IndInv => NoSendOnClosedChannel
  BY DEF IndInv, ResultsCounted, NoSendOnClosedChannel, Exited
<1> QED
  BY <1>1, Invariance, PTL DEF Spec

\* A read-only store writes nothing.
THEOREM ReadOnlyStore == Spec => ReadOnlyNeverWrites
<1>1. ASSUME IndInv, Next, access = "ReadOnly"
      PROVE  (\E b \in Block : OtherProcess(b)) \/ UNCHANGED store
  <2>1. CASE CallerStep
    BY <2>1, CallerKeeps
  <2>2. ASSUME NEW w \in Worker, WorkerStep(w)
        PROVE  UNCHANGED store
    BY <1>1, <2>2, WorkerReadOnly
  <2>3. CASE IndexStep
    <3>1. blobs' = blobs
      BY <2>3, IndexKeeps
    <3>2. added = {} /\ ~save
      BY <1>1 DEF IndInv, ReadOnlyRefuses
    <3>3. ASSUME NEW a \in Ask, AnswerAsk(a) \/ AskFails(a)
          PROVE  lsi' = lsi
      <4>1. (GetStoreIndex \/ EmptyIndexFails) /\ UNCHANGED added
        BY <3>3 DEF AnswerAsk, AskFails
      <4> QED
        BY <1>1, <4>1, ObtainedIndex
    <3>4. ~FlushIndex
      BY <3>2 DEF FlushIndex, Unwritten
    <3>5. ASSUME StopIndexWorker
          PROVE  lsi' = lsi
      BY <1>1, <3>2, <3>5 DEF StopIndexWorker, Unwritten
    <3>6. ASSUME \/ \E a \in Ask : FailAsk(a)
                 \/ ReceiveBlockIndex \/ EnterIndexSelect
                 \/ FlushNothing \/ FlushIndexFails
                 \/ FlushInErrorState \/ DropBlockIndex \/ LeaveErrorState
          PROVE  lsi' = lsi
      BY <3>6 DEF FailAsk, ReceiveBlockIndex, EnterIndexSelect, FlushNothing,
         FlushIndexFails, FlushInErrorState, DropBlockIndex, LeaveErrorState,
         store
    <3>7. lsi' = lsi
      BY <2>3, <3>3, <3>4, <3>5, <3>6 DEF IndexStep
    <3> QED
      BY <3>1, <3>7 DEF store
  <2>4. ASSUME NEW f \in FlushCall, FlushStep(f)
        PROVE  UNCHANGED store
    BY <2>4, FlushKeeps
  <2>5. CASE CloseStep
    BY <2>5, CloseKeeps
  <2> QED
    BY <1>1, <2>1, <2>2, <2>3, <2>4, <2>5 DEF Next
<1> QED
  BY <1>1, Invariance, PTL DEF Spec, Safety, ReadOnlyNeverWrites

-----------------------------------------------------------------------------
(* A flush that is alone saves what the index worker had received.         *)

\* Only its failure takes from what the index worker is to save, and nothing
\* is taken from store.lsi.
Keeps ==
    /\ Received \cup AddTo(lsi, {}) \subseteq (Received \cup AddTo(lsi, {}))'
    /\ AddTo(lsi, {}) \subseteq AddTo(lsi', {})

\* What an update of store.lsi leaves of an index that was to be saved.
LEMMA UpdateSaves ==
  ASSUME TypeOK, SavedIndexIsValid,
         NEW r \in SaveResults(AddTo(storeIndex, added))
  PROVE  /\ AddTo(lsi, {}) \subseteq AddTo(r.lsi, {})
         /\ Received \subseteq r.index
         /\ r.ok => Received \cup AddTo(lsi, {}) \subseteq AddTo(r.lsi, {})
<1> DEFINE index == AddTo(storeIndex, added)
<1>1. /\ index \in SUBSET Block
      /\ AddTo(lsi, index) \in SUBSET Block /\ AddTo(lsi, index) # NoIndex
  BY AddToType DEF TypeOK
<1>2. /\ AddTo(lsi, index) = AddTo(lsi, {}) \cup index
      /\ AddTo(AddTo(lsi, index), {}) = AddTo(lsi, index)
  BY <1>1 DEF AddTo
<1>3. Received \subseteq index
  BY DEF Received, SavedIndexIsValid, AddTo
<1>4. /\ r.ok \in BOOLEAN
      /\ r.index \in {index, AddTo(lsi, index)}
      /\ r.lsi \in {lsi, AddTo(lsi, index)}
      /\ r.ok => r.lsi = AddTo(lsi, index)
  BY UpdateResult
<1> QED
  BY <1>2, <1>3, <1>4

\* A step of the index worker that does not enter its error state.
LEMMA IndexKeepsReceived ==
  ASSUME IndInv, IndexStep, indexPc' \notin {"error", "failed"}
  PROVE  Keeps
<1> USE DEF Keeps
<1>1. ASSUME NEW a \in Ask, AnswerAsk(a)
      PROVE  Keeps
  <2>1. GetStoreIndex /\ UNCHANGED added
    BY <1>1 DEF AnswerAsk
  <2>2. /\ AddTo(lsi, {}) \subseteq AddTo(lsi', {})
        /\ save => save' /\ storeIndex \subseteq storeIndex'
    BY <2>1, ObtainedIndex
  <2>3. Received \subseteq Received'
    BY <2>1, <2>2 DEF Received
  <2> QED
    BY <2>2, <2>3 DEF AddTo
<1>2. CASE FlushIndex
  <2>1. PICK r \in SaveResults(AddTo(storeIndex, added)) :
           storeIndex' = r.index /\ lsi' = r.lsi /\ save' = ~r.ok
    BY <1>2 DEF FlushIndex
  <2>2. /\ AddTo(lsi, {}) \subseteq AddTo(r.lsi, {})
        /\ Received \subseteq r.index
        /\ r.ok => Received \cup AddTo(lsi, {}) \subseteq AddTo(r.lsi, {})
    BY UpdateSaves DEF IndInv
  <2>3. AddTo(lsi, {}) \subseteq AddTo(lsi', {})
    BY <2>1, <2>2
  <2>4. ~r.ok => Received \subseteq Received'
    BY <2>1, <2>2 DEF Received
  <2>5. r.ok => Received \subseteq AddTo(lsi', {})
    BY <2>1, <2>2
  <2>6. (Received \cup AddTo(lsi, {}))' = Received' \cup AddTo(lsi', {})
    BY DEF AddTo
  <2> QED
    BY <2>3, <2>4, <2>5, <2>6
<1>3. CASE ReceiveBlockIndex
  BY <1>3 DEF ReceiveBlockIndex, Received, AddTo, store
<1>4. CASE StopIndexWorker
  <2>1. UNCHANGED <<added, save, storeIndex>>
    BY <1>4 DEF StopIndexWorker
  <2>2. \A r \in SaveResults(AddTo(storeIndex, added)) :
           AddTo(lsi, {}) \subseteq AddTo(r.lsi, {})
    BY UpdateSaves DEF IndInv
  <2>3. AddTo(lsi, {}) \subseteq AddTo(lsi', {})
    BY <1>4, <2>2 DEF StopIndexWorker
  <2> QED
    BY <2>1, <2>3 DEF Received, AddTo
<1>5. CASE \/ \E a \in Ask : FailAsk(a)
           \/ EnterIndexSelect \/ FlushNothing \/ FlushIndexFails
           \/ FlushInErrorState \/ DropBlockIndex \/ LeaveErrorState
  <2>1. UNCHANGED <<lsi, added, save, storeIndex>>
    BY <1>5 DEF FailAsk, EnterIndexSelect, FlushNothing, FlushIndexFails,
       FlushInErrorState, DropBlockIndex, LeaveErrorState, store, indexer
  <2> QED
    BY <2>1 DEF Received, AddTo
<1>6. ~ \E a \in Ask : AskFails(a)
  BY DEF AskFails
<1> QED
  BY <1>1, <1>2, <1>3, <1>4, <1>5, <1>6 DEF IndexStep

\* The steps of all others leave the index worker's variables alone, and only
\* another process writes store.lsi.
LEMMA OthersKeepReceived ==
  ASSUME IndInv,
         \/ UNCHANGED vars
         \/ \E b \in Block : OtherProcess(b)
         \/ CallerStep \/ CloseStep
         \/ \E w \in Worker : WorkerStep(w)
         \/ \E f \in FlushCall : FlushStep(f)
  PROVE  Keeps /\ indexPc' = indexPc
<1>1. CASE \/ UNCHANGED vars
           \/ CallerStep \/ CloseStep
           \/ \E w \in Worker : WorkerStep(w)
           \/ \E f \in FlushCall : FlushStep(f)
  <2>1. UNCHANGED <<lsi, indexer>>
    BY <1>1, CallerKeeps, CloseKeeps, WorkerKeeps, FlushKeeps DEF vars, store
  <2> QED
    BY <2>1 DEF Keeps, Received, AddTo, indexer
<1>2. ASSUME NEW b \in Block, OtherProcess(b)
      PROVE  Keeps /\ indexPc' = indexPc
  <2>1. /\ UNCHANGED indexer
        /\ lsi' = AddTo(lsi, {b})
    BY <1>2 DEF OtherProcess, AddTo
  <2>2. lsi' # NoIndex
    BY <2>1, AddToType, StoreAssumption DEF IndInv, TypeOK, StoreAssumption
  <2> QED
    BY <2>1, <2>2 DEF Keeps, Received, AddTo, indexer
<1> QED
  BY <1>1, <1>2

\* A step that moves no flush to or from the index worker.
LEMMA FlushesKept ==
  ASSUME FlushesInv, UNCHANGED <<due, indexFlush>>,
         indexPc' \notin {"error", "failed"} =>
            indexPc \notin {"error", "failed"} /\ Keeps,
         \A f \in FlushCall : /\ flush'[f] = "reply" <=> flush[f] = "reply"
                              /\ flush'[f] = "ok" <=> flush[f] = "ok"
                              /\ FlushOpen(f)' <=> FlushOpen(f)
  PROVE  FlushesInv'
<1> USE DEF indexFlush, FlushesInv
<1>1. Replying' = Replying
  BY Zenon DEF Replying
<1>2. IndexFlushCounted'
  BY <1>1 DEF IndexFlushCounted
<1>3. AloneIsOnly'
  BY Zenon DEF AloneIsOnly
<1>4. ASSUME indexPc' \notin {"error", "failed"},
             NEW f \in FlushCall, due[f].alone
      PROVE  /\ FlushOpen(f)' => due[f].seen \subseteq (Received \cup AddTo(lsi, {}))'
             /\ flush'[f] = "reply" /\ indexReplies = <<"ok">> =>
                   due[f].seen \subseteq AddTo(lsi', {})
             /\ flush'[f] = "ok" => due[f].seen \subseteq AddTo(lsi', {})
  <2>1. /\ FlushOpen(f) => due[f].seen \subseteq Received \cup AddTo(lsi, {})
        /\ flush[f] = "reply" /\ indexReplies = <<"ok">> =>
              due[f].seen \subseteq AddTo(lsi, {})
        /\ flush[f] = "ok" => due[f].seen \subseteq AddTo(lsi, {})
    BY <1>4 DEF DueIsSaved
  <2> QED
    BY <1>4, <2>1 DEF Keeps
<1>5. DueIsSaved'
  BY <1>4 DEF DueIsSaved, AddTo
<1> QED
  BY <1>2, <1>3, <1>5

\* A flush begins: what it is to save is what the index worker has received,
\* and no flush that was open is alone any more.
LEMMA FlushBegins ==
  ASSUME TypeOK, FlushesInv, NEW f \in FlushCall, Flush(f)
  PROVE  FlushesInv'
<1> USE DEF FlushesInv
<1>1. /\ flush[f] = "unmade"
      /\ flush' = [flush EXCEPT ![f] = "tokens"]
      /\ UNCHANGED <<lsi, added, save, storeIndex, indexPc, indexToken,
                     indexReplies>>
      /\ due' = [g \in FlushCall |->
            IF g = f THEN [seen |-> Received,
                           alone |-> \A h \in FlushCall : ~FlushOpen(h)]
            ELSE IF FlushOpen(g) THEN [due[g] EXCEPT !.alone = FALSE]
            ELSE due[g]]
  BY DEF Flush, store, indexer, indexFlush, Received
<1>2. /\ flush'[f] = "tokens"
      /\ \A g \in FlushCall \ {f} : flush'[g] = flush[g]
      /\ due'[f].seen = Received
      /\ due'[f].alone => \A h \in FlushCall : ~FlushOpen(h)
      /\ \A g \in FlushCall \ {f} : due'[g].alone => ~FlushOpen(g) /\ due'[g] = due[g]
  BY <1>1 DEF TypeOK
<1>3. /\ FlushOpen(f)' /\ ~FlushOpen(f)
      /\ \A g \in FlushCall \ {f} : FlushOpen(g)' <=> FlushOpen(g)
  BY <1>1, <1>2 DEF FlushOpen
<1>4. Replying' = Replying
  BY <1>1, <1>2 DEF Replying
<1>5. IndexFlushCounted'
  BY <1>1, <1>4 DEF IndexFlushCounted
<1>6. AloneIsOnly'
  <2> SUFFICES ASSUME NEW g \in FlushCall, NEW h \in FlushCall,
                      FlushOpen(g)', due'[g].alone, FlushOpen(h)'
               PROVE  h = g
    BY DEF AloneIsOnly
  <2>1. g = f
    BY <1>2, <1>3
  <2> QED
    BY <1>2, <1>3, <2>1
<1>7. DueIsSaved'
  <2> SUFFICES ASSUME indexPc \notin {"error", "failed"},
                      NEW g \in FlushCall, due'[g].alone
               PROVE  /\ FlushOpen(g)' => due'[g].seen \subseteq Received \cup AddTo(lsi, {})
                      /\ flush'[g] = "reply" /\ indexReplies = <<"ok">> =>
                            due'[g].seen \subseteq AddTo(lsi, {})
                      /\ flush'[g] = "ok" => due'[g].seen \subseteq AddTo(lsi, {})
    BY <1>1 DEF DueIsSaved, Received, AddTo
  <2>1. CASE g = f
    BY <1>2, <2>1
  <2>2. CASE g # f
    BY <1>2, <1>3, <2>2 DEF DueIsSaved
  <2> QED
    BY <2>1, <2>2
<1> QED
  BY <1>5, <1>6, <1>7

\* A flush that is alone and awaits its reply: no other one does.
LEMMA AloneReplying ==
  ASSUME TypeOK, FlushesInv, NEW f \in FlushCall, FlushOpen(f), due[f].alone
  PROVE  /\ flush[f] = "reply" => indexToken + Len(indexReplies) = 1
         /\ flush[f] # "reply" => indexToken + Len(indexReplies) = 0
<1>1. \A g \in Replying : g = f
  BY DEF FlushesInv, AloneIsOnly, Replying, FlushOpen
<1>2. indexToken + Len(indexReplies) = Cardinality(Replying)
  BY DEF FlushesInv, IndexFlushCounted
<1>3. CASE flush[f] = "reply"
  <2>1. Replying = {f}
    BY <1>1, <1>3 DEF Replying
  <2>2. Cardinality({f}) = 1
    BY FS_Singleton
  <2> QED
    BY <1>2, <1>3, <2>1, <2>2
<1>4. CASE flush[f] # "reply"
  <2>1. Replying = {}
    BY <1>1, <1>4 DEF Replying
  <2> QED
    BY <1>2, <1>4, <2>1, FS_EmptySet
<1> QED
  BY <1>3, <1>4

\* A flush sends its token: no other one is under way.
LEMMA IndexTokenSent ==
  ASSUME TypeOK, FlushesInv, NEW f \in FlushCall, SendIndexToken(f)
  PROVE  FlushesInv'
<1> USE DEF FlushesInv
<1>1. /\ flush[f] = "token"
      /\ flush' = [flush EXCEPT ![f] = "reply"]
      /\ indexToken = 0 /\ indexToken' = 1
      /\ UNCHANGED <<lsi, added, save, storeIndex, indexPc, indexReplies, due>>
  BY DEF SendIndexToken, store, indexer, history
<1>2. /\ flush'[f] = "reply"
      /\ \A g \in FlushCall \ {f} : flush'[g] = flush[g]
  BY <1>1 DEF TypeOK
<1>3. \A g \in FlushCall : FlushOpen(g)' <=> FlushOpen(g)
  BY <1>1, <1>2 DEF FlushOpen
<1>4. /\ IsFiniteSet(Replying)
      /\ indexToken + Len(indexReplies) = Cardinality(Replying)
  BY DEF IndexFlushCounted
<1>5. /\ Replying' = Replying \cup {f}
      /\ f \notin Replying
  BY <1>1, <1>2 DEF Replying
<1>6. Len(indexReplies) \in Nat
  BY DEF TypeOK
<1>7. /\ IsFiniteSet(Replying')
      /\ Cardinality(Replying') = Cardinality(Replying) + 1
  BY <1>4, <1>5, FS_AddElement
<1>8. IndexFlushCounted'
  <2>1. indexToken' + Len(indexReplies') = Cardinality(Replying')
    BY <1>1, <1>4, <1>6, <1>7
  <2> QED
    BY <1>7, <2>1 DEF IndexFlushCounted
<1>9. AloneIsOnly'
  BY <1>1, <1>3, Zenon DEF AloneIsOnly
<1>10. DueIsSaved'
  <2> SUFFICES ASSUME indexPc \notin {"error", "failed"},
                      NEW g \in FlushCall, due[g].alone
               PROVE  /\ FlushOpen(g)' => due[g].seen \subseteq Received \cup AddTo(lsi, {})
                      /\ flush'[g] = "reply" /\ indexReplies = <<"ok">> =>
                            due[g].seen \subseteq AddTo(lsi, {})
                      /\ flush'[g] = "ok" => due[g].seen \subseteq AddTo(lsi, {})
    BY <1>1 DEF DueIsSaved, Received, AddTo
  <2>1. CASE g # f
    BY <1>2, <1>3, <2>1 DEF DueIsSaved
  <2>2. CASE g = f
    <3>1. FlushOpen(f)
      BY <1>1 DEF FlushOpen
    <3>2. indexToken + Len(indexReplies) = 0
      BY <1>1, <2>2, <3>1, AloneReplying
    <3>3. Len(indexReplies) = 0
      BY <1>1, <1>6, <3>2
    <3>4. indexReplies # <<"ok">>
      BY <3>3
    <3> QED
      BY <1>2, <2>2, <3>1, <3>4 DEF DueIsSaved
  <2> QED
    BY <2>1, <2>2
<1> QED
  BY <1>8, <1>9, <1>10

\* A flush takes a reply: one that is alone takes its own.
LEMMA IndexReplyTaken ==
  ASSUME TypeOK, FlushesInv, NEW f \in FlushCall, ReceiveIndexReply(f)
  PROVE  FlushesInv'
<1> USE DEF FlushesInv
<1>1. /\ flush[f] = "reply" /\ indexReplies # <<>>
      /\ flush' = [flush EXCEPT ![f] = Head(indexReplies)]
      /\ indexReplies' = Tail(indexReplies)
      /\ UNCHANGED <<lsi, added, save, storeIndex, indexPc, indexToken, due>>
  BY DEF ReceiveIndexReply, store, indexer, history
<1>2. indexReplies \in Seq({"ok", "error"})
  BY DEF TypeOK
<1>3. /\ Head(indexReplies) \in {"ok", "error"}
      /\ Len(indexReplies) \in Nat \ {0}
      /\ Len(Tail(indexReplies)) = Len(indexReplies) - 1
      /\ Len(indexReplies) = 1 => indexReplies = <<Head(indexReplies)>>
  BY <1>1, <1>2
<1>4. /\ flush'[f] = Head(indexReplies)
      /\ \A g \in FlushCall \ {f} : flush'[g] = flush[g]
  BY <1>1 DEF TypeOK
<1>5. /\ FlushOpen(f) /\ ~FlushOpen(f)'
      /\ \A g \in FlushCall \ {f} : FlushOpen(g)' <=> FlushOpen(g)
  BY <1>1, <1>3, <1>4 DEF FlushOpen
<1>6. IndexFlushCounted'
  <2>1. /\ IsFiniteSet(Replying)
        /\ indexToken + Len(indexReplies) = Cardinality(Replying)
        /\ indexToken \in {0, 1}
    BY DEF IndexFlushCounted, TypeOK
  <2>2. Replying' = Replying \ {f} /\ f \in Replying
    BY <1>1, <1>3, <1>4 DEF Replying
  <2>3. /\ IsFiniteSet(Replying')
        /\ Cardinality(Replying') = Cardinality(Replying) - 1
    BY <2>1, <2>2, FS_RemoveElement
  <2>4. indexToken' + Len(indexReplies') = Cardinality(Replying')
    BY <1>1, <1>3, <2>1, <2>3
  <2> QED
    BY <2>3, <2>4 DEF IndexFlushCounted
<1>7. AloneIsOnly'
  BY <1>1, <1>5 DEF AloneIsOnly
<1>8. DueIsSaved'
  <2> SUFFICES ASSUME indexPc \notin {"error", "failed"},
                      NEW g \in FlushCall, due[g].alone
               PROVE  /\ FlushOpen(g)' => due[g].seen \subseteq Received \cup AddTo(lsi, {})
                      /\ flush'[g] = "reply" /\ indexReplies' = <<"ok">> =>
                            due[g].seen \subseteq AddTo(lsi, {})
                      /\ flush'[g] = "ok" => due[g].seen \subseteq AddTo(lsi, {})
    BY <1>1 DEF DueIsSaved, Received, AddTo
  <2>1. CASE g # f
    <3>1. ~FlushOpen(g)
      BY <1>5, <2>1 DEF AloneIsOnly
    <3>2. flush[g] # "reply"
      BY <3>1 DEF FlushOpen
    <3> QED
      BY <1>4, <1>5, <2>1, <3>1, <3>2 DEF DueIsSaved
  <2>2. CASE g = f
    <3>1. indexToken + Len(indexReplies) = 1 /\ indexToken \in {0, 1}
      BY <1>1, <1>5, <2>2, AloneReplying DEF TypeOK
    <3>2. indexReplies = <<Head(indexReplies)>>
      BY <1>3, <3>1
    <3>3. ASSUME flush'[f] = "ok"
          PROVE  due[f].seen \subseteq AddTo(lsi, {})
      <4>1. indexReplies = <<"ok">>
        BY <1>4, <3>2, <3>3
      <4> QED
        BY <1>1, <2>2, <4>1 DEF DueIsSaved
    <3> QED
      BY <1>3, <1>4, <1>5, <2>2, <3>3
  <2> QED
    BY <2>1, <2>2
<1> QED
  BY <1>6, <1>7, <1>8

\* What the index worker replies to a flush: "ok" only when it has saved all.
LEMMA IndexReplies ==
  ASSUME IndInv, IndexStep
  PROVE  \/ UNCHANGED indexFlush
         \/ \E result \in {"ok", "error"} :
               /\ ReplyIndexFlush(result)
               /\ result = "ok" /\ indexPc' \notin {"error", "failed"} =>
                     Received \cup AddTo(lsi, {}) \subseteq AddTo(lsi', {})
<1> USE DEF indexFlush
<1>1. CASE \/ \E a \in Ask : AnswerAsk(a) \/ AskFails(a) \/ FailAsk(a)
           \/ ReceiveBlockIndex \/ EnterIndexSelect \/ StopIndexWorker
           \/ DropBlockIndex \/ LeaveErrorState
  BY <1>1 DEF AnswerAsk, AskFails, FailAsk, ReceiveBlockIndex,
     EnterIndexSelect, StopIndexWorker, DropBlockIndex, LeaveErrorState
<1>2. CASE FlushIndex
  <2>1. PICK r \in SaveResults(AddTo(storeIndex, added)) :
           /\ lsi' = r.lsi
           /\ ReplyIndexFlush(IF r.ok THEN "ok" ELSE "error")
    BY <1>2 DEF FlushIndex
  <2>2. r.ok => Received \cup AddTo(lsi, {}) \subseteq AddTo(lsi', {})
    BY <2>1, UpdateSaves DEF IndInv
  <2>3. CASE r.ok
    BY <2>1, <2>2, <2>3
  <2>4. CASE ~r.ok
    BY <2>1, <2>4
  <2> QED
    BY <2>3, <2>4
<1>3. CASE FlushNothing
  <2>1. ReplyIndexFlush("ok") /\ lsi' = lsi /\ ~save /\ ~Unwritten
    BY <1>3 DEF FlushNothing
  <2>2. added = {}
    BY <2>1 DEF Unwritten, IndInv, ReadOnlyRefuses
  <2> QED
    BY <2>1, <2>2 DEF Received, AddTo
<1>4. CASE FlushIndexFails
  BY <1>4 DEF FlushIndexFails
<1>5. CASE FlushInErrorState
  BY <1>5 DEF FlushInErrorState, IndexAt, indexer
<1> QED
  BY <1>1, <1>2, <1>3, <1>4, <1>5 DEF IndexStep

\* A step of the index worker keeps what flushes wait for; a reply comes in
\* the place of a token.
LEMMA IndexFlushes ==
  ASSUME IndInv, FlushesInv, IndexStep
  PROVE  FlushesInv'
<1> USE DEF FlushesInv
<1>1. UNCHANGED <<flush, due>>
  BY DEF IndexStep, AnswerAsk, AskFails, FailAsk, ReceiveBlockIndex,
     EnterIndexSelect, FlushIndex, FlushNothing, FlushIndexFails,
     ReplyIndexFlush, StopIndexWorker, FlushInErrorState, DropBlockIndex,
     LeaveErrorState, history, flushing
<1>2. indexPc' \notin {"error", "failed"} =>
         indexPc \notin {"error", "failed"} /\ Keeps
  BY IndexErrors, IndexKeepsReceived DEF IndInv
<1>3. \A f \in FlushCall : FlushOpen(f)' <=> FlushOpen(f)
  BY <1>1 DEF FlushOpen
<1>4. CASE UNCHANGED indexFlush
  BY <1>1, <1>2, <1>3, <1>4, FlushesKept
<1>5. ASSUME NEW result \in {"ok", "error"}, ReplyIndexFlush(result),
             result = "ok" /\ indexPc' \notin {"error", "failed"} =>
                Received \cup AddTo(lsi, {}) \subseteq AddTo(lsi', {})
      PROVE  FlushesInv'
  <2>1. /\ indexToken = 1 /\ indexToken' = 0
        /\ indexReplies' = Append(indexReplies, result)
    BY <1>5 DEF ReplyIndexFlush
  <2>2. /\ indexReplies \in Seq({"ok", "error"})
        /\ Len(indexReplies) \in Nat
    BY DEF IndInv, TypeOK
  <2>3. Len(indexReplies') = Len(indexReplies) + 1
    BY <2>1, <2>2
  <2>4. IndexFlushCounted'
    <3>1. Replying' = Replying
      BY <1>1 DEF Replying
    <3>2. indexToken + Len(indexReplies) = indexToken' + Len(indexReplies')
      BY <2>1, <2>2, <2>3
    <3> QED
      BY <3>1, <3>2 DEF IndexFlushCounted
  <2>5. AloneIsOnly'
    BY <1>1, <1>3, Zenon DEF AloneIsOnly
  <2>6. DueIsSaved'
    <3> SUFFICES ASSUME indexPc' \notin {"error", "failed"},
                        NEW f \in FlushCall, due[f].alone
                 PROVE  /\ FlushOpen(f) => due[f].seen \subseteq (Received \cup AddTo(lsi, {}))'
                        /\ flush[f] = "reply" /\ indexReplies' = <<"ok">> =>
                              due[f].seen \subseteq AddTo(lsi', {})
                        /\ flush[f] = "ok" => due[f].seen \subseteq AddTo(lsi', {})
      BY <1>1, <1>3 DEF DueIsSaved, AddTo
    <3>1. /\ FlushOpen(f) => due[f].seen \subseteq Received \cup AddTo(lsi, {})
          /\ flush[f] = "ok" => due[f].seen \subseteq AddTo(lsi, {})
      BY <1>2 DEF DueIsSaved
    <3>2. ASSUME flush[f] = "reply", indexReplies' = <<"ok">>
          PROVE  due[f].seen \subseteq AddTo(lsi', {})
      <4>1. FlushOpen(f)
        BY <3>2 DEF FlushOpen
      <4>2. Len(indexReplies) = 0
        BY <2>1, <2>2, <3>2, <4>1, AloneReplying DEF IndInv
      <4>3. indexReplies' = <<result>>
        BY <2>1, <2>2, <4>2
      <4>4. result = "ok"
        BY <3>2, <4>3
      <4> QED
        BY <1>5, <3>1, <4>1, <4>4
    <3> QED
      BY <1>2, <3>1, <3>2 DEF Keeps
  <2> QED
    BY <2>4, <2>5, <2>6
<1> QED
  BY <1>4, <1>5, IndexReplies

\* No flush is under way initially.
LEMMA InitFlushes == Init => FlushesInv
<1> SUFFICES ASSUME Init
             PROVE  FlushesInv
  OBVIOUS
<1>1. /\ \A f \in FlushCall : flush[f] = "unmade"
      /\ indexToken = 0 /\ indexReplies = <<>>
  BY DEF Init
<1>2. Replying = {} /\ \A f \in FlushCall : ~FlushOpen(f)
  BY <1>1 DEF Replying, FlushOpen
<1>3. IndexFlushCounted
  BY <1>1, <1>2, FS_EmptySet DEF IndexFlushCounted
<1>4. AloneIsOnly /\ DueIsSaved
  BY <1>1, <1>2 DEF AloneIsOnly, DueIsSaved
<1> QED
  BY <1>3, <1>4 DEF FlushesInv

\* The goroutine of a flush: only the messages to and from the index worker
\* matter here.
LEMMA FlushStepFlushes ==
  ASSUME IndInv, FlushesInv, NEW f \in FlushCall, FlushStep(f)
  PROVE  FlushesInv'
<1>1. CASE SendIndexToken(f)
  BY <1>1, IndexTokenSent DEF IndInv
<1>2. CASE ReceiveIndexReply(f)
  BY <1>2, IndexReplyTaken DEF IndInv
<1>3. CASE SendToken(f) \/ ReceiveReply(f)
  <2>1. UNCHANGED <<due, indexFlush>>
    BY <1>3 DEF SendToken, ReceiveReply, history
  <2>2. Keeps /\ indexPc' = indexPc
    BY OthersKeepReceived
  <2>3. /\ flush[f] \in {"tokens", "replies"}
        /\ Count(f, "replies") \/ Count(f, "token")
    BY <1>3 DEF SendToken, ReceiveReply
  <2>4. \/ flush' = flush
        \/ flush' = [flush EXCEPT ![f] = "replies"]
        \/ flush' = [flush EXCEPT ![f] = "token"]
    BY <2>3 DEF Count
  <2>5. /\ flush'[f] \in {"tokens", "replies", "token"}
        /\ \A g \in FlushCall \ {f} : flush'[g] = flush[g]
    BY <2>3, <2>4 DEF IndInv, TypeOK
  <2>6. \A g \in FlushCall :
           /\ flush'[g] = "reply" <=> flush[g] = "reply"
           /\ flush'[g] = "ok" <=> flush[g] = "ok"
           /\ FlushOpen(g)' <=> FlushOpen(g)
    <3>1. /\ flush[f] \notin {"unmade", "reply", "ok", "error"}
          /\ flush'[f] \notin {"unmade", "reply", "ok", "error"}
      BY <2>3, <2>5
    <3> QED
      BY <2>5, <3>1 DEF FlushOpen
  <2>7. indexPc' \notin {"error", "failed"} =>
           indexPc \notin {"error", "failed"} /\ Keeps
    BY <2>2
  <2> QED
    BY <2>1, <2>6, <2>7, FlushesKept
<1> QED
  BY <1>1, <1>2, <1>3 DEF FlushStep

\* Every step preserves what flushes rest on.
LEMMA NextFlushes ==
  ASSUME IndInv, FlushesInv, [Next]_vars
  PROVE  FlushesInv'
<1>1. CASE IndexStep
  BY <1>1, IndexFlushes
<1>2. ASSUME NEW f \in FlushCall, FlushStep(f)
      PROVE  FlushesInv'
  BY <1>2, FlushStepFlushes
<1>3. ASSUME NEW f \in FlushCall, Flush(f)
      PROVE  FlushesInv'
  BY <1>3, FlushBegins DEF IndInv
<1>4. CASE \/ UNCHANGED vars
           \/ \E b \in Block : OtherProcess(b)
           \/ CallerStep /\ ~ \E f \in FlushCall : Flush(f)
           \/ CloseStep
           \/ \E w \in Worker : WorkerStep(w)
  <2>1. Keeps /\ indexPc' = indexPc
    BY <1>4, OthersKeepReceived
  <2>2. ASSUME NEW w \in Worker, WorkerStep(w)
        PROVE  UNCHANGED <<flush, due, indexFlush>>
    BY <2>2 DEF WorkerStep, EnterSelect, RefusePut, TakePut, StartPut,
       WriteBlock, StoreBlob, WriteFails, PutFails, Answer, SendBlockIndex,
       Send, AnswerPut, FlushWorker, ReplyFlush, LeaveFlush, StopWorker,
       flushing, history
  <2>3. ASSUME CallerStep, ~ \E f \in FlushCall : Flush(f)
        PROVE  UNCHANGED <<flush, due, indexFlush>>
    BY <2>3 DEF CallerStep, PutStoredBlock, AskIndex, Close, flushing, history
  <2>4. ASSUME CloseStep \/ (\E b \in Block : OtherProcess(b)) \/ UNCHANGED vars
        PROVE  UNCHANGED <<flush, due, indexFlush>>
    BY <2>4 DEF CloseStep, CollectWorker, CollectIndexWorker, OtherProcess,
       vars, flushing, history
  <2>5. UNCHANGED <<flush, due, indexFlush>>
    BY <1>4, <2>2, <2>3, <2>4
  <2> QED
    BY <2>1, <2>5, FlushesKept DEF FlushOpen
<1> QED
  BY <1>1, <1>2, <1>3, <1>4 DEF Next, CallerStep

\* What flushes rest on holds in every reachable state: the token and the
\* replies of the index worker are counted, and what a flush that is alone is
\* to save stays with the index worker until it is saved.
THEOREM FlushesInvariance == Safety => [](IndInv /\ FlushesInv)
<1>1. Init => IndInv /\ FlushesInv
  BY InitInv, InitFlushes
<1>2. (IndInv /\ FlushesInv) /\ [Next]_vars => (IndInv /\ FlushesInv)'
  BY NextInv, NextFlushes
<1> QED
  BY <1>1, <1>2, PTL DEF Safety

\* A Flush that returns success, with no other under way, has saved every
\* block index that the index worker had received when it was called, whatever
\* workers, asks and other processes do meanwhile.
THEOREM FlushSaves == Spec => []FlushSavesReceived
<1>1. FlushesInv => FlushSavesReceived
  BY DEF FlushesInv, DueIsSaved, FlushSavesReceived
<1> QED
  BY <1>1, FlushesInvariance, PTL DEF Spec

-----------------------------------------------------------------------------
(* Flushes that overlap go on: no token and no reply is lost.              *)

LEMMA FlushedNumber ==
  /\ IsFiniteSet(Flushed)
  /\ Cardinality(Flushed) \in Nat
  BY StoreAssumption, FS_Subset, FS_CardinalityType DEF Flushed

\* A step that neither counts tokens nor moves a worker into or out of its
\* reply leaves the balance as it is.
LEMMA TokensKept ==
  ASSUME TokensInv, UNCHANGED <<counted, tokens, replies, Flushed>>,
         \A f \in FlushCall :
            /\ flush'[f] = "tokens" <=> flush[f] = "tokens"
            /\ flush'[f] = "replies" <=> flush[f] = "replies"
            /\ flush'[f] = "unmade" => flush[f] = "unmade"
            /\ FlushOpen(f)' => FlushOpen(f),
         (\E f \in FlushCall : FlushOpen(f)) => closing' = closing
  PROVE  TokensInv'
<1>1. Sent' = Sent
  <2>1. \A m \in FlushCall \X (1..Cardinality(Worker)) : m[1] \in FlushCall
    OBVIOUS
  <2> QED
    BY <2>1 DEF Sent
<1>2. TokensCounted'
  BY <1>1 DEF TokensInv, TokensCounted
<1>3. CountsAreShort'
  BY DEF TokensInv, CountsAreShort
<1>4. FlushesAreInTime'
  BY DEF TokensInv, FlushesAreInTime, Open
<1> QED
  BY <1>2, <1>3, <1>4 DEF TokensInv

\* Which tokens are added and taken by the count of a flush.
LEMMA CountMoves ==
  ASSUME TypeOK, CountsAreShort, NEW f \in FlushCall, NEW next,
         flush[f] \in {"tokens", "replies"},
         next = (IF flush[f] = "tokens" THEN "replies" ELSE "token"),
         Count(f, next)
  PROVE  /\ <<f, counted[f] + 1>> \in FlushCall \X (1..Cardinality(Worker))
         /\ flush[f] = "tokens" =>
               /\ <<f, counted[f] + 1>> \notin Sent
               /\ Sent' = Sent \cup {<<f, counted[f] + 1>>}
         /\ flush[f] = "replies" =>
               /\ <<f, counted[f] + 1>> \in Sent
               /\ Sent' = Sent \ {<<f, counted[f] + 1>>}
         /\ CountsAreShort'
         /\ \A g \in FlushCall : FlushOpen(g)' <=> FlushOpen(g)
<1> DEFINE N == Cardinality(Worker)
<1> HIDE DEF N
<1>1. N \in Nat \ {0}
  BY WorkerCount DEF N
<1>2. /\ counted \in [FlushCall -> Nat]
      /\ flush \in [FlushCall -> FlushLabel]
  BY DEF TypeOK
<1>3. counted[f] \in Nat /\ counted[f] < N
  BY <1>2 DEF CountsAreShort, N
<1>4. \/ /\ counted[f] + 1 = N
         /\ flush' = [flush EXCEPT ![f] = next]
         /\ counted' = [counted EXCEPT ![f] = 0]
      \/ /\ counted[f] + 1 < N
         /\ flush' = flush
         /\ counted' = [counted EXCEPT ![f] = counted[f] + 1]
  BY <1>1, <1>3 DEF Count, N
<1>5. /\ \/ counted[f] + 1 = N /\ flush'[f] = next /\ counted'[f] = 0
         \/ counted[f] + 1 < N /\ flush'[f] = flush[f] /\ counted'[f] = counted[f] + 1
      /\ \A g \in FlushCall \ {f} : flush'[g] = flush[g] /\ counted'[g] = counted[g]
  BY <1>2, <1>4
<1>6. <<f, counted[f] + 1>> \in FlushCall \X (1..N)
  BY <1>1, <1>3
<1>7. ASSUME NEW g \in FlushCall, NEW k \in 1..N
      PROVE  /\ <<g, k>> \in Sent <=> \/ flush[g] = "tokens" /\ k <= counted[g]
                                      \/ flush[g] = "replies" /\ counted[g] < k
             /\ <<g, k>> \in Sent' <=> \/ flush'[g] = "tokens" /\ k <= counted'[g]
                                       \/ flush'[g] = "replies" /\ counted'[g] < k
  BY <1>7 DEF Sent, N
<1>8. Sent \subseteq FlushCall \X (1..N) /\ Sent' \subseteq FlushCall \X (1..N)
  BY DEF Sent, N
<1>9. ASSUME flush[f] = "tokens"
      PROVE  /\ <<f, counted[f] + 1>> \notin Sent
             /\ Sent' = Sent \cup {<<f, counted[f] + 1>>}
  <2>1. <<f, counted[f] + 1>> \notin Sent
    BY <1>3, <1>6, <1>7, <1>9
  <2>2. ASSUME NEW g \in FlushCall, NEW k \in 1..N
        PROVE  <<g, k>> \in Sent' <=> <<g, k>> \in Sent \/ (g = f /\ k = counted[f] + 1)
    <3>1. CASE g # f
      BY <1>5, <1>7, <3>1
    <3>2. CASE g = f
      BY <1>1, <1>3, <1>5, <1>7, <1>9, <3>2
    <3> QED
      BY <3>1, <3>2
  <2> QED
    BY <1>6, <1>8, <2>1, <2>2
<1>10. ASSUME flush[f] = "replies"
       PROVE  /\ <<f, counted[f] + 1>> \in Sent
              /\ Sent' = Sent \ {<<f, counted[f] + 1>>}
  <2>1. <<f, counted[f] + 1>> \in Sent
    BY <1>3, <1>6, <1>7, <1>10
  <2>2. ASSUME NEW g \in FlushCall, NEW k \in 1..N
        PROVE  <<g, k>> \in Sent' <=> <<g, k>> \in Sent /\ ~(g = f /\ k = counted[f] + 1)
    <3>1. CASE g # f
      BY <1>5, <1>7, <3>1
    <3>2. CASE g = f
      BY <1>1, <1>3, <1>5, <1>7, <1>10, <3>2
    <3> QED
      BY <3>1, <3>2
  <2> QED
    BY <1>6, <1>8, <2>1, <2>2
<1>11. CountsAreShort'
  BY <1>1, <1>3, <1>5 DEF CountsAreShort, N
<1>12. \A g \in FlushCall : FlushOpen(g)' <=> FlushOpen(g)
  <2>1. flush'[f] \in {"tokens", "replies", "token"}
    BY <1>5
  <2> QED
    BY <1>5, <2>1 DEF FlushOpen
<1> QED
  BY <1>6, <1>9, <1>10, <1>11, <1>12 DEF N

LEMMA FlushStepTokens ==
  ASSUME IndInv, TokensInv, NEW f \in FlushCall, FlushStep(f)
  PROVE  TokensInv'
<1> USE DEF TokensInv
<1>1. /\ IsFiniteSet(Sent)
      /\ Cardinality(Sent) = tokens + replies + Cardinality(Flushed)
      /\ tokens \in Nat /\ replies \in Nat /\ Cardinality(Flushed) \in Nat
  BY FlushedNumber, WorkerCount DEF TokensCounted, IndInv, TypeOK
<1>2. closing' = closing /\ pc' = pc
  BY DEF FlushStep, SendToken, ReceiveReply, SendIndexToken, ReceiveIndexReply,
     close, worker
<1>3. Flushed' = Flushed
  BY <1>2 DEF Flushed
<1>4. CASE SendToken(f)
  <2>1. /\ flush[f] = "tokens" /\ Count(f, "replies")
        /\ tokens' = tokens + 1 /\ replies' = replies
    BY <1>4 DEF SendToken
  <2>2. /\ <<f, counted[f] + 1>> \notin Sent
        /\ Sent' = Sent \cup {<<f, counted[f] + 1>>}
        /\ CountsAreShort'
        /\ \A g \in FlushCall : FlushOpen(g)' <=> FlushOpen(g)
    BY <2>1, CountMoves DEF IndInv
  <2>3. /\ IsFiniteSet(Sent')
        /\ Cardinality(Sent') = Cardinality(Sent) + 1
    BY <1>1, <2>2, FS_AddElement
  <2>4. TokensCounted'
    BY <1>1, <1>3, <2>1, <2>3 DEF TokensCounted
  <2> QED
    BY <1>2, <2>2, <2>4 DEF FlushesAreInTime, Open
<1>5. CASE ReceiveReply(f)
  <2>1. /\ flush[f] = "replies" /\ Count(f, "token")
        /\ replies > 0 /\ replies' = replies - 1 /\ tokens' = tokens
    BY <1>5 DEF ReceiveReply
  <2>2. /\ <<f, counted[f] + 1>> \in Sent
        /\ Sent' = Sent \ {<<f, counted[f] + 1>>}
        /\ CountsAreShort'
        /\ \A g \in FlushCall : FlushOpen(g)' <=> FlushOpen(g)
    BY <2>1, CountMoves DEF IndInv
  <2>3. /\ IsFiniteSet(Sent')
        /\ Cardinality(Sent') = Cardinality(Sent) - 1
    BY <1>1, <2>2, FS_RemoveElement
  <2>4. TokensCounted'
    BY <1>1, <1>3, <2>1, <2>3 DEF TokensCounted
  <2> QED
    BY <1>2, <2>2, <2>4 DEF FlushesAreInTime, Open
<1>6. CASE SendIndexToken(f) \/ ReceiveIndexReply(f)
  <2>1. UNCHANGED <<counted, tokens, replies>>
    BY <1>6 DEF SendIndexToken, ReceiveIndexReply, workerFlush
  <2>2. flush[f] \in {"token", "reply"} /\ flush \in [FlushCall -> FlushLabel]
    BY <1>6 DEF SendIndexToken, ReceiveIndexReply, IndInv, TypeOK
  <2>3. \E label \in {"reply", "ok", "error"} : flush' = [flush EXCEPT ![f] = label]
    <3>1. CASE SendIndexToken(f)
      BY <3>1 DEF SendIndexToken
    <3>2. CASE ReceiveIndexReply(f)
      <4>1. indexReplies \in Seq({"ok", "error"}) /\ indexReplies # <<>>
        BY <3>2 DEF ReceiveIndexReply, IndInv, TypeOK
      <4>2. Head(indexReplies) \in {"ok", "error"}
        BY <4>1
      <4> QED
        BY <3>2, <4>2 DEF ReceiveIndexReply
    <3> QED
      BY <1>6, <3>1, <3>2
  <2>4. \A g \in FlushCall :
           /\ flush'[g] = "tokens" <=> flush[g] = "tokens"
           /\ flush'[g] = "replies" <=> flush[g] = "replies"
           /\ flush'[g] = "unmade" => flush[g] = "unmade"
           /\ FlushOpen(g)' => FlushOpen(g)
    BY <2>2, <2>3 DEF FlushOpen
  <2> QED
    BY <1>2, <1>3, <2>1, <2>4, TokensKept
<1> QED
  BY <1>4, <1>5, <1>6 DEF FlushStep

LEMMA WorkerTokens ==
  ASSUME IndInv, TokensInv, NEW w \in Worker, WorkerStep(w)
  PROVE  TokensInv'
<1>1. UNCHANGED <<flush, counted, closing>> /\ pc \in [Worker -> WorkerLabel]
  BY DEF WorkerStep, EnterSelect, RefusePut, TakePut, StartPut, WriteBlock,
     StoreBlob, WriteFails, PutFails, Answer, SendBlockIndex, Send, AnswerPut,
     FlushWorker, ReplyFlush, LeaveFlush, StopWorker, flushing, close, IndInv, TypeOK
<1>2. Sent' = Sent /\ CountsAreShort' /\ FlushesAreInTime'
  BY <1>1 DEF Sent, TokensInv, CountsAreShort, FlushesAreInTime, FlushOpen, Open
<1>3. /\ IsFiniteSet(Sent)
      /\ Cardinality(Sent) = tokens + replies + Cardinality(Flushed)
      /\ tokens \in Nat /\ replies \in Nat
      /\ IsFiniteSet(Flushed) /\ Cardinality(Flushed) \in Nat
  BY FlushedNumber, WorkerCount DEF TokensInv, TokensCounted, IndInv, TypeOK
<1>4. CASE FlushWorker(w)
  <2>1. /\ pc[w] = "select" /\ pc' = [pc EXCEPT ![w] = "flushed"]
        /\ tokens > 0 /\ tokens' = tokens - 1 /\ replies' = replies
    BY <1>4 DEF FlushWorker, WorkerAt, GoTo
  <2>2. w \notin Flushed /\ Flushed' = Flushed \cup {w}
    BY <1>1, <2>1 DEF Flushed
  <2>3. Cardinality(Flushed') = Cardinality(Flushed) + 1
    BY <1>3, <2>2, FS_AddElement
  <2>4. TokensCounted'
    BY <1>2, <1>3, <2>1, <2>3 DEF TokensCounted
  <2> QED
    BY <1>2, <2>4 DEF TokensInv
<1>5. CASE ReplyFlush(w)
  <2>1. /\ pc[w] = "flushed" /\ pc' = [pc EXCEPT ![w] = "top"]
        /\ replies' = replies + 1 /\ tokens' = tokens
    BY <1>5 DEF ReplyFlush, LeaveFlush, WorkerAt, GoTo
  <2>2. w \in Flushed /\ Flushed' = Flushed \ {w}
    BY <1>1, <2>1 DEF Flushed
  <2>3. Cardinality(Flushed') = Cardinality(Flushed) - 1
    BY <1>3, <2>2, FS_RemoveElement
  <2>4. TokensCounted'
    BY <1>2, <1>3, <2>1, <2>3 DEF TokensCounted
  <2> QED
    BY <1>2, <2>4 DEF TokensInv
<1>6. CASE ~FlushWorker(w) /\ ~ReplyFlush(w)
  <2>1. /\ UNCHANGED <<tokens, replies>>
        /\ \E label \in WorkerLabel \ {"flushed"} : pc' = [pc EXCEPT ![w] = label]
        /\ pc[w] # "flushed"
    BY <1>6 DEF WorkerStep, EnterSelect, RefusePut, TakePut, StartPut, WriteBlock,
       StoreBlob, WriteFails, PutFails, Answer, SendBlockIndex, Send, AnswerPut,
       StopWorker, WorkerAt, GoTo, WorkerLabel, workerFlush
  <2>2. Flushed' = Flushed
    BY <1>1, <2>1 DEF Flushed
  <2> QED
    BY <1>2, <1>3, <2>1, <2>2 DEF TokensInv, TokensCounted
<1> QED
  BY <1>4, <1>5, <1>6

LEMMA NextTokens ==
  ASSUME IndInv, TokensInv, [Next]_vars
  PROVE  TokensInv'
<1>1. CASE \E w \in Worker : WorkerStep(w)
  BY <1>1, WorkerTokens
<1>2. CASE \E f \in FlushCall : FlushStep(f)
  BY <1>2, FlushStepTokens
<1>3. ASSUME NEW f \in FlushCall, Flush(f)
      PROVE  TokensInv'
  <2>1. /\ Open /\ flush[f] = "unmade"
        /\ flush' = [flush EXCEPT ![f] = "tokens"]
        /\ UNCHANGED <<counted, tokens, replies, pc, closing>>
    BY <1>3 DEF Flush, workerFlush, worker, close
  <2>2. flush'[f] = "tokens" /\ \A g \in FlushCall \ {f} : flush'[g] = flush[g]
    BY <2>1 DEF IndInv, TypeOK
  <2>3. counted[f] = 0 /\ Cardinality(Worker) \in Nat \ {0}
    BY <2>1, WorkerCount DEF TokensInv, CountsAreShort
  <2>4. Sent' = Sent
    <3>1. ASSUME NEW m \in FlushCall \X (1..Cardinality(Worker))
          PROVE  m \in Sent' <=> m \in Sent
      <4>1. m[1] \in FlushCall /\ m[2] \in 1..Cardinality(Worker)
        OBVIOUS
      <4>2. CASE m[1] # f
        BY <2>1, <2>2, <4>1, <4>2 DEF Sent
      <4>3. CASE m[1] = f
        <5>1. ~(m[2] <= counted[f])
          BY <2>3, <4>1
        <5> QED
          BY <2>1, <2>2, <4>3, <5>1 DEF Sent
      <4> QED
        BY <4>2, <4>3
    <3> QED
      BY <3>1 DEF Sent
  <2>5. Flushed' = Flushed
    BY <2>1 DEF Flushed
  <2>6. TokensCounted'
    BY <2>1, <2>4, <2>5 DEF TokensInv, TokensCounted
  <2>7. CountsAreShort'
    BY <2>1, <2>2, <2>3 DEF TokensInv, CountsAreShort
  <2>8. FlushesAreInTime'
    BY <2>1 DEF FlushesAreInTime, Open
  <2> QED
    BY <2>6, <2>7, <2>8 DEF TokensInv
<1>4. CASE \/ UNCHANGED vars
           \/ \E b \in Block : OtherProcess(b)
           \/ CallerStep /\ ~ \E f \in FlushCall : Flush(f)
           \/ CloseStep \/ IndexStep
  <2>1. ASSUME CallerStep, ~ \E f \in FlushCall : Flush(f)
        PROVE  /\ UNCHANGED <<flush, counted, tokens, replies, pc>>
               /\ (\E f \in FlushCall : FlushOpen(f)) => closing' = closing
    BY <2>1 DEF CallerStep, PutStoredBlock, AskIndex, Close, flushing,
       workerFlush, worker, close
  <2>2. ASSUME CloseStep
        PROVE  /\ UNCHANGED <<flush, counted, tokens, replies, pc>>
               /\ (\E f \in FlushCall : FlushOpen(f)) => closing' = closing
    BY <2>2 DEF CloseStep, CollectWorker, CollectIndexWorker, flushing,
       workerFlush, worker, TokensInv, FlushesAreInTime, Open
  <2>3. ASSUME UNCHANGED vars \/ \E b \in Block : OtherProcess(b)
        PROVE  UNCHANGED <<flush, counted, tokens, replies, pc, closing>>
    BY <2>3 DEF OtherProcess, vars, flushing, workerFlush, worker, close
  <2>4. ASSUME IndexStep
        PROVE  UNCHANGED <<flush, counted, tokens, replies, pc, closing>>
    <3>1. CASE \E a \in Ask : AnswerAsk(a) \/ AskFails(a) \/ FailAsk(a)
      BY <3>1 DEF AnswerAsk, AskFails, FailAsk, flushing, workerFlush, worker, close
    <3>2. CASE FlushIndex \/ FlushNothing \/ FlushIndexFails \/ FlushInErrorState
      BY <3>2 DEF FlushIndex, FlushNothing, FlushIndexFails, FlushInErrorState,
         ReplyIndexFlush, flushing, workerFlush, worker, close
    <3>3. CASE \/ ReceiveBlockIndex \/ EnterIndexSelect \/ StopIndexWorker
               \/ DropBlockIndex \/ LeaveErrorState
      BY <3>3 DEF ReceiveBlockIndex, EnterIndexSelect, StopIndexWorker,
         DropBlockIndex, LeaveErrorState, flushing, workerFlush, worker, close
    <3> QED
      BY <2>4, <3>1, <3>2, <3>3 DEF IndexStep
  <2>5. /\ UNCHANGED <<flush, counted, tokens, replies, pc>>
        /\ (\E f \in FlushCall : FlushOpen(f)) => closing' = closing
    BY <1>4, <2>1, <2>2, <2>3, <2>4
  <2>6. Flushed' = Flushed
    BY <2>5 DEF Flushed
  <2> QED
    BY <2>5, <2>6, TokensKept DEF FlushOpen
<1> QED
  BY <1>1, <1>2, <1>3, <1>4 DEF Next, CallerStep

LEMMA InitTokens == Init => TokensInv
<1> SUFFICES ASSUME Init PROVE TokensInv
  OBVIOUS
<1>1. /\ \A f \in FlushCall : flush[f] = "unmade" /\ counted[f] = 0
      /\ tokens = 0 /\ replies = 0
      /\ \A w \in Worker : pc[w] \in {"exited", "top"}
  BY DEF Init
<1>2. Sent = {} /\ Flushed = {}
  BY <1>1 DEF Sent, Flushed
<1>3. TokensCounted
  BY <1>1, <1>2, FS_EmptySet DEF TokensCounted
<1> QED
  BY <1>1, <1>3 DEF TokensInv, CountsAreShort, FlushesAreInTime, FlushOpen

\* Two flushes that still send have sent too little to fill both channels.
LEMMA TwoSendersFit ==
  ASSUME IndInv, TokensInv, AtMostTwoSend,
         \A f \in FlushCall : flush[f] # "replies"
  PROVE  Cardinality(Sent) < 2 * Cardinality(Worker)
<1> DEFINE N == Cardinality(Worker)
           Senders == {f \in FlushCall : flush[f] = "tokens"}
<1>1. N \in Nat \ {0}
  BY WorkerCount
<1>2. Sent \subseteq Senders \X (1..N-1)
  <2> SUFFICES ASSUME NEW m \in Sent PROVE m \in Senders \X (1..N-1)
    OBVIOUS
  <2>1. /\ m \in FlushCall \X (1..N)
        /\ flush[m[1]] = "tokens" /\ m[2] <= counted[m[1]]
    BY DEF Sent
  <2>2. /\ m = <<m[1], m[2]>>
        /\ m[1] \in FlushCall /\ m[2] \in 1..N
    BY <2>1
  <2>3. counted[m[1]] \in Nat /\ counted[m[1]] < N
    BY <2>1, <2>2 DEF IndInv, TypeOK, TokensInv, CountsAreShort
  <2>4. m[2] \in 1..N-1
    BY <1>1, <2>1, <2>2, <2>3
  <2> QED
    BY <2>1, <2>2, <2>4
<1>3. IsFiniteSet(Senders) /\ Cardinality(Senders) <= 2
  <2>1. CASE Senders = {}
    BY <2>1, FS_EmptySet
  <2>2. CASE Senders # {}
    <3>1. PICK f \in Senders : TRUE
      BY <2>2
    <3>2. PICK g \in Senders : Senders \subseteq {f, g}
      BY <3>1 DEF AtMostTwoSend
    <3>3. IsFiniteSet({f}) /\ Cardinality({f}) = 1
      BY FS_Singleton
    <3>4. /\ IsFiniteSet({f} \cup {g})
          /\ Cardinality({f} \cup {g}) \in {1, 2}
      BY <3>3, FS_AddElement
    <3>5. Senders \subseteq {f} \cup {g}
      BY <3>2
    <3>6. IsFiniteSet(Senders) /\ Cardinality(Senders) <= Cardinality({f} \cup {g})
      BY <3>4, <3>5, FS_Subset
    <3>7. Cardinality(Senders) \in Nat
      BY <3>6, FS_CardinalityType
    <3>8. Cardinality({f} \cup {g}) <= 2
      BY <3>4
    <3> HIDE DEF Senders
    <3> QED
      BY <3>4, <3>6, <3>7, <3>8
  <2> QED
    BY <2>1, <2>2
<1>4. IsFiniteSet(1..N-1) /\ Cardinality(1..N-1) = N - 1
  <2> HIDE DEF N
  <2>1. 1 \in Int /\ N - 1 \in Int /\ (1 > N - 1 => N - 1 = 0)
    BY <1>1
  <2>2. /\ IsFiniteSet(1..N-1)
        /\ Cardinality(1..N-1) = IF 1 > N - 1 THEN 0 ELSE N - 1 - 1 + 1
    BY <2>1, FS_Interval
  <2> QED
    BY <1>1, <2>1, <2>2
<1>5. /\ IsFiniteSet(Senders \X (1..N-1))
      /\ Cardinality(Senders \X (1..N-1)) = Cardinality(Senders) * (N - 1)
  BY <1>3, <1>4, FS_Product
<1>6. Cardinality(Sent) <= Cardinality(Senders) * (N - 1)
  BY <1>2, <1>5, FS_Subset
<1>7. Cardinality(Senders) \in {0, 1, 2}
  <2>1. Cardinality(Senders) \in Nat
    BY <1>3, FS_CardinalityType
  <2> QED
    BY <1>3, <2>1
<1>8. Cardinality(Sent) \in Nat
  BY FS_CardinalityType DEF TokensInv, TokensCounted
<1>9. Cardinality(Senders) * (N - 1) <= 2 * (N - 1)
  <2> DEFINE c == Cardinality(Senders)
  <2> HIDE DEF c, N
  <2>1. c = 0 \/ c = 1 \/ c = 2
    BY <1>7 DEF c
  <2> QED
    BY <1>1, <2>1 DEF c
<1> QED
  <2> DEFINE s == Cardinality(Sent)
             t == Cardinality(Senders) * (N - 1)
  <2>1. s <= t /\ t <= 2 * (N - 1) /\ s \in Nat
    BY <1>6, <1>8, <1>9
  <2>2. t \in Int
    <3> HIDE DEF N
    <3> QED
      BY <1>1, <1>7
  <2> HIDE DEF s, t, N
  <2>3. s < 2 * N
    BY <1>1, <2>1, <2>2
  <2> QED
    BY <2>3 DEF s, N

LEMMA WorkersGoOn ==
  ASSUME IndInv, TokensInv, AtMostTwoSend, ~NoWorker,
         NEW f \in FlushCall, flush[f] \in {"tokens", "replies"}
  PROVE  WorkerFlushGoesOn
<1> DEFINE N == Cardinality(Worker)
<1>1. N \in Nat \ {0}
  BY WorkerCount
<1>2. /\ Cardinality(Sent) = tokens + replies + Cardinality(Flushed)
      /\ IsFiniteSet(Sent) /\ Cardinality(Sent) \in Nat
      /\ tokens \in 0..N /\ replies \in 0..N
  BY FS_CardinalityType DEF TokensInv, TokensCounted, IndInv, TypeOK
<1>3. IsFiniteSet(Flushed) /\ Cardinality(Flushed) \in Nat
  BY FlushedNumber
<1>4. PICK w \in Worker : pc[w] # "exited"
  <2>1. Open
    BY DEF TokensInv, FlushesAreInTime, FlushOpen
  <2> QED
    BY <2>1 DEF NoWorker
<1> SUFFICES ASSUME ~WorkerFlushGoesOn PROVE FALSE
  OBVIOUS
<1>5. CASE \E g \in FlushCall : flush[g] = "replies"
  <2>1. PICK g \in FlushCall : flush[g] = "replies"
    BY <1>5
  <2>2. replies = 0
    BY <1>1, <1>2, <2>1 DEF WorkerFlushGoesOn
  <2>3. counted[g] \in Nat /\ counted[g] < N
    BY <2>1 DEF IndInv, TypeOK, TokensInv, CountsAreShort
  <2>4. <<g, counted[g] + 1>> \in Sent
    <3>1. <<g, counted[g] + 1>> \in FlushCall \X (1..N)
      BY <1>1, <2>3
    <3>2. counted[g] < counted[g] + 1
      BY <2>3
    <3> QED
      BY <2>1, <3>1, <3>2 DEF Sent
  <2>5. Cardinality(Sent) # 0
    BY <1>2, <2>4, FS_EmptySet
  <2>6. Flushed = {}
    BY <1>1, <2>2 DEF WorkerFlushGoesOn, Flushed
  <2>7. Cardinality(Flushed) = 0
    BY <2>6, FS_EmptySet
  <2>8. tokens > 0
    BY <1>2, <2>2, <2>5, <2>7
  <2> QED
    BY <1>4, <2>6, <2>8 DEF WorkerFlushGoesOn, Flushed
<1>6. CASE \A g \in FlushCall : flush[g] # "replies"
  <2>1. tokens = N
    <3>1. ~(tokens < N)
      BY <1>6 DEF WorkerFlushGoesOn
    <3> QED
      BY <1>1, <1>2, <3>1
  <2>2. pc[w] = "flushed"
    <3>1. tokens > 0
      BY <1>1, <2>1
    <3> QED
      BY <1>4, <3>1 DEF WorkerFlushGoesOn
  <2>3. replies = N
    <3>1. ~(replies < N)
      BY <2>2 DEF WorkerFlushGoesOn
    <3> QED
      BY <1>1, <1>2, <3>1
  <2>4. Cardinality(Sent) < 2 * N
    BY <1>6, TwoSendersFit
  <2> QED
    BY <1>1, <1>2, <1>3, <2>1, <2>3, <2>4
<1> QED
  BY <1>5, <1>6

LEMMA IndexGoesOn ==
  ASSUME IndInv, FlushesInv, TokensInv, NEW f \in FlushCall,
         flush[f] \in {"token", "reply"}
  PROVE  IndexFlushGoesOn
<1>1. /\ IsFiniteSet(Replying) /\ Cardinality(Replying) \in Nat
      /\ indexToken + Len(indexReplies) = Cardinality(Replying)
  BY FS_CardinalityType DEF FlushesInv, IndexFlushCounted
<1>2. indexToken \in {0, 1} /\ indexReplies \in Seq({"ok", "error"})
  BY DEF IndInv, TypeOK
<1>3. /\ Len(indexReplies) \in Nat
      /\ Len(indexReplies) = 0 <=> indexReplies = <<>>
  BY <1>2
<1>4. indexPc \notin {"stopped", "failed"}
  BY DEF TokensInv, FlushesAreInTime, FlushOpen, Open, IndInv, ResultsCounted
<1>5. CASE indexReplies # <<>>
  <2>1. Replying # {}
    <3>1. Cardinality(Replying) # 0
      BY <1>1, <1>2, <1>3, <1>5
    <3> QED
      BY <3>1, FS_EmptySet
  <2> QED
    BY <1>5, <2>1 DEF Replying, IndexFlushGoesOn
<1>6. CASE indexReplies = <<>> /\ indexToken = 1
  BY <1>3, <1>4, <1>6 DEF IndexFlushGoesOn
<1>7. CASE indexReplies = <<>> /\ indexToken = 0
  <2>1. Cardinality(Replying) = 0
    BY <1>1, <1>3, <1>7
  <2>2. f \notin Replying
    BY <1>1, <2>1, FS_EmptySet
  <2> QED
    BY <1>7, <2>2 DEF Replying, IndexFlushGoesOn
<1> QED
  BY <1>2, <1>5, <1>6, <1>7

\* Overlapping flushes never block each other, the workers or the index worker
\* for good while at most two of them send tokens, whatever puts, asks,
\* failures of clients and other processes do.
THEOREM FlushesNeverStuck == Spec => []FlushesGoOn
<1>1. Init => TokensInv
  BY InitTokens
<1>2. IndInv /\ TokensInv /\ [Next]_vars => TokensInv'
  BY NextTokens
<1>3. IndInv /\ FlushesInv /\ TokensInv => FlushesGoOn
  BY WorkersGoOn, IndexGoesOn DEF FlushesGoOn
<1> QED
  BY <1>1, <1>2, <1>3, FlushesInvariance, PTL DEF Spec, Safety
=============================================================================
