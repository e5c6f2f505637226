-------------------------- MODULE BlockFetchProofs --------------------------
(***************************************************************************)
(* Proofs about BlockFetch, for any number of workers, gets and blocks,    *)
(* any memory limit, and any order of calls.                               *)
(***************************************************************************)
EXTENDS BlockFetch, FiniteSetTheorems, SequenceTheorems, TLAPS

\* Steps of the callers, which touch neither the map nor a worker.
CallFramed ==
    /\ UNCHANGED <<map, worker, overlapped>>
    /\ \/ UNCHANGED <<getChan, outcome>>
       \/ \E g \in Get :
             /\ outcome[g] = "unmade"
             /\ getChan' = getChan \cup {g}
             /\ outcome' = [outcome EXCEPT ![g] = "open"]

\* What the steps of worker w may do to its label and its job.
OnlyWorker(w) ==
    /\ \A v \in Worker \ {w} : pc'[v] = pc[v] /\ job'[v] = job[v]
    /\ pc' \in [Worker -> Label]
    /\ job' \in [Worker -> Get \cup Block \cup {NoJob}]

Idles(w) == OnlyWorker(w) /\ pc'[w] \in {"top", "exit"}

\* A step of w that leaves the map and the answers alone, takes no message
\* and starts no read.
Passing(w) ==
    /\ UNCHANGED <<getChan, map, outcome, overlapped>>
    /\ \/ UNCHANGED worker
       \/ /\ OnlyWorker(w)
          /\ pc[w] # "exited"
          /\ pc'[w] \in {"top", "exit"} \cup Selects
          /\ pc'[w] = "select" => prefetchMemory < MaxPrefetchMemory

Flushing(w) ==
    /\ FlushPrefetch
    /\ OnlyWorker(w)
    /\ pc[w] \in Selects \cup {"exit"}
    /\ pc'[w] \in {"top", "exit", "exited"}

WorkerKinds(w) ==
    \/ Passing(w)
    \/ \E g \in Get :
          \/ TakePrefetched(w, g)
          \/ JoinWaiters(w, g)
          \/ StartFetch(w, g)
          \/ \E result \in {"block", "error"} : FinishFetch(w, g, result)
    \/ \E b \in Block : StartPrefetch(w, b) \/ KeepPrefetch(w, b) \/ HandOverPrefetch(w, b)
    \/ Flushing(w)

-----------------------------------------------------------------------------
(* The kinds of steps.                                                     *)

LEMMA RoundIdles ==
  ASSUME TypeOK, NEW w \in Worker, NextRound(w),
         job' = job \/ job' = [job EXCEPT ![w] = NoJob]
  PROVE  Idles(w)
  <1>1. /\ pc' \in [Worker -> Label]
        /\ pc'[w] \in {"top", "exit"}
        /\ \A v \in Worker \ {w} : pc'[v] = pc[v]
    BY DEF NextRound, TypeOK, Label
  <1>2. /\ job' \in [Worker -> Get \cup Block \cup {NoJob}]
        /\ \A v \in Worker \ {w} : job'[v] = job[v]
    BY DEF TypeOK
  <1> QED
    BY <1>1, <1>2 DEF Idles, OnlyWorker

LEMMA CallKinds ==
  ASSUME TypeOK, CallerStep
  PROVE  CallFramed
  <1>1. CASE \E g \in Get : GetStoredBlock(g)
    BY <1>1 DEF GetStoredBlock, CallFramed, map, worker
  <1>2. CASE \E b \in Preflighted : Preflight(b)
    BY <1>2 DEF Preflight, CallFramed, map, worker
  <1>3. CASE Flush
    BY <1>3 DEF Flush, CallFramed, map, worker
  <1>4. CASE FlushReturns
    BY <1>4 DEF FlushReturns, CallFramed, map, worker
  <1>5. CASE Close
    BY <1>5 DEF Close, CallFramed, map, worker
  <1> QED
    BY <1>1, <1>2, <1>3, <1>4, <1>5 DEF CallerStep

LEMMA StepKinds ==
  ASSUME TypeOK, NEW w \in Worker, WorkerStep(w)
  PROVE  WorkerKinds(w)
  <1>1. CASE EnterSelect(w)
    <2>1. pc' = [pc EXCEPT ![w] = BlockingSelect] /\ pc[w] = "top"
      BY <1>1 DEF EnterSelect, At
    <2>2. BlockingSelect \in Selects /\ (BlockingSelect = "select" => prefetchMemory < MaxPrefetchMemory)
      BY DEF BlockingSelect, Selects
    <2>3. OnlyWorker(w) /\ pc'[w] = BlockingSelect
      BY <1>1, <2>1, <2>2 DEF EnterSelect, OnlyWorker, TypeOK, Label, Selects
    <2> QED
      BY <1>1, <2>1, <2>2, <2>3 DEF EnterSelect, WorkerKinds, Passing, map
  <1>2. CASE SeeClosed(w)
    <2>1. /\ pc[w] # "exited"
          /\ \/ pc' = [pc EXCEPT ![w] = BlockingSelect]
             \/ pc' = [pc EXCEPT ![w] = "exit"]
      BY <1>2 DEF SeeClosed, At, Selects
    <2>2. BlockingSelect \in Selects /\ (BlockingSelect = "select" => prefetchMemory < MaxPrefetchMemory)
      BY DEF BlockingSelect, Selects
    <2>3. OnlyWorker(w) /\ (pc'[w] = BlockingSelect \/ pc'[w] = "exit")
      BY <1>2, <2>1, <2>2 DEF SeeClosed, OnlyWorker, TypeOK, Label, Selects
    <2> QED
      BY <1>2, <2>1, <2>2, <2>3 DEF SeeClosed, WorkerKinds, Passing, map
  <1>3. ASSUME NEW g \in Get, AbandonFetch(w, g)
        PROVE  Passing(w)
    <2>1. Idles(w) /\ pc[w] # "exited"
      BY <1>3, RoundIdles DEF AbandonFetch, ReadDone, At
    <2> QED
      BY <1>3, <2>1 DEF AbandonFetch, ReadDone, Passing, Idles, map
  <1>4. ASSUME NEW g \in Get, PanicInFetch(w, g)
        PROVE  Passing(w)
    BY <1>4 DEF PanicInFetch, Passing, map, worker
  <1>5. ASSUME NEW b \in Block, SkipPrefetch(w, b)
        PROVE  Passing(w)
    <2>1. Idles(w) /\ pc[w] # "exited"
      BY <1>5, RoundIdles DEF SkipPrefetch, ReceivePrefetch, At
    <2> QED
      BY <1>5, <2>1 DEF SkipPrefetch, ReceivePrefetch, Passing, Idles, map
  <1>6. ASSUME NEW b \in Block, PrefetchFails(w, b) \/ DiscardPrefetch(w, b)
        PROVE  Passing(w)
    <2>1. Idles(w) /\ pc[w] # "exited"
      BY <1>6, RoundIdles DEF PrefetchFails, DiscardPrefetch, ReadDone, At
    <2> QED
      BY <1>6, <2>1 DEF PrefetchFails, DiscardPrefetch, ReadDone, Passing, Idles, map
  <1>7. CASE FlushWorker(w)
    <2>1. Idles(w) /\ pc[w] \in Selects
      BY <1>7, RoundIdles DEF FlushWorker, FlushPrefetch, At
    <2> QED
      BY <1>7, <2>1 DEF FlushWorker, WorkerKinds, Flushing, Idles
  <1>8. CASE ExitWorker(w)
    <2>1. /\ pc[w] = "exit" /\ pc'[w] = "exited"
          /\ OnlyWorker(w)
      BY <1>8 DEF ExitWorker, FlushPrefetch, At, OnlyWorker, TypeOK, Label
    <2> QED
      BY <1>8, <2>1 DEF ExitWorker, WorkerKinds, Flushing
  <1>9. \A b \in Block : ReadResult(b) \subseteq {"block", "error"}
    BY DEF ReadResult
  <1> QED
    BY <1>1, <1>2, <1>3, <1>4, <1>5, <1>6, <1>7, <1>8, <1>9, FetchAssumption
    DEF WorkerStep, WorkerKinds, FetchAssumption

-----------------------------------------------------------------------------
(* Types.                                                                  *)

\* What a flush deletes is all that is held, and it was accounted for.
LEMMA FlushEmpties ==
  ASSUME IndInv, FlushPrefetch
  PROVE  /\ Held' = {}
         /\ FlushedMemory = Cardinality(Held)
         /\ Cardinality(Held) \in Nat
         /\ prefetchMemory' \in Nat
         /\ prefetchMemory' = prefetchMemory - Cardinality(Held)
         /\ entry' = [b \in Block |-> IF b \in Flushed THEN "absent" ELSE entry[b]]
  <1>1. Held \subseteq Flushed
    BY DEF IndInv, ListsArePending, Held, Flushed
  <1>2. {b \in Flushed : entry[b] = "ready"} = Held
    BY <1>1 DEF Held, Flushed
  <1>3. Cardinality(Held) \in Nat
    BY FS_CardinalityType DEF IndInv, MemoryIsFinite
  <1>4. Held' = {}
    BY <1>1 DEF Held, FlushPrefetch
  <1>5. FlushedMemory = Cardinality(Held)
    BY <1>2 DEF FlushedMemory
  <1>6. prefetchMemory \in Nat /\ prefetchMemory >= Cardinality(Held)
    BY DEF IndInv, TypeOK, MemoryAccounted
  <1> QED
    BY <1>3, <1>4, <1>5, <1>6 DEF FlushPrefetch

\* The blocks that are held when one is added or handed out.
LEMMA HeldIsCounted ==
  ASSUME IndInv
  PROVE  /\ Cardinality(Held) \in Nat
         /\ \A b \in Held : Cardinality(Held) >= 1 /\ Cardinality(Held \ {b}) = Cardinality(Held) - 1
                            /\ IsFiniteSet(Held \ {b})
         /\ \A b \in Block \ Held : Cardinality(Held \cup {b}) = Cardinality(Held) + 1
                                    /\ IsFiniteSet(Held \cup {b})
  <1>1. IsFiniteSet(Held)
    BY DEF IndInv, MemoryIsFinite
  <1>2. Cardinality(Held) \in Nat
    BY <1>1, FS_CardinalityType
  <1>3. ASSUME NEW b \in Held
        PROVE  /\ Cardinality(Held) >= 1 /\ Cardinality(Held \ {b}) = Cardinality(Held) - 1
               /\ IsFiniteSet(Held \ {b})
    <2>1. Cardinality(Held) # 0
      BY <1>1, <1>3, FS_EmptySet
    <2> QED
      BY <1>1, <1>2, <1>3, <2>1, FS_RemoveElement
  <1>4. ASSUME NEW b \in Block \ Held
        PROVE  /\ Cardinality(Held \cup {b}) = Cardinality(Held) + 1
               /\ IsFiniteSet(Held \cup {b})
    BY <1>1, <1>4, FS_AddElement
  <1> QED
    BY <1>2, <1>3, <1>4

LEMMA CompleteType ==
  ASSUME TypeOK, NEW seq, NEW result \in {"block", "error"}, Complete(seq, result)
  PROVE  outcome' \in [Get -> {"unmade", "open", "block", "error", "again"}]
  BY DEF Complete, TypeOK

LEMMA InitTypes == Init => TypeOK /\ JobsAreTyped
<1> SUFFICES ASSUME Init
             PROVE  TypeOK /\ JobsAreTyped
  OBVIOUS
<1>1. waiters \in [Block -> Seq(Get)]
  BY DEF Init
<1>2. /\ pc \in [Worker -> Label] /\ \A w \in Worker : pc[w] = "top"
      /\ running \in [Worker -> BOOLEAN]
      /\ job \in [Worker -> Get \cup Block \cup {NoJob}]
  BY DEF Init, Label
<1>3. JobsAreTyped
  BY <1>2 DEF JobsAreTyped
<1> QED
  BY <1>1, <1>2, <1>3 DEF Init, TypeOK

LEMMA CallTypes ==
  ASSUME IndInv, CallerStep
  PROVE  TypeOK' /\ JobsAreTyped'
  <1> USE DEF IndInv, TypeOK, JobsAreTyped, map, worker, flushChans, caller
  <1>1. CASE \E g \in Get : GetStoredBlock(g)
    BY <1>1 DEF GetStoredBlock
  <1>2. CASE \E b \in Preflighted : Preflight(b)
    BY <1>2, FetchAssumption DEF Preflight, FetchAssumption
  <1>3. CASE Flush
    BY <1>3, FetchAssumption, FS_CardinalityType DEF Flush, FetchAssumption
  <1>4. CASE FlushReturns
    BY <1>4 DEF FlushReturns
  <1>5. CASE Close
    BY <1>5 DEF Close
  <1> QED
    BY <1>1, <1>2, <1>3, <1>4, <1>5 DEF CallerStep

\* What every step of a worker keeps.
LEMMA WorkerFrame ==
  ASSUME TypeOK, NEW w \in Worker, WorkerStep(w)
  PROVE  /\ getChan' \subseteq Get
         /\ prefetchChan' \subseteq Block
         /\ running' \in [Worker -> BOOLEAN]
         /\ tokens' \in Nat /\ replies' \in Nat
         /\ UNCHANGED caller
         /\ panicked' \in BOOLEAN
         /\ overlapped' \in BOOLEAN
  <1> USE DEF TypeOK, map, worker, flushChans, At
  <1>1. CASE EnterSelect(w) \/ SeeClosed(w)
    BY <1>1 DEF EnterSelect, SeeClosed
  <1>2. ASSUME NEW g \in Get, ReceiveGet(w, g)
        PROVE  /\ getChan' \subseteq Get
               /\ UNCHANGED <<prefetchChan, running, flushChans, caller, panicked, overlapped>>
    BY <1>2 DEF ReceiveGet
  <1>3. ASSUME NEW b \in Block, ReceivePrefetch(w, b)
        PROVE  /\ prefetchChan' \subseteq Block
               /\ UNCHANGED <<getChan, running, flushChans, caller, panicked, overlapped>>
    BY <1>3 DEF ReceivePrefetch
  <1>4. ASSUME ReadDone(w)
        PROVE  UNCHANGED <<getChan, prefetchChan, running, flushChans, caller, overlapped>>
    BY <1>4 DEF ReadDone
  <1>5. ASSUME NEW g \in Get,
               TakePrefetched(w, g) \/ JoinWaiters(w, g) \/ StartFetch(w, g)
        PROVE  ReceiveGet(w, g)
    BY <1>5 DEF TakePrefetched, JoinWaiters, StartFetch
  <1>6. ASSUME NEW g \in Get, NEW result, FinishFetch(w, g, result) \/ AbandonFetch(w, g)
        PROVE  ReadDone(w) /\ UNCHANGED panicked
    BY <1>6 DEF FinishFetch, AbandonFetch
  <1>7. ASSUME NEW g \in Get, PanicInFetch(w, g)
        PROVE  /\ panicked' = TRUE
               /\ UNCHANGED <<getChan, prefetchChan, running, flushChans, caller, overlapped>>
    BY <1>7 DEF PanicInFetch
  <1>8. ASSUME NEW b \in Block, SkipPrefetch(w, b) \/ StartPrefetch(w, b)
        PROVE  ReceivePrefetch(w, b)
    BY <1>8 DEF SkipPrefetch, StartPrefetch
  <1>9. ASSUME NEW b \in Block,
               PrefetchFails(w, b) \/ DiscardPrefetch(w, b) \/ KeepPrefetch(w, b)
               \/ HandOverPrefetch(w, b)
        PROVE  ReadDone(w) /\ UNCHANGED panicked
    BY <1>9 DEF PrefetchFails, DiscardPrefetch, KeepPrefetch, HandOverPrefetch
  <1>10. CASE FlushWorker(w) \/ ExitWorker(w)
    <2>1. FlushPrefetch
      BY <1>10 DEF FlushWorker, ExitWorker
    <2>2. /\ getChan' \subseteq Get /\ prefetchChan' \subseteq Block
          /\ running' \in [Worker -> BOOLEAN]
          /\ UNCHANGED caller
          /\ panicked' \in BOOLEAN
      BY <2>1 DEF FlushPrefetch
    <2>3. overlapped' \in BOOLEAN
      BY <2>1, Zenon DEF FlushPrefetch
    <2>4. tokens' \in Nat /\ replies' \in Nat
      BY <1>10 DEF FlushWorker, ExitWorker
    <2> QED
      BY <2>2, <2>3, <2>4
  <1> QED
    BY <1>1, <1>2, <1>3, <1>4, <1>5, <1>6, <1>7, <1>8, <1>9, <1>10 DEF WorkerStep

\* ... and what its kind tells of the map, the labels and the answers.
MapTyped ==
    /\ entry \in [Block -> {"absent", "nil", "pending", "ready"}]
    /\ waiters \in [Block -> Seq(Get)]
    /\ prefetchMemory \in Nat
    /\ outcome \in [Get -> {"unmade", "open", "block", "error", "again"}]

LabelsTyped ==
    /\ pc \in [Worker -> Label]
    /\ job \in [Worker -> Get \cup Block \cup {NoJob}]
    /\ JobsAreTyped

LEMMA KindLabels ==
  ASSUME IndInv, NEW w \in Worker, WorkerKinds(w)
  PROVE  LabelsTyped'
  <1> USE DEF IndInv, TypeOK, JobsAreTyped, LabelsTyped
  <1>1. ASSUME OnlyWorker(w), pc'[w] \notin {"fetch", "prefetch"}
        PROVE  LabelsTyped'
    BY <1>1 DEF OnlyWorker
  <1>2. ASSUME Idles(w)
        PROVE  LabelsTyped'
    BY <1>1, <1>2 DEF Idles
  <1>3. CASE Passing(w)
    BY <1>1, <1>3 DEF Passing, Selects, worker
  <1>4. CASE Flushing(w)
    BY <1>1, <1>4 DEF Flushing
  <1>5. ASSUME NEW g \in Get, TakePrefetched(w, g) \/ JoinWaiters(w, g)
        PROVE  LabelsTyped'
    BY <1>2, <1>5, RoundIdles DEF TakePrefetched, JoinWaiters
  <1>6. ASSUME NEW g \in Get, StartFetch(w, g)
        PROVE  LabelsTyped'
    BY <1>6 DEF StartFetch, Label
  <1>7. ASSUME NEW g \in Get, NEW result, FinishFetch(w, g, result)
        PROVE  LabelsTyped'
    BY <1>2, <1>7, RoundIdles DEF FinishFetch, ReadDone
  <1>8. ASSUME NEW b \in Block, StartPrefetch(w, b)
        PROVE  LabelsTyped'
    BY <1>8 DEF StartPrefetch, Label
  <1>9. ASSUME NEW b \in Block, KeepPrefetch(w, b) \/ HandOverPrefetch(w, b)
        PROVE  LabelsTyped'
    BY <1>2, <1>9, RoundIdles DEF KeepPrefetch, HandOverPrefetch, ReadDone
  <1> QED
    BY <1>3, <1>4, <1>5, <1>6, <1>7, <1>8, <1>9 DEF WorkerKinds

LEMMA KindMap ==
  ASSUME IndInv, NEW w \in Worker, WorkerKinds(w)
  PROVE  MapTyped'
  <1> USE DEF MapTyped
  <1>0. /\ BlockOf \in [Get -> Block]
        /\ TypeOK
    BY FetchAssumption DEF FetchAssumption, IndInv
  <1>1. CASE Passing(w)
    BY <1>0, <1>1 DEF Passing, TypeOK, map
  <1>2. CASE Flushing(w)
    BY <1>0, <1>2, FlushEmpties DEF Flushing, FlushPrefetch, TypeOK
  <1>3. ASSUME NEW g \in Get, TakePrefetched(w, g)
        PROVE  MapTyped'
    <2>1. BlockOf[g] \in Held
      BY <1>0, <1>3 DEF TakePrefetched, Held
    <2>2. prefetchMemory - 1 \in Nat
      <3>1. /\ Cardinality(Held) \in Nat /\ Cardinality(Held) >= 1
        BY <2>1, HeldIsCounted
      <3>2. prefetchMemory \in Nat /\ prefetchMemory >= Cardinality(Held)
        BY DEF IndInv, MemoryAccounted, TypeOK
      <3> QED
        BY <3>1, <3>2
    <2> QED
      BY <1>0, <1>3, <2>2, CompleteType DEF TakePrefetched, TypeOK
  <1>4. ASSUME NEW g \in Get, JoinWaiters(w, g)
        PROVE  MapTyped'
    <2>1. Append(waiters[BlockOf[g]], g) \in Seq(Get)
      BY <1>0 DEF TypeOK
    <2> QED
      BY <1>0, <1>4, <2>1 DEF JoinWaiters, TypeOK
  <1>8. ASSUME NEW g \in Get, StartFetch(w, g)
        PROVE  MapTyped'
    BY <1>0, <1>8 DEF StartFetch, TypeOK
  <1>5. ASSUME NEW g \in Get, NEW result \in {"block", "error"}, FinishFetch(w, g, result)
        PROVE  MapTyped'
    BY <1>0, <1>5, CompleteType DEF FinishFetch, Emptied, TypeOK
  <1>6. ASSUME NEW b \in Block, StartPrefetch(w, b)
        PROVE  MapTyped'
    BY <1>0, <1>6 DEF StartPrefetch, ReceivePrefetch, TypeOK
  <1>9. ASSUME NEW b \in Block, KeepPrefetch(w, b)
        PROVE  MapTyped'
    BY <1>0, <1>9 DEF KeepPrefetch, TypeOK
  <1>7. ASSUME NEW b \in Block, HandOverPrefetch(w, b)
        PROVE  MapTyped'
    BY <1>0, <1>7, CompleteType DEF HandOverPrefetch, Emptied, TypeOK
  <1> QED
    BY <1>1, <1>2, <1>3, <1>4, <1>5, <1>6, <1>7, <1>8, <1>9 DEF WorkerKinds

LEMMA WorkerTypes ==
  ASSUME IndInv, NEW w \in Worker, WorkerStep(w)
  PROVE  TypeOK' /\ JobsAreTyped'
  <1>1. TypeOK /\ WorkerKinds(w)
    BY StepKinds DEF IndInv
  <1>2. MapTyped' /\ LabelsTyped'
    BY <1>1, KindMap, KindLabels
  <1>3. UNCHANGED caller
    BY <1>1, WorkerFrame
  <1>4. /\ closed' \in BOOLEAN /\ preflights' \in [Block -> Nat]
        /\ flushes' \in Nat /\ flushing' \in BOOLEAN
    BY <1>1, <1>3 DEF TypeOK, caller
  <1> QED
    BY <1>1, <1>2, <1>4, WorkerFrame DEF TypeOK, MapTyped, LabelsTyped

-----------------------------------------------------------------------------
(* The memory.                                                             *)

\* What w does to the entries, when it does not flush.
LEMMA ListsStep ==
  ASSUME IndInv, NEW w \in Worker, WorkerKinds(w)
  PROVE  ListsArePending'
  <1> USE DEF ListsArePending
  <1>0. /\ BlockOf \in [Get -> Block]
        /\ TypeOK /\ ListsArePending
    BY FetchAssumption DEF FetchAssumption, IndInv
  <1>1. CASE Passing(w)
    BY <1>0, <1>1 DEF Passing, map
  <1>2. CASE Flushing(w)
    BY <1>0, <1>2, FlushEmpties DEF Flushing, FlushPrefetch, Flushed
  <1>3. ASSUME NEW g \in Get, TakePrefetched(w, g) \/ StartFetch(w, g)
        PROVE  ListsArePending'
    BY <1>0, <1>3 DEF TakePrefetched, StartFetch, TypeOK
  <1>4. ASSUME NEW g \in Get, JoinWaiters(w, g)
        PROVE  ListsArePending'
    BY <1>0, <1>4 DEF JoinWaiters, BeingRead, TypeOK
  <1>5. ASSUME NEW g \in Get, NEW result, FinishFetch(w, g, result)
        PROVE  ListsArePending'
    BY <1>0, <1>5 DEF FinishFetch, Emptied, TypeOK
  <1>6. ASSUME NEW b \in Block, StartPrefetch(w, b)
        PROVE  ListsArePending'
    BY <1>0, <1>6 DEF StartPrefetch, ReceivePrefetch, TypeOK
  <1>7. ASSUME NEW b \in Block, KeepPrefetch(w, b)
        PROVE  ListsArePending'
    BY <1>0, <1>7 DEF KeepPrefetch, TypeOK
  <1>8. ASSUME NEW b \in Block, HandOverPrefetch(w, b)
        PROVE  ListsArePending'
    BY <1>0, <1>8 DEF HandOverPrefetch, Emptied, TypeOK
  <1> QED
    BY <1>1, <1>2, <1>3, <1>4, <1>5, <1>6, <1>7, <1>8 DEF WorkerKinds

\* A worker whose label is no read, and that took no read up, reads nothing.
LEMMA ReadersKept ==
  ASSUME NEW w \in Worker, OnlyWorker(w), pc'[w] \notin {"fetch", "prefetch"}
  PROVE  \A v \in Worker : \A b \in Block : Reads(v, b)' => v # w /\ Reads(v, b)
  BY DEF OnlyWorker, Reads, Fetches, Prefetches

LEMMA ReadersStep ==
  ASSUME IndInv, NEW w \in Worker, WorkerKinds(w)
  PROVE  ReadersAreAlone'
  <1> USE DEF ReadersAreAlone
  <1>0. /\ BlockOf \in [Get -> Block]
        /\ TypeOK /\ ReadersAreAlone /\ ListsArePending
    BY FetchAssumption DEF FetchAssumption, IndInv
  <1>1. CASE Passing(w)
    <2>1. UNCHANGED <<entry, overlapped>>
      BY <1>1 DEF Passing, map
    <2>2. CASE UNCHANGED worker
      BY <1>0, <2>1, <2>2 DEF worker, Reads, Fetches, Prefetches
    <2>3. CASE ~UNCHANGED worker
      BY <1>0, <1>1, <2>1, <2>3, ReadersKept DEF Passing, Selects
    <2> QED
      BY <2>2, <2>3
  <1>2. CASE Flushing(w)
    <2>1. \A v \in Worker : \A b \in Block : Reads(v, b)' => Reads(v, b)
      BY <1>2, ReadersKept DEF Flushing
    <2>2. ~overlapped' => ~overlapped /\ \A v \in Worker : \A b \in Flushed : ~Reads(v, b)
      BY <1>2 DEF Flushing, FlushPrefetch
    <2>3. entry' = [b \in Block |-> IF b \in Flushed THEN "absent" ELSE entry[b]]
      BY <1>2 DEF Flushing, FlushPrefetch
    <2> QED
      BY <1>0, <2>1, <2>2, <2>3
  <1>3. ASSUME NEW c \in Block, OnlyWorker(w), pc'[w] \notin {"fetch", "prefetch"},
               \A b \in Block \ {c} : entry'[b] = entry[b],
               overlapped' = overlapped,
               \A v \in Worker \ {w} : ~overlapped => ~Reads(v, c)
        PROVE  ReadersAreAlone'
    BY <1>0, <1>3, ReadersKept
  <1>4. ASSUME NEW g \in Get, TakePrefetched(w, g)
        PROVE  ReadersAreAlone'
    <2>1. Idles(w)
      BY <1>0, <1>4, RoundIdles DEF TakePrefetched
    <2>2. \A v \in Worker : ~overlapped => ~Reads(v, BlockOf[g])
      BY <1>0, <1>4 DEF TakePrefetched
    <2>3. \A b \in Block \ {BlockOf[g]} : entry'[b] = entry[b]
      BY <1>0, <1>4 DEF TakePrefetched, TypeOK
    <2>4. overlapped' = overlapped
      BY <1>4 DEF TakePrefetched, ReceiveGet
    <2> QED
      BY <1>0, <1>3, <2>1, <2>2, <2>3, <2>4 DEF Idles
  <1>5. ASSUME NEW g \in Get, JoinWaiters(w, g)
        PROVE  ReadersAreAlone'
    <2>1. Idles(w)
      BY <1>0, <1>5, RoundIdles DEF JoinWaiters
    <2>2. UNCHANGED <<entry, overlapped>>
      BY <1>5 DEF JoinWaiters, ReceiveGet
    <2> QED
      BY <1>0, <2>1, <2>2, ReadersKept DEF Idles
  <1>6. ASSUME NEW c \in Block, pc' = [pc EXCEPT ![w] = "fetch"] \/ pc' = [pc EXCEPT ![w] = "prefetch"],
               NEW j, job' = [job EXCEPT ![w] = j],
               pc'[w] = "fetch" => BlockOf[j] = c,
               pc'[w] = "prefetch" => j = c,
               entry[c] \in {"absent", "nil"}, entry' = [entry EXCEPT ![c] = "pending"],
               overlapped' = overlapped
        PROVE  ReadersAreAlone'
    <2>1. SUFFICES ASSUME ~overlapped
                   PROVE  \A v \in Worker : \A b \in Block : Reads(v, b)' =>
                             /\ entry'[b] = "pending"
                             /\ \A u \in Worker : Reads(u, b)' => u = v
      BY <1>6
    <2>2. \A v \in Worker : ~Reads(v, c)
      BY <1>0, <1>6, <2>1
    <2>3. \A v \in Worker \ {w} : \A b \in Block : Reads(v, b)' <=> Reads(v, b)
      BY <1>0, <1>6 DEF Reads, Fetches, Prefetches, TypeOK
    <2>4. \A b \in Block : Reads(w, b)' <=> b = c
      BY <1>0, <1>6 DEF Reads, Fetches, Prefetches, TypeOK
    <2>5. entry'[c] = "pending" /\ \A b \in Block \ {c} : entry'[b] = entry[b]
      BY <1>0, <1>6 DEF TypeOK
    <2> QED
      BY <1>0, <2>1, <2>2, <2>3, <2>4, <2>5
  <1>7. ASSUME NEW g \in Get, StartFetch(w, g)
        PROVE  ReadersAreAlone'
    <2>1. /\ entry[BlockOf[g]] \in {"absent", "nil"}
          /\ entry' = [entry EXCEPT ![BlockOf[g]] = "pending"]
          /\ pc' = [pc EXCEPT ![w] = "fetch"]
          /\ job' = [job EXCEPT ![w] = g]
          /\ overlapped' = overlapped
      BY <1>7 DEF StartFetch, ReceiveGet
    <2>2. BlockOf[g] \in Block /\ pc'[w] = "fetch"
      BY <1>0, <2>1 DEF TypeOK
    <2> QED
      BY <1>6, <2>1, <2>2
  <1>8. ASSUME NEW b \in Block, StartPrefetch(w, b)
        PROVE  ReadersAreAlone'
    <2>1. /\ entry[b] \in {"absent", "nil"}
          /\ entry' = [entry EXCEPT ![b] = "pending"]
          /\ pc' = [pc EXCEPT ![w] = "prefetch"]
          /\ job' = [job EXCEPT ![w] = b]
          /\ overlapped' = overlapped
      BY <1>8 DEF StartPrefetch, ReceivePrefetch
    <2>2. pc'[w] = "prefetch"
      BY <1>0, <2>1 DEF TypeOK
    <2> QED
      BY <1>6, <2>1, <2>2
  <1>9. ASSUME NEW g \in Get, NEW result, FinishFetch(w, g, result)
        PROVE  ReadersAreAlone'
    <2>1. Idles(w)
      BY <1>0, <1>9, RoundIdles DEF FinishFetch, ReadDone
    <2>2. Reads(w, BlockOf[g])
      BY <1>9 DEF FinishFetch, At, Reads, Fetches
    <2>3. \A b \in Block \ {BlockOf[g]} : entry'[b] = entry[b]
      BY <1>0, <1>9 DEF FinishFetch, TypeOK
    <2>4. overlapped' = overlapped
      BY <1>9 DEF FinishFetch, ReadDone
    <2> QED
      BY <1>0, <1>3, <2>1, <2>2, <2>3, <2>4 DEF Idles
  <1>10. ASSUME NEW b \in Block, KeepPrefetch(w, b) \/ HandOverPrefetch(w, b)
        PROVE  ReadersAreAlone'
    <2>1. Idles(w)
      BY <1>0, <1>10, RoundIdles DEF KeepPrefetch, HandOverPrefetch, ReadDone
    <2>2. Reads(w, b)
      BY <1>10 DEF KeepPrefetch, HandOverPrefetch, At, Reads, Prefetches
    <2>3. \A c \in Block \ {b} : entry'[c] = entry[c]
      BY <1>0, <1>10 DEF KeepPrefetch, HandOverPrefetch, TypeOK
    <2>4. overlapped' = overlapped
      BY <1>10 DEF KeepPrefetch, HandOverPrefetch, ReadDone
    <2> QED
      BY <1>0, <1>3, <2>1, <2>2, <2>3, <2>4 DEF Idles
  <1> QED
    BY <1>1, <1>2, <1>4, <1>5, <1>7, <1>8, <1>9, <1>10 DEF WorkerKinds

\* A step that changes one entry: what is held.
LEMMA EntryEmptied ==
  ASSUME IndInv, NEW c \in Block,
         entry' = [entry EXCEPT ![c] = "nil"] \/ entry' = [entry EXCEPT ![c] = "pending"]
  PROVE  Held' = Held \ {c}
  BY DEF IndInv, TypeOK, Held

LEMMA EntryFilled ==
  ASSUME IndInv, NEW c \in Block, entry' = [entry EXCEPT ![c] = "ready"]
  PROVE  Held' = Held \cup {c}
  BY DEF IndInv, TypeOK, Held

LEMMA AccountedStep ==
  ASSUME IndInv, NEW w \in Worker, WorkerKinds(w)
  PROVE  MemoryIsFinite' /\ MemoryAccounted'
  <1> USE DEF MemoryIsFinite, MemoryAccounted
  <1>0. /\ BlockOf \in [Get -> Block]
        /\ TypeOK /\ ReadersAreAlone /\ ListsArePending /\ MemoryIsFinite /\ MemoryAccounted
        /\ Cardinality(Held) \in Nat /\ prefetchMemory \in Nat
    BY FetchAssumption, HeldIsCounted DEF FetchAssumption, IndInv, TypeOK
  <1>1. ASSUME Held' = Held, prefetchMemory' = prefetchMemory, overlapped' = overlapped
        PROVE  MemoryIsFinite' /\ MemoryAccounted'
    BY <1>0, <1>1
  <1>2. CASE Passing(w)
    BY <1>1, <1>2 DEF Passing, map, Held
  <1>3. CASE Flushing(w)
    <2>1. /\ Held' = {} /\ prefetchMemory' = prefetchMemory - Cardinality(Held)
          /\ prefetchMemory' \in Nat
      BY <1>3, FlushEmpties DEF Flushing
    <2>2. ~overlapped' => ~overlapped
      BY <1>3 DEF Flushing, FlushPrefetch
    <2>3. IsFiniteSet({}) /\ Cardinality({}) = 0
      BY FS_EmptySet
    <2> QED
      BY <1>0, <2>1, <2>2, <2>3
  <1>4. ASSUME NEW g \in Get, TakePrefetched(w, g)
        PROVE  MemoryIsFinite' /\ MemoryAccounted'
    <2>1. /\ BlockOf[g] \in Held
          /\ entry' = [entry EXCEPT ![BlockOf[g]] = "nil"]
          /\ prefetchMemory' = prefetchMemory - 1
          /\ overlapped' = overlapped
      BY <1>0, <1>4 DEF TakePrefetched, ReceiveGet, Held
    <2>2. Held' = Held \ {BlockOf[g]}
      BY <1>0, <2>1, EntryEmptied
    <2>3. /\ IsFiniteSet(Held') /\ Cardinality(Held') = Cardinality(Held) - 1
      BY <2>1, <2>2, HeldIsCounted
    <2> QED
      BY <1>0, <2>1, <2>3
  <1>5. ASSUME NEW g \in Get, JoinWaiters(w, g)
        PROVE  MemoryIsFinite' /\ MemoryAccounted'
    BY <1>1, <1>5 DEF JoinWaiters, ReceiveGet, Held
  <1>6. ASSUME NEW c \in Block, NEW state \in {"pending", "nil"}, c \notin Held,
               entry' = [entry EXCEPT ![c] = state],
               prefetchMemory' = prefetchMemory, overlapped' = overlapped
        PROVE  MemoryIsFinite' /\ MemoryAccounted'
    <2>1. Held' = Held
      BY <1>6, EntryEmptied
    <2> QED
      BY <1>1, <1>6, <2>1
  <1>7. ASSUME NEW g \in Get, StartFetch(w, g)
        PROVE  MemoryIsFinite' /\ MemoryAccounted'
    <2>1. /\ BlockOf[g] \in Block /\ BlockOf[g] \notin Held
          /\ entry' = [entry EXCEPT ![BlockOf[g]] = "pending"]
          /\ UNCHANGED <<prefetchMemory, overlapped>>
      BY <1>0, <1>7 DEF StartFetch, ReceiveGet, Held
    <2> QED
      BY <1>6, <2>1
  <1>8. ASSUME NEW b \in Block, StartPrefetch(w, b)
        PROVE  MemoryIsFinite' /\ MemoryAccounted'
    <2>1. /\ b \notin Held
          /\ entry' = [entry EXCEPT ![b] = "pending"]
          /\ UNCHANGED <<prefetchMemory, overlapped>>
      BY <1>0, <1>8 DEF StartPrefetch, ReceivePrefetch, Held
    <2> QED
      BY <1>6, <2>1
  <1>9. ASSUME NEW g \in Get, NEW result, FinishFetch(w, g, result)
        PROVE  MemoryIsFinite' /\ MemoryAccounted'
    <2>1. /\ BlockOf[g] \in Block
          /\ entry' = [entry EXCEPT ![BlockOf[g]] = "nil"]
          /\ UNCHANGED <<prefetchMemory, overlapped>>
          /\ Reads(w, BlockOf[g])
      BY <1>0, <1>9 DEF FinishFetch, ReadDone, At, Reads, Fetches
    <2>2. CASE BlockOf[g] \notin Held
      BY <1>6, <2>1, <2>2
    <2>3. CASE BlockOf[g] \in Held
      <3>1. overlapped
        BY <1>0, <2>1, <2>3 DEF ReadersAreAlone, Held
      <3>2. Held' = Held \ {BlockOf[g]}
        BY <2>1, EntryEmptied
      <3>3. /\ IsFiniteSet(Held') /\ Cardinality(Held') = Cardinality(Held) - 1
        BY <2>3, <3>2, HeldIsCounted
      <3> QED
        BY <1>0, <2>1, <3>1, <3>3
    <2> QED
      BY <2>2, <2>3
  <1>10. ASSUME NEW b \in Block, KeepPrefetch(w, b)
         PROVE  MemoryIsFinite' /\ MemoryAccounted'
    <2>1. /\ entry' = [entry EXCEPT ![b] = "ready"]
          /\ prefetchMemory' = prefetchMemory + 1
          /\ overlapped' = overlapped
          /\ Reads(w, b)
      BY <1>10 DEF KeepPrefetch, ReadDone, At, Reads, Prefetches
    <2>2. Held' = Held \cup {b}
      BY <2>1, EntryFilled
    <2>3. CASE b \notin Held
      <3>1. IsFiniteSet(Held') /\ Cardinality(Held') = Cardinality(Held) + 1
        BY <2>2, <2>3, HeldIsCounted
      <3> QED
        BY <1>0, <2>1, <3>1
    <2>4. CASE b \in Held
      <3>1. overlapped /\ Held' = Held
        BY <1>0, <2>1, <2>2, <2>4 DEF ReadersAreAlone, Held
      <3> QED
        BY <1>0, <2>1, <3>1
    <2> QED
      BY <2>3, <2>4
  <1>11. ASSUME NEW b \in Block, HandOverPrefetch(w, b)
         PROVE  MemoryIsFinite' /\ MemoryAccounted'
    <2>1. /\ b \notin Held
          /\ entry' = [entry EXCEPT ![b] = "nil"]
          /\ UNCHANGED <<prefetchMemory, overlapped>>
      BY <1>0, <1>11 DEF HandOverPrefetch, ReadDone, ListsArePending, Held
    <2> QED
      BY <1>6, <2>1
  <1> QED
    BY <1>2, <1>3, <1>4, <1>5, <1>7, <1>8, <1>9, <1>10, <1>11 DEF WorkerKinds

LEMMA MayAddIsFinite ==
  /\ \A S \in SUBSET Worker : IsFiniteSet(S) /\ Cardinality(S) \in Nat
                              /\ Cardinality(S) <= Cardinality(Worker)
  /\ \A S, T \in SUBSET Worker : S \subseteq T => Cardinality(S) <= Cardinality(T)
  /\ \A S \in SUBSET Worker : \A w \in S : Cardinality(S \ {w}) = Cardinality(S) - 1
  <1>1. IsFiniteSet(Worker)
    BY FetchAssumption DEF FetchAssumption
  <1>2. ASSUME NEW S \in SUBSET Worker
        PROVE  /\ IsFiniteSet(S) /\ Cardinality(S) \in Nat
               /\ Cardinality(S) <= Cardinality(Worker)
    BY <1>1, FS_Subset, FS_CardinalityType
  <1>3. ASSUME NEW S \in SUBSET Worker, NEW T \in SUBSET Worker, S \subseteq T
        PROVE  Cardinality(S) <= Cardinality(T)
    <2>1. IsFiniteSet(T) /\ S \in SUBSET T
      BY <1>2, <1>3
    <2> QED
      BY <2>1, FS_Subset
  <1>4. ASSUME NEW S \in SUBSET Worker, NEW w \in S
        PROVE  Cardinality(S \ {w}) = Cardinality(S) - 1
    <2>1. IsFiniteSet(S)
      BY <1>2
    <2> QED
      BY <2>1, FS_RemoveElement
  <1> QED
    BY <1>2, <1>3, <1>4

LEMMA BoundedStep ==
  ASSUME IndInv, NEW w \in Worker, WorkerKinds(w), prefetchMemory' \in Nat
  PROVE  MemoryBounded'
  <1>0. /\ TypeOK /\ MemoryBounded /\ prefetchMemory \in Nat /\ ListsArePending
        /\ MaxPrefetchMemory \in Nat \ {0}
        /\ MayAdd \in SUBSET Worker /\ MayAdd' \in SUBSET Worker
        /\ Cardinality(Worker) \in Nat
    BY FetchAssumption, MayAddIsFinite DEF FetchAssumption, IndInv, TypeOK, MayAdd
  <1>1. /\ Cardinality(MayAdd) \in Nat /\ Cardinality(MayAdd') \in Nat
        /\ Cardinality(MayAdd') <= Cardinality(Worker)
    BY <1>0, MayAddIsFinite
  <1>2. ASSUME prefetchMemory' <= prefetchMemory, MayAdd' \subseteq MayAdd
        PROVE  MemoryBounded'
    <2>1. Cardinality(MayAdd') <= Cardinality(MayAdd)
      BY <1>0, <1>2, MayAddIsFinite
    <2> QED
      BY <1>0, <1>1, <1>2, <2>1 DEF MemoryBounded
  <1>3. ASSUME OnlyWorker(w), pc'[w] \notin {"select", "prefetch"}
        PROVE  MayAdd' \subseteq MayAdd \ {w}
    BY <1>3 DEF OnlyWorker, MayAdd
  <1>4. CASE Passing(w)
    <2>1. prefetchMemory' = prefetchMemory
      BY <1>4 DEF Passing, map
    <2>2. CASE UNCHANGED worker
      BY <1>0, <1>2, <2>1, <2>2 DEF worker, MayAdd
    <2>3. CASE OnlyWorker(w) /\ pc'[w] \in {"top", "exit", "selectNoPrefetch"}
      BY <1>0, <1>2, <1>3, <2>1, <2>3
    <2>4. CASE pc'[w] = "select" /\ prefetchMemory < MaxPrefetchMemory
      BY <1>0, <1>1, <2>1, <2>4 DEF MemoryBounded
    <2> QED
      BY <1>4, <2>2, <2>3, <2>4 DEF Passing, Selects
  <1>5. CASE Flushing(w)
    <2>1. prefetchMemory' = prefetchMemory - Cardinality(Held) /\ Cardinality(Held) \in Nat
      BY <1>5, FlushEmpties DEF Flushing
    <2> QED
      BY <1>0, <1>2, <1>3, <1>5, <2>1 DEF Flushing
  <1>6. ASSUME Idles(w), prefetchMemory' <= prefetchMemory
        PROVE  MemoryBounded'
    BY <1>2, <1>3, <1>6 DEF Idles
  <1>7. ASSUME NEW g \in Get, TakePrefetched(w, g) \/ JoinWaiters(w, g)
        PROVE  MemoryBounded'
    BY <1>0, <1>6, <1>7, RoundIdles DEF TakePrefetched, JoinWaiters
  <1>8. ASSUME NEW g \in Get, StartFetch(w, g)
        PROVE  MemoryBounded'
    <2>1. MayAdd' \subseteq MayAdd /\ prefetchMemory' = prefetchMemory
      BY <1>0, <1>8 DEF StartFetch, MayAdd, TypeOK
    <2> QED
      BY <1>0, <1>2, <2>1
  <1>9. ASSUME NEW g \in Get, NEW result, FinishFetch(w, g, result)
        PROVE  MemoryBounded'
    <2>1. Idles(w)
      BY <1>0, <1>9, RoundIdles DEF FinishFetch, ReadDone
    <2>2. prefetchMemory' = prefetchMemory
      BY <1>9 DEF FinishFetch
    <2> QED
      BY <1>0, <1>6, <2>1, <2>2
  <1>10. ASSUME NEW b \in Block, StartPrefetch(w, b)
         PROVE  MemoryBounded'
    <2>1. MayAdd' \subseteq MayAdd /\ prefetchMemory' = prefetchMemory
      BY <1>0, <1>10 DEF StartPrefetch, ReceivePrefetch, At, MayAdd, TypeOK
    <2> QED
      BY <1>0, <1>2, <2>1
  <1>11. ASSUME NEW b \in Block, KeepPrefetch(w, b)
         PROVE  MemoryBounded'
    <2>1. Idles(w) /\ w \in MayAdd /\ prefetchMemory' = prefetchMemory + 1
      BY <1>0, <1>11, RoundIdles DEF KeepPrefetch, ReadDone, At, MayAdd
    <2>2. MayAdd' \subseteq MayAdd \ {w}
      BY <1>3, <2>1 DEF Idles
    <2>3. Cardinality(MayAdd') <= Cardinality(MayAdd) - 1
      <3>1. MayAdd \ {w} \in SUBSET Worker
        BY <1>0
      <3>2. Cardinality(MayAdd') <= Cardinality(MayAdd \ {w})
        BY <1>0, <2>2, <3>1, MayAddIsFinite
      <3> QED
        BY <1>0, <2>1, <3>2, MayAddIsFinite
    <2> QED
      BY <1>0, <1>1, <2>1, <2>3 DEF MemoryBounded
  <1>12. ASSUME NEW b \in Block, HandOverPrefetch(w, b)
         PROVE  MemoryBounded'
    <2>1. Idles(w)
      BY <1>0, <1>12, RoundIdles DEF HandOverPrefetch, ReadDone
    <2>2. prefetchMemory' = prefetchMemory
      BY <1>12 DEF HandOverPrefetch
    <2> QED
      BY <1>0, <1>6, <2>1, <2>2
  <1> QED
    BY <1>4, <1>5, <1>7, <1>8, <1>9, <1>10, <1>11, <1>12 DEF WorkerKinds

LEMMA ReleasedStep ==
  ASSUME IndInv, NEW w \in Worker, WorkerKinds(w)
  PROVE  NothingHeldAfterClose'
  <1> SUFFICES ASSUME \A v \in Worker : pc'[v] = "exited"
               PROVE  Held' = {}
    BY DEF NothingHeldAfterClose
  <1>0. TypeOK
    BY DEF IndInv
  <1>1. CASE Passing(w)
    <2>1. UNCHANGED worker
      BY <1>1 DEF Passing, Selects
    <2> QED
      BY <1>1, <2>1 DEF Passing, worker, map, Held, IndInv, NothingHeldAfterClose
  <1>2. CASE Flushing(w)
    BY <1>2, FlushEmpties DEF Flushing
  <1>3. ~Idles(w)
    BY DEF Idles
  <1>4. \A g \in Get : ~TakePrefetched(w, g) /\ ~JoinWaiters(w, g)
    BY <1>0, <1>3, RoundIdles DEF TakePrefetched, JoinWaiters
  <1>5. \A g \in Get : \A result : ~FinishFetch(w, g, result)
    BY <1>0, <1>3, RoundIdles DEF FinishFetch, ReadDone
  <1>6. \A b \in Block : ~KeepPrefetch(w, b) /\ ~HandOverPrefetch(w, b)
    BY <1>0, <1>3, RoundIdles DEF KeepPrefetch, HandOverPrefetch, ReadDone
  <1>7. \A g \in Get : ~StartFetch(w, g)
    BY <1>0 DEF StartFetch, TypeOK
  <1>8. \A b \in Block : ~StartPrefetch(w, b)
    BY <1>0 DEF StartPrefetch, TypeOK
  <1> QED
    BY <1>1, <1>2, <1>4, <1>5, <1>6, <1>7, <1>8 DEF WorkerKinds

-----------------------------------------------------------------------------
(* The answers.                                                            *)

Distinct(seq) == \A i, j \in DOMAIN seq : seq[i] = seq[j] => i = j

\* Gets that wait and are different are answered once.
LEMMA Completion ==
  ASSUME TypeOK, NEW seq \in Seq(Get), Distinct(seq), NEW result, Complete(seq, result),
         \A i \in DOMAIN seq : outcome[seq[i]] = "open"
  PROVE  \A g \in Get : outcome'[g] = IF g \in Elements(seq) THEN result ELSE outcome[g]
  <1> SUFFICES ASSUME NEW g \in Get
               PROVE  outcome'[g] = IF g \in Elements(seq) THEN result ELSE outcome[g]
    OBVIOUS
  <1> DEFINE calls == {i \in DOMAIN seq : seq[i] = g}
  <1>1. outcome'[g] = IF calls = {} THEN outcome[g]
                      ELSE IF outcome[g] = "open" /\ \A i, j \in calls : i = j THEN result
                      ELSE "again"
    BY DEF Complete
  <1>2. calls = {} <=> g \notin Elements(seq)
    BY DEF Elements
  <1>3. \A i, j \in calls : i = j
    BY DEF Distinct
  <1>4. calls # {} => outcome[g] = "open"
    OBVIOUS
  <1> QED
    BY <1>1, <1>2, <1>3, <1>4

\* The list of a block holds different gets of this block, all open.
LEMMA ListIsSound ==
  ASSUME IndInv, NEW b \in Block
  PROVE  /\ waiters[b] \in Seq(Get) /\ Distinct(waiters[b])
         /\ \A i \in DOMAIN waiters[b] :
               /\ waiters[b][i] \in Get /\ outcome[waiters[b][i]] = "open"
               /\ waiters[b][i] \notin getChan /\ BlockOf[waiters[b][i]] = b
               /\ \A w \in Worker : ~WaitsAt(waiters[b][i], w)
  <1>1. waiters[b] \in Seq(Get)
    BY DEF IndInv, TypeOK
  <1>2. \A i \in DOMAIN waiters[b] : waiters[b][i] \in Get
    BY <1>1
  <1> QED
    BY <1>1, <1>2 DEF IndInv, GetsAreInOnePlace, WaitsInList, WaitsInChannel, Distinct

LEMMA ElementsIncluded ==
  ASSUME NEW s, NEW t, \A i \in DOMAIN s : \E j \in DOMAIN t : s[i] = t[j]
  PROVE  Elements(s) \subseteq Elements(t)
  BY DEF Elements

\* The first element of a list, after some of the elements that follow it.
LEMMA FirstAppended ==
  ASSUME NEW seq \in Seq(Get), seq # <<>>, Distinct(seq),
         NEW mid \in Seq(Get), Len(mid) < Len(seq), \A i \in 1..Len(mid) : mid[i] = seq[i + 1]
  PROVE  /\ Append(mid, seq[1]) \in Seq(Get) /\ Distinct(Append(mid, seq[1]))
         /\ Elements(Append(mid, seq[1])) \subseteq Elements(seq)
  <1> DEFINE served == Append(mid, seq[1])
             n == Len(seq)
             m == Len(mid)
  <1>1. n \in Nat /\ n >= 1 /\ DOMAIN seq = 1..n /\ seq[1] \in Get
    OBVIOUS
  <1>2. m \in Nat /\ m < n
    OBVIOUS
  <1>3. /\ served \in Seq(Get) /\ DOMAIN served = 1..(m + 1)
        /\ \A i \in 1..m : served[i] = mid[i]
        /\ served[m + 1] = seq[1]
    BY <1>1, AppendProperties
  <1>4. \A i \in 1..m : served[i] = seq[i + 1] /\ i + 1 \in 2..n
    BY <1>2, <1>3
  <1> HIDE DEF served, n, m
  <1>5. Distinct(served)
    <2> SUFFICES ASSUME NEW i \in 1..(m + 1), NEW j \in 1..(m + 1), served[i] = served[j]
                 PROVE  i = j
      BY <1>3 DEF Distinct
    <2> DEFINE from(k) == IF k = m + 1 THEN 1 ELSE k + 1
    <2>1. \A k \in 1..(m + 1) : from(k) \in 1..n /\ served[k] = seq[from(k)]
      <3> SUFFICES ASSUME NEW k \in 1..(m + 1)
                   PROVE  from(k) \in 1..n /\ served[k] = seq[from(k)]
        OBVIOUS
      <3>1. CASE k = m + 1
        BY <1>1, <1>2, <1>3, <3>1
      <3>2. CASE k # m + 1
        <4>1. k \in 1..m
          BY <1>2, <3>2
        <4>2. k + 1 \in 1..n /\ served[k] = seq[k + 1]
          BY <1>1, <1>2, <1>4, <4>1
        <4> QED
          BY <3>2, <4>2
      <3> QED
        BY <3>1, <3>2
    <2>2. /\ from(i) \in DOMAIN seq /\ from(j) \in DOMAIN seq
          /\ seq[from(i)] = seq[from(j)]
      <3> HIDE DEF from
      <3> QED
        BY <1>1, <2>1
    <2>3. from(i) = from(j)
      <3> HIDE DEF from
      <3> QED
        BY <2>2 DEF Distinct
    <2> QED
      BY <1>2, <2>3
  <1>6. Elements(served) \subseteq Elements(seq)
    <2>1. ASSUME NEW i \in 1..(m + 1)
          PROVE  \E j \in DOMAIN seq : served[i] = seq[j]
      <3>1. CASE i = m + 1
        <4>1. served[i] = seq[1] /\ 1 \in DOMAIN seq
          BY <1>1, <1>2, <1>3, <3>1
        <4> QED
          BY <4>1
      <3>2. CASE i # m + 1
        <4>1. i \in 1..m
          BY <1>2, <3>2
        <4>2. i + 1 \in DOMAIN seq /\ served[i] = seq[i + 1]
          BY <1>1, <1>2, <1>4, <4>1
        <4> QED
          BY <4>2
      <3> QED
        BY <3>1, <3>2
    <2>2. \A i \in DOMAIN served : \E j \in DOMAIN seq : served[i] = seq[j]
      <3>1. DOMAIN served = 1..(m + 1)
        BY <1>3
      <3> QED
        BY <2>1, <3>1, Zenon
    <2> QED
      BY <2>2, ElementsIncluded
  <1> QED
    BY <1>3, <1>5, <1>6 DEF served

\* What prefetchBlock answers of a list.
LEMMA ServedIsPart ==
  ASSUME NEW seq \in Seq(Get), seq # <<>>, Distinct(seq)
  PROVE  /\ ServedByPrefetch(seq) \in Seq(Get) /\ Distinct(ServedByPrefetch(seq))
         /\ Elements(ServedByPrefetch(seq)) \subseteq Elements(seq)
  <1> DEFINE mid == SubSeq(seq, 2, Len(seq) - 1)
  <1>1. /\ mid \in Seq(Get)
        /\ Len(mid) < Len(seq)
        /\ \A i \in 1..Len(mid) : mid[i] = seq[i + 1]
    <2>1. CASE Len(seq) >= 2
      BY <2>1
    <2>2. CASE Len(seq) = 1
      BY <2>2
    <2> QED
      BY <2>1, <2>2
  <1> QED
    BY <1>1, FirstAppended DEF ServedByPrefetch

\* A step that takes gets from their places, and answers only those it took.
LEMMA PlacesLost ==
  ASSUME GetsAreInOnePlace, NEW answered \in SUBSET Get,
         getChan' \subseteq getChan,
         \A g \in Get, w \in Worker : WaitsAt(g, w)' => WaitsAt(g, w),
         \A b \in Block : waiters'[b] = waiters[b] \/ waiters'[b] = <<>>,
         \A g \in Get \ answered : outcome'[g] = outcome[g],
         \A g \in answered :
            /\ g \notin getChan'
            /\ \A w \in Worker : ~WaitsAt(g, w)'
            /\ \A b \in Block : \A i \in DOMAIN waiters'[b] : ~WaitsInList(g, b, i)'
  PROVE  GetsAreInOnePlace'
  <1> SUFFICES ASSUME NEW g \in Get
               PROVE  /\ WaitsInChannel(g)' => outcome'[g] = "open"
                      /\ \A w \in Worker : WaitsAt(g, w)' =>
                            /\ outcome'[g] = "open" /\ ~WaitsInChannel(g)'
                            /\ \A v \in Worker : WaitsAt(g, v)' => v = w
                      /\ \A b \in Block : \A i \in DOMAIN waiters'[b] : WaitsInList(g, b, i)' =>
                            /\ outcome'[g] = "open" /\ ~WaitsInChannel(g)'
                            /\ BlockOf[g] = b
                            /\ \A w \in Worker : ~WaitsAt(g, w)'
                            /\ \A j \in DOMAIN waiters'[b] : WaitsInList(g, b, j)' => i = j
    BY DEF GetsAreInOnePlace
  <1>1. WaitsInChannel(g)' => WaitsInChannel(g)
    BY DEF WaitsInChannel
  <1>2. \A b \in Block : \A i \in DOMAIN waiters'[b] :
           WaitsInList(g, b, i)' => i \in DOMAIN waiters[b] /\ WaitsInList(g, b, i)
    BY DEF WaitsInList
  <1>3. CASE g \in answered
    BY <1>3 DEF WaitsInChannel
  <1>4. CASE g \notin answered
    BY <1>1, <1>2, <1>4 DEF GetsAreInOnePlace
  <1> QED
    BY <1>3, <1>4

\* w takes up no get.
LEMMA NoGetTaken ==
  ASSUME NEW w \in Worker, OnlyWorker(w), pc'[w] # "fetch"
  PROVE  \A g \in Get, v \in Worker : WaitsAt(g, v)' => v # w /\ WaitsAt(g, v)
  BY DEF OnlyWorker, WaitsAt

\* A step that answers nobody and adds no get to a list.
LEMMA NobodyAnswered ==
  ASSUME GetsAreInOnePlace, getChan' \subseteq getChan, UNCHANGED <<waiters, outcome>>,
         \A g \in Get, v \in Worker : WaitsAt(g, v)' => WaitsAt(g, v)
  PROVE  GetsAreInOnePlace'
  <1>1. \A b \in Block : waiters'[b] = waiters[b]
    OBVIOUS
  <1>2. \A g \in Get \ {} : outcome'[g] = outcome[g]
    OBVIOUS
  <1>3. /\ {} \in SUBSET Get
        /\ \A g \in {} :
              /\ g \notin getChan'
              /\ \A w \in Worker : ~WaitsAt(g, w)'
              /\ \A b \in Block : \A i \in DOMAIN waiters'[b] : ~WaitsInList(g, b, i)'
    OBVIOUS
  <1> QED
    BY <1>1, <1>2, <1>3, PlacesLost, Zenon

LEMMA CallPlaces ==
  ASSUME IndInv, CallFramed
  PROVE  GetsAreInOnePlace' /\ AnsweredAtMostOnce'
  <1>0. /\ GetsAreInOnePlace /\ AnsweredAtMostOnce /\ TypeOK
        /\ UNCHANGED <<waiters, pc, job>>
    BY DEF CallFramed, map, worker, IndInv
  <1>1. \A g \in Get, v \in Worker : WaitsAt(g, v)' <=> WaitsAt(g, v)
    BY <1>0 DEF WaitsAt
  <1>2. CASE UNCHANGED <<getChan, outcome>>
    BY <1>0, <1>1, <1>2, NobodyAnswered DEF AnsweredAtMostOnce
  <1>3. CASE ~UNCHANGED <<getChan, outcome>>
    <2>1. PICK g \in Get :
             /\ outcome[g] = "unmade"
             /\ getChan' = getChan \cup {g}
             /\ outcome' = [outcome EXCEPT ![g] = "open"]
      BY <1>3 DEF CallFramed
    <2>2. /\ outcome'[g] = "open"
          /\ \A h \in Get \ {g} : outcome'[h] = outcome[h]
      BY <1>0, <2>1 DEF TypeOK
    <2>3. \A h \in Get : WaitsInChannel(h)' <=> WaitsInChannel(h) \/ h = g
      BY <2>1 DEF WaitsInChannel
    <2>4. \A h \in Get, b \in Block : \A i \in DOMAIN waiters[b] :
             WaitsInList(h, b, i)' <=> WaitsInList(h, b, i)
      BY <1>0 DEF WaitsInList
    <2>5. /\ \A v \in Worker : ~WaitsAt(g, v)
          /\ \A b \in Block : \A i \in DOMAIN waiters[b] : ~WaitsInList(g, b, i)
      BY <1>0, <2>1 DEF GetsAreInOnePlace
    <2>6. GetsAreInOnePlace'
      <3> SUFFICES ASSUME NEW h \in Get
                   PROVE  /\ WaitsInChannel(h)' => outcome'[h] = "open"
                          /\ \A w \in Worker : WaitsAt(h, w)' =>
                                /\ outcome'[h] = "open" /\ ~WaitsInChannel(h)'
                                /\ \A v \in Worker : WaitsAt(h, v)' => v = w
                          /\ \A b \in Block : \A i \in DOMAIN waiters'[b] : WaitsInList(h, b, i)' =>
                                /\ outcome'[h] = "open" /\ ~WaitsInChannel(h)'
                                /\ BlockOf[h] = b
                                /\ \A w \in Worker : ~WaitsAt(h, w)'
                                /\ \A j \in DOMAIN waiters'[b] : WaitsInList(h, b, j)' => i = j
        BY DEF GetsAreInOnePlace
      <3>1. CASE h = g
        BY <1>0, <1>1, <2>2, <2>4, <2>5, <3>1
      <3>2. CASE h # g
        BY <1>0, <1>1, <2>2, <2>3, <2>4, <3>2 DEF GetsAreInOnePlace
      <3> QED
        BY <3>1, <3>2
    <2>7. AnsweredAtMostOnce'
      BY <1>0, <2>2 DEF AnsweredAtMostOnce
    <2> QED
      BY <2>6, <2>7
  <1> QED
    BY <1>2, <1>3

\* The gets in seq, which waited at w or in its block's list, are answered.
LEMMA SomeAnswered ==
  ASSUME IndInv, NEW w \in Worker, OnlyWorker(w), pc'[w] # "fetch",
         NEW seq \in Seq(Get), Distinct(seq), NEW result \in {"block", "error"},
         Complete(seq, result),
         getChan' \subseteq getChan,
         \A b \in Block : waiters'[b] = waiters[b] \/ waiters'[b] = <<>>,
         \A g \in Elements(seq) :
            /\ outcome[g] = "open"
            /\ g \notin getChan'
            /\ \A v \in Worker \ {w} : ~WaitsAt(g, v)
            /\ \A b \in Block : \A i \in DOMAIN waiters'[b] : waiters'[b][i] # g
  PROVE  GetsAreInOnePlace' /\ AnsweredAtMostOnce'
  <1>1. Elements(seq) \in SUBSET Get /\ \A i \in DOMAIN seq : outcome[seq[i]] = "open"
    BY DEF Elements
  <1>2. \A g \in Get : outcome'[g] = IF g \in Elements(seq) THEN result ELSE outcome[g]
    BY <1>1, Completion DEF IndInv
  <1>3. AnsweredAtMostOnce'
    BY <1>2 DEF AnsweredAtMostOnce, IndInv
  <1>4. \A g \in Get, v \in Worker : WaitsAt(g, v)' => v # w /\ WaitsAt(g, v)
    BY NoGetTaken
  <1>5. \A g \in Elements(seq) :
           /\ g \notin getChan'
           /\ \A v \in Worker : ~WaitsAt(g, v)'
           /\ \A b \in Block : \A i \in DOMAIN waiters'[b] : ~WaitsInList(g, b, i)'
    BY <1>1, <1>4 DEF WaitsInList
  <1>6. GetsAreInOnePlace
    BY DEF IndInv
  <1>7. GetsAreInOnePlace'
    BY <1>1, <1>2, <1>4, <1>5, <1>6, PlacesLost
  <1> QED
    BY <1>3, <1>7

LEMMA TakenPlaces ==
  ASSUME IndInv, NEW w \in Worker, NEW g \in Get, TakePrefetched(w, g)
  PROVE  GetsAreInOnePlace' /\ AnsweredAtMostOnce'
  <1>0. TypeOK /\ GetsAreInOnePlace /\ WaitsInChannel(g)
    BY DEF IndInv, TakePrefetched, ReceiveGet, WaitsInChannel
  <1>1. OnlyWorker(w) /\ pc'[w] # "fetch"
    BY <1>0, RoundIdles DEF TakePrefetched, Idles
  <1>2. /\ <<g>> \in Seq(Get) /\ Distinct(<<g>>) /\ Elements(<<g>>) = {g}
    BY DEF Distinct, Elements
  <1>3. /\ outcome[g] = "open"
        /\ \A v \in Worker : ~WaitsAt(g, v)
        /\ \A b \in Block : \A i \in DOMAIN waiters[b] : ~WaitsInList(g, b, i)
    BY <1>0 DEF GetsAreInOnePlace
  <1>4. /\ getChan' = getChan \ {g} /\ waiters' = waiters
        /\ Complete(<<g>>, "block")
    BY DEF TakePrefetched, ReceiveGet
  <1>5. \A h \in Elements(<<g>>) :
           /\ outcome[h] = "open"
           /\ h \notin getChan'
           /\ \A v \in Worker \ {w} : ~WaitsAt(h, v)
           /\ \A b \in Block : \A i \in DOMAIN waiters'[b] : waiters'[b][i] # h
    BY <1>2, <1>3, <1>4 DEF WaitsInList
  <1> QED
    BY <1>1, <1>2, <1>4, <1>5, SomeAnswered

LEMMA FinishedPlaces ==
  ASSUME IndInv, NEW w \in Worker, NEW g \in Get, NEW result \in {"block", "error"},
         FinishFetch(w, g, result)
  PROVE  GetsAreInOnePlace' /\ AnsweredAtMostOnce'
  <1> DEFINE b == BlockOf[g]
             seq == AndItsWaiters(b, g)
  <1>0. TypeOK /\ GetsAreInOnePlace /\ WaitsAt(g, w) /\ b \in Block
    BY FetchAssumption DEF IndInv, FinishFetch, At, WaitsAt, FetchAssumption
  <1>1. OnlyWorker(w) /\ pc'[w] # "fetch"
    BY <1>0, RoundIdles DEF FinishFetch, ReadDone, Idles
  <1>2. /\ outcome[g] = "open" /\ g \notin getChan
        /\ \A v \in Worker \ {w} : ~WaitsAt(g, v)
        /\ \A c \in Block : \A i \in DOMAIN waiters[c] : waiters[c][i] # g
    BY <1>0 DEF GetsAreInOnePlace, WaitsInChannel, WaitsInList
  <1>3. /\ waiters[b] \in Seq(Get) /\ Distinct(waiters[b])
        /\ \A i \in DOMAIN waiters[b] :
              /\ waiters[b][i] \in Get /\ outcome[waiters[b][i]] = "open"
              /\ waiters[b][i] \notin getChan /\ BlockOf[waiters[b][i]] = b
              /\ \A v \in Worker : ~WaitsAt(waiters[b][i], v)
    BY <1>0, ListIsSound
  <1>4. /\ seq \in Seq(Get)
        /\ DOMAIN seq = DOMAIN waiters[b] \cup {Len(waiters[b]) + 1}
        /\ Len(waiters[b]) + 1 \notin DOMAIN waiters[b]
        /\ \A i \in DOMAIN waiters[b] : seq[i] = waiters[b][i]
        /\ seq[Len(waiters[b]) + 1] = g
    BY <1>3 DEF AndItsWaiters
  <1>5. /\ getChan' = getChan
        /\ waiters' = [waiters EXCEPT ![b] = <<>>]
        /\ Complete(seq, result)
    BY DEF FinishFetch, ReadDone, Emptied
  <1> HIDE DEF seq
  <1>6. Distinct(seq)
    BY <1>2, <1>3, <1>4, <1>0 DEF Distinct
  <1>7. \A c \in Block : waiters'[c] = IF c = b THEN <<>> ELSE waiters[c]
    BY <1>0, <1>5 DEF TypeOK
  <1>8. ASSUME NEW h \in Elements(seq)
        PROVE  /\ outcome[h] = "open"
               /\ h \notin getChan'
               /\ \A v \in Worker \ {w} : ~WaitsAt(h, v)
               /\ \A c \in Block : \A i \in DOMAIN waiters'[c] : waiters'[c][i] # h
    <2>1. h = g \/ \E i \in DOMAIN waiters[b] : h = waiters[b][i]
      BY <1>4 DEF Elements
    <2>2. CASE h = g
      BY <1>2, <1>5, <1>7, <2>2
    <2>3. ASSUME NEW i \in DOMAIN waiters[b], h = waiters[b][i]
          PROVE  /\ outcome[h] = "open"
                 /\ h \notin getChan'
                 /\ \A v \in Worker \ {w} : ~WaitsAt(h, v)
                 /\ BlockOf[h] = b
      BY <1>3, <1>5, <2>3
    <2>4. ASSUME NEW i \in DOMAIN waiters[b], h = waiters[b][i],
                 NEW c \in Block, NEW j \in DOMAIN waiters'[c]
          PROVE  waiters'[c][j] # h
      <3>1. c # b /\ waiters'[c] = waiters[c]
        BY <1>7, <2>4
      <3>2. BlockOf[waiters[c][j]] = c
        BY <2>4, <3>1, ListIsSound
      <3> QED
        BY <2>3, <2>4, <3>1, <3>2
    <2> QED
      BY <2>1, <2>2, <2>3, <2>4
  <1>9. \A c \in Block : waiters'[c] = waiters[c] \/ waiters'[c] = <<>>
    BY <1>7
  <1>10. getChan' \subseteq getChan
    BY <1>5
  <1> HIDE DEF b
  <1> QED
    BY <1>1, <1>4, <1>5, <1>6, <1>8, <1>9, <1>10, SomeAnswered

LEMMA HandedPlaces ==
  ASSUME IndInv, NEW w \in Worker, NEW b \in Block, HandOverPrefetch(w, b)
  PROVE  GetsAreInOnePlace' /\ AnsweredAtMostOnce'
  <1> DEFINE seq == ServedByPrefetch(waiters[b])
  <1>0. TypeOK
    BY DEF IndInv
  <1>1. OnlyWorker(w) /\ pc'[w] # "fetch"
    BY <1>0, RoundIdles DEF HandOverPrefetch, ReadDone, Idles
  <1>2. /\ waiters[b] \in Seq(Get) /\ Distinct(waiters[b])
        /\ \A i \in DOMAIN waiters[b] :
              /\ waiters[b][i] \in Get /\ outcome[waiters[b][i]] = "open"
              /\ waiters[b][i] \notin getChan /\ BlockOf[waiters[b][i]] = b
              /\ \A v \in Worker : ~WaitsAt(waiters[b][i], v)
    BY ListIsSound
  <1>3. /\ seq \in Seq(Get) /\ Distinct(seq) /\ Elements(seq) \subseteq Elements(waiters[b])
    BY <1>2, ServedIsPart DEF HandOverPrefetch
  <1>4. /\ getChan' = getChan
        /\ waiters' = [waiters EXCEPT ![b] = <<>>]
        /\ Complete(seq, "block")
    BY DEF HandOverPrefetch, ReadDone, Emptied
  <1> HIDE DEF seq
  <1>5. \A c \in Block : waiters'[c] = IF c = b THEN <<>> ELSE waiters[c]
    BY <1>0, <1>4 DEF TypeOK
  <1>6. ASSUME NEW h \in Elements(seq)
        PROVE  /\ outcome[h] = "open"
               /\ h \notin getChan'
               /\ \A v \in Worker \ {w} : ~WaitsAt(h, v)
               /\ \A c \in Block : \A i \in DOMAIN waiters'[c] : waiters'[c][i] # h
    <2>1. PICK i \in DOMAIN waiters[b] : h = waiters[b][i]
      BY <1>3 DEF Elements
    <2>2. /\ outcome[h] = "open"
          /\ h \notin getChan'
          /\ \A v \in Worker \ {w} : ~WaitsAt(h, v)
          /\ BlockOf[h] = b
      BY <1>2, <1>4, <2>1
    <2>3. ASSUME NEW c \in Block, NEW j \in DOMAIN waiters'[c]
          PROVE  waiters'[c][j] # h
      <3>1. c # b /\ waiters'[c] = waiters[c]
        BY <1>5, <2>3
      <3>2. BlockOf[waiters[c][j]] = c
        BY <2>3, <3>1, ListIsSound
      <3> QED
        BY <2>2, <3>1, <3>2
    <2> QED
      BY <2>2, <2>3
  <1>7. \A c \in Block : waiters'[c] = waiters[c] \/ waiters'[c] = <<>>
    BY <1>5
  <1>8. getChan' \subseteq getChan
    BY <1>4
  <1> QED
    BY <1>1, <1>3, <1>4, <1>6, <1>7, <1>8, SomeAnswered

LEMMA JoinedPlaces ==
  ASSUME IndInv, NEW w \in Worker, NEW g \in Get, JoinWaiters(w, g)
  PROVE  GetsAreInOnePlace'
  <1> DEFINE b == BlockOf[g]
             n == Len(waiters[b]) + 1
  <1>0. TypeOK /\ GetsAreInOnePlace /\ WaitsInChannel(g) /\ b \in Block
    BY FetchAssumption DEF IndInv, JoinWaiters, ReceiveGet, WaitsInChannel, FetchAssumption
  <1>1. OnlyWorker(w) /\ pc'[w] # "fetch"
    BY <1>0, RoundIdles DEF JoinWaiters, Idles
  <1>2. /\ outcome[g] = "open"
        /\ \A v \in Worker : ~WaitsAt(g, v)
        /\ \A c \in Block : \A i \in DOMAIN waiters[c] : ~WaitsInList(g, c, i)
    BY <1>0 DEF GetsAreInOnePlace
  <1>3. /\ getChan' = getChan \ {g} /\ outcome' = outcome
        /\ waiters' = [waiters EXCEPT ![b] = Append(@, g)]
    BY DEF JoinWaiters, ReceiveGet
  <1>4. waiters[b] \in Seq(Get)
    BY <1>0 DEF TypeOK
  <1>5. /\ DOMAIN Append(waiters[b], g) = DOMAIN waiters[b] \cup {n} /\ n \notin DOMAIN waiters[b]
        /\ \A i \in DOMAIN waiters[b] : Append(waiters[b], g)[i] = waiters[b][i]
        /\ Append(waiters[b], g)[n] = g
    BY <1>4
  <1>6. /\ waiters'[b] = Append(waiters[b], g)
        /\ \A c \in Block \ {b} : waiters'[c] = waiters[c]
    BY <1>0, <1>3 DEF TypeOK
  <1>7. \A h \in Get, v \in Worker : WaitsAt(h, v)' => WaitsAt(h, v)
    BY <1>1, NoGetTaken
  <1>8. \A h \in Get : WaitsInChannel(h)' <=> WaitsInChannel(h) /\ h # g
    BY <1>3 DEF WaitsInChannel
  <1> HIDE DEF n, b
  <1>9. \A h \in Get, c \in Block : \A i \in DOMAIN waiters'[c] :
           WaitsInList(h, c, i)' => \/ i \in DOMAIN waiters[c] /\ WaitsInList(h, c, i) /\ h # g
                                    \/ c = b /\ i = n /\ h = g
    <2> SUFFICES ASSUME NEW h \in Get, NEW c \in Block, NEW i \in DOMAIN waiters'[c],
                        waiters'[c][i] = h
                 PROVE  \/ i \in DOMAIN waiters[c] /\ waiters[c][i] = h /\ h # g
                        \/ c = b /\ i = n /\ h = g
      BY DEF WaitsInList
    <2>1. CASE c # b
      BY <1>2, <1>6, <2>1 DEF WaitsInList
    <2>2. CASE c = b /\ i = n
      BY <1>5, <1>6, <2>2
    <2>3. CASE c = b /\ i # n
      <3>1. i \in DOMAIN waiters[c] /\ waiters[c][i] = h
        BY <1>5, <1>6, <2>3
      <3> QED
        BY <1>2, <3>1 DEF WaitsInList
    <2> QED
      BY <2>1, <2>2, <2>3
  <1> SUFFICES ASSUME NEW h \in Get
               PROVE  /\ WaitsInChannel(h)' => outcome'[h] = "open"
                      /\ \A u \in Worker : WaitsAt(h, u)' =>
                            /\ outcome'[h] = "open" /\ ~WaitsInChannel(h)'
                            /\ \A v \in Worker : WaitsAt(h, v)' => v = u
                      /\ \A c \in Block : \A i \in DOMAIN waiters'[c] : WaitsInList(h, c, i)' =>
                            /\ outcome'[h] = "open" /\ ~WaitsInChannel(h)'
                            /\ BlockOf[h] = c
                            /\ \A v \in Worker : ~WaitsAt(h, v)'
                            /\ \A j \in DOMAIN waiters'[c] : WaitsInList(h, c, j)' => i = j
    BY DEF GetsAreInOnePlace
  <1>10. CASE h = g
    <2>1. BlockOf[h] = b
      BY <1>10 DEF b
    <2> QED
      BY <1>2, <1>3, <1>7, <1>8, <1>9, <1>10, <2>1
  <1>11. CASE h # g
    BY <1>0, <1>3, <1>7, <1>8, <1>9, <1>11 DEF GetsAreInOnePlace
  <1> QED
    BY <1>10, <1>11

LEMMA StartedPlaces ==
  ASSUME IndInv, NEW w \in Worker, NEW g \in Get, StartFetch(w, g)
  PROVE  GetsAreInOnePlace'
  <1>0. TypeOK /\ GetsAreInOnePlace /\ WaitsInChannel(g)
    BY DEF IndInv, StartFetch, ReceiveGet, WaitsInChannel
  <1>1. /\ outcome[g] = "open"
        /\ \A v \in Worker : ~WaitsAt(g, v)
        /\ \A b \in Block : \A i \in DOMAIN waiters[b] : ~WaitsInList(g, b, i)
    BY <1>0 DEF GetsAreInOnePlace
  <1>2. /\ getChan' = getChan \ {g} /\ outcome' = outcome /\ waiters' = waiters
        /\ pc' = [pc EXCEPT ![w] = "fetch"] /\ job' = [job EXCEPT ![w] = g]
    BY DEF StartFetch, ReceiveGet
  <1>3. /\ pc'[w] = "fetch" /\ job'[w] = g
        /\ \A v \in Worker \ {w} : pc'[v] = pc[v] /\ job'[v] = job[v]
    BY <1>0, <1>2 DEF TypeOK
  <1>4. \A h \in Get, v \in Worker : WaitsAt(h, v)' => \/ v # w /\ WaitsAt(h, v) /\ h # g
                                                       \/ v = w /\ h = g
    BY <1>1, <1>3 DEF WaitsAt
  <1>5. \A h \in Get : WaitsInChannel(h)' <=> WaitsInChannel(h) /\ h # g
    BY <1>2 DEF WaitsInChannel
  <1>6. \A h \in Get, b \in Block : \A i \in DOMAIN waiters[b] :
           WaitsInList(h, b, i)' <=> WaitsInList(h, b, i)
    BY <1>2 DEF WaitsInList
  <1> SUFFICES ASSUME NEW h \in Get
               PROVE  /\ WaitsInChannel(h)' => outcome'[h] = "open"
                      /\ \A u \in Worker : WaitsAt(h, u)' =>
                            /\ outcome'[h] = "open" /\ ~WaitsInChannel(h)'
                            /\ \A v \in Worker : WaitsAt(h, v)' => v = u
                      /\ \A c \in Block : \A i \in DOMAIN waiters'[c] : WaitsInList(h, c, i)' =>
                            /\ outcome'[h] = "open" /\ ~WaitsInChannel(h)'
                            /\ BlockOf[h] = c
                            /\ \A v \in Worker : ~WaitsAt(h, v)'
                            /\ \A j \in DOMAIN waiters'[c] : WaitsInList(h, c, j)' => i = j
    BY DEF GetsAreInOnePlace
  <1>7. CASE h = g
    BY <1>1, <1>2, <1>4, <1>5, <1>6, <1>7
  <1>8. CASE h # g
    BY <1>0, <1>2, <1>4, <1>5, <1>6, <1>8 DEF GetsAreInOnePlace
  <1> QED
    BY <1>7, <1>8

LEMMA PlacesStep ==
  ASSUME IndInv, NEW w \in Worker, WorkerKinds(w)
  PROVE  GetsAreInOnePlace' /\ AnsweredAtMostOnce'
  <1>0. TypeOK /\ GetsAreInOnePlace /\ AnsweredAtMostOnce
    BY DEF IndInv
  <1>1. ASSUME OnlyWorker(w), pc'[w] # "fetch", getChan' = getChan,
               UNCHANGED <<waiters, outcome>>
        PROVE  GetsAreInOnePlace' /\ AnsweredAtMostOnce'
    BY <1>0, <1>1, NoGetTaken, NobodyAnswered DEF AnsweredAtMostOnce
  <1>2. CASE Passing(w)
    <2>1. CASE UNCHANGED worker
      <3>1. \A g \in Get, v \in Worker : WaitsAt(g, v)' <=> WaitsAt(g, v)
        BY <2>1 DEF worker, WaitsAt
      <3> QED
        BY <1>0, <1>2, <3>1, NobodyAnswered DEF Passing, map, AnsweredAtMostOnce
    <2>2. CASE ~UNCHANGED worker
      BY <1>1, <1>2, <2>2 DEF Passing, map, Selects
    <2> QED
      BY <2>1, <2>2
  <1>3. CASE Flushing(w)
    BY <1>1, <1>3 DEF Flushing, FlushPrefetch
  <1>4. ASSUME NEW b \in Block, StartPrefetch(w, b)
        PROVE  GetsAreInOnePlace' /\ AnsweredAtMostOnce'
    <2>1. OnlyWorker(w) /\ pc'[w] # "fetch"
      BY <1>0, <1>4 DEF StartPrefetch, OnlyWorker, TypeOK, Label
    <2> QED
      BY <1>1, <1>4, <2>1 DEF StartPrefetch, ReceivePrefetch
  <1>5. ASSUME NEW b \in Block, KeepPrefetch(w, b)
        PROVE  GetsAreInOnePlace' /\ AnsweredAtMostOnce'
    <2>1. Idles(w)
      BY <1>0, <1>5, RoundIdles DEF KeepPrefetch, ReadDone
    <2> QED
      BY <1>1, <1>5, <2>1 DEF KeepPrefetch, ReadDone, Idles
  <1>6. ASSUME NEW g \in Get, JoinWaiters(w, g) \/ StartFetch(w, g)
        PROVE  GetsAreInOnePlace' /\ AnsweredAtMostOnce'
    BY <1>0, <1>6, JoinedPlaces, StartedPlaces DEF JoinWaiters, StartFetch, AnsweredAtMostOnce
  <1> QED
    BY <1>2, <1>3, <1>4, <1>5, <1>6, TakenPlaces, FinishedPlaces, HandedPlaces DEF WorkerKinds

-----------------------------------------------------------------------------
(* The theorems.                                                           *)

LEMMA InitiallyInv == Init => IndInv
  <1> SUFFICES ASSUME Init
               PROVE  IndInv
    OBVIOUS
  <1>1. TypeOK /\ JobsAreTyped
    BY InitTypes
  <1>2. /\ ListsArePending /\ AnsweredAtMostOnce
        /\ \A b \in Block : waiters[b] = <<>>
    BY DEF Init, ListsArePending, AnsweredAtMostOnce
  <1>3. GetsAreInOnePlace
    BY <1>2 DEF Init, GetsAreInOnePlace, WaitsInChannel, WaitsAt, WaitsInList
  <1>4. ReadersAreAlone
    BY DEF Init, ReadersAreAlone, Reads, Fetches, Prefetches
  <1>5. Held = {} /\ MayAdd = {} /\ prefetchMemory = 0
    BY DEF Init, Held, MayAdd
  <1>6. MemoryIsFinite /\ MemoryAccounted
    BY <1>5, FS_EmptySet DEF MemoryIsFinite, MemoryAccounted
  <1>7. MemoryBounded
    BY <1>5, FS_EmptySet, FS_CardinalityType, FetchAssumption
    DEF MemoryBounded, FetchAssumption
  <1>8. NothingHeldAfterClose
    BY <1>5 DEF NothingHeldAfterClose
  <1> QED
    BY <1>1, <1>2, <1>3, <1>4, <1>6, <1>7, <1>8 DEF IndInv

\* A step that leaves the map and the workers alone.
LEMMA CallKeeps ==
  ASSUME IndInv, UNCHANGED <<map, worker, overlapped>>
  PROVE  /\ ListsArePending' /\ ReadersAreAlone' /\ MemoryIsFinite' /\ MemoryAccounted'
         /\ MemoryBounded' /\ NothingHeldAfterClose'
  <1> USE DEF map, worker, IndInv
  <1>1. ListsArePending'
    BY DEF ListsArePending
  <1>2. ReadersAreAlone'
    BY DEF ReadersAreAlone, Reads, Fetches, Prefetches
  <1>3. Held' = Held /\ MayAdd' = MayAdd
    BY DEF Held, MayAdd
  <1>4. MemoryIsFinite' /\ MemoryAccounted' /\ MemoryBounded'
    BY <1>3 DEF MemoryIsFinite, MemoryAccounted, MemoryBounded
  <1>5. NothingHeldAfterClose'
    BY <1>3 DEF NothingHeldAfterClose
  <1> QED
    BY <1>1, <1>2, <1>4, <1>5

LEMMA InvKept ==
  ASSUME IndInv, [Next]_vars
  PROVE  IndInv'
  <1>1. CASE CallerStep
    <2>1. TypeOK' /\ JobsAreTyped'
      BY <1>1, CallTypes
    <2>2. CallFramed
      BY <1>1, CallKinds DEF IndInv
    <2>3. UNCHANGED <<map, worker, overlapped>>
      BY <2>2 DEF CallFramed
    <2> QED
      BY <2>1, <2>2, <2>3, CallPlaces, CallKeeps DEF IndInv
  <1>2. ASSUME NEW w \in Worker, WorkerStep(w)
        PROVE  IndInv'
    <2>1. TypeOK' /\ JobsAreTyped' /\ prefetchMemory' \in Nat
      BY <1>2, WorkerTypes DEF TypeOK
    <2>2. WorkerKinds(w)
      BY <1>2, StepKinds DEF IndInv
    <2> QED
      BY <2>1, <2>2, ListsStep, PlacesStep, ReadersStep, AccountedStep, BoundedStep,
         ReleasedStep DEF IndInv
  <1>3. CASE UNCHANGED vars
    <2>1. UNCHANGED <<map, worker, overlapped>> /\ UNCHANGED <<getChan, outcome>>
      BY <1>3 DEF vars
    <2>2. CallFramed
      BY <2>1 DEF CallFramed
    <2>3. TypeOK' /\ JobsAreTyped'
      BY <1>3 DEF vars, map, worker, flushChans, caller, IndInv, TypeOK, JobsAreTyped
    <2> QED
      BY <2>1, <2>2, <2>3, CallPlaces, CallKeeps DEF IndInv
  <1> QED
    BY <1>1, <1>2, <1>3 DEF Next

\* The inductive invariant of the read side.
THEOREM Invariance == Spec => []IndInv
  <1>1. Init => IndInv
    BY InitiallyInv
  <1>2. IndInv /\ [Next]_vars => IndInv'
    BY InvKept
  <1> QED
    BY <1>1, <1>2, PTL DEF Spec

\* Every variable keeps its type: the memory counter never falls below zero
\* (flushPrefetch, fetchBlock).
THEOREM Types == Spec => []TypeOK
  <1>1. IndInv => TypeOK
    BY DEF IndInv
  <1> QED
    BY <1>1, Invariance, PTL

\* OnComplete is called at most once for a get (fetchBlock, prefetchBlock).
THEOREM AnswersOnce == Spec => []AnsweredAtMostOnce
  <1>1. IndInv => AnsweredAtMostOnce
    BY DEF IndInv
  <1> QED
    BY <1>1, Invariance, PTL

\* prefetchMemory counts what the map holds, until a flush meets a read, and
\* never less than that.
THEOREM MemoryCounts == Spec => []MemoryAccounted
  <1>1. IndInv => MemoryAccounted
    BY DEF IndInv
  <1> QED
    BY <1>1, Invariance, PTL

\* The memory limit is exceeded by less than one block for each worker.
THEOREM MemoryLimited == Spec => []MemoryBounded
  <1>1. IndInv => MemoryBounded
    BY DEF IndInv
  <1> QED
    BY <1>1, Invariance, PTL

\* The last worker to end leaves no block in the map.
THEOREM MemoryReleased == Spec => []NothingHeldAfterClose
  <1>1. IndInv => NothingHeldAfterClose
    BY DEF IndInv
  <1> QED
    BY <1>1, Invariance, PTL
=============================================================================
