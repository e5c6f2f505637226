----------------------- MODULE BlockFetchCallerProofs -----------------------
(***************************************************************************)
(* Proofs about BlockFetch for callers that keep to what the commands of   *)
(* the program do, which the constants say: QuietCaller, no error of the   *)
(* reads of preflighted blocks (PreflightsAreRead), one get at a time for  *)
(* each of these blocks (PreflightsAreCoalesced).  Every theorem names     *)
(* those of them it needs.  All rest on the inductive invariant of         *)
(* BlockFetchProofs.                                                       *)
(***************************************************************************)
EXTENDS BlockFetchProofs

-----------------------------------------------------------------------------
(* A pending entry has a reader, whoever flushes.                          *)

\* Worker w takes no part in reading block b, before or after a step of w.
LEMMA OthersRead ==
  ASSUME PendingIsRead, NEW w \in Worker, OnlyWorker(w),
         \A b \in Block : entry'[b] = "pending" =>
             (entry[b] = "pending" /\ ~Reads(w, b)) \/ Reads(w, b)'
  PROVE  PendingIsRead'
  <1> SUFFICES ASSUME NEW b \in Block, entry'[b] = "pending"
               PROVE  \E v \in Worker : Reads(v, b)'
    BY DEF PendingIsRead
  <1>1. CASE Reads(w, b)'
    BY <1>1
  <1>2. CASE ~Reads(w, b)'
    <2>1. PICK v \in Worker : Reads(v, b)
      BY <1>2 DEF PendingIsRead
    <2>2. v # w
      BY <1>2, <2>1
    <2> QED
      BY <2>1, <2>2 DEF OnlyWorker, Reads, Fetches, Prefetches
  <1> QED
    BY <1>1, <1>2

\* A worker that does not read, in a step that makes no entry pending.
LEMMA IdleRead ==
  ASSUME PendingIsRead, NEW w \in Worker, OnlyWorker(w),
         pc[w] \notin {"fetch", "prefetch"},
         \A b \in Block : entry'[b] = "pending" => entry[b] = "pending"
  PROVE  PendingIsRead'
  BY OthersRead DEF Reads, Fetches, Prefetches

\* A worker whose read ends, and leaves the block's entry not pending.
LEMMA ReadEnded ==
  ASSUME IndInv, PendingIsRead, NEW w \in Worker, NEW b \in Block, ReadDone(w),
         \A c \in Block : Reads(w, c) => c = b,
         entry'[b] # "pending",
         \A c \in Block : entry'[c] = "pending" => entry[c] = "pending"
  PROVE  PendingIsRead'
  <1>1. OnlyWorker(w)
    BY RoundIdles DEF IndInv, ReadDone, Idles
  <1> QED
    BY <1>1, OthersRead

LEMMA FetchReads ==
  ASSUME NEW w \in Worker, NEW g \in Get, pc[w] = "fetch", job[w] = g
  PROVE  /\ BlockOf[g] \in Block /\ Reads(w, BlockOf[g])
         /\ \A c \in Block : Reads(w, c) => c = BlockOf[g]
  BY FetchAssumption DEF Reads, Fetches, Prefetches, FetchAssumption

LEMMA PrefetchReads ==
  ASSUME NEW w \in Worker, NEW b \in Block, pc[w] = "prefetch", job[w] = b
  PROVE  \A c \in Block : Reads(w, c) => c = b
  BY DEF Reads, Fetches, Prefetches

LEMMA PreflightedStep ==
  ASSUME IndInv, PrefetchesArePreflighted, [Next]_vars
  PROVE  PrefetchesArePreflighted'
  <1> USE DEF PrefetchesArePreflighted
  <1>0. TypeOK
    BY DEF IndInv
  <1>1. CASE CallerStep
    <2>1. UNCHANGED worker
      BY <1>0, <1>1, CallKinds DEF CallFramed
    <2>2. prefetchChan' \subseteq Preflighted
      BY <1>1 DEF CallerStep, GetStoredBlock, Preflight, Flush, FlushReturns, Close
    <2> QED
      BY <2>1, <2>2 DEF worker
  <1>2. ASSUME NEW w \in Worker, WorkerStep(w)
        PROVE  PrefetchesArePreflighted'
    <2>1. /\ prefetchChan' \subseteq prefetchChan
          /\ OnlyWorker(w)
          /\ pc'[w] = "prefetch" => \/ job'[w] \in prefetchChan
                                    \/ pc[w] = "prefetch" /\ job'[w] = job[w]
      <3>1. CASE EnterSelect(w) \/ SeeClosed(w)
        <4>1. prefetchChan' = prefetchChan /\ UNCHANGED job
          BY <3>1 DEF EnterSelect, SeeClosed
        <4>2. /\ pc' \in [Worker -> Label] /\ pc'[w] # "prefetch"
              /\ \A v \in Worker \ {w} : pc'[v] = pc[v]
          BY <1>0, <3>1 DEF EnterSelect, SeeClosed, BlockingSelect, TypeOK, Label
        <4> QED
          BY <1>0, <4>1, <4>2 DEF OnlyWorker, TypeOK
      <3>2. ASSUME NEW g \in Get,
                   \/ TakePrefetched(w, g) \/ JoinWaiters(w, g)
                   \/ \E result \in ReadResult(BlockOf[g]) : FinishFetch(w, g, result)
                   \/ AbandonFetch(w, g)
            PROVE  prefetchChan' = prefetchChan /\ Idles(w)
        BY <1>0, <3>2, RoundIdles
        DEF TakePrefetched, JoinWaiters, ReceiveGet, FinishFetch, AbandonFetch, ReadDone
      <3>3. ASSUME NEW g \in Get, StartFetch(w, g)
            PROVE  prefetchChan' = prefetchChan /\ OnlyWorker(w) /\ pc'[w] = "fetch"
        BY <1>0, <3>3 DEF StartFetch, ReceiveGet, OnlyWorker, TypeOK, Label
      <3>4. ASSUME NEW g \in Get, PanicInFetch(w, g)
            PROVE  prefetchChan' = prefetchChan /\ OnlyWorker(w) /\ pc'[w] = "fetch"
        BY <1>0, <3>4 DEF PanicInFetch, OnlyWorker, TypeOK, worker, At
      <3>5. ASSUME NEW b \in Block, SkipPrefetch(w, b)
            PROVE  prefetchChan' \subseteq prefetchChan /\ Idles(w)
        BY <1>0, <3>5, RoundIdles DEF SkipPrefetch, ReceivePrefetch
      <3>6. ASSUME NEW b \in Block, StartPrefetch(w, b)
            PROVE  prefetchChan' \subseteq prefetchChan /\ OnlyWorker(w) /\ job'[w] \in prefetchChan
        BY <1>0, <3>6 DEF StartPrefetch, ReceivePrefetch, OnlyWorker, TypeOK, Label
      <3>7. ASSUME NEW b \in Block,
                   \/ PrefetchFails(w, b) \/ DiscardPrefetch(w, b)
                   \/ KeepPrefetch(w, b) \/ HandOverPrefetch(w, b)
            PROVE  prefetchChan' = prefetchChan /\ Idles(w)
        BY <1>0, <3>7, RoundIdles
        DEF PrefetchFails, DiscardPrefetch, KeepPrefetch, HandOverPrefetch, ReadDone
      <3>8. CASE FlushWorker(w)
        BY <1>0, <3>8, RoundIdles DEF FlushWorker, FlushPrefetch, Idles
      <3>9. CASE ExitWorker(w)
        BY <1>0, <3>9 DEF ExitWorker, FlushPrefetch, OnlyWorker, TypeOK, Label
      <3> QED
        BY <1>2, <3>1, <3>2, <3>3, <3>4, <3>5, <3>6, <3>7, <3>8, <3>9 DEF WorkerStep, Idles
    <2> QED
      BY <2>1 DEF OnlyWorker
  <1>3. CASE UNCHANGED vars
    BY <1>3 DEF vars, worker
  <1> QED
    BY <1>1, <1>2, <1>3 DEF Next

\* Every way to end a read leaves the entry handed out, filled or absent:
\* only a prefetch that fails would leave it pending.
LEMMA PendingStep ==
  ASSUME PreflightsAreRead, IndInv, ReadInv, NEW w \in Worker, WorkerStep(w)
  PROVE  PendingIsRead'
  <1>0. /\ TypeOK /\ PendingIsRead /\ PrefetchesArePreflighted
        /\ BlockOf \in [Get -> Block]
    BY FetchAssumption DEF IndInv, ReadInv, FetchAssumption
  <1>1. ASSUME OnlyWorker(w), pc[w] \notin {"fetch", "prefetch"}, entry' = entry
        PROVE  PendingIsRead'
    BY <1>0, <1>1, IdleRead
  <1>2. CASE EnterSelect(w) \/ SeeClosed(w)
    <2>1. /\ pc' \in [Worker -> Label] /\ pc[w] \notin {"fetch", "prefetch"}
          /\ \A v \in Worker \ {w} : pc'[v] = pc[v]
          /\ job' = job /\ entry' = entry
      BY <1>0, <1>2 DEF EnterSelect, SeeClosed, BlockingSelect, TypeOK, Label, At, Selects, map
    <2> QED
      BY <1>0, <1>1, <2>1 DEF OnlyWorker, TypeOK
  <1>3. ASSUME NEW g \in Get, TakePrefetched(w, g) \/ JoinWaiters(w, g)
        PROVE  PendingIsRead'
    <2>1. OnlyWorker(w) /\ pc[w] \notin {"fetch", "prefetch"}
      BY <1>0, <1>3, RoundIdles
      DEF TakePrefetched, JoinWaiters, ReceiveGet, At, Selects, Idles
    <2>2. \A b \in Block : entry'[b] = "pending" => entry[b] = "pending"
      BY <1>0, <1>3 DEF TakePrefetched, JoinWaiters, TypeOK
    <2> QED
      BY <1>0, <2>1, <2>2, IdleRead
  <1>4. ASSUME NEW g \in Get, StartFetch(w, g)
        PROVE  PendingIsRead'
    <2>1. /\ OnlyWorker(w) /\ pc[w] \notin {"fetch", "prefetch"}
          /\ pc'[w] = "fetch" /\ job'[w] = g
      BY <1>0, <1>4 DEF StartFetch, ReceiveGet, At, Selects, OnlyWorker, TypeOK, Label
    <2>2. \A b \in Block \ {BlockOf[g]} : entry'[b] = entry[b]
      BY <1>0, <1>4 DEF StartFetch, TypeOK
    <2> QED
      BY <1>0, <2>1, <2>2, OthersRead DEF Reads, Fetches, Prefetches
  <1>5. ASSUME NEW g \in Get, NEW result, FinishFetch(w, g, result) \/ AbandonFetch(w, g)
        PROVE  PendingIsRead'
    <2>1. ReadDone(w) /\ pc[w] = "fetch" /\ job[w] = g /\ BlockOf[g] \in Block
      BY <1>0, <1>5 DEF FinishFetch, AbandonFetch, At
    <2>2. /\ entry'[BlockOf[g]] # "pending"
          /\ \A c \in Block : entry'[c] = "pending" => entry[c] = "pending"
      BY <1>0, <1>5, <2>1 DEF FinishFetch, AbandonFetch, TypeOK, map
    <2> QED
      BY <1>0, <2>1, <2>2, FetchReads, ReadEnded
  <1>6. ASSUME NEW g \in Get, PanicInFetch(w, g)
        PROVE  PendingIsRead'
    BY <1>0, <1>6 DEF PanicInFetch, PendingIsRead, Reads, Fetches, Prefetches, map, worker
  <1>7. ASSUME NEW b \in Block, SkipPrefetch(w, b)
        PROVE  PendingIsRead'
    <2>1. OnlyWorker(w) /\ pc[w] \notin {"fetch", "prefetch"} /\ entry' = entry
      BY <1>0, <1>7, RoundIdles DEF SkipPrefetch, ReceivePrefetch, At, Idles
    <2> QED
      BY <1>1, <2>1
  <1>8. ASSUME NEW b \in Block, StartPrefetch(w, b)
        PROVE  PendingIsRead'
    <2>1. /\ OnlyWorker(w) /\ pc[w] \notin {"fetch", "prefetch"}
          /\ pc'[w] = "prefetch" /\ job'[w] = b
      BY <1>0, <1>8 DEF StartPrefetch, ReceivePrefetch, At, OnlyWorker, TypeOK, Label
    <2>2. \A c \in Block \ {b} : entry'[c] = entry[c]
      BY <1>0, <1>8 DEF StartPrefetch, TypeOK
    <2> QED
      BY <1>0, <2>1, <2>2, OthersRead DEF Reads, Fetches, Prefetches
  <1>9. ASSUME NEW b \in Block, PrefetchFails(w, b)
        PROVE  FALSE
    <2>1. b \in Preflighted
      BY <1>0, <1>9 DEF PrefetchFails, At, PrefetchesArePreflighted
    <2>2. b \in MayFail
      BY <1>9 DEF PrefetchFails, ReadResult
    <2> QED
      BY <2>1, <2>2 DEF PreflightsAreRead
  <1>10. ASSUME NEW b \in Block,
                DiscardPrefetch(w, b) \/ KeepPrefetch(w, b) \/ HandOverPrefetch(w, b)
         PROVE  PendingIsRead'
    <2>1. ReadDone(w) /\ pc[w] = "prefetch" /\ job[w] = b
      BY <1>10 DEF DiscardPrefetch, KeepPrefetch, HandOverPrefetch, At
    <2>2. /\ entry'[b] # "pending"
          /\ \A c \in Block : entry'[c] = "pending" => entry[c] = "pending"
      BY <1>0, <1>10 DEF DiscardPrefetch, KeepPrefetch, HandOverPrefetch, TypeOK, map
    <2> QED
      BY <1>0, <2>1, <2>2, PrefetchReads, ReadEnded
  <1>11. CASE FlushWorker(w) \/ ExitWorker(w)
    <2>1. OnlyWorker(w) /\ pc[w] \notin {"fetch", "prefetch"} /\ FlushPrefetch
      BY <1>0, <1>11, RoundIdles
      DEF FlushWorker, ExitWorker, FlushPrefetch, At, Selects, Idles, OnlyWorker, TypeOK, Label
    <2>2. \A b \in Block : entry'[b] = "pending" => entry[b] = "pending"
      BY <2>1 DEF FlushPrefetch
    <2> QED
      BY <1>0, <2>1, <2>2, IdleRead
  <1> QED
    BY <1>2, <1>3, <1>4, <1>5, <1>6, <1>7, <1>8, <1>9, <1>10, <1>11 DEF WorkerStep

LEMMA ReadKept ==
  ASSUME PreflightsAreRead, IndInv, ReadInv, [Next]_vars
  PROVE  ReadInv'
  <1>1. PrefetchesArePreflighted'
    BY PreflightedStep DEF ReadInv
  <1>2. CASE CallerStep
    <2>1. UNCHANGED <<entry, pc, job>>
      BY <1>2, CallKinds DEF CallFramed, IndInv, map, worker
    <2> QED
      BY <1>1, <2>1 DEF ReadInv, PendingIsRead, Reads, Fetches, Prefetches
  <1>3. CASE UNCHANGED vars
    BY <1>1, <1>3 DEF vars, map, worker, ReadInv, PendingIsRead, Reads, Fetches, Prefetches
  <1> QED
    BY <1>1, <1>2, <1>3, PendingStep DEF ReadInv, Next

\* An entry that is pending is being read, so that nobody waits in vain.
THEOREM PendingReads ==
  ASSUME PreflightsAreRead
  PROVE  Spec => []ReadInv
  <1>1. Init => ReadInv
    BY DEF Init, ReadInv, PrefetchesArePreflighted, PendingIsRead
  <1>2. IndInv /\ ReadInv /\ [Next]_vars => ReadInv'
    BY ReadKept
  <1> QED
    BY <1>1, <1>2, Invariance, PTL DEF Spec

\* A get on the list of an entry is open and a worker reads the block for it,
\* whatever flushes, closes and other gets come in between (fetchBlock,
\* prefetchBlock, flushPrefetch).
THEOREM WaitersAreServed ==
  ASSUME PreflightsAreRead
  PROVE  Spec => []WaitersHaveReader
  <1>1. ASSUME IndInv, ReadInv
        PROVE  WaitersHaveReader
    <2> SUFFICES ASSUME NEW b \in Block, waiters[b] # <<>>
                 PROVE  /\ entry[b] = "pending"
                        /\ \A g \in Elements(waiters[b]) : outcome[g] = "open"
                        /\ \E w \in Worker : Reads(w, b)
      BY DEF WaitersHaveReader
    <2>1. entry[b] = "pending"
      BY <1>1 DEF IndInv, ListsArePending
    <2>2. \A g \in Elements(waiters[b]) : outcome[g] = "open"
      BY <1>1, ListIsSound DEF Elements
    <2> QED
      BY <1>1, <2>1, <2>2 DEF ReadInv, PendingIsRead
  <1> QED
    BY <1>1, Invariance, PendingReads, PTL

-----------------------------------------------------------------------------
(* Nothing is flushed under a get.                                         *)

\* No step of a worker opens a get.
LEMMA NoneOpened ==
  ASSUME NEW w \in Worker, WorkerKinds(w), NEW g \in Get, outcome'[g] = "open"
  PROVE  outcome[g] = "open"
  <1>1. ASSUME NEW seq, NEW result \in {"block", "error"}, Complete(seq, result)
        PROVE  outcome[g] = "open"
    BY <1>1 DEF Complete
  <1>2. UNCHANGED outcome \/ \E seq : \E result \in {"block", "error"} : Complete(seq, result)
    BY DEF WorkerKinds, Passing, TakePrefetched, JoinWaiters, StartFetch, ReceiveGet,
           FinishFetch, StartPrefetch, ReceivePrefetch, KeepPrefetch, HandOverPrefetch,
           Flushing, FlushPrefetch
  <1> QED
    BY <1>1, <1>2

\* What a step of w does to the bookkeeping of flushes and ends.
LEMMA WorkerControl ==
  ASSUME TypeOK, EndingIsClosed, NEW w \in Worker, WorkerStep(w)
  PROVE  /\ tokens' + replies' = tokens + replies
         /\ \A v \in Worker : ~running'[v] \/ pc'[v] = "exit" => closed
  <1> USE DEF EndingIsClosed
  <1>1. CASE EnterSelect(w)
    <2>1. /\ running' = running /\ UNCHANGED flushChans
          /\ \A v \in Worker : pc'[v] = "exit" => pc[v] = "exit"
      BY <1>1 DEF EnterSelect, BlockingSelect, TypeOK
    <2> QED
      BY <2>1 DEF flushChans
  <1>2. CASE SeeClosed(w)
    BY <1>2 DEF SeeClosed, flushChans
  <1>3. ASSUME running' = running, NextRound(w)
        PROVE  \A v \in Worker : ~running'[v] \/ pc'[v] = "exit" => closed
    BY <1>3 DEF NextRound, TypeOK
  <1>4. ASSUME ReadDone(w)
        PROVE  /\ tokens' + replies' = tokens + replies
               /\ \A v \in Worker : ~running'[v] \/ pc'[v] = "exit" => closed
    BY <1>3, <1>4 DEF ReadDone, flushChans
  <1>5. ASSUME NEW g \in Get, TakePrefetched(w, g) \/ JoinWaiters(w, g)
        PROVE  /\ tokens' + replies' = tokens + replies
               /\ \A v \in Worker : ~running'[v] \/ pc'[v] = "exit" => closed
    BY <1>3, <1>5 DEF TakePrefetched, JoinWaiters, ReceiveGet, flushChans
  <1>6. ASSUME NEW g \in Get, StartFetch(w, g)
        PROVE  /\ tokens' + replies' = tokens + replies
               /\ \A v \in Worker : ~running'[v] \/ pc'[v] = "exit" => closed
    BY <1>6 DEF StartFetch, ReceiveGet, flushChans, TypeOK
  <1>7. ASSUME NEW g \in Get, PanicInFetch(w, g)
        PROVE  /\ tokens' + replies' = tokens + replies
               /\ \A v \in Worker : ~running'[v] \/ pc'[v] = "exit" => closed
    BY <1>7 DEF PanicInFetch, flushChans, worker
  <1>8. ASSUME NEW b \in Block, SkipPrefetch(w, b)
        PROVE  /\ tokens' + replies' = tokens + replies
               /\ \A v \in Worker : ~running'[v] \/ pc'[v] = "exit" => closed
    BY <1>3, <1>8 DEF SkipPrefetch, ReceivePrefetch, flushChans
  <1>9. ASSUME NEW b \in Block, StartPrefetch(w, b)
        PROVE  /\ tokens' + replies' = tokens + replies
               /\ \A v \in Worker : ~running'[v] \/ pc'[v] = "exit" => closed
    BY <1>9 DEF StartPrefetch, ReceivePrefetch, flushChans, TypeOK
  <1>11. CASE FlushWorker(w)
    <2>1. tokens \in Nat /\ replies \in Nat /\ tokens' = tokens - 1 /\ replies' = replies + 1
      BY <1>11 DEF FlushWorker, TypeOK
    <2>2. tokens' + replies' = tokens + replies
      BY <2>1
    <2> QED
      BY <1>3, <1>11, <2>2 DEF FlushWorker, FlushPrefetch
  <1>12. CASE ExitWorker(w)
    BY <1>12 DEF ExitWorker, FlushPrefetch, flushChans, TypeOK
  <1>13. ASSUME NEW b \in Block,
                PrefetchFails(w, b) \/ DiscardPrefetch(w, b) \/ KeepPrefetch(w, b) \/ HandOverPrefetch(w, b)
         PROVE  ReadDone(w)
    BY <1>13 DEF PrefetchFails, DiscardPrefetch, KeepPrefetch, HandOverPrefetch
  <1>14. ASSUME NEW g \in Get, NEW result, FinishFetch(w, g, result) \/ AbandonFetch(w, g)
         PROVE  ReadDone(w)
    BY <1>14 DEF FinishFetch, AbandonFetch
  <1> QED
    BY <1>1, <1>2, <1>4, <1>5, <1>6, <1>7, <1>8, <1>9, <1>11, <1>12, <1>13, <1>14
    DEF WorkerStep

\* A worker flushes the map only while no get is open.
LEMMA FlushedWhenQuiet ==
  ASSUME TypeOK, QuietInv, NEW w \in Worker, FlushWorker(w) \/ ExitWorker(w)
  PROVE  Quiet
  <1>1. CASE FlushWorker(w)
    <2>1. tokens \in Nat /\ replies \in Nat /\ tokens > 0
      BY <1>1 DEF FlushWorker, TypeOK
    <2>2. tokens + replies # 0
      BY <2>1
    <2>3. flushing
      BY <2>2 DEF QuietInv, FlushIsCounted
    <2> QED
      BY <2>3 DEF QuietInv, NoGetMeanwhile
  <1>2. CASE ExitWorker(w)
    BY <1>2 DEF ExitWorker, At, QuietInv, EndingIsClosed, NoGetMeanwhile
  <1> QED
    BY <1>1, <1>2

\* A get that a worker reads for is open.
LEMMA FetchIsOpen ==
  ASSUME IndInv, NEW w \in Worker, NEW b \in Block, Fetches(w, b)
  PROVE  job[w] \in Get /\ WaitsAt(job[w], w) /\ outcome[job[w]] = "open" /\ BlockOf[job[w]] = b
  BY DEF IndInv, JobsAreTyped, GetsAreInOnePlace, Fetches, WaitsAt

\* Only a flush deletes an entry.
LEMMA EntriesStay ==
  ASSUME TypeOK, NEW w \in Worker, WorkerStep(w), ~FlushWorker(w), ~ExitWorker(w),
         NEW b \in Block, entry[b] # "absent"
  PROVE  entry'[b] # "absent"
  BY DEF WorkerStep, map, EnterSelect, SeeClosed, TakePrefetched, JoinWaiters, StartFetch,
         FinishFetch, AbandonFetch, PanicInFetch, SkipPrefetch, StartPrefetch, PrefetchFails,
         DiscardPrefetch, KeepPrefetch, HandOverPrefetch, TypeOK

\* A step of a worker leaves the other workers where they are.
LEMMA WorkerAlone ==
  ASSUME TypeOK, NEW w \in Worker, WorkerKinds(w)
  PROVE  OnlyWorker(w)
  <1>1. CASE Passing(w)
    BY <1>1 DEF Passing, OnlyWorker, TypeOK, worker
  <1>2. CASE Flushing(w)
    BY <1>2 DEF Flushing
  <1>3. ASSUME NEW g \in Get, TakePrefetched(w, g) \/ JoinWaiters(w, g)
        PROVE  OnlyWorker(w)
    BY <1>3, RoundIdles DEF TakePrefetched, JoinWaiters, Idles
  <1>4. ASSUME NEW g \in Get, NEW result, FinishFetch(w, g, result)
        PROVE  OnlyWorker(w)
    BY <1>4, RoundIdles DEF FinishFetch, ReadDone, Idles
  <1>5. ASSUME NEW g \in Get, StartFetch(w, g)
        PROVE  OnlyWorker(w)
    BY <1>5 DEF StartFetch, OnlyWorker, TypeOK, Label
  <1>6. ASSUME NEW b \in Block, StartPrefetch(w, b)
        PROVE  OnlyWorker(w)
    BY <1>6 DEF StartPrefetch, OnlyWorker, TypeOK, Label
  <1>7. ASSUME NEW b \in Block, KeepPrefetch(w, b) \/ HandOverPrefetch(w, b)
        PROVE  OnlyWorker(w)
    BY <1>7, RoundIdles DEF KeepPrefetch, HandOverPrefetch, ReadDone, Idles
  <1> QED
    BY <1>1, <1>2, <1>3, <1>4, <1>5, <1>6, <1>7 DEF WorkerKinds

\* The workers that read for gets after a step of w.
LEMMA FetchersAfter ==
  ASSUME TypeOK, NEW w \in Worker, WorkerKinds(w), NEW v \in Worker, NEW b \in Block,
         Fetches(v, b)'
  PROVE  \/ Fetches(v, b)
         \/ v = w /\ \E g \in Get : StartFetch(w, g) /\ BlockOf[g] = b
  <1>1. OnlyWorker(w)
    BY WorkerAlone
  <1>2. CASE v # w
    BY <1>1, <1>2 DEF OnlyWorker, Fetches
  <1>3. CASE v = w
    <2>1. pc'[w] = "fetch" /\ BlockOf[job'[w]] = b
      BY <1>3 DEF Fetches
    <2>2. (UNCHANGED worker) \/ \E g \in Get : StartFetch(w, g)
      <3>1. \A c \in Block : ~StartPrefetch(w, c)
        BY <2>1 DEF StartPrefetch, TypeOK
      <3> QED
        BY <2>1, <3>1, RoundIdles
        DEF WorkerKinds, Passing, Flushing, TakePrefetched, JoinWaiters, FinishFetch, ReadDone,
            KeepPrefetch, HandOverPrefetch, Idles, Selects
    <2> QED
      BY <1>3, <2>1, <2>2 DEF worker, Fetches, StartFetch, TypeOK
  <1> QED
    BY <1>2, <1>3

LEMMA EntryOfFetch ==
  ASSUME IndInv, QuietInv, NEW w \in Worker, WorkerStep(w)
  PROVE  FetchesHaveEntry' /\ NoPanic'
  <1>0. /\ TypeOK /\ WorkerKinds(w) /\ FetchesHaveEntry /\ NoPanic
        /\ BlockOf \in [Get -> Block]
    BY StepKinds, FetchAssumption DEF IndInv, QuietInv, FetchAssumption
  <1>1. ASSUME NEW v \in Worker, NEW b \in Block, Fetches(v, b)'
        PROVE  entry'[b] # "absent"
    <2>1. CASE FlushWorker(w) \/ ExitWorker(w)
      <3>1. \A u \in Worker : ~Fetches(u, b)
        BY <1>0, <2>1, FlushedWhenQuiet, FetchIsOpen DEF Quiet
      <3>2. pc'[w] # "fetch"
        BY <1>0, <2>1 DEF FlushWorker, ExitWorker, NextRound, TypeOK
      <3>3. \A g \in Get : ~StartFetch(w, g)
        BY <1>0, <3>2 DEF StartFetch, TypeOK
      <3> QED
        BY <1>0, <1>1, <3>1, <3>3, FetchersAfter
    <2>2. CASE ~FlushWorker(w) /\ ~ExitWorker(w)
      <3>1. CASE Fetches(v, b)
        BY <1>0, <2>2, <3>1, EntriesStay DEF FetchesHaveEntry
      <3>2. ASSUME NEW g \in Get, StartFetch(w, g), BlockOf[g] = b
            PROVE  entry'[b] # "absent"
        BY <1>0, <3>2 DEF StartFetch, TypeOK
      <3> QED
        BY <1>0, <1>1, <3>1, <3>2, FetchersAfter
    <2> QED
      BY <2>1, <2>2
  <1>2. ASSUME NEW g \in Get, PanicInFetch(w, g)
        PROVE  FALSE
    <2>1. Fetches(w, BlockOf[g]) /\ entry[BlockOf[g]] = "absent"
      BY <1>2 DEF PanicInFetch, At, Fetches
    <2> QED
      BY <1>0, <2>1 DEF FetchesHaveEntry
  <1>3. panicked' = panicked
    BY <1>2 DEF WorkerStep, EnterSelect, SeeClosed, TakePrefetched, JoinWaiters, StartFetch,
         ReceiveGet, FinishFetch, AbandonFetch, SkipPrefetch, StartPrefetch, ReceivePrefetch,
         PrefetchFails, DiscardPrefetch, KeepPrefetch, HandOverPrefetch, FlushWorker, ExitWorker,
         FlushPrefetch
  <1> QED
    BY <1>0, <1>1, <1>3 DEF FetchesHaveEntry, NoPanic

LEMMA QuietStep ==
  ASSUME IndInv, QuietInv, NEW w \in Worker, WorkerStep(w)
  PROVE  QuietInv'
  <1>0. /\ TypeOK /\ WorkerKinds(w)
        /\ FlushIsCounted /\ EndingIsClosed /\ NoGetMeanwhile
    BY StepKinds DEF IndInv, QuietInv
  <1>1. closed' = closed /\ flushing' = flushing
    BY <1>0, WorkerFrame DEF caller
  <1>2. FlushIsCounted' /\ EndingIsClosed'
    BY <1>0, <1>1, WorkerControl DEF FlushIsCounted, EndingIsClosed
  <1>3. NoGetMeanwhile'
    BY <1>0, <1>1, NoneOpened DEF NoGetMeanwhile, Quiet
  <1> QED
    BY <1>2, <1>3, EntryOfFetch DEF QuietInv

LEMMA QuietCall ==
  ASSUME QuietCaller, IndInv, QuietInv, CallerStep
  PROVE  QuietInv'
  <1>0. /\ TypeOK /\ Cardinality(Worker) \in Nat
        /\ FlushIsCounted /\ EndingIsClosed /\ NoGetMeanwhile /\ FetchesHaveEntry /\ NoPanic
        /\ UNCHANGED <<map, worker>>
    BY CallKinds, FetchAssumption, FS_CardinalityType
    DEF IndInv, QuietInv, CallFramed, FetchAssumption
  <1>1. FetchesHaveEntry'
    BY <1>0 DEF FetchesHaveEntry, Fetches, map, worker
  <1>2. NoPanic'
    BY <1>0 DEF NoPanic, CallerStep, GetStoredBlock, Preflight, Flush, FlushReturns, Close
  <1>3. EndingIsClosed'
    <2>1. closed => closed'
      BY <1>0 DEF CallerStep, GetStoredBlock, Preflight, Flush, FlushReturns, Close, caller
    <2> QED
      BY <1>0, <2>1 DEF EndingIsClosed, worker
  <1>4. FlushIsCounted' /\ NoGetMeanwhile'
    <2> USE DEF FlushIsCounted, NoGetMeanwhile, Quiet
    <2>1. CASE \E g \in Get : GetStoredBlock(g)
      BY <1>0, <2>1 DEF GetStoredBlock, Open, flushChans, caller
    <2>2. CASE \E b \in Preflighted : Preflight(b)
      BY <1>0, <2>2 DEF Preflight, flushChans
    <2>3. CASE Flush
      BY <1>0, <2>3 DEF Flush, TypeOK
    <2>4. CASE FlushReturns
      <3>1. tokens' = 0 /\ replies' = 0 /\ ~flushing'
        BY <1>0, <2>4 DEF FlushReturns, AllReplied, TypeOK
      <3> QED
        BY <1>0, <2>4, <3>1 DEF FlushReturns
    <2>5. CASE Close
      BY <1>0, <2>5 DEF Close, flushChans
    <2> QED
      BY <2>1, <2>2, <2>3, <2>4, <2>5 DEF CallerStep
  <1> QED
    BY <1>1, <1>2, <1>3, <1>4 DEF QuietInv

LEMMA QuietKept ==
  ASSUME QuietCaller, IndInv, QuietInv, [Next]_vars
  PROVE  QuietInv'
  <1>1. CASE UNCHANGED vars
    BY <1>1 DEF vars, map, worker, flushChans, caller, QuietInv, FlushIsCounted, EndingIsClosed,
                NoGetMeanwhile, Quiet, FetchesHaveEntry, Fetches, NoPanic
  <1> QED
    BY <1>1, QuietStep, QuietCall DEF Next

\* Whoever flushes the map does so while no get is open.
THEOREM QuietInvariance ==
  ASSUME QuietCaller
  PROVE  Spec => []QuietInv
  <1>1. Init => QuietInv
    BY DEF Init, QuietInv, FlushIsCounted, EndingIsClosed, NoGetMeanwhile, Quiet,
           FetchesHaveEntry, Fetches, NoPanic
  <1>2. IndInv /\ QuietInv /\ [Next]_vars => QuietInv'
    BY QuietKept
  <1> QED
    BY <1>1, <1>2, Invariance, PTL DEF Spec

\* When Flush and Close are called with no get open, no worker finds the entry
\* of the block it fetched deleted (the dereference in fetchBlock).
THEOREM NeverPanics ==
  ASSUME QuietCaller
  PROVE  Spec => []NoPanic
  <1>1. QuietInv => NoPanic
    BY DEF QuietInv
  <1> QED
    BY <1>1, QuietInvariance, PTL

-----------------------------------------------------------------------------
(* No get is forgotten.                                                    *)

LEMMA HeldStep ==
  ASSUME IndInv, PrefetchesArePreflighted, HeldIsPreflighted, NEW w \in Worker, WorkerKinds(w)
  PROVE  HeldIsPreflighted'
  <1>0. TypeOK
    BY DEF IndInv
  <1>1. ASSUME NEW b \in Block, KeepPrefetch(w, b)
        PROVE  HeldIsPreflighted'
    <2>1. b \in Preflighted
      BY <1>1 DEF KeepPrefetch, At, PrefetchesArePreflighted
    <2>2. \A c \in Block : c # b => entry'[c] = entry[c]
      BY <1>0, <1>1 DEF KeepPrefetch, TypeOK
    <2> QED
      BY <2>1, <2>2 DEF HeldIsPreflighted, Held
  <1>2. CASE \A b \in Block : ~KeepPrefetch(w, b)
    <2>1. \A b \in Block : entry'[b] = "ready" => entry[b] = "ready"
      BY <1>0, <1>2 DEF WorkerKinds, Passing, map, TakePrefetched, JoinWaiters, StartFetch,
           FinishFetch, StartPrefetch, HandOverPrefetch, Flushing, FlushPrefetch, TypeOK
    <2> QED
      BY <2>1 DEF HeldIsPreflighted, Held
  <1> QED
    BY <1>1, <1>2

\* Two gets of a preflighted block are never open together.
LEMMA OneOpen ==
  ASSUME PreflightsAreCoalesced, OneGetAtATime, NEW g \in Get, NEW h \in Get,
         outcome[g] = "open", outcome[h] = "open",
         BlockOf[g] = BlockOf[h], BlockOf[g] \in Preflighted
  PROVE  g = h
  BY DEF PreflightsAreCoalesced, OneGetAtATime

\* The three ways to hand out a block.
LEMMA HandedOut ==
  ASSUME TypeOK, BlockOf \in [Get -> Block], NEW w \in Worker, WorkerKinds(w), NEW b \in Block,
         entry[b] # "nil", entry'[b] = "nil"
  PROVE  \/ \E g \in Get : TakePrefetched(w, g) /\ BlockOf[g] = b
         \/ \E g \in Get : \E result \in {"block", "error"} :
               FinishFetch(w, g, result) /\ BlockOf[g] = b
         \/ HandOverPrefetch(w, b)
  <1>1. CASE Passing(w)
    BY <1>1 DEF Passing, map
  <1>2. CASE Flushing(w)
    BY <1>2 DEF Flushing, FlushPrefetch
  <1>3. ASSUME NEW g \in Get, TakePrefetched(w, g)
        PROVE  BlockOf[g] = b
    BY <1>3 DEF TakePrefetched, TypeOK
  <1>4. ASSUME NEW g \in Get, JoinWaiters(w, g) \/ StartFetch(w, g)
        PROVE  FALSE
    BY <1>4 DEF JoinWaiters, StartFetch, TypeOK
  <1>5. ASSUME NEW g \in Get, NEW result, FinishFetch(w, g, result)
        PROVE  BlockOf[g] = b
    BY <1>5 DEF FinishFetch, TypeOK
  <1>6. ASSUME NEW c \in Block, StartPrefetch(w, c) \/ KeepPrefetch(w, c)
        PROVE  FALSE
    BY <1>6 DEF StartPrefetch, KeepPrefetch, TypeOK
  <1>7. ASSUME NEW c \in Block, HandOverPrefetch(w, c)
        PROVE  c = b
    BY <1>7 DEF HandOverPrefetch, TypeOK
  <1> QED
    BY <1>1, <1>2, <1>3, <1>4, <1>5, <1>6, <1>7 DEF WorkerKinds

LEMMA FetchesStep ==
  ASSUME PreflightsAreCoalesced, IndInv, PrefetchesArePreflighted, QuietInv, PlaceInv,
         NEW w \in Worker, WorkerStep(w)
  PROVE  FetchesKeepEntry'
  <1>0. /\ TypeOK /\ WorkerKinds(w) /\ FetchesKeepEntry /\ HeldIsPreflighted /\ OneGetAtATime
        /\ GetsAreInOnePlace /\ ListsArePending
        /\ BlockOf \in [Get -> Block]
    BY StepKinds, FetchAssumption DEF IndInv, PlaceInv, FetchAssumption
  <1> SUFFICES ASSUME NEW v \in Worker, NEW b \in Block, Fetches(v, b)'
               PROVE  /\ entry'[b] \in {"pending", "ready"}
                      /\ \A u \in Worker : Fetches(u, b)' => u = v
    BY DEF FetchesKeepEntry
  <1>1. ASSUME NEW g \in Get, StartFetch(w, g), BlockOf[g] = b
        PROVE  /\ entry'[b] \in {"pending", "ready"}
               /\ \A u \in Worker : Fetches(u, b)' => u = v
    <2>1. entry'[b] = "pending" /\ entry[b] \in {"absent", "nil"}
      BY <1>0, <1>1 DEF StartFetch, TypeOK
    <2>2. \A u \in Worker : ~Fetches(u, b)
      BY <1>0, <2>1 DEF FetchesKeepEntry
    <2>3. \A u \in Worker : Fetches(u, b)' => u = w
      BY <1>0, <2>2, FetchersAfter
    <2> QED
      BY <2>1, <2>3
  <1>2. ASSUME ~\E g \in Get : StartFetch(w, g) /\ BlockOf[g] = b
        PROVE  /\ entry'[b] \in {"pending", "ready"}
               /\ \A u \in Worker : Fetches(u, b)' => u = v
    <2>1. \A u \in Worker : Fetches(u, b)' => Fetches(u, b)
      BY <1>0, <1>2, FetchersAfter
    <2>2. /\ Fetches(v, b) /\ entry[b] \in {"pending", "ready"}
          /\ \A u \in Worker : Fetches(u, b)' => u = v
      BY <1>0, <2>1 DEF FetchesKeepEntry
    <2>3. job[v] \in Get /\ WaitsAt(job[v], v) /\ outcome[job[v]] = "open" /\ BlockOf[job[v]] = b
      BY <2>2, FetchIsOpen
    <2>4. entry'[b] # "nil"
      <3>1. ASSUME NEW g \in Get, TakePrefetched(w, g), BlockOf[g] = b
            PROVE  FALSE
        <4>1. b \in Preflighted /\ WaitsInChannel(g)
          BY <1>0, <3>1 DEF TakePrefetched, ReceiveGet, HeldIsPreflighted, Held, WaitsInChannel
        <4>2. outcome[g] = "open" /\ ~WaitsAt(g, v)
          BY <1>0, <4>1 DEF GetsAreInOnePlace
        <4> QED
          BY <1>0, <2>3, <3>1, <4>1, <4>2, OneOpen
      <3>2. ASSUME NEW g \in Get, NEW result, FinishFetch(w, g, result), BlockOf[g] = b
            PROVE  FALSE
        <4>1. Fetches(w, b)
          BY <3>2 DEF FinishFetch, At, Fetches
        <4>2. w = v
          BY <1>0, <2>2, <4>1 DEF FetchesKeepEntry
        <4>3. pc'[w] # "fetch"
          BY <1>0, <3>2 DEF FinishFetch, ReadDone, NextRound, TypeOK
        <4> QED
          BY <4>2, <4>3 DEF Fetches
      <3>3. ASSUME HandOverPrefetch(w, b)
            PROVE  FALSE
        <4>1. b \in Preflighted /\ waiters[b] # <<>>
          BY <3>3 DEF HandOverPrefetch, At, PrefetchesArePreflighted
        <4>2. waiters[b] \in Seq(Get) /\ 1 \in DOMAIN waiters[b]
          <5>1. waiters[b] \in Seq(Get)
            BY <1>0 DEF TypeOK
          <5> QED
            BY <4>1, <5>1
        <4>3. /\ waiters[b][1] \in Get /\ outcome[waiters[b][1]] = "open"
              /\ BlockOf[waiters[b][1]] = b /\ ~WaitsAt(waiters[b][1], v)
          BY <4>2, ListIsSound
        <4> QED
          BY <1>0, <2>3, <4>1, <4>3, OneOpen
      <3> QED
        BY <1>0, <2>2, <3>1, <3>2, <3>3, HandedOut
    <2>5. entry'[b] # "absent" /\ entry' \in [Block -> {"absent", "nil", "pending", "ready"}]
      BY EntryOfFetch, WorkerTypes DEF FetchesHaveEntry, TypeOK
    <2> QED
      BY <2>2, <2>4, <2>5
  <1> QED
    BY <1>1, <1>2

Placed(g) == \/ g \in getChan
             \/ \E w \in Worker : WaitsAt(g, w)
             \/ g \in Elements(waiters[BlockOf[g]])

\* What a list of one get is answered with.
LEMMA OneServed ==
  ASSUME NEW seq \in Seq(Get), seq # <<>>
  PROVE  seq[1] \in Elements(ServedByPrefetch(seq))
  <1> DEFINE mid == SubSeq(seq, 2, Len(seq) - 1)
  <1>1. mid \in Seq(Get) /\ Len(mid) \in Nat /\ seq[1] \in Get
    <2>1. CASE Len(seq) >= 2
      BY <2>1
    <2>2. CASE Len(seq) = 1
      BY <2>2
    <2> QED
      BY <2>1, <2>2
  <1> HIDE DEF mid
  <1>2. /\ Len(mid) + 1 \in DOMAIN Append(mid, seq[1])
        /\ Append(mid, seq[1])[Len(mid) + 1] = seq[1]
    BY <1>1
  <1> QED
    BY <1>2 DEF ServedByPrefetch, Elements, mid

\* A step of a worker that answers nobody, takes no get and keeps the lists.
LEMMA StaysPlaced ==
  ASSUME NEW w \in Worker, OnlyWorker(w), pc[w] # "fetch", UNCHANGED <<getChan, waiters>>,
         NEW h \in Get, Placed(h)
  PROVE  Placed(h)'
  BY DEF Placed, OnlyWorker, WaitsAt

LEMMA PlacedStep ==
  ASSUME PreflightsAreCoalesced, IndInv, PrefetchesArePreflighted, PlaceInv,
         NEW w \in Worker, WorkerStep(w),
         NEW h \in Get, outcome'[h] = "open"
  PROVE  Placed(h)'
  <1>0. /\ TypeOK /\ WorkerKinds(w) /\ FetchesKeepEntry /\ OneGetAtATime /\ GetsAreInOnePlace
        /\ BlockOf \in [Get -> Block]
    BY StepKinds, FetchAssumption DEF IndInv, PlaceInv, FetchAssumption
  <1>1. outcome[h] = "open" /\ Placed(h)
    <2>1. outcome[h] = "open"
      BY <1>0, NoneOpened
    <2> QED
      BY <2>1 DEF PlaceInv, NoGetForgotten, Placed, WaitsAt
  <1>2. OnlyWorker(w)
    BY <1>0, WorkerAlone
  <1>3. ASSUME NEW g \in Get, TakePrefetched(w, g)
        PROVE  Placed(h)'
    <2>1. g # h
      BY <1>3 DEF TakePrefetched, Complete
    <2>2. getChan' = getChan \ {g} /\ waiters' = waiters /\ pc[w] # "fetch"
      BY <1>3 DEF TakePrefetched, ReceiveGet, At, Selects
    <2> QED
      BY <1>1, <1>2, <2>1, <2>2 DEF Placed, OnlyWorker, WaitsAt
  <1>4. ASSUME NEW g \in Get, JoinWaiters(w, g)
        PROVE  Placed(h)'
    <2>1. /\ getChan' = getChan \ {g} /\ pc[w] # "fetch"
          /\ waiters' = [waiters EXCEPT ![BlockOf[g]] = Append(@, g)]
      BY <1>4 DEF JoinWaiters, ReceiveGet, At, Selects
    <2>2. \A b \in Block : /\ waiters[b] \in Seq(Get)
                           /\ Elements(Append(waiters[b], g)) = Elements(waiters[b]) \cup {g}
      <3>1. \A b \in Block : waiters[b] \in Seq(Get)
        BY <1>0 DEF TypeOK
      <3>2. ASSUME NEW s \in Seq(Get)
            PROVE  Elements(Append(s, g)) = Elements(s) \cup {g}
        <4>1. /\ DOMAIN Append(s, g) = DOMAIN s \cup {Len(s) + 1}
              /\ \A i \in DOMAIN s : Append(s, g)[i] = s[i]
              /\ Append(s, g)[Len(s) + 1] = g
          OBVIOUS
        <4> QED
          BY <4>1 DEF Elements
      <3> QED
        BY <3>1, <3>2
    <2>3. \A b \in Block : /\ Elements(waiters[b]) \subseteq Elements(waiters'[b])
                           /\ b = BlockOf[g] => g \in Elements(waiters'[b])
      BY <1>0, <2>1, <2>2 DEF TypeOK
    <2> QED
      BY <1>0, <1>1, <1>2, <2>1, <2>3 DEF Placed, OnlyWorker, WaitsAt
  <1>5. ASSUME NEW g \in Get, StartFetch(w, g)
        PROVE  Placed(h)'
    <2>1. /\ getChan' = getChan \ {g} /\ waiters' = waiters /\ pc[w] # "fetch"
          /\ pc'[w] = "fetch" /\ job'[w] = g
      BY <1>0, <1>5 DEF StartFetch, ReceiveGet, At, Selects, TypeOK
    <2> QED
      BY <1>1, <1>2, <2>1 DEF Placed, OnlyWorker, WaitsAt
  <1>6. ASSUME NEW g \in Get, NEW result \in {"block", "error"}, FinishFetch(w, g, result)
        PROVE  Placed(h)'
    <2> DEFINE b == BlockOf[g]
               seq == AndItsWaiters(b, g)
    <2>1. b \in Block /\ waiters[b] \in Seq(Get)
      BY <1>0 DEF TypeOK
    <2>2. \A k \in Elements(seq) : outcome'[k] # "open" \/ k \notin Get
      BY <1>6 DEF FinishFetch, Complete, Elements
    <2>3. Elements(waiters[b]) \subseteq Elements(seq) /\ g \in Elements(seq)
      <3>1. /\ DOMAIN seq = DOMAIN waiters[b] \cup {Len(waiters[b]) + 1}
            /\ \A i \in DOMAIN waiters[b] : seq[i] = waiters[b][i]
            /\ seq[Len(waiters[b]) + 1] = g
        BY <2>1 DEF AndItsWaiters
      <3> QED
        BY <3>1 DEF Elements
    <2> HIDE DEF seq
    <2>4. h # g /\ h \notin Elements(waiters[b])
      BY <2>2, <2>3
    <2>5. /\ getChan' = getChan /\ waiters' = [waiters EXCEPT ![b] = <<>>]
          /\ pc[w] = "fetch" /\ job[w] = g
      BY <1>6 DEF FinishFetch, ReadDone, Emptied, At
    <2>6. \A c \in Block : c # b => waiters'[c] = waiters[c]
      BY <1>0, <2>1, <2>5 DEF TypeOK
    <2> QED
      BY <1>0, <1>1, <1>2, <2>4, <2>5, <2>6 DEF Placed, OnlyWorker, WaitsAt
  <1>7. ASSUME NEW g \in Get, AbandonFetch(w, g)
        PROVE  FALSE
    <2>1. Fetches(w, BlockOf[g]) /\ entry[BlockOf[g]] = "nil"
      BY <1>7 DEF AbandonFetch, At, Fetches
    <2> QED
      BY <1>0, <2>1 DEF FetchesKeepEntry
  <1>8. ASSUME NEW g \in Get, PanicInFetch(w, g)
        PROVE  Placed(h)'
    BY <1>1, <1>8 DEF PanicInFetch, map, worker, Placed, WaitsAt
  <1>9. ASSUME NEW b \in Block, HandOverPrefetch(w, b)
        PROVE  Placed(h)'
    <2>1. /\ waiters[b] \in Seq(Get) /\ waiters[b] # <<>> /\ b \in Preflighted
          /\ getChan' = getChan /\ waiters' = [waiters EXCEPT ![b] = <<>>]
          /\ pc[w] # "fetch"
      BY <1>0, <1>9 DEF HandOverPrefetch, ReadDone, Emptied, At, PrefetchesArePreflighted, TypeOK
    <2>2. waiters[b][1] \in Elements(ServedByPrefetch(waiters[b])) /\ 1 \in DOMAIN waiters[b]
      BY <2>1, OneServed
    <2>3. /\ waiters[b][1] \in Get /\ outcome[waiters[b][1]] = "open"
          /\ BlockOf[waiters[b][1]] = b
      BY <2>2, ListIsSound
    <2>4. outcome'[waiters[b][1]] # "open"
      BY <1>9, <2>2, <2>3 DEF HandOverPrefetch, Complete, Elements
    <2>5. BlockOf[h] # b
      BY <1>0, <1>1, <2>1, <2>3, <2>4, OneOpen
    <2>6. waiters'[BlockOf[h]] = waiters[BlockOf[h]]
      BY <1>0, <2>1, <2>5 DEF TypeOK
    <2> QED
      BY <1>1, <1>2, <2>1, <2>6 DEF Placed, OnlyWorker, WaitsAt
  <1>10. ASSUME \A g \in Get : /\ ~TakePrefetched(w, g) /\ ~JoinWaiters(w, g) /\ ~StartFetch(w, g)
                               /\ \A result \in {"block", "error"} : ~FinishFetch(w, g, result)
                               /\ ~AbandonFetch(w, g) /\ ~PanicInFetch(w, g),
                \A b \in Block : ~HandOverPrefetch(w, b)
         PROVE  Placed(h)'
    <2>1. \A g \in Get : \A result \in ReadResult(BlockOf[g]) : result \in {"block", "error"}
      BY DEF ReadResult
    <2>2. pc[w] # "fetch" /\ UNCHANGED <<getChan, waiters>>
      BY <1>10, <2>1 DEF WorkerStep, EnterSelect, SeeClosed, SkipPrefetch, StartPrefetch,
         ReceivePrefetch, PrefetchFails, DiscardPrefetch, KeepPrefetch, ReadDone, FlushWorker,
         ExitWorker, FlushPrefetch, At, Selects, map
    <2> QED
      BY <1>1, <1>2, <2>2, StaysPlaced
  <1> QED
    BY <1>3, <1>4, <1>5, <1>6, <1>7, <1>8, <1>9, <1>10

LEMMA PlaceStep ==
  ASSUME PreflightsAreCoalesced, IndInv, PrefetchesArePreflighted, QuietInv, PlaceInv,
         NEW w \in Worker, WorkerStep(w)
  PROVE  PlaceInv'
  <1>0. WorkerKinds(w) /\ OneGetAtATime /\ HeldIsPreflighted
    BY StepKinds DEF IndInv, PlaceInv
  <1>1. OneGetAtATime'
    BY <1>0, NoneOpened DEF OneGetAtATime
  <1>2. HeldIsPreflighted' /\ FetchesKeepEntry'
    BY <1>0, HeldStep, FetchesStep
  <1>3. NoGetForgotten'
    BY PlacedStep DEF NoGetForgotten, Placed, WaitsAt
  <1> QED
    BY <1>1, <1>2, <1>3 DEF PlaceInv

LEMMA PlaceCall ==
  ASSUME IndInv, PlaceInv, CallerStep
  PROVE  PlaceInv'
  <1>0. /\ TypeOK /\ CallFramed
        /\ OneGetAtATime /\ HeldIsPreflighted /\ FetchesKeepEntry /\ NoGetForgotten
        /\ UNCHANGED <<map, worker>>
    BY CallKinds DEF IndInv, PlaceInv, CallFramed
  <1>1. HeldIsPreflighted' /\ FetchesKeepEntry'
    BY <1>0 DEF HeldIsPreflighted, Held, FetchesKeepEntry, Fetches, map, worker
  <1>2. CASE \E g \in Get : GetStoredBlock(g)
    <2>1. PICK g \in Get : GetStoredBlock(g)
      BY <1>2
    <2>2. /\ getChan' = getChan \cup {g} /\ outcome'[g] = "open"
          /\ \A h \in Get : h # g => outcome'[h] = outcome[h]
      BY <1>0, <2>1 DEF GetStoredBlock, TypeOK
    <2>3. NoGetForgotten'
      BY <1>0, <2>2 DEF NoGetForgotten, map, worker
    <2>4. OneGetAtATime'
      BY <1>0, <2>1, <2>2 DEF OneGetAtATime, GetStoredBlock
    <2> QED
      BY <1>1, <2>3, <2>4 DEF PlaceInv
  <1>3. CASE ~\E g \in Get : GetStoredBlock(g)
    <2>1. UNCHANGED <<getChan, outcome>>
      BY <1>3 DEF CallerStep, Preflight, Flush, FlushReturns, Close
    <2> QED
      BY <1>0, <1>1, <2>1 DEF PlaceInv, NoGetForgotten, OneGetAtATime, map, worker
  <1> QED
    BY <1>2, <1>3

LEMMA PlaceKept ==
  ASSUME PreflightsAreCoalesced, IndInv, PrefetchesArePreflighted, QuietInv, PlaceInv, [Next]_vars
  PROVE  PlaceInv'
  <1>1. CASE UNCHANGED vars
    BY <1>1 DEF vars, map, worker, PlaceInv, OneGetAtATime, HeldIsPreflighted, Held,
                FetchesKeepEntry, Fetches, NoGetForgotten
  <1> QED
    BY <1>1, PlaceStep, PlaceCall DEF Next

\* A get that is not answered is in the channel, with a worker or on the list
\* of an entry: the early returns of fetchBlock and the answers that
\* prefetchBlock leaves out lose none.
THEOREM NoneForgotten ==
  ASSUME QuietCaller, PreflightsAreCoalesced
  PROVE  Spec => []NoGetForgotten
  <1> DEFINE CalledInv == PrefetchesArePreflighted /\ PlaceInv
  <1>1. Init => CalledInv
    BY DEF Init, PrefetchesArePreflighted, PlaceInv, OneGetAtATime, HeldIsPreflighted, Held,
           FetchesKeepEntry, Fetches, NoGetForgotten
  <1>2. IndInv /\ QuietInv /\ CalledInv /\ [Next]_vars => CalledInv'
    BY PreflightedStep, PlaceKept
  <1>3. CalledInv => NoGetForgotten
    BY DEF PlaceInv
  <1> QED
    BY <1>1, <1>2, <1>3, Invariance, QuietInvariance, PTL DEF Spec
=============================================================================
