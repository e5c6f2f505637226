--------------------------- MODULE VersionsProofs ---------------------------
(***************************************************************************)
(* Proofs about Versions, for any number of processes, tasks, paths,       *)
(* chunks and lines, any packing of the blocks and any faults.             *)
(***************************************************************************)
EXTENDS Versions, FiniteSetTheorems, TLAPS

\* What a command may do next.
Fails(p) == \E labels \in SUBSET (Label \ {"close"}) : FailsAt(p, labels)

Step(p) ==
    \/ SkipValid(p) \/ SkipUnreadable(p) \/ Rebuild(p)
    \/ Upload(p) \/ Download(p) \/ WriteVersionStoreIndex(p)
    \/ WriteToURIFails(p) \/ Fails(p) \/ EndProcess(p)

USE DEF Is, At

\* Each function's error returns are among them.
LEMMA ReadFailsIsFails ==
  ASSUME NEW p, ReadFails(p) PROVE Fails(p)
  BY DEF ReadFails, Fails, Label

LEMMA FailsOfCommands ==
  ASSUME NEW p, upSyncFails(p) \/ cloneFails(p) \/ initFails(p) PROVE Fails(p)
  BY DEF upSyncFails, cloneFails, initFails, LocalLabel, Fails, Label

-----------------------------------------------------------------------------
(* Types.                                                                  *)

\* The task of a process.
LEMMA TaskType ==
  ASSUME TypeOK, NEW p \in Process
  PROVE  /\ task[p] \in Task
         /\ task[p].command = "init" <=> task[p].paths = <<>>
  BY VersionsAssumption DEF TypeOK, VersionsAssumption

\* A command other than init has a path at its line, which has a version.
LEMMA PathType ==
  ASSUME TypeOK, LinesExist, NEW p \in Process, task[p].command # "init"
  PROVE  /\ PathOf(p) \in Path
         /\ Content[PathOf(p)] \in SUBSET Chunk
  <1>1. task[p].paths \in Seq(Path)
    BY TaskType DEF Task
  <1>2. PathOf(p) \in Path
    BY <1>1 DEF PathOf, LinesExist
  <1> QED
    BY <1>2, VersionsAssumption DEF VersionsAssumption

\* What is answered and what is packed are blocks.
LEMMA AnswerType ==
  ASSUME NEW view, NEW chunks, NEW percent, NEW blocks \in Answers(view, chunks, percent)
  PROVE  blocks \subseteq view
  BY DEF Answers, Usable

LEMMA MissingType ==
  ASSUME NEW blocks, NEW chunks, NEW new \in MissingContent(blocks, chunks)
  PROVE  /\ new \subseteq Block
         /\ Covers(blocks \cup new, chunks)
  BY DEF MissingContent, Covers

\* A process starts with the first of its lines.
LEMMA InitTypes == Init => TypeOK /\ LinesExist
  <1> SUFFICES ASSUME Init PROVE TypeOK /\ LinesExist
    OBVIOUS
  <1>1. TypeOK
    BY VersionsAssumption DEF VersionsAssumption, Init, TypeOK, FirstLabel, Label
  <1>2. \A p \in Process : Is(p, {"init"}) \/ 1 \in DOMAIN task[p].paths
    <2> TAKE p \in Process
    <2>1. task[p].paths \in Seq(Path)
      BY <1>1, TaskType DEF Task
    <2> QED
      BY <1>1, <2>1, TaskType
  <1>3. \A p \in Process : line[p] = 1
    BY DEF Init
  <1> QED
    BY <1>1, <1>2, <1>3 DEF LinesExist

\* The index that a store answers from names blocks that are stored or lost.
LEMMA ViewType ==
  ASSUME TypeOK, IndexesAreSound, NEW p \in Process, NEW view \in Views(p)
  PROVE  /\ view \subseteq stored \cup Lost
         /\ view \subseteq Block
         /\ index[p] \subseteq view
  BY DEF TypeOK, IndexesAreSound, Views, Builds

-----------------------------------------------------------------------------
(* What a step does to the store: nothing is taken out of it.              *)

StoreTypes ==
    /\ stored \subseteq Block
    /\ lost \in [Process -> SUBSET Block]
    /\ listed \subseteq Block
    /\ index \in [Process -> SUBSET Block]
    /\ completed \in [Process -> SUBSET Block]
    /\ status \in [Process -> {"open", "closed", "dead"}]

StoreIsSound ==
    /\ listed \subseteq stored \cup Lost
    /\ \A q \in Process :
          /\ index[q] \cup completed[q] \subseteq stored \cup Lost
          /\ status[q] = "closed" => index[q] \cup completed[q] \subseteq listed

StoreGrows ==
    /\ StoreTypes'
    /\ StoreIsSound'
    /\ stored \subseteq stored'
    /\ Lost \subseteq Lost'
    /\ \A q \in Process : lost[q] \subseteq lost'[q]
    /\ listed \subseteq listed'
    /\ \A q \in Process : index[q] \subseteq index'[q] /\ completed[q] \subseteq completed'[q]

\* Every operation of the store keeps it sound, an update of the index if the
\* new index of the process has what the old one had.
LEMMA StoreOperation ==
  ASSUME TypeOK, IndexesAreSound, NEW p \in Process,
         \/ UNCHANGED store
         \/ \E b \in Block : \/ Store!StoreBlock(b, {}) \/ Store!Complete(p, b)
                            \/ Store!LoseBlock(p, b)
         \/ \E blocks, view \in SUBSET Block :
               Store!UpdateIndex(p, blocks, view) /\ index[p] \subseteq view
         \/ Store!Close(p)
         \/ Store!Die(p)
  PROVE  StoreGrows
  <1>1. CASE \E b \in Block : Store!LoseBlock(p, b)
    <2>1. /\ lost' \in [Process -> SUBSET Block]
          /\ \A q \in Process : lost[q] \subseteq lost'[q]
      BY <1>1 DEF Store!LoseBlock, TypeOK
    <2>2. Lost \subseteq Lost'
      BY <2>1 DEF Lost, Store!Lost
    <2> QED
      BY <1>1, <2>1, <2>2
      DEF Store!LoseBlock, StoreGrows, StoreTypes, StoreIsSound, TypeOK, IndexesAreSound
  <1>2. ASSUME UNCHANGED lost PROVE lost' = lost /\ Lost' = Lost
    BY <1>2 DEF Lost, Store!Lost
  <1>3. \A q \in Process : lost[q] \subseteq Lost
    BY DEF Lost, Store!Lost
  <1> USE DEF StoreGrows, StoreTypes, StoreIsSound, TypeOK, IndexesAreSound
  <1>4. CASE UNCHANGED store
    BY <1>2, <1>4 DEF store
  <1>5. CASE \E b \in Block : Store!StoreBlock(b, {})
    BY <1>2, <1>5 DEF Store!StoreBlock
  <1>6. CASE \E b \in Block : Store!Complete(p, b)
    BY <1>2, <1>3, <1>6 DEF Store!Complete
  <1>7. CASE \E blocks, view \in SUBSET Block :
               Store!UpdateIndex(p, blocks, view) /\ index[p] \subseteq view
    BY <1>2, <1>7 DEF Store!UpdateIndex, Lost
  <1>8. CASE Store!Close(p)
    BY <1>2, <1>8 DEF Store!Close
  <1>9. CASE Store!Die(p)
    BY <1>2, <1>9 DEF Store!Die
  <1> QED
    BY <1>1, <1>4, <1>5, <1>6, <1>7, <1>8, <1>9

\* Asking the store for its index is such an operation.
LEMMA Loading ==
  ASSUME TypeOK, IndexesAreSound, NEW p \in Process, NEW view \in Views(p),
         LoadIndex(p, view)
  PROVE  /\ StoreGrows
         /\ index' = [index EXCEPT ![p] = view]
         /\ loaded' = [loaded EXCEPT ![p] = TRUE]
         /\ completed' = completed
         /\ stored' = stored
  <1>1. index[p] \subseteq view /\ view \in SUBSET Block
    BY ViewType
  <1>2. StoreGrows
    BY <1>1, StoreOperation DEF LoadIndex
  <1> QED
    BY <1>2 DEF LoadIndex, Store!UpdateIndex

\* ... by which the other processes keep theirs.
LEMMA LoadedType ==
  ASSUME TypeOK, IndexesAreSound, NEW p \in Process, NEW view \in Views(p),
         LoadIndex(p, view)
  PROVE  /\ loaded' \in [Process -> BOOLEAN] /\ loaded'[p]
         /\ \A q \in Process \ {p} : loaded'[q] = loaded[q] /\ index'[q] = index[q]
  <1>1. /\ index' = [index EXCEPT ![p] = view]
        /\ loaded' = [loaded EXCEPT ![p] = TRUE]
    BY Loading
  <1> QED
    BY <1>1 DEF TypeOK

-----------------------------------------------------------------------------
(* What a step does to the other processes.                                *)

Untouched(q) ==
    /\ pc'[q] = pc[q] /\ line'[q] = line[q] /\ loaded'[q] = loaded[q]
    /\ need'[q] = need[q] /\ existing'[q] = existing[q] /\ missing'[q] = missing[q]
    /\ flush'[q] = flush[q] /\ verdict'[q] = verdict[q]
    /\ settled'[q] = settled[q] /\ promised'[q] = promised[q]
    /\ dropped'[q] = dropped[q] /\ unread'[q] = unread[q]

LocalTypes ==
    /\ pc \in [Process -> Label]
    /\ line \in [Process -> Nat \ {0}]
    /\ loaded \in [Process -> BOOLEAN]
    /\ need \in [Process -> SUBSET Chunk]
    /\ existing \in [Process -> SUBSET Block]
    /\ missing \in [Process -> SUBSET Block]
    /\ flush \in [Process -> {"none", "open", "ok", "error"}]
    /\ verdict \in [Process -> {"ok", "error", "missing"}]
    /\ settled \in [Process -> SUBSET Path]
    /\ promised \in [Process -> BOOLEAN]
    /\ dropped \in [Process -> SUBSET Block]
    /\ unread \in [Process -> BOOLEAN]

LoadedFirst ==
    \A q \in Process :
        /\ ~loaded[q] => index[q] = {}
        /\ pc[q] = "write" \/ flush[q] # "none" => loaded[q]

Framed(p) ==
    /\ LocalTypes'
    /\ LinesExist'
    /\ LoadedFirst'
    /\ \A q \in Process \ {p} : Untouched(q)
    /\ task' = task
    /\ \A q \in Process :
          /\ dropped[q] \subseteq dropped'[q] /\ dropped'[q] \subseteq dropped[q] \cup lost'[q]
          /\ unread[q] => unread'[q]
    /\ published \subseteq published' /\ published' \subseteq Path

Returns(p) == \E result \in {"ok", "error", "missing"} : Return(p, result)

Leaves(p) == (Returns(p) /\ UNCHANGED flush) \/ NextLine(p)

KeepsIndex == UNCHANGED <<index, loaded>>

TakesIndex(p) ==
    /\ \E view : index' = [index EXCEPT ![p] = view]
    /\ loaded' = [loaded EXCEPT ![p] = TRUE]

Settles(p) ==
    /\ task[p].command # "init"
    /\ settled' = [settled EXCEPT ![p] = @ \cup {PathOf(p)}]

\* A command returns, or cloneStore goes on with its next line: the process
\* has disposed of what it asked for and was answered.
LEMMA Leaving ==
  ASSUME TypeOK, LinesExist, IndexesAreSound, NEW p \in Process,
         Leaves(p),
         KeepsIndex \/ TakesIndex(p),
         UNCHANGED <<task, promised, dropped, unread, published>>,
         settled' = settled \/ Settles(p)
  PROVE  Framed(p)
  <1>1. task[p].paths \in Seq(Path)
    BY TaskType DEF Task
  <1>2. task[p].command # "init" => PathOf(p) \in Path
    BY PathType
  <1>3. /\ settled' \in [Process -> SUBSET Path]
        /\ \A q \in Process \ {p} : settled'[q] = settled[q]
    BY <1>2 DEF TypeOK, Settles
  <1>4. /\ \E l \in Label \ {"write"} : pc' = [pc EXCEPT ![p] = l]
        /\ \/ line' = line
           \/ line' = [line EXCEPT ![p] = @ + 1] /\ line[p] < Len(task[p].paths)
        /\ need' = [need EXCEPT ![p] = {}]
        /\ existing' = [existing EXCEPT ![p] = {}]
        /\ missing' = [missing EXCEPT ![p] = {}]
        /\ flush' = flush
        /\ \E v \in {"ok", "error", "missing"} : verdict' = [verdict EXCEPT ![p] = v]
    <2>1. CASE NextLine(p)
      <3>1. verdict' = [verdict EXCEPT ![p] = verdict[p]] /\ verdict[p] \in {"ok", "error", "missing"}
        BY <2>1 DEF NextLine, TypeOK
      <3> QED
        BY <2>1, <3>1 DEF NextLine, Dispose, Goto, TypeOK, Label
    <2>2. CASE Returns(p) /\ UNCHANGED flush
      BY <2>2 DEF Returns, Return, Dispose, Goto, Label
    <2> QED
      BY <2>1, <2>2 DEF Leaves
  <1>5. /\ loaded' \in [Process -> BOOLEAN]
        /\ \A q \in Process \ {p} : loaded'[q] = loaded[q] /\ index'[q] = index[q]
        /\ loaded'[p] \/ (loaded'[p] = loaded[p] /\ index'[p] = index[p])
    BY DEF TypeOK, KeepsIndex, TakesIndex
  <1>6. LocalTypes'
    <2>1. line \in [Process -> Nat \ {0}] => line' \in [Process -> Nat \ {0}]
      BY <1>4
    <2>2. /\ need' \in [Process -> SUBSET Chunk]
          /\ existing' \in [Process -> SUBSET Block]
          /\ missing' \in [Process -> SUBSET Block]
      BY <1>4 DEF TypeOK
    <2>3. /\ pc' \in [Process -> Label]
          /\ verdict' \in [Process -> {"ok", "error", "missing"}]
      BY <1>4 DEF TypeOK
    <2> QED
      BY <1>3, <1>4, <1>5, <2>1, <2>2, <2>3 DEF LocalTypes, TypeOK
  <1>7. LinesExist'
    <2> SUFFICES ASSUME NEW q \in Process, task[q].command # "init"
                 PROVE  line'[q] \in DOMAIN task[q].paths
      BY DEF LinesExist
    <2>1. line[q] \in DOMAIN task[q].paths
      BY DEF LinesExist
    <2>2. line \in [Process -> Nat \ {0}]
      BY DEF TypeOK
    <2>3. CASE line' = line
      BY <2>1, <2>3
    <2>4. CASE line' = [line EXCEPT ![p] = @ + 1] /\ line[p] < Len(task[p].paths)
      <3>1. CASE q = p
        <4>1. DOMAIN task[p].paths = 1..Len(task[p].paths) /\ Len(task[p].paths) \in Nat
          BY <1>1
        <4>2. line'[p] = line[p] + 1 /\ line[p] \in Nat
          BY <2>2, <2>4
        <4> QED
          BY <2>4, <3>1, <4>1, <4>2
      <3>2. CASE q # p
        BY <2>1, <2>2, <2>4, <3>2
      <3> QED
        BY <3>1, <3>2
    <2> QED
      BY <1>4, <2>3, <2>4
  <1>8. LoadedFirst'
    BY <1>4, <1>5 DEF LoadedFirst, IndexesAreSound, TypeOK
  <1>9. \A q \in Process \ {p} : Untouched(q)
    BY <1>3, <1>4, <1>5 DEF Untouched, TypeOK
  <1> QED
    BY <1>6, <1>7, <1>8, <1>9 DEF Framed, TypeOK

\* A step that does nothing else.
LEMMA OnlyLeaving ==
  ASSUME TypeOK, LinesExist, IndexesAreSound, NEW p \in Process, Leaves(p),
         UNCHANGED <<index, loaded, task, promised, dropped, unread, published, settled>>
  PROVE  Framed(p)
  <1>1. /\ KeepsIndex
        /\ UNCHANGED <<task, promised, dropped, unread, published>>
        /\ settled' = settled
    BY DEF KeepsIndex
  <1> QED
    BY <1>1, Leaving

LocalIndexType == localIndex \in [Path -> (SUBSET Block) \cup {NoIndex}]

\* A step of a process changes its own variables, and the store as the store
\* allows.
LEMMA StepIsFramed ==
  ASSUME TypeOK, LinesExist, IndexesAreSound, NEW p \in Process, Step(p)
  PROVE  Framed(p) /\ StoreGrows /\ LocalIndexType'
  <1> USE DEF session, files, local, history
  <1> DEFINE Goal == Framed(p) /\ StoreGrows /\ LocalIndexType'
  <1>a. UNCHANGED store => StoreGrows
    BY StoreOperation
  <1>b. UNCHANGED localIndex => LocalIndexType'
    BY DEF TypeOK, LocalIndexType
  <1>c. UNCHANGED store => UNCHANGED index
    BY DEF store
  <1>1. CASE TakeVersion(p)
    BY <1>1, <1>a, <1>b, <1>c, PathType
    DEF TakeVersion, Goto, Uploads, Reads, TypeOK, Label, Framed, LocalTypes, LinesExist, LoadedFirst, IndexesAreSound, Untouched
  <1>2. CASE SkipValid(p)
    <2>1. PICK view \in Views(p) : LoadIndex(p, view)
      BY <1>2 DEF SkipValid
    <2> QED
      <3>1. /\ StoreGrows
            /\ TakesIndex(p)
        BY <2>1, Loading DEF TakesIndex
      <3>2. Leaves(p)
        BY <1>2 DEF SkipValid, Leaves
      <3>3. /\ UNCHANGED <<task, promised, dropped, unread, published>>
            /\ Settles(p)
            /\ localIndex' = localIndex
        BY <1>2 DEF SkipValid, Settles
      <3>4. Framed(p)
        BY <3>1, <3>2, <3>3, Leaving
      <3> QED
        BY <1>b, <3>1, <3>3, <3>4
  <1>3. CASE SkipUnreadable(p)
    <2>1. Leaves(p)
      BY <1>3 DEF SkipUnreadable, Leaves
    <2>2. UNCHANGED <<store, localIndex, loaded, task, promised, dropped, unread, published, settled>>
      BY <1>3 DEF SkipUnreadable
    <2> QED
      BY <1>a, <1>b, <1>c, <2>1, <2>2, OnlyLeaving
  <1>4. CASE Rebuild(p)
    <2>1. CASE UNCHANGED <<store, loaded>>
      BY <1>4, <1>a, <1>b, <1>c, <2>1 DEF Rebuild, Goto, TypeOK, Label, Framed, LocalTypes, LinesExist, LoadedFirst, IndexesAreSound, Untouched
    <2>2. CASE \E view \in Views(p) : LoadIndex(p, view)
      <3>1. PICK view \in Views(p) : LoadIndex(p, view)
        BY <2>2
      <3>2. StoreGrows
        BY <3>1, Loading
      <3>3. /\ loaded' \in [Process -> BOOLEAN] /\ loaded'[p]
            /\ \A q \in Process \ {p} : loaded'[q] = loaded[q] /\ index'[q] = index[q]
        BY LoadedType, <3>1
      <3> QED
        BY <1>4, <1>b, <3>2, <3>3 DEF Rebuild, Goto, TypeOK, Label, Framed, LocalTypes, LinesExist, LoadedFirst, IndexesAreSound, Untouched
    <2> QED
      BY <1>4, <2>1, <2>2 DEF Rebuild
  <1>5. CASE AskExisting(p)
    <2>1. PICK view \in Views(p) :
             /\ LoadIndex(p, view)
             /\ \E blocks \in Answers(view, need[p], MinUsage) :
                   /\ existing' = [existing EXCEPT ![p] = blocks]
                   /\ \E new \in MissingContent(blocks, need[p]) :
                         missing' = [missing EXCEPT ![p] = new]
      BY <1>5 DEF AskExisting
    <2>2. view \subseteq Block
      BY ViewType DEF TypeOK
    <2>3. /\ existing' \in [Process -> SUBSET Block]
          /\ missing' \in [Process -> SUBSET Block]
          /\ \A q \in Process \ {p} : existing'[q] = existing[q] /\ missing'[q] = missing[q]
      <3>1. PICK blocks \in Answers(view, need[p], MinUsage) :
               /\ existing' = [existing EXCEPT ![p] = blocks]
               /\ \E new \in MissingContent(blocks, need[p]) :
                     missing' = [missing EXCEPT ![p] = new]
        BY <2>1
      <3>2. PICK new \in MissingContent(blocks, need[p]) :
               missing' = [missing EXCEPT ![p] = new]
        BY <3>1
      <3>3. blocks \subseteq Block /\ new \subseteq Block
        BY <2>2, AnswerType, MissingType
      <3> QED
        BY <3>1, <3>2, <3>3 DEF TypeOK
    <2>4. StoreGrows
      BY <2>1, Loading
    <2>5. /\ loaded' \in [Process -> BOOLEAN] /\ loaded'[p]
          /\ \A q \in Process \ {p} : loaded'[q] = loaded[q] /\ index'[q] = index[q]
      BY LoadedType, <2>1
    <2> QED
      BY <1>5, <1>b, <2>3, <2>4, <2>5 DEF AskExisting, Goto, TypeOK, Label, Framed, LocalTypes, LinesExist, LoadedFirst, IndexesAreSound, Untouched
  <1>6. CASE \E b \in Block : WriteBlock(p, b) \/ PutDone(p, b) \/ PutUnchecked(p, b)
    <2>1. /\ StoreGrows
          /\ UNCHANGED index
      BY <1>6, StoreOperation
      DEF WriteBlock, PutDone, PutUnchecked, Store!StoreBlock, Store!Complete, Store!LoseBlock
    <2> QED
      BY <1>6, <1>b, <2>1 DEF WriteBlock, PutDone, PutUnchecked, TypeOK, Label, Framed, LocalTypes, LinesExist, LoadedFirst, IndexesAreSound, Untouched
  <1>7. CASE \E b \in Block : PutDropped(p, b)
    <2>1. PICK b \in Block : PutDropped(p, b)
      BY <1>7
    <2>2. /\ StoreGrows
          /\ UNCHANGED index
          /\ b \in lost'[p]
      BY <2>1, StoreOperation DEF PutDropped, Store!LoseBlock, TypeOK
    <2>3. /\ dropped' \in [Process -> SUBSET Block]
          /\ \A q \in Process \ {p} : dropped'[q] = dropped[q]
          /\ dropped'[p] = dropped[p] \cup {b}
      BY <2>1 DEF PutDropped, TypeOK
    <2> QED
      BY <1>b, <2>1, <2>2, <2>3 DEF PutDropped, TypeOK, Label, Framed, LocalTypes, LinesExist, LoadedFirst, IndexesAreSound, Untouched
  <1>8. CASE StartFlush(p)
    BY <1>8, <1>a, <1>b, <1>c DEF StartFlush, Goto, TypeOK, Label, Framed, LocalTypes, LinesExist, LoadedFirst, IndexesAreSound, Untouched
  <1>9. CASE FlushDone(p)
    <2>1. /\ StoreGrows
          /\ \A q \in Process \ {p} : index'[q] = index[q]
      <3>1. PICK blocks, view \in SUBSET Block :
               Store!UpdateIndex(p, blocks, view) /\ index[p] \subseteq view
        <4>1. index[p] \subseteq Block /\ completed[p] \subseteq Block /\ listed \subseteq Block
          BY DEF TypeOK
        <4>2. CASE Store!UpdateIndex(p, {}, index[p])
          BY <4>1, <4>2
        <4>3. CASE \E sent \in SUBSET completed[p] :
                Store!UpdateIndex(p, index[p] \cup sent, index[p] \cup sent \cup listed)
          <5>1. PICK sent \in SUBSET completed[p] :
                   Store!UpdateIndex(p, index[p] \cup sent, index[p] \cup sent \cup listed)
            BY <4>3
          <5>2. /\ index[p] \cup sent \in SUBSET Block
                /\ index[p] \cup sent \cup listed \in SUBSET Block
            BY <4>1
          <5> QED
            BY <5>1, <5>2
        <4> QED
          BY <1>9, <4>2, <4>3 DEF FlushDone
      <3> QED
        BY <3>1, StoreOperation DEF Store!UpdateIndex, TypeOK
    <2> QED
      BY <1>9, <1>b, <2>1 DEF FlushDone, TypeOK, Label, Framed, LocalTypes, LinesExist, LoadedFirst, IndexesAreSound, Untouched
  <1>10. CASE FlushFails(p)
    <2>1. /\ StoreGrows
          /\ \A q \in Process \ {p} : index'[q] = index[q]
      BY <1>10, StoreOperation DEF FlushFails, Store!UpdateIndex, TypeOK
    <2> QED
      BY <1>10, <1>b, <2>1 DEF FlushFails, TypeOK, Label, Framed, LocalTypes, LinesExist, LoadedFirst, IndexesAreSound, Untouched
  <1>11. CASE WaitFlush(p)
    <2>u. UNCHANGED <<store, localIndex, loaded, task, promised, dropped, unread, published, settled>>
      BY <1>11 DEF WaitFlush
    <2>1. CASE Return(p, "ok") /\ UNCHANGED flush
      <3>1. Leaves(p)
        BY <2>1 DEF Leaves, Returns
      <3> QED
        BY <1>a, <1>b, <1>c, <2>u, <3>1, OnlyLeaving
    <2>2. CASE NextLine(p)
      <3>1. Leaves(p)
        BY <2>2 DEF Leaves
      <3> QED
        BY <1>a, <1>b, <1>c, <2>u, <3>1, OnlyLeaving
    <2>3. CASE Goto(p, "publish") /\ UNCHANGED <<line, need, existing, missing, flush, verdict>>
      BY <1>11, <1>a, <1>b, <1>c, <2>3 DEF WaitFlush, Goto, TypeOK, Label, Framed, LocalTypes, LinesExist, LoadedFirst, IndexesAreSound, Untouched
    <2> QED
      BY <1>11, <2>1, <2>2, <2>3 DEF WaitFlush
  <1>12. CASE Publish(p)
    BY <1>12, <1>a, <1>b, <1>c, PathType
    DEF Publish, Goto, Uploads, Reads, TypeOK, Label, Framed, LocalTypes, LinesExist, LoadedFirst, IndexesAreSound, Untouched
  <1>13. CASE WriteLocalIndex(p)
    <2>1. LocalIndexType'
      BY <1>13 DEF WriteLocalIndex, LocalIndexType, TypeOK
    <2>2. CASE Return(p, "ok")
      <3>1. Leaves(p)
        BY <1>13, <2>2 DEF Leaves, Returns, WriteLocalIndex
      <3>2. UNCHANGED <<store, loaded, task, promised, dropped, unread, published, settled>>
        BY <1>13 DEF WriteLocalIndex
      <3> QED
        BY <1>a, <1>c, <2>1, <3>1, <3>2, OnlyLeaving
    <2>3. CASE Goto(p, "wait") /\ UNCHANGED <<line, need, existing, missing, verdict>>
      BY <1>13, <1>a, <1>c, <2>1, <2>3 DEF WriteLocalIndex, Goto, TypeOK, Label, Framed, LocalTypes, LinesExist, LoadedFirst, IndexesAreSound, Untouched
    <2> QED
      BY <1>13, <2>2, <2>3 DEF WriteLocalIndex, AfterLocal
  <1>14. CASE WriteToURIFails(p) \/ Fails(p) \/ NoVersion(p)
    <2>1. Leaves(p)
      BY <1>14, Zenon DEF WriteToURIFails, Fails, FailsAt, NoVersion, Leaves, Returns
    <2>2. UNCHANGED <<store, localIndex, loaded, task, promised, dropped, unread, published, settled>>
      BY <1>14 DEF WriteToURIFails, Fails, FailsAt, NoVersion
    <2> QED
      BY <1>a, <1>b, <1>c, <2>1, <2>2, OnlyLeaving
  <1>15. CASE ReadVersion(p)
    <2>1. /\ need' \in [Process -> SUBSET Chunk]
          /\ \A q \in Process \ {p} : need'[q] = need[q]
      BY <1>15, PathType DEF ReadVersion, Reads, TypeOK
    <2> QED
      BY <1>15, <1>a, <1>b, <1>c, <2>1 DEF ReadVersion, Goto, TypeOK, Label, Framed, LocalTypes, LinesExist, LoadedFirst, IndexesAreSound, Untouched
  <1>16. CASE AskRead(p) \/ AskUnread(p)
    <2>1. \A view \in ReadViews(p) : view \subseteq Block
      BY <1>16, PathType DEF AskRead, ReadViews, Reads, TypeOK
    <2>2. /\ existing' \in [Process -> SUBSET Block]
          /\ \A q \in Process \ {p} : existing'[q] = existing[q]
      BY <1>16, <2>1, AnswerType DEF AskRead, AskUnread, TypeOK
    <2>3. /\ unread' \in [Process -> BOOLEAN]
          /\ \A q \in Process : unread[q] => unread'[q]
          /\ \A q \in Process \ {p} : unread'[q] = unread[q]
      BY <1>16 DEF AskRead, AskUnread, TypeOK
    <2>4. /\ pc' = [pc EXCEPT ![p] = "deliver"]
          /\ UNCHANGED <<store, localIndex, published, task, loaded, line, need, missing, flush,
                         verdict, settled, promised, dropped>>
      BY <1>16 DEF AskRead, AskUnread, Goto
    <2> QED
      BY <1>a, <1>b, <1>c, <2>2, <2>3, <2>4 DEF TypeOK, Label, Framed, LocalTypes, LinesExist, LoadedFirst, IndexesAreSound, Untouched
  <1>17. CASE Deliver(p)
    <2>1. Leaves(p)
      BY <1>17 DEF Deliver, Leaves, Returns
    <2>2. UNCHANGED <<store, localIndex, loaded, task, promised, dropped, unread, published, settled>>
      BY <1>17 DEF Deliver
    <2> QED
      BY <1>a, <1>b, <1>c, <2>1, <2>2, OnlyLeaving
  <1>18. CASE WriteVersionStoreIndex(p)
    <2>1. LocalIndexType'
      BY <1>18 DEF WriteVersionStoreIndex, LocalIndexType, TypeOK
    <2>2. Leaves(p)
      BY <1>18 DEF WriteVersionStoreIndex, Leaves, Returns
    <2>3. UNCHANGED <<store, loaded, task, promised, dropped, unread, published, settled>>
      BY <1>18 DEF WriteVersionStoreIndex
    <2> QED
      BY <1>a, <1>c, <2>1, <2>2, <2>3, OnlyLeaving
  <1>19. CASE SaveAtClose(p)
    <2>1. /\ StoreGrows
          /\ index' = index
      <3>1. Store!UpdateIndex(p, completed[p] \cup index[p], index[p])
        BY <1>19 DEF SaveAtClose
      <3>2. StoreGrows
        BY <3>1, StoreOperation DEF TypeOK
      <3> QED
        BY <3>1, <3>2 DEF Store!UpdateIndex, TypeOK
    <2> QED
      BY <1>19, <1>b, <2>1 DEF SaveAtClose, TypeOK, Label, Framed, LocalTypes, LinesExist, LoadedFirst, IndexesAreSound, Untouched
  <1>20. CASE Close(p) \/ Die(p)
    <2>1. /\ StoreGrows
          /\ UNCHANGED index
      BY <1>20, StoreOperation DEF Close, Die, Store!Close, Store!Die
    <2> QED
      BY <1>20, <1>b, <2>1 DEF Close, Die, TypeOK, Label, Framed, LocalTypes, LinesExist, LoadedFirst, IndexesAreSound, Untouched
  <1>21. CASE ReadFails(p)
    <2>1. Fails(p)
      BY <1>21, ReadFailsIsFails
    <2> QED
      BY <1>14, <2>1
  <1> QED
    BY <1>1, <1>2, <1>3, <1>4, <1>5, <1>6, <1>7, <1>8, <1>9, <1>10, <1>11, <1>12, <1>13, <1>14, <1>15, <1>16, <1>17, <1>18, <1>19, <1>20, <1>21 DEF Step, Upload, Download, AskStore, WriteContent, FlushStore, EndProcess

-----------------------------------------------------------------------------
(* The kinds of steps, by what they do to the variables of the process.    *)

\* It goes on with what it does.
Quiet(p) ==
    /\ UNCHANGED <<pc, line, need, existing, missing, verdict, settled, promised>>
    /\ UNCHANGED files

\* It is done with a version, without a word on what the store holds.
Leave(p) ==
    /\ pc' \in {[pc EXCEPT ![p] = "check"], [pc EXCEPT ![p] = "close"]}
    /\ line' = line \/ Is(p, {"cloneStore"})
    /\ verdict' = verdict \/ verdict' \in {[verdict EXCEPT ![p] = "ok"], [verdict EXCEPT ![p] = "error"]}
    /\ pc[p] # "close"
    /\ UNCHANGED <<settled, promised>>
    /\ UNCHANGED files

GoPublish(p) ==
    /\ Is(p, {"upsync"}) /\ pc[p] = "wait"
    /\ pc' = [pc EXCEPT ![p] = "publish"]
    /\ UNCHANGED <<line, need, existing, missing, verdict, settled, promised, dropped, unread>>
    /\ UNCHANGED <<store, files>>

\* The steps that do more.
Telling(p) ==
    \/ TakeVersion(p) \/ SkipValid(p) \/ Rebuild(p) \/ AskExisting(p)
    \/ StartFlush(p) \/ GoPublish(p) \/ Publish(p) \/ WriteLocalIndex(p)
    \/ ReadVersion(p) \/ AskRead(p) \/ AskUnread(p) \/ Deliver(p) \/ WriteVersionStoreIndex(p)

\* There are no other steps.
LEMMA StepKinds ==
  ASSUME TypeOK, NEW p \in Process, Step(p)
  PROVE  Quiet(p) \/ Leave(p) \/ Telling(p)
  <1> USE DEF session, files, local, history
  <1>1. CASE \/ \E b \in Block : \/ WriteBlock(p, b) \/ PutDone(p, b)
                                \/ PutUnchecked(p, b) \/ PutDropped(p, b)
             \/ FlushDone(p) \/ FlushFails(p)
             \/ SaveAtClose(p) \/ Close(p) \/ Die(p)
    BY <1>1
    DEF Quiet, WriteBlock, PutDone, PutUnchecked, PutDropped, FlushDone, FlushFails, SaveAtClose, Close, Die
  <1>2. CASE SkipUnreadable(p)
    BY <1>2 DEF SkipUnreadable, NextLine, Goto, Leave, TypeOK
  <1>3. CASE WriteToURIFails(p) \/ Fails(p) \/ NoVersion(p)
    BY <1>3 DEF WriteToURIFails, Fails, FailsAt, NoVersion, Return, Goto, Leave, Uploads, Reads
  <1>4. CASE WaitFlush(p)
    <2>1. UNCHANGED <<store, files, task, loaded, settled, promised, dropped, unread>> /\ pc[p] = "wait"
      BY <1>4 DEF WaitFlush
    <2>2. CASE Return(p, "ok")
      BY <2>1, <2>2 DEF Return, Goto, Leave
    <2>3. CASE Is(p, {"cloneStore"}) /\ NextLine(p)
      BY <2>1, <2>3 DEF NextLine, Goto, Leave
    <2>4. CASE /\ Is(p, {"upsync"})
               /\ Goto(p, "publish")
               /\ UNCHANGED <<line, need, existing, missing, flush, verdict>>
      BY <2>1, <2>4 DEF Goto, GoPublish, Telling
    <2> QED
      BY <1>4, <2>2, <2>3, <2>4 DEF WaitFlush, Uploads
  <1> QED
    BY <1>1, <1>2, <1>3, <1>4, ReadFailsIsFails
    DEF Step, Upload, Download, AskStore, WriteContent, FlushStore, EndProcess, Telling

-----------------------------------------------------------------------------
(* What is covered stays covered.                                          *)

LEMMA CoversMore ==
  ASSUME NEW blocks, NEW more, NEW chunks, Covers(blocks, chunks), blocks \subseteq more
  PROVE  Covers(more, chunks)
  BY DEF Covers

\* The path of a process that stays at its line.
LEMMA SamePath ==
  ASSUME NEW p \in Process, task' = task, line'[p] = line[p]
  PROVE  PathOf(p)' = PathOf(p)
  BY DEF PathOf

\* A version local store index that a createVersionStoreIndex has spoiled
\* stays so.
LEMMA GoodLocalIndexEarlier ==
  ASSUME TypeOK, NEW p \in Process, Step(p), Framed(p), NEW path,
         GoodLocalIndex(path)'
  PROVE  GoodLocalIndex(path)
  <1> SUFFICES ASSUME NEW q \in Process, task[q].command = "createVersionStoreIndex",
                      PathOf(q) = path, pc[q] = "close", ~promised[q] \/ unread[q]
               PROVE  FALSE
    BY DEF GoodLocalIndex
  <1>1. CASE q # p
    <2>1. /\ PathOf(q)' = path /\ pc'[q] = "close" /\ task' = task
          /\ promised'[q] = promised[q]
          /\ unread[q] => unread'[q]
      BY <1>1, SamePath DEF Framed, Untouched
    <2> QED
      BY <2>1 DEF GoodLocalIndex
  <1>2. CASE q = p
    <2>1. Quiet(p)
      <3>1. ~Leave(p)
        BY <1>2 DEF Leave
      <3>2. ~Telling(p)
        BY <1>2
        DEF Telling, TakeVersion, SkipValid, Rebuild, AskExisting, StartFlush, GoPublish,
            Publish, WriteLocalIndex, ReadVersion, AskRead, AskUnread, Deliver, WriteVersionStoreIndex
      <3> QED
        BY <3>1, <3>2, StepKinds
    <2>2. /\ PathOf(q)' = path /\ pc'[q] = "close" /\ task' = task
          /\ promised'[q] = promised[q]
          /\ unread[q] => unread'[q]
      BY <1>2, <2>1, SamePath DEF Quiet, Framed
    <2> QED
      BY <2>2 DEF GoodLocalIndex
  <1> QED
    BY <1>1, <1>2

-----------------------------------------------------------------------------
(* The parts of the invariant.                                             *)

Stepping(p) == IndInv /\ Step(p) /\ Framed(p) /\ StoreGrows

\* Publish finds every chunk in blocks of its index or in blocks it has put.
LEMMA UploadIsStored ==
  ASSUME IndInv, NEW p \in Process, Is(p, Uploads), Wrote(p)
  PROVE  /\ Covers(existing[p] \cup missing[p], Content[PathOf(p)])
         /\ existing[p] \cup missing[p] \subseteq index[p] \cup completed[p] \cup dropped[p]
         /\ existing[p] \cup missing[p] \subseteq stored \cup Lost
  <1>1. dropped[p] \subseteq Lost
    BY DEF IndInv, IndexesAreSound, Lost, Store!Lost
  <1> QED
    BY <1>1 DEF IndInv, UploadsAreSound, IndexesAreSound

LEMMA PublishedStep ==
  ASSUME NEW p \in Process, Stepping(p)
  PROVE  PublishedIsStored'
  <1> SUFFICES ASSUME NEW path \in published'
               PROVE  Available(path, stored)'
    BY DEF PublishedIsStored
  <1> USE DEF Stepping
  <1>1. stored \cup Lost \subseteq stored' \cup Lost'
    BY DEF Framed, StoreGrows
  <1>2. CASE path \in published
    BY <1>1, <1>2, CoversMore DEF IndInv, PublishedIsStored, Available
  <1>3. CASE path \notin published
    <2>1. Publish(p) /\ path = PathOf(p)
      <3>1. ~Quiet(p) /\ ~Leave(p)
        BY <1>3 DEF Quiet, Leave, files
      <3> QED
        BY <1>3, <3>1, StepKinds
        DEF Telling, TakeVersion, SkipValid, Rebuild, AskExisting, StartFlush, GoPublish,
            Publish, WriteLocalIndex, ReadVersion, AskRead, AskUnread, Deliver, WriteVersionStoreIndex,
            files, IndInv
    <2>2. Is(p, Uploads) /\ Wrote(p)
      BY <2>1 DEF Publish, Wrote
    <2>3. /\ Covers(existing[p] \cup missing[p], Content[path])
          /\ existing[p] \cup missing[p] \subseteq stored' \cup Lost'
      BY <1>1, <2>1, <2>2, UploadIsStored
    <2> QED
      BY <2>3, CoversMore DEF Available
  <1> QED
    BY <1>2, <1>3

LEMMA SettledStep ==
  ASSUME NEW p \in Process, Stepping(p)
  PROVE  SettledIsKept'
  <1> SUFFICES ASSUME NEW q \in Process, NEW path \in settled'[q]
               PROVE  Covers(index'[q] \cup completed'[q] \cup dropped'[q], Content[path])
    BY DEF SettledIsKept
  <1> USE DEF Stepping
  <1>1. index[q] \cup completed[q] \cup dropped[q] \subseteq index'[q] \cup completed'[q] \cup dropped'[q]
    BY DEF Framed, StoreGrows
  <1>2. CASE path \in settled[q]
    <2>1. Covers(index[q] \cup completed[q] \cup dropped[q], Content[path])
      BY <1>2 DEF IndInv, SettledIsKept
    <2> QED
      BY <1>1, <2>1, CoversMore
  <1>3. CASE path \notin settled[q]
    <2>1. /\ SkipValid(p) \/ Publish(p)
          /\ q = p /\ path = PathOf(p)
      <3>1. ~Quiet(p) /\ ~Leave(p)
        BY <1>3 DEF Quiet, Leave
      <3>2. q = p
        BY <1>3 DEF Framed, Untouched
      <3>3. SkipValid(p) \/ Publish(p)
        BY <1>3, <3>1, StepKinds
        DEF Telling, TakeVersion, SkipValid, Rebuild, AskExisting, StartFlush, GoPublish,
            Publish, WriteLocalIndex, ReadVersion, AskRead, AskUnread, Deliver, WriteVersionStoreIndex,
            history, IndInv
      <3>4. settled' = [settled EXCEPT ![p] = @ \cup {PathOf(p)}]
        BY <3>3 DEF SkipValid, Publish
      <3> QED
        BY <1>3, <3>2, <3>3, <3>4 DEF IndInv, TypeOK
    <2>2. CASE Publish(p)
      <3>1. Is(p, Uploads) /\ Wrote(p)
        BY <2>2 DEF Publish, Wrote
      <3>2. /\ Covers(existing[p] \cup missing[p], Content[path])
            /\ existing[p] \cup missing[p] \subseteq index'[q] \cup completed'[q] \cup dropped'[q]
        BY <1>1, <2>1, <3>1, UploadIsStored
      <3> QED
        BY <3>2, CoversMore
    <2>3. CASE SkipValid(p)
      <3>1. PICK view \in Views(p) :
               /\ LoadIndex(p, view)
               /\ \E blocks \in Answers(view, Content[PathOf(p)], 0) :
                     Covers(blocks, Content[PathOf(p)])
        BY <2>3 DEF SkipValid
      <3>2. PICK blocks \in Answers(view, Content[PathOf(p)], 0) :
               Covers(blocks, Content[PathOf(p)])
        BY <3>1
      <3>3. index' = [index EXCEPT ![p] = view]
        BY <3>1, Loading DEF IndInv
      <3>4. index'[p] = view /\ blocks \subseteq view
        BY <3>3, AnswerType DEF IndInv, TypeOK
      <3> QED
        BY <2>1, <3>2, <3>4, CoversMore
    <2> QED
      BY <2>1, <2>2, <2>3
  <1> QED
    BY <1>2, <1>3

\* What UploadsAreSound says of one process, and ReadsAreSound.
UploadSound(p) ==
    /\ pc[p] = "ask" => need[p] = Content[PathOf(p)]
    /\ pc[p] = "write" \/ Wrote(p) =>
          /\ need[p] = Content[PathOf(p)]
          /\ existing[p] \subseteq index[p]
          /\ Covers(existing[p] \cup missing[p], need[p])
    /\ Wrote(p) => missing[p] \subseteq completed[p] \cup dropped[p]

\* An upload that goes on is as sound as before.
LEMMA UploadGoesOn ==
  ASSUME NEW p \in Process, Stepping(p), NEW q \in Process, UploadSound(q),
         pc'[q] = pc[q], line'[q] = line[q], need'[q] = need[q],
         existing'[q] = existing[q], missing'[q] = missing[q]
  PROVE  UploadSound(q)'
  <1>1. PathOf(q)' = PathOf(q)
    BY SamePath DEF Stepping, Framed
  <1>2. /\ index[q] \subseteq index'[q]
        /\ completed[q] \cup dropped[q] \subseteq completed'[q] \cup dropped'[q]
        /\ task' = task
    BY DEF Stepping, Framed, StoreGrows
  <1>3. Wrote(q)' = Wrote(q)
    BY <1>2 DEF Wrote
  <1> QED
    BY <1>1, <1>2, <1>3 DEF UploadSound

LEMMA UploadsStep ==
  ASSUME NEW p \in Process, Stepping(p)
  PROVE  UploadsAreSound'
  <1> SUFFICES ASSUME NEW q \in Process, Is(q, Uploads)
               PROVE  UploadSound(q)'
    BY DEF UploadsAreSound, UploadSound, Stepping, Framed
  <1> USE DEF Stepping
  <1>1. UploadSound(q)
    BY DEF IndInv, UploadsAreSound, UploadSound
  <1>2. CASE q # p
    BY <1>1, <1>2, UploadGoesOn DEF Framed, Untouched
  <1>3. CASE q = p /\ Quiet(p)
    BY <1>1, <1>3, UploadGoesOn DEF Quiet
  <1>4. ASSUME q = p, pc'[p] \notin {"ask", "write", "publish", "local", "wait"} PROVE UploadSound(q)'
    BY <1>4 DEF UploadSound, Wrote
  <1>5. CASE q = p /\ Leave(p)
    BY <1>4, <1>5 DEF Leave, IndInv, TypeOK
  <1>6. CASE q = p /\ Telling(p)
    <2> USE <1>6
    <2>0. /\ index[p] \subseteq index'[p]
          /\ completed[p] \cup dropped[p] \subseteq completed'[p] \cup dropped'[p]
          /\ task' = task
          /\ pc[p] \in Label /\ DOMAIN pc = Process
      BY DEF Framed, StoreGrows, IndInv, TypeOK
    <2>1. CASE TakeVersion(p)
      <3>1. /\ pc'[p] = "ask" /\ line'[p] = line[p]
            /\ need'[p] = Content[PathOf(p)]
        BY <2>1 DEF TakeVersion, Goto, IndInv, TypeOK
      <3>2. PathOf(p)' = PathOf(p)
        BY <2>0, <3>1, SamePath
      <3> QED
        BY <3>1, <3>2 DEF UploadSound, Wrote
    <2>2. CASE SkipValid(p)
      BY <1>4, <2>0, <2>2 DEF SkipValid, NextLine, Goto
    <2>3. CASE Rebuild(p)
      BY <1>4, <2>0, <2>3 DEF Rebuild, Goto
    <2>4. CASE AskExisting(p)
      <3>1. PICK view \in Views(p) :
               /\ LoadIndex(p, view)
               /\ \E blocks \in Answers(view, need[p], MinUsage) :
                     /\ existing' = [existing EXCEPT ![p] = blocks]
                     /\ \E new \in MissingContent(blocks, need[p]) :
                           missing' = [missing EXCEPT ![p] = new]
        BY <2>4 DEF AskExisting
      <3>2. PICK blocks \in Answers(view, need[p], MinUsage) :
               /\ existing' = [existing EXCEPT ![p] = blocks]
               /\ \E new \in MissingContent(blocks, need[p]) :
                     missing' = [missing EXCEPT ![p] = new]
        BY <3>1
      <3>3. PICK new \in MissingContent(blocks, need[p]) :
               missing' = [missing EXCEPT ![p] = new]
        BY <3>2
      <3>4. index' = [index EXCEPT ![p] = view]
        BY <3>1, Loading DEF IndInv
      <3>5. /\ index'[p] = view /\ existing'[p] = blocks /\ missing'[p] = new
            /\ blocks \subseteq view
            /\ Covers(blocks \cup new, need[p])
        BY <3>2, <3>3, <3>4, AnswerType, MissingType DEF IndInv, TypeOK
      <3>6. /\ pc'[p] = "write" /\ line'[p] = line[p] /\ need'[p] = need[p]
            /\ need[p] = Content[PathOf(p)]
        BY <1>1, <2>0, <2>4 DEF AskExisting, Goto, UploadSound
      <3>7. PathOf(p)' = PathOf(p)
        BY <2>0, <3>6, SamePath
      <3> QED
        BY <3>5, <3>6, <3>7 DEF UploadSound, Wrote
    <2>5. ASSUME StartFlush(p) \/ GoPublish(p) \/ Publish(p) PROVE UploadSound(q)'
      <3>1. /\ line'[p] = line[p] /\ need'[p] = need[p]
            /\ existing'[p] = existing[p] /\ missing'[p] = missing[p]
            /\ pc'[p] \in {"publish", "wait", "local"}
            /\ pc[p] = "write" \/ Wrote(p)
            /\ missing[p] \subseteq completed[p] \cup dropped[p]
        BY <1>1, <2>0, <2>5 DEF StartFlush, GoPublish, Publish, Goto, UploadSound, Wrote
      <3>2. PathOf(p)' = PathOf(p)
        BY <2>0, <3>1, SamePath
      <3> QED
        BY <1>1, <2>0, <3>1, <3>2 DEF UploadSound, Wrote
    <2>6. CASE WriteLocalIndex(p)
      <3>1. pc'[p] = "close" \/ (pc'[p] = "wait" /\ Is(p, {"cloneStore"}))
        BY <2>0, <2>6 DEF WriteLocalIndex, AfterLocal, Return, Goto
      <3> QED
        BY <2>0, <3>1 DEF UploadSound, Wrote
    <2>7. ~(ReadVersion(p) \/ AskRead(p) \/ AskUnread(p) \/ Deliver(p) \/ WriteVersionStoreIndex(p))
      BY DEF ReadVersion, AskRead, AskUnread, Deliver, WriteVersionStoreIndex, Reads, Uploads
    <2> QED
      BY <2>1, <2>2, <2>3, <2>4, <2>5, <2>6, <2>7 DEF Telling
  <1> QED
    BY <1>2, <1>3, <1>5, <1>6, StepKinds DEF IndInv

\* What a successful command settled is listed, but for what it dropped, which
\* is lost.
LEMMA SettledIsListed ==
  ASSUME IndInv, NEW q \in Process, Succeeded(q), NEW path \in settled[q]
  PROVE  /\ Covers(listed \cup dropped[q], Content[path])
         /\ Available(path, listed)
  <1>1. Covers(index[q] \cup completed[q] \cup dropped[q], Content[path])
    BY DEF IndInv, SettledIsKept
  <1>2. index[q] \cup completed[q] \cup dropped[q] \subseteq listed \cup dropped[q]
    BY DEF IndInv, IndexesAreSound, Succeeded
  <1>3. dropped[q] \subseteq Lost
    BY DEF IndInv, IndexesAreSound, Lost, Store!Lost
  <1>4. Covers(listed \cup dropped[q], Content[path])
    BY <1>1, <1>2, CoversMore
  <1>5. listed \cup dropped[q] \subseteq listed \cup Lost
    BY <1>3
  <1> QED
    BY <1>4, <1>5, CoversMore DEF Available

\* A reader stays at its line.
LEMMA ReaderStays ==
  ASSUME NEW p \in Process, Stepping(p), NEW q \in Process, Is(q, Reads)
  PROVE  PathOf(q)' = PathOf(q)
  <1> USE DEF Stepping
  <1>1. CASE q # p
    BY <1>1, SamePath DEF Framed, Untouched
  <1>2. CASE q = p
    <2>1. Leave(p) \/ Quiet(p) => line' = line
      BY <1>2 DEF Leave, Quiet, Reads
    <2>2. Telling(p) => line' = line
      BY <1>2
      DEF Telling, TakeVersion, SkipValid, Rebuild, AskExisting, StartFlush, GoPublish,
          Publish, WriteLocalIndex, ReadVersion, AskRead, AskUnread, Deliver, WriteVersionStoreIndex,
          Return, Uploads, Reads
    <2> QED
      BY <1>2, <2>1, <2>2, SamePath, StepKinds DEF Framed, IndInv
  <1> QED
    BY <1>1, <1>2

LEMMA PromisedStep ==
  ASSUME NEW p \in Process, Stepping(p)
  PROVE  PromisedIsListed'
  <1> SUFFICES ASSUME NEW q \in Process, promised'[q]
               PROVE  /\ Is(q, Reads)
                      /\ Available(PathOf(q), listed)'
    BY DEF PromisedIsListed, Stepping, Framed
  <1> USE DEF Stepping
  <1>1. listed \cup Lost \subseteq listed' \cup Lost'
    BY DEF Framed, StoreGrows
  <1>2. Is(q, Reads) /\ Available(PathOf(q), listed)
    <2>1. CASE promised[q]
      BY <2>1 DEF IndInv, PromisedIsListed
    <2>2. CASE ~promised[q]
      <3>1. q = p /\ ReadVersion(p)
        <4>1. q = p
          BY <2>2 DEF Framed, Untouched
        <4>2. ~Quiet(p) /\ ~Leave(p)
          BY <2>2 DEF Quiet, Leave
        <4> QED
          BY <2>2, <4>1, <4>2, StepKinds
          DEF Telling, TakeVersion, SkipValid, Rebuild, AskExisting, StartFlush, GoPublish,
              Publish, WriteLocalIndex, ReadVersion, AskRead, AskUnread, Deliver, WriteVersionStoreIndex,
              history, IndInv
      <3>2. \E r \in Process : Succeeded(r) /\ PathOf(p) \in settled[r]
        BY <2>2, <3>1 DEF ReadVersion, IndInv, TypeOK
      <3> QED
        BY <3>1, <3>2, SettledIsListed DEF ReadVersion
    <2> QED
      BY <2>1, <2>2
  <1>3. PathOf(q)' = PathOf(q)
    BY <1>2, ReaderStays
  <1> QED
    BY <1>1, <1>2, <1>3, CoversMore DEF Available

ReadSound(p) ==
    /\ pc[p] \in {"ask", "deliver"} =>
          /\ need[p] \subseteq Content[PathOf(p)]
          /\ Is(p, {"downsync"}) \/ need[p] = Content[PathOf(p)]
    /\ pc[p] = "deliver" /\ promised[p] /\ ~unread[p]
          /\ (Is(p, {"downsync"}) /\ task[p].local => GoodLocalIndex(PathOf(p))) =>
          /\ existing[p] \subseteq stored \cup Lost
          /\ Covers(existing[p] \cup Lost, need[p])

LEMMA ReadGoesOn ==
  ASSUME NEW p \in Process, Stepping(p), NEW q \in Process, Is(q, Reads), ReadSound(q),
         pc'[q] = pc[q], promised'[q] = promised[q], need'[q] = need[q],
         existing'[q] = existing[q]
  PROVE  ReadSound(q)'
  <1> USE DEF Stepping
  <1>1. /\ PathOf(q)' = PathOf(q)
        /\ task' = task
        /\ stored \cup Lost \subseteq stored' \cup Lost'
        /\ existing[q] \cup Lost \subseteq existing[q] \cup Lost'
        /\ unread[q] => unread'[q]
    BY ReaderStays DEF Framed, StoreGrows
  <1>2. GoodLocalIndex(PathOf(q))' => GoodLocalIndex(PathOf(q))
    BY <1>1, GoodLocalIndexEarlier DEF IndInv
  <1>3. Covers(existing[q] \cup Lost, need[q]) => Covers(existing[q] \cup Lost', need[q])
    BY <1>1, CoversMore
  <1> QED
    BY <1>1, <1>2, <1>3 DEF ReadSound

\* When nothing is required of how a block is used, the answer covers all that
\* the index covers.
LEMMA AnswersCover ==
  ASSUME NEW view \in SUBSET Block, NEW chunks \in SUBSET Chunk, NEW more,
         NEW blocks \in Answers(view, chunks, 0), Covers(view \cup more, chunks)
  PROVE  Covers(blocks \cup more, chunks)
  <1>1. \A b \in view : 100 * Cardinality(b \cap chunks) >= 0 * Cardinality(b)
    <2> TAKE b \in view
    <2>1. IsFiniteSet(b) /\ IsFiniteSet(b \cap chunks)
      BY FS_Subset, VersionsAssumption DEF VersionsAssumption, Block
    <2>2. Cardinality(b) \in Nat /\ Cardinality(b \cap chunks) \in Nat
      BY <2>1, FS_CardinalityType
    <2> QED
      BY <2>2
  <1>2. Usable(view, chunks, 0) = {b \in view : b \cap chunks # {}}
    BY <1>1 DEF Usable
  <1>3. chunks \cap UNION Usable(view, chunks, 0) \subseteq UNION blocks
    BY DEF Answers, Covers
  <1> SUFFICES ASSUME NEW c \in chunks, c \notin UNION more
               PROVE  c \in UNION blocks
    BY DEF Covers
  <1>4. PICK b \in view : c \in b
    BY DEF Covers
  <1>5. b \in Usable(view, chunks, 0)
    BY <1>2, <1>4
  <1> QED
    BY <1>3, <1>4, <1>5

LEMMA ReadsStep ==
  ASSUME NEW p \in Process, Stepping(p)
  PROVE  ReadsAreSound'
  <1> SUFFICES ASSUME NEW q \in Process, Is(q, Reads)
               PROVE  ReadSound(q)'
    BY DEF ReadsAreSound, ReadSound, Stepping, Framed
  <1> USE DEF Stepping
  <1>1. ReadSound(q)
    BY DEF IndInv, ReadsAreSound, ReadSound
  <1>2. CASE q # p
    BY <1>1, <1>2, ReadGoesOn DEF Framed, Untouched
  <1>3. CASE q = p /\ Quiet(p)
    BY <1>1, <1>3, ReadGoesOn DEF Quiet
  <1>4. ASSUME q = p, pc'[p] \notin {"ask", "deliver"} PROVE ReadSound(q)'
    BY <1>4 DEF ReadSound
  <1>5. CASE q = p /\ Leave(p)
    BY <1>4, <1>5 DEF Leave, IndInv, TypeOK
  <1>6. CASE q = p /\ Telling(p)
    <2> USE <1>6
    <2>0. /\ PathOf(p)' = PathOf(p)
          /\ task' = task
          /\ stored \cup Lost \subseteq stored' \cup Lost'
          /\ DOMAIN pc = Process
      BY ReaderStays DEF Framed, StoreGrows, IndInv, TypeOK
    <2>1. CASE ReadVersion(p)
      <3>1. /\ pc'[p] = "ask"
            /\ need'[p] \subseteq Content[PathOf(p)]
            /\ Is(p, {"downsync"}) \/ need'[p] = Content[PathOf(p)]
        BY <2>0, <2>1 DEF ReadVersion, Goto, IndInv, TypeOK
      <3> QED
        BY <2>0, <3>1 DEF ReadSound
    <2>2. CASE AskRead(p)
      <3>1. PICK view \in ReadViews(p) : \E blocks \in Answers(view, need[p], 0) :
               existing' = [existing EXCEPT ![p] = blocks]
        BY <2>2 DEF AskRead
      <3>2. PICK blocks \in Answers(view, need[p], 0) :
               existing' = [existing EXCEPT ![p] = blocks]
        BY <3>1
      <3>3. /\ pc'[p] = "deliver" /\ pc[p] = "ask" /\ need' = need /\ promised' = promised
            /\ existing'[p] = blocks
        BY <2>0, <2>2, <3>2 DEF AskRead, Goto, IndInv, TypeOK, history
      <3>4. ASSUME promised[p],
                   Is(p, {"downsync"}) /\ task[p].local => GoodLocalIndex(PathOf(p))
            PROVE  /\ blocks \subseteq stored \cup Lost
                   /\ Covers(blocks \cup Lost, need[p])
        <4>1. /\ view \in SUBSET Block
              /\ view \subseteq stored \cup Lost
              /\ Covers(view \cup Lost, Content[PathOf(p)])
          <5>1. PathOf(p) \in Path
            BY PathType DEF IndInv, Reads
          <5>2. CASE /\ Is(p, {"downsync"}) /\ task[p].local /\ localIndex[PathOf(p)] # NoIndex
                     /\ view = localIndex[PathOf(p)]
            <6>1. view \in SUBSET Block
              BY <5>1, <5>2 DEF IndInv, TypeOK
            <6> QED
              BY <3>4, <5>1, <5>2, <6>1 DEF IndInv, LocalIndexIsComplete, Available
          <5>3. CASE view = listed
            <6>1. listed \subseteq stored \cup Lost /\ listed \subseteq Block
              BY DEF IndInv, IndexesAreSound, TypeOK
            <6>2. Available(PathOf(p), listed)
              BY <3>4 DEF IndInv, PromisedIsListed
            <6> QED
              BY <5>3, <6>1, <6>2 DEF Available
          <5> QED
            BY <5>2, <5>3 DEF ReadViews
        <4>2. need[p] \subseteq Content[PathOf(p)] /\ need[p] \in SUBSET Chunk
          BY <1>1, <3>3 DEF ReadSound, IndInv, TypeOK
        <4>3. Covers(view \cup Lost, need[p])
          BY <4>1, <4>2 DEF Covers
        <4>4. blocks \subseteq view
          BY AnswerType
        <4> QED
          BY <4>1, <4>2, <4>3, <4>4, AnswersCover
      <3>5. GoodLocalIndex(PathOf(p))' => GoodLocalIndex(PathOf(p))
        BY <2>0, GoodLocalIndexEarlier DEF IndInv
      <3>6. Covers(blocks \cup Lost, need[p]) => Covers(blocks \cup Lost', need[p])
        BY CoversMore DEF StoreGrows
      <3> QED
        BY <1>1, <2>0, <3>3, <3>4, <3>5, <3>6 DEF ReadSound
    <2>5. CASE AskUnread(p)
      <3>1. /\ pc[p] = "ask" /\ need' = need
            /\ unread'[p]
        BY <2>5 DEF AskUnread, IndInv, TypeOK
      <3> QED
        BY <1>1, <2>0, <3>1 DEF ReadSound
    <2>3. CASE Deliver(p) \/ WriteVersionStoreIndex(p)
      <3>1. pc'[p] = "close"
        BY <2>0, <2>3 DEF Deliver, WriteVersionStoreIndex, Return, Goto
      <3> QED
        BY <1>4, <3>1
    <2>4. ~(\/ TakeVersion(p) \/ SkipValid(p) \/ Rebuild(p) \/ AskExisting(p)
            \/ StartFlush(p) \/ GoPublish(p) \/ Publish(p) \/ WriteLocalIndex(p))
      BY DEF TakeVersion, SkipValid, Rebuild, AskExisting, StartFlush, GoPublish, Publish,
             WriteLocalIndex, Reads, Uploads
    <2> QED
      BY <2>1, <2>2, <2>3, <2>4, <2>5 DEF Telling
  <1> QED
    BY <1>2, <1>3, <1>5, <1>6, StepKinds DEF IndInv

\* What a version local store index names, once it is good, it names for good.
LEMMA LocalIndexStep ==
  ASSUME NEW p \in Process, Stepping(p)
  PROVE  LocalIndexIsComplete'
  <1> SUFFICES ASSUME NEW path \in Path, localIndex'[path] # NoIndex, GoodLocalIndex(path)'
               PROVE  /\ Covers(localIndex'[path] \cup Lost', Content[path])
                      /\ localIndex'[path] \subseteq stored' \cup Lost'
    BY DEF LocalIndexIsComplete, Available
  <1> USE DEF Stepping
  <1>1. stored \cup Lost \subseteq stored' \cup Lost' /\ Lost \subseteq Lost'
    BY DEF Framed, StoreGrows
  <1>2. CASE localIndex'[path] = localIndex[path]
    <2>1. /\ Covers(localIndex[path] \cup Lost, Content[path])
          /\ localIndex[path] \subseteq stored \cup Lost
      BY <1>2, GoodLocalIndexEarlier DEF IndInv, LocalIndexIsComplete, Available
    <2>2. Covers(localIndex[path] \cup Lost', Content[path])
      BY <1>1, <2>1, CoversMore
    <2> QED
      BY <1>1, <1>2, <2>1, <2>2
  <1>3. CASE localIndex'[path] # localIndex[path]
    <2>1. WriteLocalIndex(p) \/ WriteVersionStoreIndex(p)
      <3>1. ~Quiet(p) /\ ~Leave(p)
        BY <1>3 DEF Quiet, Leave, files
      <3> QED
        BY <1>3, <3>1, StepKinds
        DEF Telling, TakeVersion, SkipValid, Rebuild, AskExisting, StartFlush, GoPublish,
            Publish, ReadVersion, AskRead, AskUnread, Deliver, files, IndInv
    <2>2. CASE WriteLocalIndex(p)
      <3>1. localIndex' = [localIndex EXCEPT ![PathOf(p)] = existing[p] \cup missing[p]]
        BY <1>3, <2>2 DEF WriteLocalIndex
      <3>2. path = PathOf(p) /\ localIndex'[path] = existing[p] \cup missing[p]
        BY <1>3, <3>1 DEF IndInv, TypeOK
      <3>3. Is(p, Uploads) /\ Wrote(p)
        BY <2>2 DEF WriteLocalIndex, Wrote
      <3>4. /\ Covers(existing[p] \cup missing[p], Content[path])
            /\ existing[p] \cup missing[p] \subseteq stored \cup Lost
        BY <3>2, <3>3, UploadIsStored
      <3>5. Covers(localIndex'[path] \cup Lost', Content[path])
        BY <3>2, <3>4, CoversMore
      <3> QED
        BY <1>1, <3>2, <3>4, <3>5
    <2>3. CASE WriteVersionStoreIndex(p)
      <3>1. /\ localIndex' = [localIndex EXCEPT ![PathOf(p)] = existing[p]]
            /\ task[p].command = "createVersionStoreIndex" /\ pc[p] = "deliver"
            /\ pc' = [pc EXCEPT ![p] = "close"]
            /\ promised' = promised /\ unread' = unread
        BY <2>3 DEF WriteVersionStoreIndex, Return, Goto, history
      <3>2. path = PathOf(p) /\ localIndex'[path] = existing[p] /\ pc'[p] = "close"
        BY <1>3, <3>1 DEF IndInv, TypeOK
      <3>3. Is(p, Reads)
        BY <3>1 DEF Reads
      <3>4. PathOf(p)' = path /\ task' = task
        BY <3>2, <3>3, ReaderStays DEF Framed
      <3>5. promised[p] /\ ~unread[p]
        BY <3>1, <3>2, <3>4 DEF GoodLocalIndex
      <3>6. need[p] = Content[path]
        BY <3>1, <3>2, <3>3 DEF IndInv, ReadsAreSound
      <3>7. /\ existing[p] \subseteq stored \cup Lost
            /\ Covers(existing[p] \cup Lost, need[p])
        BY <3>1, <3>3, <3>5 DEF IndInv, ReadsAreSound
      <3>8. Covers(localIndex'[path] \cup Lost', Content[path])
        <4>1. existing[p] \cup Lost \subseteq localIndex'[path] \cup Lost'
          BY <1>1, <3>2
        <4> QED
          BY <3>6, <3>7, <4>1, CoversMore
      <3> QED
        BY <1>1, <3>2, <3>7, <3>8
    <2> QED
      BY <2>1, <2>2, <2>3
  <1> QED
    BY <1>2, <1>3

\* Only Deliver finds that something is missing, and the command returns.
LEMMA MissingFound ==
  ASSUME NEW p \in Process, Stepping(p), NEW q \in Process, verdict'[q] = "missing",
         verdict[q] # "missing"
  PROVE  q = p /\ Deliver(p)
  <1> USE DEF Stepping
  <1>1. q = p
    BY DEF Framed, Untouched
  <1>2. ~Quiet(p)
    BY DEF Quiet
  <1>3. ~Leave(p)
    BY <1>1 DEF Leave, IndInv, TypeOK
  <1>4. ~(\/ TakeVersion(p) \/ SkipValid(p) \/ Rebuild(p) \/ AskExisting(p)
          \/ StartFlush(p) \/ GoPublish(p) \/ Publish(p)
          \/ ReadVersion(p) \/ AskRead(p) \/ AskUnread(p))
    BY DEF TakeVersion, SkipValid, Rebuild, AskExisting, StartFlush, GoPublish, Publish,
           ReadVersion, AskRead, AskUnread, NextLine
  <1>5. ~(WriteLocalIndex(p) \/ WriteVersionStoreIndex(p))
    BY <1>1 DEF WriteLocalIndex, WriteVersionStoreIndex, AfterLocal, Return, IndInv, TypeOK
  <1> QED
    BY <1>1, <1>2, <1>3, <1>4, <1>5, StepKinds DEF Telling, IndInv

LEMMA FinalStep ==
  ASSUME NEW p \in Process, Stepping(p)
  PROVE  MissingIsFinal'
  <1> SUFFICES ASSUME NEW q \in Process, verdict'[q] = "missing"
               PROVE  pc'[q] = "close"
    BY DEF MissingIsFinal
  <1> USE DEF Stepping
  <1>1. CASE verdict[q] # "missing"
    <2>1. q = p /\ Deliver(p)
      BY <1>1, MissingFound
    <2>2. pc' = [pc EXCEPT ![p] = "close"]
      BY <2>1 DEF Deliver, Return, Goto
    <2>3. pc \in [Process -> Label]
      BY DEF IndInv, TypeOK
    <2> QED
      BY <2>1, <2>2, <2>3
  <1>2. CASE verdict[q] = "missing"
    <2>1. pc[q] = "close"
      BY <1>2 DEF IndInv, MissingIsFinal
    <2>2. CASE q # p
      BY <2>1, <2>2 DEF Framed, Untouched
    <2>3. CASE q = p
      <3>1. ~Telling(p)
        BY <2>1, <2>3
        DEF Telling, TakeVersion, SkipValid, Rebuild, AskExisting, StartFlush, GoPublish,
            Publish, WriteLocalIndex, ReadVersion, AskRead, AskUnread, Deliver, WriteVersionStoreIndex
      <3>2. CASE Quiet(p)
        BY <2>1, <3>2 DEF Quiet
      <3>3. CASE Leave(p)
        BY <2>1, <2>3, <3>3 DEF Leave
      <3> QED
        BY <3>1, <3>2, <3>3, StepKinds DEF IndInv
    <2> QED
      BY <2>2, <2>3
  <1> QED
    BY <1>1, <1>2

\* What was promised and asked for is found in the blocks of the answer.
LEMMA DeliveredStep ==
  ASSUME NEW p \in Process, Stepping(p)
  PROVE  PromisedIsDelivered'
  <1> SUFFICES ASSUME NEW q \in Process, promised'[q], verdict'[q] = "missing",
                      \A b \in Lost' : b \cap Content[PathOf(q)'] = {},
                      ~unread'[q],
                      task[q].local => GoodLocalIndex(PathOf(q))'
               PROVE  FALSE
    BY DEF PromisedIsDelivered, Stepping, Framed
  <1> USE DEF Stepping
  <1>1. ~unread[q] /\ Lost \subseteq Lost'
    BY DEF Framed, StoreGrows
  <1>2. ASSUME promised[q]
        PROVE  /\ PathOf(q)' = PathOf(q) /\ Is(q, Reads)
               /\ \A b \in Lost : b \cap Content[PathOf(q)] = {}
    BY <1>1, <1>2, ReaderStays DEF IndInv, PromisedIsListed
  <1>3. CASE verdict[q] # "missing"
    <2>1. q = p /\ Deliver(p)
      BY <1>3, MissingFound
    <2>2. promised[p] /\ Is(p, Reads) /\ pc[p] = "deliver"
      BY <2>1 DEF Deliver, history
    <2>3. task[p].local => GoodLocalIndex(PathOf(p))
      BY <1>2, <2>1, <2>2, GoodLocalIndexEarlier DEF IndInv
    <2>4. /\ existing[p] \subseteq stored \cup Lost
          /\ Covers(existing[p] \cup Lost, need[p])
          /\ need[p] \subseteq Content[PathOf(p)]
      BY <1>1, <2>1, <2>2, <2>3 DEF IndInv, ReadsAreSound
    <2>5. \A b \in Lost : b \cap need[p] = {}
      BY <1>2, <2>1, <2>2, <2>4
    <2>6. \A part \in SUBSET need[p] : /\ Covers(existing[p], part)
                                       /\ Covers(existing[p] \cap stored, part)
      BY <2>4, <2>5 DEF Covers
    <2>7. PICK part \in SUBSET need[p] :
             Return(p, IF Covers(IF Is(p, {"validate"}) THEN existing[p]
                                 ELSE existing[p] \cap stored, part) THEN "ok" ELSE "missing")
      BY <2>1 DEF Deliver
    <2>8. verdict' = [verdict EXCEPT ![p] = "ok"]
      BY <2>6, <2>7 DEF Return
    <2> QED
      BY <2>1, <2>8 DEF IndInv, TypeOK
  <1>4. CASE verdict[q] = "missing"
    <2>1. pc[q] = "close"
      BY <1>4 DEF IndInv, MissingIsFinal
    <2>2. promised[q]
      <3>1. CASE q # p
        BY <3>1 DEF Framed, Untouched
      <3>2. CASE q = p
        <4>1. ~Telling(p)
          BY <2>1, <3>2
          DEF Telling, TakeVersion, SkipValid, Rebuild, AskExisting, StartFlush, GoPublish,
              Publish, WriteLocalIndex, ReadVersion, AskRead, AskUnread, Deliver,
              WriteVersionStoreIndex
        <4> QED
          BY <3>2, <4>1, StepKinds DEF Quiet, Leave, IndInv
      <3> QED
        BY <3>1, <3>2
    <2>3. task[q].local => GoodLocalIndex(PathOf(q))
      BY <1>2, <2>2, GoodLocalIndexEarlier DEF IndInv
    <2> QED
      BY <1>1, <1>2, <1>4, <2>2, <2>3 DEF IndInv, PromisedIsDelivered
  <1> QED
    BY <1>3, <1>4

-----------------------------------------------------------------------------
(* The inductive invariant, and what follows from it.                      *)

USE DEF IndInv

LEMMA InitInv == Init => IndInv
  <1> SUFFICES ASSUME Init PROVE IndInv
    OBVIOUS
  <1>1. TypeOK /\ LinesExist
    BY InitTypes
  <1>2. \A p \in Process : pc[p] \in {"check", "version", "ask"}
    BY DEF Init, FirstLabel
  <1>3. \A p \in Process : pc[p] = "ask" => task[p].command = "init"
    BY DEF Init, FirstLabel
  <1>4. IndexesAreSound
    BY <1>2 DEF Init, IndexesAreSound
  <1>5. UploadsAreSound /\ ReadsAreSound
    BY <1>2, <1>3 DEF UploadsAreSound, ReadsAreSound, Wrote, Uploads, Reads
  <1>6. /\ SettledIsKept /\ PublishedIsStored /\ LocalIndexIsComplete
        /\ PromisedIsListed /\ MissingIsFinal /\ PromisedIsDelivered
    BY DEF Init, SettledIsKept, PublishedIsStored, LocalIndexIsComplete, PromisedIsListed,
           MissingIsFinal, PromisedIsDelivered
  <1> QED
    BY <1>1, <1>4, <1>5, <1>6

LEMMA StepInv ==
  ASSUME IndInv, NEW p \in Process, Step(p)
  PROVE  IndInv'
  <1>1. Framed(p) /\ StoreGrows /\ LocalIndexType'
    BY StepIsFramed
  <1>2. Stepping(p)
    BY <1>1 DEF Stepping
  <1>3. TypeOK'
    BY <1>1 DEF Framed, StoreGrows, LocalIndexType, LocalTypes, StoreTypes, TypeOK
  <1>4. IndexesAreSound'
    BY <1>1 DEF Framed, StoreGrows, StoreIsSound, LoadedFirst, IndexesAreSound
  <1> QED
    BY <1>1, <1>2, <1>3, <1>4, UploadsStep, SettledStep, PublishedStep, LocalIndexStep,
       PromisedStep, ReadsStep, FinalStep, DeliveredStep DEF Framed

LEMMA StutterInv == IndInv /\ UNCHANGED vars => IndInv'
  <1> SUFFICES ASSUME IndInv, UNCHANGED vars PROVE IndInv'
    OBVIOUS
  <1> USE DEF vars, store, files, session, local, history
  <1>0. Lost' = Lost
    BY DEF Lost, Store!Lost
  <1>1. TypeOK' /\ LinesExist' /\ IndexesAreSound'
    BY <1>0 DEF TypeOK, LinesExist, IndexesAreSound
  <1>2. /\ UploadsAreSound' /\ SettledIsKept' /\ PublishedIsStored'
        /\ LocalIndexIsComplete' /\ PromisedIsListed'
    BY <1>0
    DEF UploadsAreSound, SettledIsKept, PublishedIsStored, LocalIndexIsComplete,
        PromisedIsListed, Available, GoodLocalIndex, PathOf, Wrote
  <1>3. ReadsAreSound' /\ MissingIsFinal' /\ PromisedIsDelivered'
    BY <1>0 DEF ReadsAreSound, MissingIsFinal, PromisedIsDelivered, GoodLocalIndex, PathOf
  <1> QED
    BY <1>1, <1>2, <1>3

\* IndInv holds of any processes that run any commands, with any faults: of
\* puts whose Exists, or whose every Write, fails (the lost blocks, which its
\* parts name) and of stores that read no index and answer from an empty one
\* (unread) as of every other.
THEOREM Inductive == Spec => []IndInv
  <1>1. ASSUME NEW p \in Process,
               \/ upSyncVersion(p) \/ cloneStore(p) \/ initRemoteStore(p)
               \/ downSyncVersion(p) \/ validateVersion(p) \/ cpVersionIndex(p)
               \/ createVersionStoreIndex(p)
               \/ WriteToURIFails(p) \/ EndProcess(p)
        PROVE  Step(p)
    BY <1>1, FailsOfCommands
    DEF Step, upSyncVersion, cloneStore, initRemoteStore, downSyncVersion, validateVersion,
        cpVersionIndex, createVersionStoreIndex, Upload, Download
  <1>2. IndInv /\ [Next]_vars => IndInv'
    BY <1>1, StepInv, StutterInv DEF Next
  <1> QED
    BY <1>2, InitInv, PTL DEF Spec

\* Every variable keeps its type.
THEOREM TypesOK == Spec => []TypeOK
  <1>1. IndInv => TypeOK
    OBVIOUS
  <1> QED
    BY <1>1, Inductive, PTL

\* WriteToURI of a version index (upSyncVersion, cloneStore) is reached only
\* when every chunk of the version is in a block that is stored, or in one that
\* a put lost because its Exists, or every Write of it, failed
\* (putStoredBlock).
THEOREM PublishedSafely == Spec => []PublishedIsStored
  <1>1. IndInv => PublishedIsStored
    OBVIOUS
  <1> QED
    BY <1>1, Inductive, PTL

\* When a command that exits with 0 has closed its store, store.lsi lists the
\* versions that it wrote or left out as valid, but for blocks of its own whose
\* every Write failed.
THEOREM UploadedSafely == Spec => []UploadedIsListed
  <1>1. IndInv => UploadedIsListed
    BY SettledIsListed DEF UploadedIsListed
  <1> QED
    BY <1>1, Inductive, PTL

\* A reader that starts after an upload exited with 0 finds every chunk, unless
\* a put lost a block with a chunk of the version (its Exists, or every Write,
\* failed), the reader's store could read no index, or it uses a version local
\* store index that createVersionStoreIndex wrote too early or from no index.
THEOREM DeliveredSafely == Spec => []PromisedIsDelivered
  <1>1. IndInv => PromisedIsDelivered
    OBVIOUS
  <1> QED
    BY <1>1, Inductive, PTL

\* A version local store index covers its version with stored blocks, also
\* while the upload that wrote it is still open: but for blocks that a put lost,
\* and at paths where createVersionStoreIndex, which writes whatever its store
\* answers, wrote the index of a version not yet uploaded, or of no store index
\* because the reads of it failed.
THEOREM LocalIndexSafely == Spec => []LocalIndexIsComplete
  <1>1. IndInv => LocalIndexIsComplete
    OBVIOUS
  <1> QED
    BY <1>1, Inductive, PTL
=============================================================================
