------------------------------ MODULE Versions ------------------------------
(***************************************************************************)
(* The commands of cmd/longtail, each a process of its own, over one block *)
(* store and the version indexes (.lvi) and version local store indexes    *)
(* (.lsi) kept beside it: upsync, cloneStore and init write the store,     *)
(* downsync, validate, cp and createVersionStoreIndex read it.             *)
(*                                                                         *)
(* The block store does what module BlockStore promises, which module      *)
(* RemoteStore keeps.  A version is its set of chunks, a block the set of  *)
(* chunks it holds, a store index a set of blocks.                         *)
(***************************************************************************)
EXTENDS Naturals, Sequences, FiniteSets

CONSTANTS Process,       \* commands started, each in its own process
          Tasks,         \* what they may be asked to do: functions of p
          Path,          \* paths of version indexes
          Chunk,         \* chunk hashes
          Content,       \* Content[path]: chunks of the version there
          MaxChunks,     \* maxChunksPerBlock
          MinUsage,      \* minBlockUsagePercent
          Old,           \* blocks that may be in the store beforehand
          MaxLost,       \* bound: blocks that may be lost
          NoIndex

\* "source": a version of the source store cannot be read; "exists", "write":
\* the Exists, or every Write, of a put fails, and the put succeeds all the same
\* (RemoteStore.ExistsFails, WriteFails); "read": a read of store.lsi, of the
\* version local store index or of a block of the store; "flush": a flush;
\* "uri": WriteToURI; "fail": any other call; "crash": the end of a process,
\* also by log.Fatal.
FaultKind == {"source", "exists", "write", "read", "flush", "uri", "fail", "crash"}

Block == {b \in SUBSET Chunk : b # {}}

Uploads == {"upsync", "cloneStore"}
Reads == {"downsync", "validate", "cp", "createVersionStoreIndex"}

\* local: a version local store index is written, or read by downsync.  Only
\* cloneStore has more than one line, init has none.  faults: what may fail.
Task == [command : Uploads \cup Reads \cup {"init"}, paths : Seq(Path), local : BOOLEAN,
         faults : SUBSET FaultKind]

\* A path is never used for two different versions.
ASSUME VersionsAssumption ==
    /\ Tasks \subseteq [Process -> Task]
    /\ \A t \in Tasks : \A p \in Process :
          /\ t[p].command = "init" <=> t[p].paths = <<>>
          /\ t[p].command # "cloneStore" => Len(t[p].paths) <= 1
    /\ IsFiniteSet(Chunk)
    /\ Content \in [Path -> SUBSET Chunk]
    /\ MaxChunks \in Nat \ {0}
    /\ MinUsage \in 0..100
    /\ Old \subseteq Block
    /\ MaxLost \in Nat
    /\ \A blocks \in SUBSET Block : NoIndex # blocks

VARIABLES stored, lost, listed, index, completed, status, \* of BlockStore
          published,  \* paths with a version index
          localIndex, \* localIndex[path]: store index at its .lsi, or NoIndex
          task,       \* task[p]: what p was asked to do
          loaded,     \* its store holds a store index
          pc, line,   \* of each process: label, line of the paths it is at
          need,       \* chunks it asks the store for
          existing, missing, \* existingStoreIndex, versionMissingStoreIndex
          flush,      \* its last flush of the store
          verdict,    \* the error it returns, if any
          settled,    \* history: paths it published or found to be valid
          promised,   \* history: it read a version index that an upload had
                      \* settled and returned success for
          dropped,    \* history: blocks that p lost because every Write failed
          unread      \* history: its store has read no store index and answered
                      \* from an empty one

store == <<stored, lost, listed, index, completed, status>>
files == <<published, localIndex>>
local == <<pc, line, need, existing, missing, flush, verdict>>
history == <<settled, promised, dropped, unread>>
session == <<task, loaded>>
vars == <<store, files, session, local, history>>

Store == INSTANCE BlockStore

Label == {"check", "version", "ask", "write", "publish", "local", "wait",
          "deliver", "close"}

Is(p, commands) == task[p].command \in commands
PathOf(p) == task[p].paths[line[p]]
MayFail(p, kind) == kind \in task[p].faults

FirstLabel(command) ==
    CASE command = "cloneStore" -> "check" [] command = "init" -> "ask"
      [] OTHER -> "version"

Init ==
    /\ stored \in SUBSET Old
    /\ lost = [p \in Process |-> {}]
    /\ listed \in SUBSET stored
    /\ index = [p \in Process |-> {}]
    /\ completed = [p \in Process |-> {}]
    /\ status = [p \in Process |-> "open"]
    /\ published = {}
    /\ localIndex = [path \in Path |-> NoIndex]
    /\ task \in Tasks
    /\ loaded = [p \in Process |-> FALSE]
    /\ pc = [p \in Process |-> FirstLabel(task[p].command)]
    /\ line = [p \in Process |-> 1]
    /\ need = [p \in Process |-> {}]
    /\ existing = [p \in Process |-> {}]
    /\ missing = [p \in Process |-> {}]
    /\ flush = [p \in Process |-> "none"]
    /\ verdict = [p \in Process |-> "ok"]
    /\ settled = [p \in Process |-> {}]
    /\ promised = [p \in Process |-> FALSE]
    /\ dropped = [p \in Process |-> {}]
    /\ unread = [p \in Process |-> FALSE]

At(p, commands, label) == status[p] = "open" /\ Is(p, commands) /\ pc[p] = label

Goto(p, label) == pc' = [pc EXCEPT ![p] = label]

Dispose(p) ==
    /\ need' = [need EXCEPT ![p] = {}]
    /\ existing' = [existing EXCEPT ![p] = {}]
    /\ missing' = [missing EXCEPT ![p] = {}]

\* The command returns; its deferred calls close the store.
Return(p, result) ==
    /\ Goto(p, "close")
    /\ verdict' = [verdict EXCEPT ![p] = result]
    /\ Dispose(p)
    /\ UNCHANGED line

\* cloneStore goes on with its next line, or returns.
NextLine(p) ==
    /\ Goto(p, IF line[p] < Len(task[p].paths) THEN "check" ELSE "close")
    /\ line' = [line EXCEPT ![p] = IF @ < Len(task[p].paths) THEN @ + 1 ELSE @]
    /\ Dispose(p)
    /\ UNCHANGED <<flush, verdict>>

Succeeded(p) == status[p] = "closed" /\ verdict[p] = "ok"

-----------------------------------------------------------------------------
(* GetExistingContent.                                                     *)

Covers(blocks, chunks) == chunks \subseteq UNION blocks

\* The blocks of an index that hold enough of the chunks asked for; blocks are
\* taken to have chunks of one size.
Usable(view, chunks, percent) ==
    {b \in view : /\ b \cap chunks # {}
                  /\ 100 * Cardinality(b \cap chunks) >= percent * Cardinality(b)}

\* The store index returned covers what the usable blocks cover.
Answers(view, chunks, percent) ==
    LET usable == Usable(view, chunks, percent)
    IN {blocks \in SUBSET usable : Covers(blocks, chunks \cap UNION usable)}

PackWithEmpty(blocks, chunks) ==
    {new \cup {{}} : new \in {n \in SUBSET Block : UNION n = chunks \ UNION blocks}}

\* CreateMissingContent: the other chunks, packed into new blocks.
MissingContent(blocks, chunks) ==
    LET rest == chunks \ UNION blocks
    IN {new \in SUBSET {b \in Block : b \subseteq rest /\ Cardinality(b) <= MaxChunks} :
          /\ UNION new = rest
          /\ \A b, c \in new : b # c => b \cap c = {}}

\* Blocks of other commands that may be written while p builds its index, and
\* that it then does not find (module BuiltIndex).
Recent(p) == UNION {missing[q] : q \in Process \ {p}}

\* A store opened for writing builds its index when it is init's, when nothing
\* is listed, or when the read of store.lsi fails.
MayRebuild(p) == Is(p, {"init"}) \/ listed = {} \/ MayFail(p, "read")

\* The blocks it then finds; one that it fails to read is left out.
Builds(p) ==
    {built \in SUBSET stored : MayFail(p, "read") \/ stored \ Recent(p) \subseteq built}

\* The index it answers from: at first the listed blocks, or those it finds
\* and, when it succeeds in adding them, the listed ones; then the same, with
\* blocks it put.
Views(p) ==
    IF loaded[p] THEN {index[p] \cup sent : sent \in SUBSET completed[p]}
    ELSE (IF listed = {} \/ Is(p, {"init"}) THEN {} ELSE {listed})
         \cup (IF MayRebuild(p) THEN UNION {{built, built \cup listed} : built \in Builds(p)}
               ELSE {})

\* ... and what it has listed for it.
LoadIndex(p, view) ==
    \E blocks \in {{}, view} :
        /\ blocks # {} => ~loaded[p] /\ MayRebuild(p)
        /\ Store!UpdateIndex(p, blocks, view)
        /\ loaded' = [loaded EXCEPT ![p] = TRUE]

\* A store opened read-only answers from the version local store index, or from
\* the listed blocks, or, see AskUnread, from no blocks at all.
ReadViews(p) ==
    IF Is(p, {"downsync"}) /\ task[p].local /\ localIndex[PathOf(p)] # NoIndex
    THEN {localIndex[PathOf(p)]} \cup (IF MayFail(p, "read") THEN {listed} ELSE {})
    ELSE {listed}

-----------------------------------------------------------------------------
(* upsync, cloneStore and init.                                            *)

\* upsync has indexed the source folder, cloneStore has recreated the version
\* from the source store or from its zip.
TakeVersion(p) ==
    /\ At(p, Uploads, "version")
    /\ need' = [need EXCEPT ![p] = Content[PathOf(p)]]
    /\ Goto(p, "ask")
    /\ UNCHANGED <<store, files, session, line, existing, missing, flush, verdict, history>>

\* cloneStore leaves out a version that it finds valid in the target store.
SkipValid(p) ==
    /\ At(p, {"cloneStore"}, "check")
    /\ PathOf(p) \in published
    /\ \E view \in Views(p) :
          /\ LoadIndex(p, view)
          /\ \E blocks \in Answers(view, Content[PathOf(p)], 0) :
                Covers(blocks, Content[PathOf(p)])
    /\ settled' = [settled EXCEPT ![p] = @ \cup {PathOf(p)}]
    /\ NextLine(p)
    /\ UNCHANGED <<files, task, promised, dropped, unread>>

\* ... which it also does, for good, when neither source can be read.
SkipUnreadable(p) ==
    /\ At(p, {"cloneStore"}, "version")
    /\ MayFail(p, "source")
    /\ NextLine(p)
    /\ UNCHANGED <<store, files, session, history>>

\* There is no version index at the target path, or not a valid one, or one of
\* the calls that would tell fails.
Rebuild(p) ==
    /\ At(p, {"cloneStore"}, "check")
    /\ \/ /\ PathOf(p) \notin published \/ MayFail(p, "fail")
          /\ UNCHANGED <<store, loaded>>
       \/ /\ PathOf(p) \in published
          /\ \E view \in Views(p) :
                /\ LoadIndex(p, view)
                /\ \E blocks \in Answers(view, Content[PathOf(p)], 0) :
                      ~Covers(blocks, Content[PathOf(p)])
    /\ Goto(p, "version")
    /\ UNCHANGED <<files, task, line, need, existing, missing, flush, verdict, history>>

AskExisting(p) ==
    /\ At(p, Uploads \cup {"init"}, "ask")
    /\ \E view \in Views(p) :
          /\ LoadIndex(p, view)
          /\ \E blocks \in Answers(view, need[p], MinUsage) :
                /\ existing' = [existing EXCEPT ![p] = blocks]
                /\ \E new \in MissingContent(blocks, need[p]) :
                      missing' = [missing EXCEPT ![p] = new]
    /\ Goto(p, "write")
    /\ UNCHANGED <<files, task, line, need, flush, verdict, history>>

\* WriteContent, one PutStoredBlock for each missing block.
WriteBlock(p, b) ==
    /\ At(p, Uploads, "write")
    /\ b \in missing[p]
    /\ Store!StoreBlock(b, {})
    /\ UNCHANGED <<files, session, local, history>>

\* It returns success for a block that is written, or that its store lost.
PutDone(p, b) ==
    /\ At(p, Uploads, "write")
    /\ b \in missing[p]
    /\ Store!Complete(p, b)
    /\ UNCHANGED <<files, session, local, history>>

\* The Exists of a block that is not stored fails: the put goes on without
\* writing the block.
PutUnchecked(p, b) ==
    /\ At(p, Uploads, "write")
    /\ MayFail(p, "exists")
    /\ b \in missing[p] \ stored /\ Cardinality(Store!Lost) < MaxLost
    /\ UNCHANGED stored /\ Store!LoseBlock(p, b)
    /\ UNCHANGED <<files, session, local, history>>

\* Every Write fails, the last of them perhaps after it wrote the block: the
\* put returns success, and its block index is not sent.
PutDropped(p, b) ==
    /\ At(p, Uploads, "write")
    /\ MayFail(p, "write")
    /\ b \in missing[p] \ stored /\ Cardinality(Store!Lost) < MaxLost
    /\ Store!LoseBlock(p, b)
    /\ dropped' = [dropped EXCEPT ![p] = @ \cup {b}]
    /\ UNCHANGED <<files, session, local, settled, promised, unread>>

FlushBeforePuts(p) ==
    /\ At(p, Uploads \cup {"init"}, "write")
    /\ flush' = [flush EXCEPT ![p] = "open"]
    /\ Goto(p, IF Is(p, {"cloneStore"}) THEN "publish" ELSE "wait")
    /\ UNCHANGED <<store, files, session, line, need, existing, missing, verdict, history>>

\* Every put was answered: the store is flushed.  upsync and init wait for it
\* now, cloneStore when it has written the version index.
StartFlush(p) ==
    /\ At(p, Uploads \cup {"init"}, "write")
    /\ missing[p] \subseteq completed[p] \cup dropped[p]
    /\ flush' = [flush EXCEPT ![p] = "open"]
    /\ Goto(p, IF Is(p, {"cloneStore"}) THEN "publish" ELSE "wait")
    /\ UNCHANGED <<store, files, session, line, need, existing, missing, verdict, history>>

\* Block indexes may still be on their way to the index worker, so that a
\* flush lists any part of what was put, and nothing if none arrived.
FlushDone(p) ==
    /\ status[p] = "open" /\ flush[p] = "open"
    /\ \/ Store!UpdateIndex(p, {}, index[p])
       \/ \E sent \in SUBSET completed[p] :
             Store!UpdateIndex(p, index[p] \cup sent, index[p] \cup sent \cup listed)
    /\ flush' = [flush EXCEPT ![p] = "ok"]
    /\ UNCHANGED <<files, session, pc, line, need, existing, missing, verdict, history>>

\* The index worker keeps what it failed to save.
FlushFails(p) ==
    /\ status[p] = "open" /\ flush[p] = "open"
    /\ MayFail(p, "flush")
    /\ \E blocks \in {{}, index[p] \cup completed[p]} :
          Store!UpdateIndex(p, blocks, index[p])
    /\ flush' = [flush EXCEPT ![p] = "error"]
    /\ UNCHANGED <<files, session, pc, line, need, existing, missing, verdict, history>>

\* The error of a flush is wrapped with the errno of an earlier call that
\* succeeded: the command returns nil.
WaitFlush(p) ==
    /\ At(p, Uploads \cup {"init"}, "wait")
    /\ flush[p] # "open"
    /\ IF flush[p] = "error" \/ Is(p, {"init"}) THEN Return(p, "ok") /\ UNCHANGED flush
       ELSE IF Is(p, {"cloneStore"}) THEN NextLine(p)
       ELSE /\ Goto(p, "publish")
            /\ UNCHANGED <<line, need, existing, missing, flush, verdict>>
    /\ UNCHANGED <<store, files, session, history>>

\* WriteToURI of the version index.
Publish(p) ==
    /\ At(p, Uploads, "publish")
    /\ published' = published \cup {PathOf(p)}
    /\ settled' = [settled EXCEPT ![p] = @ \cup {PathOf(p)}]
    /\ Goto(p, "local")
    /\ UNCHANGED <<store, localIndex, session, line, need, existing, missing, flush,
                   verdict, promised, dropped, unread>>

AfterLocal(p) ==
    IF Is(p, {"cloneStore"})
    THEN Goto(p, "wait") /\ UNCHANGED <<line, need, existing, missing, verdict>>
    ELSE Return(p, "ok")

WriteMissingOnly(p) ==
    /\ At(p, Uploads, "local")
    /\ localIndex' = IF task[p].local THEN [localIndex EXCEPT ![PathOf(p)] = missing[p]]
                     ELSE localIndex
    /\ AfterLocal(p)
    /\ UNCHANGED <<store, published, session, flush, history>>

WriteLocalIndex(p) ==
    /\ At(p, Uploads, "local")
    /\ localIndex' = IF task[p].local
                     THEN [localIndex EXCEPT ![PathOf(p)] = existing[p] \cup missing[p]]
                     ELSE localIndex
    /\ AfterLocal(p)
    /\ UNCHANGED <<store, published, session, flush, history>>

\* cloneStore wraps the error of WriteToURI with an errno that is 0.
WriteToURIFails(p) ==
    /\ MayFail(p, "uri")
    /\ \/ At(p, Uploads, "publish")
       \/ At(p, Uploads, "local") /\ task[p].local
       \/ At(p, {"createVersionStoreIndex"}, "deliver")
    /\ Return(p, IF Is(p, {"cloneStore"}) THEN "ok" ELSE "error")
    /\ UNCHANGED <<store, files, session, flush, history>>

\* Any other call that fails makes the command return its error, at the labels
\* below from which its function has such a return.
FailsAt(p, labels) ==
    /\ MayFail(p, "fail")
    /\ status[p] = "open" /\ pc[p] \in labels
    /\ Return(p, "error")
    /\ UNCHANGED <<store, files, session, flush, history>>

LocalLabel(p) == IF task[p].local THEN {"local"} ELSE {}

upSyncFails(p) == FailsAt(p, {"version", "ask", "write", "publish"} \cup LocalLabel(p))

cloneFails(p) == FailsAt(p, {"version", "ask", "write"} \cup LocalLabel(p))

initFails(p) == FailsAt(p, {"ask", "write"})

ReadFails(p) == FailsAt(p, {"version", "ask", "deliver"})

-----------------------------------------------------------------------------
(* downsync, validate, cp and createVersionStoreIndex.                     *)

\* downsync asks for the chunks that the target folder lacks.
ReadVersion(p) ==
    /\ At(p, Reads, "version")
    /\ PathOf(p) \in published
    /\ need' \in {[need EXCEPT ![p] = chunks] :
          chunks \in IF Is(p, {"downsync"}) THEN SUBSET Content[PathOf(p)]
                     ELSE {Content[PathOf(p)]}}
    /\ promised' = [promised EXCEPT ![p] =
          \E q \in Process : Succeeded(q) /\ PathOf(p) \in settled[q]]
    /\ Goto(p, "ask")
    /\ UNCHANGED <<store, files, session, line, existing, missing, flush, verdict,
                   settled, dropped, unread>>

NoVersion(p) ==
    /\ At(p, Reads, "version")
    /\ PathOf(p) \notin published
    /\ Return(p, "error")
    /\ UNCHANGED <<store, files, session, flush, history>>

AskReadByUsage(p) ==
    /\ At(p, Reads, "ask")
    /\ \E view \in ReadViews(p) : \E blocks \in Answers(view, need[p], MinUsage) :
          existing' = [existing EXCEPT ![p] = blocks]
    /\ Goto(p, "deliver")
    /\ UNCHANGED <<store, files, session, line, need, missing, flush, verdict, history>>

AskRead(p) ==
    /\ At(p, Reads, "ask")
    /\ \E view \in ReadViews(p) : \E blocks \in Answers(view, need[p], 0) :
          existing' = [existing EXCEPT ![p] = blocks]
    /\ Goto(p, "deliver")
    /\ UNCHANGED <<store, files, session, line, need, missing, flush, verdict, history>>

\* Every read of a store index fails, which is only logged: the store answers
\* from an empty one.
AskUnread(p) ==
    /\ At(p, Reads, "ask")
    /\ MayFail(p, "read")
    /\ existing' = [existing EXCEPT ![p] = {}]
    /\ unread' = [unread EXCEPT ![p] = TRUE]
    /\ Goto(p, "deliver")
    /\ UNCHANGED <<store, files, session, line, need, missing, flush, verdict,
                   settled, promised, dropped>>

\* ChangeVersion and the reads of cp fetch the blocks, cp only those of one
\* file; ValidateStore compares indexes.
Deliver(p) ==
    /\ At(p, Reads \ {"createVersionStoreIndex"}, "deliver")
    /\ \E part \in IF Is(p, {"cp"}) THEN SUBSET need[p] ELSE {need[p]} :
          LET blocks == IF Is(p, {"validate"}) THEN existing[p]
                        ELSE existing[p] \cap stored
          IN Return(p, IF Covers(blocks, part) THEN "ok" ELSE "missing")
    /\ UNCHANGED <<store, files, session, flush, history>>

\* createVersionStoreIndex writes the store index it was given, also when it
\* does not cover the version.
WriteVersionStoreIndex(p) ==
    /\ At(p, {"createVersionStoreIndex"}, "deliver")
    /\ localIndex' = [localIndex EXCEPT ![PathOf(p)] = existing[p]]
    /\ Return(p, "ok")
    /\ UNCHANGED <<store, published, session, flush, history>>

-----------------------------------------------------------------------------
(* The end of a process.                                                   *)

\* Close lists what is not listed yet ...
SaveAtClose(p) ==
    /\ status[p] = "open" /\ pc[p] = "close"
    /\ Store!UpdateIndex(p, completed[p] \cup index[p], index[p])
    /\ UNCHANGED <<files, session, local, history>>

CloseUnsaved(p) ==
    /\ pc[p] = "close" /\ status[p] = "open"
    /\ status' = [status EXCEPT ![p] = "closed"]
    /\ UNCHANGED <<stored, lost, listed, index, completed, files, session, local, history>>

\* ... and returns, or else ends the process.
Close(p) ==
    /\ pc[p] = "close"
    /\ Store!Close(p)
    /\ UNCHANGED <<files, session, local, history>>

Die(p) ==
    /\ MayFail(p, "crash")
    /\ Store!Die(p)
    /\ UNCHANGED <<files, session, local, history>>

-----------------------------------------------------------------------------
(* The commands.                                                           *)

WriteContent(p) ==
    \E b \in Block :
        WriteBlock(p, b) \/ PutDone(p, b) \/ PutUnchecked(p, b) \/ PutDropped(p, b)

FlushStore(p) == StartFlush(p) \/ FlushDone(p) \/ FlushFails(p) \/ WaitFlush(p)

Upload(p) ==
    \/ TakeVersion(p) \/ AskExisting(p) \/ WriteContent(p) \/ FlushStore(p)
    \/ Publish(p) \/ WriteLocalIndex(p)

AskStore(p) == ReadVersion(p) \/ NoVersion(p) \/ AskRead(p) \/ AskUnread(p) \/ ReadFails(p)

Download(p) == AskStore(p) \/ Deliver(p)

upSyncVersion(p) == Is(p, {"upsync"}) /\ (Upload(p) \/ upSyncFails(p))

cloneStore(p) ==
    /\ Is(p, {"cloneStore"})
    /\ Upload(p) \/ SkipValid(p) \/ SkipUnreadable(p) \/ Rebuild(p) \/ cloneFails(p)

initRemoteStore(p) ==
    /\ Is(p, {"init"})
    /\ AskExisting(p) \/ FlushStore(p) \/ initFails(p)

downSyncVersion(p) == Is(p, {"downsync"}) /\ Download(p)

validateVersion(p) == Is(p, {"validate"}) /\ Download(p)

cpVersionIndex(p) == Is(p, {"cp"}) /\ Download(p)

createVersionStoreIndex(p) ==
    /\ Is(p, {"createVersionStoreIndex"})
    /\ AskStore(p) \/ WriteVersionStoreIndex(p)

EndProcess(p) == SaveAtClose(p) \/ Close(p) \/ Die(p)

Next ==
    \E p \in Process :
        \/ upSyncVersion(p) \/ cloneStore(p) \/ initRemoteStore(p)
        \/ downSyncVersion(p) \/ validateVersion(p) \/ cpVersionIndex(p)
        \/ createVersionStoreIndex(p)
        \/ WriteToURIFails(p) \/ EndProcess(p)

Spec == Init /\ [][Next]_vars

-----------------------------------------------------------------------------
(* Properties.                                                             *)

\* Every variable keeps its type.
TypeOK ==
    /\ stored \subseteq Block
    /\ lost \in [Process -> SUBSET Block]
    /\ listed \subseteq Block
    /\ index \in [Process -> SUBSET Block]
    /\ completed \in [Process -> SUBSET Block]
    /\ status \in [Process -> {"open", "closed", "dead"}]
    /\ published \subseteq Path
    /\ localIndex \in [Path -> (SUBSET Block) \cup {NoIndex}]
    /\ task \in Tasks
    /\ loaded \in [Process -> BOOLEAN]
    /\ pc \in [Process -> Label]
    /\ line \in [Process -> Nat \ {0}]
    /\ need \in [Process -> SUBSET Chunk]
    /\ existing \in [Process -> SUBSET Block]
    /\ missing \in [Process -> SUBSET Block]
    /\ flush \in [Process -> {"none", "open", "ok", "error"}]
    /\ verdict \in [Process -> {"ok", "error", "missing"}]
    /\ settled \in [Process -> SUBSET Path]
    /\ promised \in [Process -> BOOLEAN]
    /\ dropped \in [Process -> SUBSET Block]
    /\ unread \in [Process -> BOOLEAN]

Lost == Store!Lost

Available(path, blocks) == Covers(blocks \cup Lost, Content[path])

\* A version index is written only when every chunk of the version is stored,
\* whatever fails or crashes, and although blocks may be another process's or
\* a dead process's.  Two kinds of blocks may be missing, whose puts return
\* success without storing them: one whose Exists failed, and one whose every
\* Write failed.
PublishedIsStored == \A path \in published : Available(path, stored)

\* A command that exits with 0 has every version that it published, or found
\* valid, listed in store.lsi, whatever its flushes did: only blocks of its own
\* whose every Write failed are not listed.
UploadedIsListed ==
    \A p \in Process : Succeeded(p) =>
        \A path \in settled[p] : Covers(listed \cup dropped[p], Content[path])

\* A version local store index counts on being written by an upload, or by
\* createVersionStoreIndex for a version uploaded with success and from a
\* store index that it did read.
GoodLocalIndex(path) ==
    \A q \in Process :
        Is(q, {"createVersionStoreIndex"}) /\ PathOf(q) = path =>
            pc[q] # "close" \/ (promised[q] /\ ~unread[q])

\* A version index that was read after its upload exited with 0 can be
\* downloaded, validated and copied from.  It can not when a put lost a block
\* with one of its chunks (its Exists, or every Write of it, failed), when the
\* store could read no index and answered from an empty one, or when downsync
\* uses a version local store index that createVersionStoreIndex wrote of a
\* version not yet uploaded or from such an empty index.
PromisedIsDelivered ==
    \A p \in Process :
        promised[p] /\ verdict[p] = "missing" =>
            \/ \E b \in Lost : b \cap Content[PathOf(p)] # {}
            \/ unread[p]
            \/ task[p].local /\ ~GoodLocalIndex(PathOf(p))

\* A version local store index covers its version with blocks that are stored,
\* also for a downsync that reads it while the upload that wrote it is still
\* open.  Exempt are blocks that a put lost (its Exists, or every Write of it,
\* failed), and paths where createVersionStoreIndex wrote the index of a
\* version not yet uploaded, or wrote what a store answered that could read no
\* store index.
LocalIndexIsComplete ==
    \A path \in Path :
        localIndex[path] # NoIndex /\ GoodLocalIndex(path) =>
            /\ Available(path, localIndex[path])
            /\ localIndex[path] \subseteq stored \cup Lost

\* An upload that exits with 0 has published its version (upsync is to
\* "Upload a folder").
UploadCompletes ==
    \A p \in Process :
        Succeeded(p) /\ Is(p, {"upsync"}) => PathOf(p) \in published

-----------------------------------------------------------------------------
(* The inductive invariant.                                                *)

LinesExist == \A p \in Process : Is(p, {"init"}) \/ line[p] \in DOMAIN task[p].paths

\* No index names a block that is neither stored nor lost, and a store that was
\* closed has left nothing unlisted.
IndexesAreSound ==
    /\ listed \subseteq stored \cup Lost
    /\ \A p \in Process :
          /\ index[p] \cup completed[p] \subseteq stored \cup Lost
          /\ dropped[p] \subseteq lost[p]
          /\ ~loaded[p] => index[p] = {}
          /\ pc[p] = "write" \/ flush[p] # "none" => loaded[p]
          /\ status[p] = "closed" => index[p] \cup completed[p] \subseteq listed

Wrote(p) == pc[p] \in {"publish", "local"} \/ (pc[p] = "wait" /\ Is(p, {"upsync"}))

\* What an upload asked for is in blocks of its index and blocks it puts.
UploadsAreSound ==
    \A p \in Process : Is(p, Uploads) =>
        /\ pc[p] = "ask" => need[p] = Content[PathOf(p)]
        /\ pc[p] = "write" \/ Wrote(p) =>
              /\ need[p] = Content[PathOf(p)]
              /\ existing[p] \subseteq index[p]
              /\ Covers(existing[p] \cup missing[p], need[p])
        /\ Wrote(p) => missing[p] \subseteq completed[p] \cup dropped[p]

SettledIsKept ==
    \A p \in Process : \A path \in settled[p] :
        Covers(index[p] \cup completed[p] \cup dropped[p], Content[path])

PromisedIsListed ==
    \A p \in Process : promised[p] => Is(p, Reads) /\ Available(PathOf(p), listed)

\* What a reader has asked for, and what it was answered.
ReadsAreSound ==
    \A p \in Process : Is(p, Reads) =>
        /\ pc[p] \in {"ask", "deliver"} =>
              /\ need[p] \subseteq Content[PathOf(p)]
              /\ Is(p, {"downsync"}) \/ need[p] = Content[PathOf(p)]
        /\ pc[p] = "deliver" /\ promised[p] /\ ~unread[p]
              /\ (Is(p, {"downsync"}) /\ task[p].local => GoodLocalIndex(PathOf(p))) =>
              /\ existing[p] \subseteq stored \cup Lost
              /\ Covers(existing[p] \cup Lost, need[p])

MissingIsFinal == \A p \in Process : verdict[p] = "missing" => pc[p] = "close"

IndInv ==
    /\ TypeOK
    /\ LinesExist
    /\ IndexesAreSound
    /\ UploadsAreSound
    /\ SettledIsKept
    /\ PublishedIsStored
    /\ LocalIndexIsComplete
    /\ PromisedIsListed
    /\ ReadsAreSound
    /\ MissingIsFinal
    /\ PromisedIsDelivered
=============================================================================
