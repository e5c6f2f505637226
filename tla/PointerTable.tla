---------------------------- MODULE PointerTable ----------------------------
(***************************************************************************)
(* The table that hands Go objects through the C library: SavePointer,     *)
(* RestorePointer and UnrefPointer of longtaillib, called by many          *)
(* goroutines and C threads without a lock, and the proxies that use them: *)
(* completion callbacks, progress, path filters, block stores.             *)
(*                                                                         *)
(* SavePointer looks for a free slot with an atomic counter and then takes *)
(* the slot; between the two the slot still looks free.  Reads and writes  *)
(* of one slot are taken to be atomic.                                     *)
(***************************************************************************)
EXTENDS Naturals

CONSTANTS Object,   \* Go objects handed to C, each at most once
          Size,     \* slots of pointerStore, 1024
          Width,    \* values of the counter, 2^32
          Forgettable, \* those whose caller may give up on them, or never
                       \* does (the logger of SetLogger)
          Free, Nothing

ASSUME TableAssumption ==
    /\ Size \in Nat \ {0}
    /\ \E k \in 1..Width : Width = Size * k
    /\ Width \in Nat \ {0}
    /\ Forgettable \subseteq Object
    /\ Free \notin Object /\ Nothing \notin Object /\ Nothing # Free

VARIABLES pointerIndex, \* the counter
          pointerStore, \* pointerStore[i]: an object, or Free (nil)
          pc,           \* of each object: where its handle has got to
          slot,         \* slot[o]: newPointerIndex, then the handle of o
          start,        \* start[o]: startPointerIndex
          restored,     \* what RestorePointer returned last for its handle
          age,          \* history: numbers drawn since o has drawn its last,
                        \* up to Size
          crowded,      \* history: an object has looked at one slot while
                        \* the others drew Size numbers
          alone,        \* history: no other object has drawn a number since
                        \* o began to look for a slot
          found         \* history: the slots o has found taken, while alone

history == <<age, crowded, alone, found>>
vars == <<pointerIndex, pointerStore, pc, slot, start, restored, history>>

Index == 0..(Size - 1)

\* "probe": looks for a slot; "claim": found one free, is about to take it;
\* "nil": got no handle; "forgotten": nobody is to dispose of it any more.
Label == {"unmade", "probe", "claim", "live", "nil", "forgotten", "panic", "disposed"}

Looking == {o \in Object : pc[o] \in {"probe", "claim"}}

Init ==
    /\ pointerIndex = 0
    /\ pointerStore = [i \in Index |-> Free]
    /\ pc = [o \in Object |-> "unmade"]
    /\ slot = [o \in Object |-> 0]
    /\ start = [o \in Object |-> 0]
    /\ restored = [o \in Object |-> Nothing]
    /\ age = [o \in Object |-> 0]
    /\ crowded = FALSE
    /\ alone = [o \in Object |-> FALSE]
    /\ found = [o \in Object |-> {}]

Goto(o, label) == pc' = [pc EXCEPT ![o] = label]

DrawnUnwrapped == (pointerIndex + 1) % (Size + 1)

Drawn == ((pointerIndex + 1) % Width) % Size

\* atomic.AddUint32(&pointerIndex, 1)) % 1024
Draw(o, undisturbed, taken) ==
    /\ pointerIndex' = (pointerIndex + 1) % Width
    /\ slot' = [slot EXCEPT ![o] = Drawn]
    /\ age' = [q \in Object |-> IF q \notin Looking \ {o} THEN 0
                               ELSE IF age[q] < Size THEN age[q] + 1 ELSE Size]
    /\ crowded' = (crowded \/ \E q \in Looking \ {o} : age[q] + 1 = Size)
    /\ alone' = [q \in Object |-> q = o /\ undisturbed]
    /\ found' = [q \in Object |-> IF alone'[q] THEN taken ELSE {}]

SavePointer(o) ==
    /\ pc[o] = "unmade"
    /\ Draw(o, TRUE, {})
    /\ start' = [start EXCEPT ![o] = Drawn]
    /\ Goto(o, "probe")
    /\ UNCHANGED <<pointerStore, restored>>

StopOneEarly(o) ==
    /\ pc[o] = "probe"
    /\ pointerStore[slot[o]] # Free
    /\ Draw(o, alone[o], found[o] \cup {slot[o]})
    /\ Goto(o, IF (Drawn + 1) % Size = start[o] THEN "nil" ELSE "probe")
    /\ UNCHANGED <<pointerStore, start, restored>>

\* The slot is taken: the next number, unless the search came round.
NextSlot(o) ==
    /\ pc[o] = "probe"
    /\ pointerStore[slot[o]] # Free
    /\ Draw(o, alone[o], found[o] \cup {slot[o]})
    /\ Goto(o, IF Drawn = start[o] THEN "nil" ELSE "probe")
    /\ UNCHANGED <<pointerStore, start, restored>>

FindUnchecked(o) ==
    /\ pc[o] = "probe"
    /\ Goto(o, "claim")
    /\ UNCHANGED <<pointerIndex, pointerStore, slot, start, restored, history>>

FindSlot(o) ==
    /\ pc[o] = "probe"
    /\ pointerStore[slot[o]] = Free
    /\ Goto(o, "claim")
    /\ UNCHANGED <<pointerIndex, pointerStore, slot, start, restored, history>>

TakeSlot(o) ==
    /\ pc[o] = "claim"
    /\ pointerStore' = [pointerStore EXCEPT ![slot[o]] = o]
    /\ Goto(o, "live")
    /\ UNCHANGED <<pointerIndex, slot, start, restored, history>>

\* A callback of the C library: OnComplete, OnProgress, Include, or a call of
\* the block store.  A nil interface fails its type assertion; that the panic
\* ends the process is left out.
RestorePointer(o) ==
    /\ pc[o] = "live"
    /\ restored' = [restored EXCEPT ![o] = pointerStore[slot[o]]]
    /\ IF restored'[o] = Free THEN Goto(o, "panic") ELSE UNCHANGED pc
    /\ UNCHANGED <<pointerIndex, pointerStore, slot, start, history>>

RestoreNil(o) ==
    /\ pc[o] = "nil"
    /\ Goto(o, "panic")
    /\ UNCHANGED <<pointerIndex, pointerStore, slot, start, restored, history>>

Keep(o) ==
    /\ pc[o] = "live"
    /\ Goto(o, "disposed")
    /\ UNCHANGED <<pointerIndex, pointerStore, slot, start, restored, history>>

\* Dispose, after OnComplete has returned, or of a proxy.
UnrefPointer(o) ==
    /\ pc[o] = "live"
    /\ pointerStore' = [pointerStore EXCEPT ![slot[o]] = Free]
    /\ Goto(o, "disposed")
    /\ UNCHANGED <<pointerIndex, slot, start, restored, history>>

\* A call that took a completion callback returns an error: its caller gives
\* up without disposing of the callback, which keeps its slot.
Forget(o) ==
    /\ o \in Forgettable
    /\ pc[o] = "live"
    /\ Goto(o, "forgotten")
    /\ UNCHANGED <<pointerIndex, pointerStore, slot, start, restored, history>>

Save(o) == SavePointer(o) \/ NextSlot(o) \/ FindSlot(o) \/ TakeSlot(o)

Next ==
    \E o \in Object :
        \/ Save(o)
        \/ RestorePointer(o) \/ RestoreNil(o) \/ UnrefPointer(o) \/ Forget(o)

Safety == Init /\ [][Next]_vars

\* Threads are scheduled, and what C was given it disposes of in the end.
Fairness ==
    \A o \in Object :
        /\ WF_vars(NextSlot(o) \/ FindSlot(o) \/ TakeSlot(o))
        /\ WF_vars(UnrefPointer(o))

Spec == Safety /\ Fairness

-----------------------------------------------------------------------------
(* Properties.                                                             *)

\* Every variable keeps its type.
TypeOK ==
    /\ pointerIndex \in 0..(Width - 1)
    /\ pointerStore \in [Index -> Object \cup {Free}]
    /\ pc \in [Object -> Label]
    /\ slot \in [Object -> Index]
    /\ start \in [Object -> Index]
    /\ restored \in [Object -> Object \cup {Free, Nothing}]
    /\ age \in [Object -> 0..Size]
    /\ crowded \in BOOLEAN
    /\ alone \in [Object -> BOOLEAN]
    /\ found \in [Object -> SUBSET Index]

\* A callback reaches the object it was made for, and no other one, however
\* many threads look for a slot and give one up at the same time, and although
\* the counter overflows: unless 1024 numbers were drawn while one object looked
\* at one slot.
RestoresOwn == ~crowded => \A o \in Object : restored[o] \in {Nothing, o}

\* SavePointer gives up only after it has found every slot of the table taken,
\* each at some moment of its search, while others take and free slots and use
\* theirs: as long as no other one draws a number meanwhile.  The searches of
\* others share the counter, and a search that skips slots for them may give up
\* although a slot is free.
FailsOnlyWhenFull ==
    [][\A o \in Object :
          pc[o] = "probe" /\ pc'[o] = "nil" /\ alone[o] => found'[o] = Index]_vars

\* SavePointer returns, when callbacks are disposed of in the end and fewer are
\* forgotten than there are slots: also when others take the slots that it
\* finds, and the table is full meanwhile.  The objects are finitely many, so
\* that again and again none looks for a slot.
SavesReturn == []<>(Looking = {})

-----------------------------------------------------------------------------
(* The inductive invariant.                                                *)

\* Until then, the objects that look at a slot have drawn the last numbers,
\* each a different one.
Position == pointerIndex % Size

LookApart ==
    /\ \A o \in Looking :
          /\ age[o] < Size
          /\ slot[o] + age[o] \in {Position, Position + Size}
    /\ \A o, q \in Looking : slot[o] = slot[q] => o = q

SlotsAreOwned ==
    \A o \in Object :
        /\ pc[o] = "claim" => pointerStore[slot[o]] = Free
        /\ pc[o] \in {"live", "forgotten"} => pointerStore[slot[o]] = o

IndInv == TypeOK /\ (~crowded => LookApart /\ SlotsAreOwned /\ RestoresOwn)

\* The slots that o has looked at: from the first one up to the one it looks
\* at, round the end of the table.
Probed(o) == IF start[o] <= slot[o] THEN start[o]..(slot[o] - 1)
             ELSE Index \ (slot[o]..(start[o] - 1))

\* An object that is alone follows the counter and has left no slot out.
SweepIsTaken ==
    \A o \in Object : pc[o] = "probe" /\ alone[o] =>
        /\ slot[o] = Position
        /\ Probed(o) \subseteq found[o]
=============================================================================
