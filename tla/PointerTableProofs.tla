------------------------- MODULE PointerTableProofs -------------------------
(***************************************************************************)
(* Proofs about PointerTable, for any number of objects and any size of    *)
(* the table that divides the number of values of the counter.             *)
(***************************************************************************)
EXTENDS PointerTable, Integers, TLAPS

-----------------------------------------------------------------------------
(* Remainders.                                                             *)

LEMMA Division ==
  ASSUME NEW a \in Nat, NEW n \in Nat \ {0}
  PROVE  /\ a \div n \in Nat
         /\ a % n \in 0..(n - 1)
         /\ a = n * (a \div n) + (a % n)
  OBVIOUS

LEMMA Multiples ==
  ASSUME NEW n \in Nat \ {0}, NEW q \in Int, NEW s \in Int, q < s
  PROVE  n * s >= n * q + n
<1>1. n * s - n * q = n * (s - q)
  OBVIOUS
<1>2. n * (s - q) >= n * 1
  OBVIOUS
<1> QED
  BY <1>1, <1>2

LEMMA RemainderIsUnique ==
  ASSUME NEW n \in Nat \ {0}, NEW q \in Int, NEW s \in Int,
         NEW x \in 0..(n - 1), NEW y \in 0..(n - 1), n * q + x = n * s + y
  PROVE  x = y
<1>1. CASE q < s
  BY <1>1, Multiples
<1>2. CASE s < q
  BY <1>2, Multiples
<1>3. CASE s = q
  BY <1>3
<1> QED
  BY <1>1, <1>2, <1>3

LEMMA Successor ==
  ASSUME NEW a \in Nat, NEW n \in Nat \ {0}
  PROVE  (a + 1) % n = IF a % n = n - 1 THEN 0 ELSE (a % n) + 1
<1> DEFINE q == a \div n
           r == a % n
           s == (a + 1) \div n
           t == (a + 1) % n
<1>1. q \in Nat /\ r \in 0..(n - 1) /\ a = n * q + r
  BY Division
<1>2. s \in Nat /\ t \in 0..(n - 1) /\ a + 1 = n * s + t
  <2>1. a + 1 \in Nat
    OBVIOUS
  <2> QED
    BY <2>1, Division
<1> HIDE DEF q, r, s, t
<1>3. CASE r = n - 1
  <2>1. n * s + t = n * (q + 1) + 0
    <3>1. n * (q + 1) = n * q + n
      BY <1>1
    <3> QED
      BY <1>1, <1>2, <1>3, <3>1
  <2>2. q + 1 \in Int /\ s \in Int /\ 0 \in 0..(n - 1)
    BY <1>1, <1>2
  <2>3. t = 0
    BY <1>2, <2>1, <2>2, RemainderIsUnique
  <2> QED
    BY <1>3, <2>3 DEF r, t
<1>4. CASE r # n - 1
  <2>1. n * s + t = n * q + (r + 1)
    BY <1>1, <1>2
  <2>2. q \in Int /\ s \in Int /\ r + 1 \in 0..(n - 1)
    BY <1>1, <1>2, <1>4
  <2>3. t = r + 1
    BY <1>2, <2>1, <2>2, RemainderIsUnique
  <2> QED
    BY <1>4, <2>3 DEF r, t
<1> QED
  BY <1>3, <1>4

LEMMA MultipleHasNoRemainder ==
  ASSUME NEW n \in Nat \ {0}, NEW k \in Nat
  PROVE  (n * k) % n = 0
<1> DEFINE a == n * k
           q == a \div n
           r == a % n
<1>1. a \in Nat
  OBVIOUS
<1>2. q \in Nat /\ r \in 0..(n - 1) /\ a = n * q + r
  BY <1>1, Division
<1>3. n * q + r = n * k + 0
  BY <1>2
<1>4. q \in Int /\ k \in Int /\ 0 \in 0..(n - 1)
  BY <1>2
<1> HIDE DEF a, q, r
<1>5. r = 0
  BY <1>2, <1>3, <1>4, RemainderIsUnique
<1> QED
  BY <1>5 DEF r, a

\* The next number is the next slot, also when the counter overflows.
LEMMA NextNumber ==
  ASSUME TypeOK
  PROVE  /\ Position \in Index
         /\ Drawn = IF Position = Size - 1 THEN 0 ELSE Position + 1
         /\ (pointerIndex + 1) % Width \in 0..(Width - 1)
<1>1. Size \in Nat \ {0} /\ Width \in Nat \ {0}
  BY TableAssumption DEF TableAssumption
<1>2. pointerIndex \in Nat /\ pointerIndex < Width
  BY <1>1 DEF TypeOK
<1> DEFINE next == (pointerIndex + 1) % Width
<1>3. Position \in Index
  BY <1>1, <1>2, Division DEF Position, Index
<1>4. (pointerIndex + 1) % Size = IF Position = Size - 1 THEN 0 ELSE Position + 1
  BY <1>1, <1>2, Successor DEF Position
<1>5. next \in 0..(Width - 1)
  <2>1. pointerIndex + 1 \in Nat
    BY <1>2
  <2> QED
    BY <1>1, <2>1, Division
<1>6. next % Size = (pointerIndex + 1) % Size
  <2>1. pointerIndex \div Width \in Nat /\ pointerIndex % Width = pointerIndex
    BY <1>1, <1>2
  <2>2. next = IF pointerIndex = Width - 1 THEN 0 ELSE pointerIndex + 1
    BY <1>1, <1>2, <2>1, Successor
  <2>3. CASE pointerIndex = Width - 1
    <3>1. PICK k \in 1..Width : Width = Size * k
      BY TableAssumption DEF TableAssumption
    <3>2. k \in Nat /\ pointerIndex + 1 = Size * k
      BY <1>1, <1>2, <2>3, <3>1
    <3>3. (pointerIndex + 1) % Size = 0
      BY <1>1, <3>2, MultipleHasNoRemainder
    <3>4. 0 % Size = 0
      BY <1>1
    <3> QED
      BY <2>2, <2>3, <3>3, <3>4
  <2>4. CASE pointerIndex # Width - 1
    BY <2>2, <2>4
  <2> QED
    BY <2>3, <2>4
<1> QED
  BY <1>3, <1>4, <1>5, <1>6 DEF Drawn

-----------------------------------------------------------------------------
(* The inductive invariant.                                                *)

LEMMA InitInv == Init => IndInv
<1> SUFFICES ASSUME Init PROVE IndInv
  OBVIOUS
<1>1. TypeOK
  <2>1. Size \in Nat \ {0} /\ Width \in Nat \ {0}
    BY TableAssumption DEF TableAssumption
  <2>2. 0 \in Index /\ 0 \in 0..Size /\ 0 \in 0..(Width - 1)
    BY <2>1 DEF Index
  <2> QED
    BY <2>2 DEF Init, TypeOK, Label
<1>2. Looking = {}
  BY DEF Init, Looking
<1>3. LookApart /\ SlotsAreOwned /\ RestoresOwn
  BY <1>2 DEF Init, LookApart, SlotsAreOwned, RestoresOwn
<1> QED
  BY <1>1, <1>3 DEF IndInv

\* A slot s that is a numbers behind the slot p is one more behind the next.
LEMMA Ages ==
  ASSUME NEW n \in Nat \ {0}, NEW s \in 0..(n - 1), NEW a \in 0..n, a < n, a + 1 # n,
         NEW p \in 0..(n - 1), s + a \in {p, p + n},
         NEW next \in 0..(n - 1), next = IF p = n - 1 THEN 0 ELSE p + 1
  PROVE  /\ s + (a + 1) \in {next, next + n}
         /\ s # next
<1>1. CASE s + a = p
  BY <1>1
<1>2. CASE s + a = p + n
  BY <1>2
<1> QED
  BY <1>1, <1>2

\* An object draws a number: the others that look at a slot look at others.
LEMMA DrawInv ==
  ASSUME IndInv, NEW o \in Object, NEW undisturbed \in BOOLEAN, NEW taken \in SUBSET Index,
         Draw(o, undisturbed, taken),
         pc[o] \in {"unmade", "probe"},
         \E label \in {"probe", "nil"} : pc' = [pc EXCEPT ![o] = label],
         start' = start \/ start' = [start EXCEPT ![o] = Drawn],
         UNCHANGED <<pointerStore, restored>>
  PROVE  IndInv'
<1> USE DEF IndInv, TypeOK
<1>1. Size \in Nat \ {0}
  BY TableAssumption DEF TableAssumption
<1>2. /\ Position \in Index /\ Drawn \in Index
      /\ Drawn = IF Position = Size - 1 THEN 0 ELSE Position + 1
      /\ pointerIndex' \in 0..(Width - 1)
      /\ Position' = Drawn
  BY <1>1, NextNumber DEF Index, Draw, Position, Drawn
<1>3. TypeOK'
  <2>1. age' \in [Object -> 0..Size]
    BY <1>1 DEF Draw
  <2>2. slot' \in [Object -> Index] /\ start' \in [Object -> Index]
    BY <1>2 DEF Draw
  <2>3. /\ crowded' \in BOOLEAN /\ alone' \in [Object -> BOOLEAN] /\ pc' \in [Object -> Label]
        /\ found' \in [Object -> SUBSET Index]
    BY DEF Draw, Label
  <2> QED
    BY <1>2, <2>1, <2>2, <2>3
<1> SUFFICES ASSUME ~crowded' PROVE LookApart' /\ SlotsAreOwned' /\ RestoresOwn'
  BY <1>3
<1>4. /\ ~crowded
      /\ \A q \in Looking \ {o} : age[q] + 1 # Size
      /\ LookApart /\ SlotsAreOwned /\ RestoresOwn
  BY DEF Draw
<1>5. /\ Looking' \subseteq Looking \cup {o}
      /\ slot'[o] = Drawn /\ age'[o] = 0
      /\ \A q \in Object \ {o} : slot'[q] = slot[q] /\ pc'[q] = pc[q]
  BY DEF Draw, Looking
<1>6. ASSUME NEW q \in Looking \ {o}
      PROVE  /\ age'[q] = age[q] + 1 /\ age'[q] < Size
             /\ slot[q] + age'[q] \in {Drawn, Drawn + Size}
             /\ slot[q] # Drawn
  <2>1. /\ q \in Object /\ age[q] \in 0..Size /\ age[q] < Size /\ age[q] + 1 # Size
        /\ slot[q] \in Index
        /\ slot[q] + age[q] \in {Position, Position + Size}
    BY <1>4 DEF LookApart, Looking
  <2>2. age'[q] = age[q] + 1
    BY <1>6, <2>1 DEF Draw
  <2>3. /\ slot[q] + (age[q] + 1) \in {Drawn, Drawn + Size}
        /\ slot[q] # Drawn
    BY ONLY <1>1, <1>2, <2>1, Ages DEF Index
  <2> QED
    BY <1>1, <2>1, <2>2, <2>3
<1>7. LookApart'
  <2>1. \A q \in Looking' : /\ age'[q] < Size
                            /\ slot'[q] + age'[q] \in {Position', Position' + Size}
    <3> TAKE q \in Looking'
    <3>1. CASE q = o
      BY <1>1, <1>2, <1>5, <3>1 DEF Index
    <3>2. CASE q # o
      BY <1>2, <1>5, <1>6, <3>2 DEF Looking
    <3> QED
      BY <3>1, <3>2
  <2>2. \A q, r \in Looking' : slot'[q] = slot'[r] => q = r
    <3> TAKE q, r \in Looking'
    <3>1. CASE q # o /\ r # o
      BY <1>4, <1>5, <3>1 DEF LookApart, Looking
    <3>2. CASE q = o \/ r = o
      BY <1>5, <1>6, <3>2 DEF Looking
    <3> QED
      BY <3>1, <3>2
  <2> QED
    BY <2>1, <2>2 DEF LookApart
<1>8. SlotsAreOwned' /\ RestoresOwn'
  BY <1>4, <1>5 DEF SlotsAreOwned, RestoresOwn
<1> QED
  BY <1>7, <1>8

\* Until a slot is taken or given up, nothing else changes.
LEMMA StepInv ==
  ASSUME IndInv, NEW o \in Object,
         Save(o) \/ RestorePointer(o) \/ RestoreNil(o) \/ UnrefPointer(o) \/ Forget(o)
  PROVE  IndInv'
<1> USE DEF IndInv, TypeOK, Goto, history
<1>1. CASE SavePointer(o)
  BY <1>1, DrawInv DEF SavePointer
<1>2. CASE NextSlot(o)
  <2>1. alone[o] \in BOOLEAN /\ found[o] \cup {slot[o]} \in SUBSET Index
    OBVIOUS
  <2> QED
    BY <1>2, <2>1, DrawInv DEF NextSlot
<1> USE TableAssumption DEF TableAssumption
<1>3. CASE FindSlot(o)
  BY <1>3 DEF FindSlot, Label, Looking, LookApart, SlotsAreOwned, RestoresOwn, Position
<1>4. CASE TakeSlot(o)
  <2>1. TypeOK'
    BY <1>4 DEF TakeSlot, Label
  <2>2. Looking' = Looking \ {o} /\ o \in Looking
    BY <1>4 DEF TakeSlot, Looking
  <2>3. ~crowded => LookApart'
    BY <1>4, <2>2 DEF TakeSlot, LookApart, Position
  <2>4. ASSUME ~crowded PROVE SlotsAreOwned'
    <3>1. \A q \in Object \ {o} :
             pc[q] \in {"claim", "live", "forgotten"} => slot[q] # slot[o]
      BY <1>4, <2>2, <2>4 DEF TakeSlot, LookApart, SlotsAreOwned, Looking
    <3> QED
      BY <1>4, <2>4, <3>1 DEF TakeSlot, SlotsAreOwned
  <2> QED
    BY <1>4, <2>1, <2>3, <2>4 DEF TakeSlot, RestoresOwn
<1>5. CASE RestorePointer(o) \/ RestoreNil(o) \/ Forget(o)
  BY <1>5 DEF RestorePointer, RestoreNil, Forget, Label, Looking, LookApart, SlotsAreOwned,
     RestoresOwn, Position
<1>6. CASE UnrefPointer(o)
  <2>1. TypeOK'
    BY <1>6 DEF UnrefPointer, Label
  <2>2. Looking' = Looking
    BY <1>6 DEF UnrefPointer, Looking
  <2>3. ~crowded => LookApart' /\ RestoresOwn'
    BY <1>6, <2>2 DEF UnrefPointer, LookApart, RestoresOwn, Position
  <2>4. ~crowded => SlotsAreOwned'
    BY <1>6 DEF UnrefPointer, SlotsAreOwned
  <2> QED
    BY <1>6, <2>1, <2>3, <2>4 DEF UnrefPointer
<1> QED
  BY <1>1, <1>2, <1>3, <1>4, <1>5, <1>6 DEF Save

\* IndInv holds in every reachable state.
THEOREM Inductive == Safety => []IndInv
<1>1. IndInv /\ UNCHANGED vars => IndInv'
  BY DEF IndInv, TypeOK, LookApart, Looking, SlotsAreOwned, RestoresOwn, Position, vars, history
<1>2. IndInv /\ [Next]_vars => IndInv'
  BY <1>1, StepInv DEF Next
<1> QED
  BY <1>2, InitInv, PTL DEF Safety

\* Every variable keeps its type: no slot outside the table is ever used.
THEOREM TypesOK == Spec => []TypeOK
<1>1. IndInv => TypeOK
  BY DEF IndInv
<1> QED
  BY <1>1, Inductive, PTL DEF Spec

\* RestorePointer returns what SavePointer was given, for any number of
\* goroutines and C threads and although neither takes a lock, as long as no
\* object looks at one slot while the others draw as many numbers as there are
\* slots.
THEOREM RestoresWhatWasSaved == Spec => []RestoresOwn
<1>1. IndInv => RestoresOwn
  BY DEF IndInv, RestoresOwn
<1> QED
  BY <1>1, Inductive, PTL DEF Spec

-----------------------------------------------------------------------------
(* A search during which nobody else draws a number.                       *)

\* The next slot is looked at, or the search has come round.
LEMMA Sweep ==
  ASSUME NEW n \in Nat \ {0}, NEW first \in 0..(n - 1), NEW p \in 0..(n - 1),
         NEW next, next = IF p = n - 1 THEN 0 ELSE p + 1,
         NEW old, old = IF first <= p THEN first..(p - 1) ELSE (0..(n - 1)) \ (p..(first - 1)),
         NEW new, new = IF first <= next THEN first..(next - 1)
                        ELSE (0..(n - 1)) \ (next..(first - 1))
  PROVE  /\ next # first => new \subseteq old \cup {p}
         /\ next = first => 0..(n - 1) \subseteq old \cup {p}
  OBVIOUS

\* What looking at the next slot leaves behind.
LEMMA NextSweep ==
  ASSUME TypeOK, SweepIsTaken, NEW o \in Object, NextSlot(o), alone[o]
  PROVE  /\ pc'[o] = "probe" => slot'[o] = Position' /\ Probed(o)' \subseteq found'[o]
         /\ pc'[o] = "nil" => found'[o] = Index
<1>1. Size \in Nat \ {0}
  BY TableAssumption DEF TableAssumption
<1>2. /\ slot[o] = Position /\ slot[o] \in 0..(Size - 1) /\ start[o] \in 0..(Size - 1)
      /\ Probed(o) \cup {slot[o]} \subseteq found'[o]
      /\ found'[o] \subseteq 0..(Size - 1)
  BY DEF NextSlot, Draw, SweepIsTaken, TypeOK, Index
<1>3. /\ Drawn = IF slot[o] = Size - 1 THEN 0 ELSE slot[o] + 1
      /\ slot'[o] = Drawn /\ start'[o] = start[o]
      /\ Position' = Drawn
  BY <1>2, NextNumber DEF NextSlot, Draw, TypeOK, Position, Drawn
<1>4. /\ Probed(o) = IF start[o] <= slot[o] THEN start[o]..(slot[o] - 1)
                     ELSE (0..(Size - 1)) \ (slot[o]..(start[o] - 1))
      /\ Probed(o)' = IF start[o] <= Drawn THEN start[o]..(Drawn - 1)
                      ELSE (0..(Size - 1)) \ (Drawn..(start[o] - 1))
  BY <1>3 DEF Probed, Index
<1>5. /\ Drawn # start[o] => Probed(o)' \subseteq Probed(o) \cup {slot[o]}
      /\ Drawn = start[o] => 0..(Size - 1) \subseteq Probed(o) \cup {slot[o]}
  <2> HIDE DEF Drawn, Probed
  <2> QED
    BY ONLY <1>1, <1>2, <1>3, <1>4, Sweep
<1>6. pc'[o] = IF Drawn = start[o] THEN "nil" ELSE "probe"
  BY DEF NextSlot, Goto, TypeOK
<1> QED
  BY <1>2, <1>3, <1>5, <1>6 DEF Index

LEMMA SweepStep ==
  ASSUME TypeOK, SweepIsTaken, NEW o \in Object,
         Save(o) \/ RestorePointer(o) \/ RestoreNil(o) \/ UnrefPointer(o) \/ Forget(o)
  PROVE  /\ SweepIsTaken'
         /\ \A q \in Object : pc[q] = "probe" /\ pc'[q] = "nil" /\ alone[q] =>
               found'[q] = Index
<1> USE DEF TypeOK, Goto, history
<1>1. CASE SavePointer(o)
  <2>1. /\ slot'[o] = Drawn /\ start'[o] = Drawn /\ Position' = Drawn
        /\ \A q \in Object : pc'[q] = "nil" => pc[q] = "nil"
        /\ \A q \in Object : alone'[q] => q = o
    BY <1>1 DEF SavePointer, Draw, Position, Drawn
  <2>2. Probed(o)' = {}
    <3>1. Drawn \in Nat
      BY NextNumber, TableAssumption DEF TableAssumption, Index
    <3> HIDE DEF Drawn
    <3>2. Drawn..(Drawn - 1) = {} /\ Drawn <= Drawn
      BY <3>1
    <3> QED
      BY <2>1, <3>2 DEF Probed
  <2> QED
    BY <2>1, <2>2 DEF SweepIsTaken
<1>2. CASE NextSlot(o)
  <2>1. /\ \A q \in Object : alone'[q] => q = o /\ alone[o]
        /\ \A q \in Object \ {o} : pc'[q] = pc[q]
    BY <1>2 DEF NextSlot, Draw
  <2> QED
    BY <1>2, <2>1, NextSweep DEF SweepIsTaken
\* The others do not disturb it: neither one that takes a slot nor one that
\* frees its own changes what the search has found.
<1>3. CASE \/ FindSlot(o) \/ TakeSlot(o) \/ UnrefPointer(o)
           \/ RestorePointer(o) \/ RestoreNil(o) \/ Forget(o)
  <2>1. /\ UNCHANGED <<pointerIndex, slot, start, alone, found>>
        /\ \A q \in Object : /\ pc'[q] = "probe" => pc[q] = "probe"
                             /\ pc'[q] = "nil" => pc[q] = "nil"
    BY <1>3 DEF FindSlot, TakeSlot, UnrefPointer, RestorePointer, RestoreNil, Forget
  <2> QED
    BY <2>1 DEF SweepIsTaken, Probed, Position
<1> QED
  BY <1>1, <1>2, <1>3 DEF Save

\* A search during which no other thread draws a number gives up only after it
\* has found each slot taken at some moment, for any size of the table, although
\* the counter overflows and others take, use and free slots (SavePointer).
THEOREM FailsWhenFull == Spec => FailsOnlyWhenFull
<1> DEFINE Fails == \A o \in Object :
              pc[o] = "probe" /\ pc'[o] = "nil" /\ alone[o] =>
                  found'[o] = Index
<1>1. Init => SweepIsTaken
  BY DEF Init, SweepIsTaken
<1>2. TypeOK /\ SweepIsTaken /\ [Next]_vars => SweepIsTaken' /\ [Fails]_vars
  <2>1. SweepIsTaken /\ UNCHANGED vars => SweepIsTaken'
    BY DEF SweepIsTaken, Probed, Position, vars, history
  <2>2. TypeOK /\ SweepIsTaken /\ Next => SweepIsTaken' /\ Fails
    BY SweepStep DEF Next
  <2> QED
    BY <2>1, <2>2
<1>3. Spec => [][Fails]_vars
  BY <1>1, <1>2, TypesOK, PTL DEF Spec, Safety
<1> QED
  BY <1>3 DEF FailsOnlyWhenFull
=============================================================================
