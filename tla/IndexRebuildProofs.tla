------------------------- MODULE IndexRebuildProofs -------------------------
(***************************************************************************)
(* Proofs about IndexRebuild, for any number of clients, any finite set of *)
(* blob names, any contents of the blobs and any faults.                   *)
(***************************************************************************)
EXTENDS IndexRebuild, FiniteSetTheorems, SequenceTheorems, TLAPS

\* The variables of the function itself.
builder == <<items, clients, batchStart, client, listed>>

-----------------------------------------------------------------------------
(* The batches.                                                            *)

LEMMA BatchSize ==
  ASSUME TypeOK
  PROVE  /\ batchCount \in 0..WorkerCount /\ batchCount <= Len(items)
         /\ batchLength \in 0..WorkerCount /\ batchLength <= batchCount
         /\ batchStart + batchLength \in 0..Len(items)
         /\ batchStart < Len(items) => batchLength > 0
  <1>1. /\ WorkerCount \in Nat \ {0}
        /\ Len(items) \in Nat
        /\ batchStart \in 0..Len(items)
    BY RebuildAssumption DEF TypeOK
  <1> QED  BY <1>1 DEF batchCount, batchLength

LEMMA BatchItems ==
  ASSUME TypeOK
  PROVE  /\ Batch \in Seq(Name)
         /\ DOMAIN Batch = 1..batchLength
         /\ \A k \in 1..batchLength : Batch[k] = items[batchStart + k]
  <1>1. /\ items \in Seq(Name)
        /\ Len(items) \in Nat
        /\ batchStart \in Nat
        /\ batchLength \in Nat
        /\ batchStart + batchLength <= Len(items)
    BY BatchSize DEF TypeOK
  <1>2. \A i \in (batchStart + 1)..(batchStart + batchLength) : items[i] \in Name
    BY <1>1
  <1>3. /\ Batch \in Seq(Name)
        /\ Len(Batch) = IF batchStart + 1 <= batchStart + batchLength
                        THEN (batchStart + batchLength) - (batchStart + 1) + 1 ELSE 0
        /\ \A k \in 1..((batchStart + batchLength) - (batchStart + 1) + 1) :
              Batch[k] = items[(batchStart + 1) + k - 1]
    BY <1>1, <1>2, SubSeqProperties DEF Batch
  <1>4. Len(Batch) = batchLength
    BY <1>1, <1>3
  <1>5. DOMAIN Batch = 1..batchLength
    BY <1>3, <1>4
  <1>6. \A k \in 1..batchLength : Batch[k] = items[batchStart + k]
    <2> TAKE k \in 1..batchLength
    <2>1. k \in 1..((batchStart + batchLength) - (batchStart + 1) + 1)
      BY <1>1
    <2>2. (batchStart + 1) + k - 1 = batchStart + k
      BY <1>1
    <2> QED  BY <1>3, <2>1, <2>2
  <1> QED  BY <1>3, <1>5, <1>6

\* An item of the batch has one place in it, and the names of the batch are
\* as many as its places.
LEMMA BatchPlaces ==
  ASSUME TypeOK, ItemsAreListed
  PROVE  /\ \A n \in Name : n \in Range(Batch) <=>
               \E k \in 1..batchLength : items[batchStart + k] = n
         /\ \A k \in 1..batchLength :
               (CHOOSE i \in DOMAIN Batch : Batch[i] = items[batchStart + k]) = k
         /\ Range(Batch) \subseteq Name
         /\ Cardinality(Range(Batch)) = batchLength
  <1>1. /\ DOMAIN Batch = 1..batchLength
        /\ \A k \in 1..batchLength : Batch[k] = items[batchStart + k]
        /\ Batch \in Seq(Name)
    BY BatchItems
  <1>2. /\ batchLength \in Nat /\ batchStart \in Nat
        /\ batchStart + batchLength <= Len(items)
        /\ Len(items) \in Nat
        /\ DOMAIN items = 1..Len(items)
    BY BatchSize DEF TypeOK
  <1>3. \A n \in Name : n \in Range(Batch) <=>
            \E k \in 1..batchLength : items[batchStart + k] = n
    BY <1>1 DEF Range
  <1>4. \A j, k \in 1..batchLength : items[batchStart + j] = items[batchStart + k] => j = k
    <2> TAKE j, k \in 1..batchLength
    <2>1. batchStart + j \in DOMAIN items /\ batchStart + k \in DOMAIN items
      BY <1>2
    <2> QED  BY <1>2, <2>1 DEF ItemsAreListed
  <1>5. \A k \in 1..batchLength :
            (CHOOSE i \in DOMAIN Batch : Batch[i] = items[batchStart + k]) = k
    BY <1>1, <1>4
  <1>6. Range(Batch) \subseteq Name
    <2>1. \A k \in 1..batchLength : items[batchStart + k] \in Name
      BY <1>2 DEF TypeOK
    <2> QED  BY <1>1, <2>1 DEF Range
  <1>7. Cardinality(Range(Batch)) = batchLength
    <2>1. Batch \in Bijection(1..batchLength, Range(Batch))
      <3>1. Batch \in [1..batchLength -> Range(Batch)]
        BY <1>1 DEF Range
      <3>2. Batch \in Injection(1..batchLength, Range(Batch))
        BY <1>1, <1>4, <3>1 DEF Injection, IsInjective
      <3>3. Batch \in Surjection(1..batchLength, Range(Batch))
        BY <1>1, <3>1 DEF Surjection, Range
      <3> QED  BY <3>2, <3>3 DEF Bijection
    <2>2. ExistsBijection(1..batchLength, Range(Batch))
      BY <2>1 DEF ExistsBijection
    <2> QED  BY <1>2, <2>2, FS_CountingElements
  <1> QED  BY <1>3, <1>5, <1>6, <1>7

-----------------------------------------------------------------------------
(* Stored blocks.                                                          *)

\* A block that is stored stays stored while another is written.
LEMMA StoredGrows ==
  ASSUME TypeOK, NEW c \in Block, StoreBlock(c)
  PROVE  Stored \subseteq Stored'
  <1>1. /\ Absent \notin Block
        /\ PathOf \in [Block -> Name]
    BY RebuildAssumption
  <1> QED  BY <1>1 DEF StoreBlock, Stored, TypeOK

LEMMA AcceptedIsStored ==
  ASSUME NEW n \in Name
  PROVE  /\ Accepted(n) => blobs[n] \in Stored /\ PathOf[blobs[n]] = n
         /\ \A b \in Stored : PathOf[b] = n => Accepted(n) /\ blobs[n] = b
  BY DEF Accepted, Stored

\* The listing names each blob that is neither missing nor empty, once.
LEMMA ListingIsComplete ==
  ASSUME TypeOK, GetObjects
  PROVE  /\ items' \in Seq(Name)
         /\ \A i, j \in DOMAIN items' : items'[i] = items'[j] => i = j
         /\ \A b \in Stored : \E i \in DOMAIN items' : items'[i] = PathOf[b]
         /\ \A i \in DOMAIN items' : blobs[items'[i]] # Absent
  <1> DEFINE Found == {n \in Name : blobs[n] \notin {Absent, Empty}}
             N == Cardinality(Found)
  <1>1. IsFiniteSet(Found) /\ N \in Nat
    <2>1. IsFiniteSet(Name) /\ Found \in SUBSET Name
      BY RebuildAssumption
    <2>2. IsFiniteSet(Found)
      BY <2>1, FS_Subset
    <2> QED  BY <2>2, FS_CardinalityType
  <1>2. /\ items' \in [1..N -> Found]
        /\ \A i, j \in 1..N : i # j => items'[i] # items'[j]
    BY DEF GetObjects, SetToSeqs
  <1>3. items' \in Seq(Name)
    <2>1. items' \in [1..N -> Name]
      BY <1>2
    <2> QED  BY <1>1, <2>1, SeqDef
  <1>4. DOMAIN items' = 1..N
    BY <1>2
  <1>5. \A i, j \in DOMAIN items' : items'[i] = items'[j] => i = j
    BY <1>2, <1>4
  <1>6. items' \in Surjection(1..N, Found)
    <2>1. items' \in Injection(1..N, Found)
      BY <1>2 DEF Injection, IsInjective
    <2>2. Cardinality(1..N) = N
      BY <1>1, FS_Interval
    <2> QED  BY <1>1, <2>1, <2>2, FS_Injection
  <1>7. \A n \in Found : \E i \in 1..N : items'[i] = n
    BY <1>6 DEF Surjection
  <1>8. \A b \in Stored : PathOf[b] \in Found
    BY RebuildAssumption DEF Stored
  <1>9. \A i \in DOMAIN items' : blobs[items'[i]] # Absent
    BY <1>2, <1>4
  <1> QED  BY <1>3, <1>4, <1>5, <1>7, <1>8, <1>9

-----------------------------------------------------------------------------
(* The first state, and steps of the function outside a batch.             *)

LEMMA Initially == Init => IndInv
  <1> SUFFICES ASSUME Init PROVE IndInv
    OBVIOUS
  <1> USE RebuildAssumption
  <1>1. TypeOK
    BY DEF Init, TypeOK, Running, Ended, Attempts
  <1>2. ItemsAreListed
    BY DEF Init, ItemsAreListed
  <1>3. ReadersAreInBatch
    BY DEF Init, ReadersAreInBatch, Batching, Running, Ended
  <1>4. WaitGroupCounts
    <2>1. Readers = {}
      BY DEF Init, Readers, Running
    <2> QED  BY <2>1, FS_EmptySet DEF Init, WaitGroupCounts
  <1>5. ReadsAreKept
    BY DEF Init, ReadsAreKept, Batching
  <1>6. IndexIsStored
    BY DEF Init, IndexIsStored
  <1> QED  BY <1>1, <1>2, <1>3, <1>4, <1>5, <1>6 DEF IndInv

\* Only a batch has readers, and none when the WaitGroup is at zero.
LEMMA NoReader ==
  ASSUME IndInv, pc # "wait" \/ wg = 0
  PROVE  Readers = {} /\ wg = 0
  <1>1. IsFiniteSet(Readers)
    <2>1. Readers \in SUBSET Name
      BY DEF Readers
    <2> QED  BY <2>1, RebuildAssumption, FS_Subset
  <1>2. CASE pc # "wait"
    <2>1. Readers = {}
      BY <1>2 DEF IndInv, ReadersAreInBatch, Readers
    <2> QED  BY <2>1, FS_EmptySet DEF IndInv, WaitGroupCounts
  <1>3. CASE wg = 0
    BY <1>1, <1>3, FS_EmptySet DEF IndInv, WaitGroupCounts
  <1> QED  BY <1>2, <1>3

LEMMA WriteStep ==
  ASSUME IndInv, NEW c \in Block, StoreBlock(c)
  PROVE  IndInv'
  <1>1. TypeOK /\ Stored \subseteq Stored'
    BY StoredGrows DEF IndInv
  <1>2. UNCHANGED <<pc, items, clients, batchStart, client, reader, tries, wg,
                    batchBlockIndexes, storeIndex, listed>>
    BY DEF StoreBlock, goroutine
  <1>3. TypeOK'
    BY <1>1, <1>2 DEF StoreBlock, TypeOK
  <1>4. ItemsAreListed'
    BY <1>1, <1>2 DEF IndInv, ItemsAreListed
  <1>5. ReadersAreInBatch'
    BY <1>2 DEF IndInv, ReadersAreInBatch, Batching, batchLength, batchCount
  <1>6. WaitGroupCounts'
    BY <1>2 DEF IndInv, WaitGroupCounts, Readers
  <1>7. ReadsAreKept'
    BY <1>1, <1>2 DEF IndInv, ReadsAreKept, Readable, Batching, batchLength, batchCount
  <1>8. IndexIsStored'
    BY <1>1, <1>2 DEF IndInv, IndexIsStored
  <1> QED  BY <1>3, <1>4, <1>5, <1>6, <1>7, <1>8 DEF IndInv

LEMMA ListStep ==
  ASSUME IndInv, GetObjects
  PROVE  IndInv'
  <1>1. /\ items' \in Seq(Name)
        /\ \A i, j \in DOMAIN items' : items'[i] = items'[j] => i = j
        /\ \A b \in Stored : \E i \in DOMAIN items' : items'[i] = PathOf[b]
    BY ListingIsComplete DEF IndInv
  <1>2. /\ pc = "list" /\ pc' = "clients"
        /\ listed' = Stored
        /\ batchStart = 0
        /\ UNCHANGED <<blobs, clients, batchStart, client, reader, tries, wg,
                       batchBlockIndexes, storeIndex>>
        /\ Stored' = Stored
    BY DEF GetObjects, goroutine, Stored, IndInv, ItemsAreListed
  <1>3. Len(items') \in Nat
    BY <1>1
  <1>4. TypeOK'
    BY <1>1, <1>2, <1>3 DEF IndInv, TypeOK, Stored
  <1>5. ItemsAreListed'
    BY <1>1, <1>2 DEF ItemsAreListed
  <1>6. ReadersAreInBatch'
    <2>1. \A i \in DOMAIN items' : i \in 1..Len(items') /\ items'[i] \in Name
      BY <1>1
    <2>2. \A n \in Name : reader[n] = "none"
      BY <1>2 DEF IndInv, ReadersAreInBatch
    <2> QED  BY <1>1, <1>2, <1>3, <2>1 DEF IndInv, ReadersAreInBatch, Batching
  <1>7. WaitGroupCounts'
    BY <1>2 DEF IndInv, WaitGroupCounts, Readers
  <1>8. ReadsAreKept'
    BY <1>2 DEF IndInv, ReadsAreKept, Batching
  <1>9. IndexIsStored'
    BY <1>2 DEF IndInv, IndexIsStored
  <1> QED  BY <1>4, <1>5, <1>6, <1>7, <1>8, <1>9 DEF IndInv

\* Steps that leave the batch, the readers and the index alone.
LEMMA PassingStep ==
  ASSUME IndInv, TypeOK',
         UNCHANGED <<blobs, items, batchStart, client, reader, tries, wg,
                     batchBlockIndexes, listed>>,
         \/ pc = "clients" /\ pc' = "batch" /\ UNCHANGED storeIndex
         \/ pc = "batch" /\ pc' = "done" /\ batchStart = Len(items) /\ UNCHANGED storeIndex
         \/ pc \in {"list", "clients", "merge"} /\ pc' = "failed" /\ storeIndex' = {}
         \/ pc = "wait" /\ pc' = "merge" /\ Readers = {} /\ UNCHANGED storeIndex
         \/ UNCHANGED <<pc, storeIndex>>
  PROVE  IndInv'
  <1>1. /\ Stored' = Stored
        /\ batchCount' = batchCount
        /\ batchLength' = batchLength
        /\ Readers' = Readers
    BY DEF Stored, batchCount, batchLength, Readers
  <1>2. ItemsAreListed'
    BY <1>1 DEF IndInv, ItemsAreListed
  <1>3. ReadersAreInBatch'
    <2>1. \A i \in DOMAIN items : i \in Nat /\ items[i] \in Name
      BY DEF IndInv, TypeOK
    <2>2. pc # "wait" => \A n \in Name : reader[n] \notin Running
      BY NoReader DEF Readers
    <2>3. pc' = "merge" => pc \in {"wait", "merge"} /\ \A n \in Name : reader[n] \notin Running
      BY <2>2 DEF Readers
    <2>4. /\ Batching' => batchStart < Len(items) /\ Len(batchBlockIndexes) = batchLength
          /\ pc' = "done" => batchStart = Len(items)
      BY DEF IndInv, ReadersAreInBatch, Batching
    <2>5. \A n \in Name :
             /\ pc' = "list" => reader[n] = "none"
             /\ reader[n] = "none" => tries[n] = 0
             /\ reader[n] \in Running =>
                   /\ pc' = "wait" /\ tries[n] < Attempts
                   /\ client[n] \in 1..batchLength
                   /\ items[batchStart + client[n]] = n
      BY <2>2, <2>3 DEF IndInv, ReadersAreInBatch, Readers
    <2>6. \A i \in DOMAIN items :
             /\ i <= batchStart => reader[items[i]] \in Ended
             /\ Batching' /\ batchStart < i /\ i <= batchStart + batchLength =>
                   reader[items[i]] # "none" /\ client[items[i]] = i - batchStart
             /\ pc' # "failed" /\ i > batchStart + (IF Batching' THEN batchLength ELSE 0) =>
                   reader[items[i]] = "none"
      BY DEF IndInv, ReadersAreInBatch, Batching
    <2> QED  BY <1>1, <2>4, <2>5, <2>6 DEF ReadersAreInBatch, Batching
  <1>4. WaitGroupCounts'
    BY <1>1 DEF IndInv, WaitGroupCounts
  <1>5. ReadsAreKept'
    BY <1>1 DEF IndInv, ReadsAreKept, Readable, Batching
  <1>6. IndexIsStored'
    BY <1>1 DEF IndInv, IndexIsStored
  <1> QED  BY <1>2, <1>3, <1>4, <1>5, <1>6 DEF IndInv

LEMMA ClientsStep ==
  ASSUME IndInv, NewClients
  PROVE  IndInv'
  <1>1. TypeOK'
    BY BatchSize DEF IndInv, TypeOK, NewClients, goroutine
  <1> QED  BY <1>1, PassingStep DEF NewClients, goroutine

LEMMA CloseStep ==
  ASSUME IndInv, CloseClients
  PROVE  IndInv'
  <1>1. TypeOK'
    BY RebuildAssumption DEF IndInv, TypeOK, CloseClients, goroutine
  <1>2. batchStart = Len(items)
    BY DEF IndInv, TypeOK, CloseClients
  <1> QED  BY <1>1, <1>2, PassingStep DEF CloseClients, goroutine

LEMMA FailStep ==
  ASSUME IndInv, Fails
  PROVE  IndInv'
  <1>1. clients' \in 0..WorkerCount
    BY BatchSize, RebuildAssumption DEF IndInv, TypeOK, Fails
  <1>2. TypeOK'
    BY <1>1 DEF IndInv, TypeOK, Fails, goroutine
  <1> QED  BY <1>2, PassingStep DEF Fails, goroutine

LEMMA JoinStep ==
  ASSUME IndInv, Join
  PROVE  IndInv'
  <1>1. TypeOK'
    BY DEF IndInv, TypeOK, Join, goroutine
  <1>2. Readers = {}
    BY NoReader DEF Join
  <1> QED  BY <1>1, <1>2, PassingStep DEF Join, goroutine

LEMMA StutterStep ==
  ASSUME IndInv, UNCHANGED vars
  PROVE  IndInv'
  <1>1. TypeOK'
    BY DEF IndInv, TypeOK, vars, goroutine
  <1> QED  BY <1>1, PassingStep DEF vars, goroutine

-----------------------------------------------------------------------------
(* The batch.                                                              *)

\* The goroutines of a batch are new.
LEMMA BatchIsNew ==
  ASSUME IndInv, StartBatch
  PROVE  \A n \in Name : n \in Range(Batch) => reader[n] = "none"
  <1>1. /\ TypeOK /\ ReadersAreInBatch
        /\ pc = "batch" /\ batchStart < Len(items)
    BY DEF IndInv, StartBatch
  <1>2. /\ batchStart \in Nat /\ batchLength \in Nat
        /\ batchStart + batchLength <= Len(items)
        /\ DOMAIN items = 1..Len(items)
    BY <1>1, BatchSize DEF TypeOK
  <1>3. \A n \in Name : n \in Range(Batch) =>
           \E k \in 1..batchLength : items[batchStart + k] = n
    BY <1>1, BatchItems DEF Range
  <1> SUFFICES ASSUME NEW n \in Name, n \in Range(Batch)
               PROVE  reader[n] = "none"
    OBVIOUS
  <1>4. PICK k \in 1..batchLength : items[batchStart + k] = n
    BY <1>3
  <1>5. batchStart + k \in DOMAIN items /\ batchStart + k > batchStart
    BY <1>2
  <1>6. batchStart + k > batchStart + (IF Batching THEN batchLength ELSE 0)
    BY <1>1, <1>2, <1>5 DEF Batching
  <1>7. reader[items[batchStart + k]] = "none"
    BY <1>1, <1>5, <1>6 DEF ReadersAreInBatch
  <1> QED  BY <1>4, <1>7

LEMMA StartStep ==
  ASSUME IndInv, StartBatch
  PROVE  IndInv'
  <1>1. /\ TypeOK /\ ItemsAreListed /\ ReadersAreInBatch
        /\ pc = "batch" /\ pc' = "wait" /\ batchStart < Len(items)
        /\ Readers = {} /\ wg = 0
        /\ UNCHANGED <<blobs, items, clients, batchStart, tries, storeIndex, listed>>
    BY NoReader DEF IndInv, StartBatch
  <1>2. /\ Stored' = Stored
        /\ batchCount' = batchCount
        /\ batchLength' = batchLength
    BY <1>1 DEF Stored, batchCount, batchLength
  <1>3. /\ batchLength \in 0..WorkerCount
        /\ batchStart \in Nat /\ Len(items) \in Nat
        /\ batchStart + batchLength <= Len(items)
        /\ WorkerCount \in Nat
        /\ DOMAIN items = 1..Len(items)
        /\ \A i \in DOMAIN items : items[i] \in Name
    BY <1>1, BatchSize, RebuildAssumption DEF TypeOK
  <1>4. /\ reader' = [n \in Name |-> IF n \in Range(Batch) THEN "exists" ELSE reader[n]]
        /\ client' = [n \in Name |-> IF n \in Range(Batch)
                                     THEN CHOOSE i \in DOMAIN Batch : Batch[i] = n ELSE client[n]]
        /\ batchBlockIndexes' = [i \in 1..batchLength |-> Nothing]
        /\ wg' = wg + batchLength
    BY DEF StartBatch
  <1>5. \A n \in Name : n \in Range(Batch) <=>
           \E k \in 1..batchLength : items[batchStart + k] = n
    BY <1>1, BatchPlaces
  <1>6. \A k \in 1..batchLength :
           /\ items[batchStart + k] \in Range(Batch)
           /\ reader'[items[batchStart + k]] = "exists"
           /\ client'[items[batchStart + k]] = k
    <2> TAKE k \in 1..batchLength
    <2>1. items[batchStart + k] \in Name
      BY <1>3
    <2>2. items[batchStart + k] \in Range(Batch)
      BY <1>5, <2>1
    <2>3. (CHOOSE i \in DOMAIN Batch : Batch[i] = items[batchStart + k]) = k
      BY <1>1, BatchPlaces
    <2> QED  BY <1>4, <2>1, <2>2, <2>3
  <1>7. \A n \in Name :
           \/ /\ reader'[n] = "exists" /\ client'[n] \in 1..batchLength
              /\ items[batchStart + client'[n]] = n
              /\ reader[n] = "none"
           \/ /\ reader'[n] = reader[n] /\ client'[n] = client[n]
              /\ n \notin Range(Batch) /\ reader[n] \notin Running
    <2> TAKE n \in Name
    <2>1. CASE n \in Range(Batch)
      <3>1. PICK k \in 1..batchLength : items[batchStart + k] = n
        BY <1>5, <2>1
      <3>2. batchStart + k \in DOMAIN items /\ batchStart + k > batchStart
        BY <1>3
      <3>3. reader[n] = "none"
        BY <1>1, <1>3, <3>1, <3>2 DEF ReadersAreInBatch, Batching
      <3> QED  BY <1>6, <3>1, <3>3
    <2>2. CASE n \notin Range(Batch)
      BY <1>1, <1>4, <2>2 DEF Readers
    <2> QED  BY <2>1, <2>2
  <1>8. TypeOK'
    <2>1. client' \in [Name -> 0..WorkerCount]
      <3>1. client \in [Name -> 0..WorkerCount]
        BY <1>1 DEF TypeOK
      <3>2. \A n \in Name : client'[n] \in 0..WorkerCount
        BY <1>3, <1>7, <3>1
      <3> QED  BY <1>4, <3>2
    <2>2. reader' \in [Name -> {"none"} \cup Running \cup Ended]
      BY <1>1, <1>4 DEF TypeOK, Running
    <2>3. batchBlockIndexes' \in Seq(Block \cup {Nothing})
      <3>1. batchBlockIndexes' \in [1..batchLength -> Block \cup {Nothing}]
        BY <1>4
      <3> QED  BY <1>3, <3>1, SeqDef
    <2>4. wg' \in 0..WorkerCount
      BY <1>1, <1>3, <1>4
    <2> QED  BY <1>1, <2>1, <2>2, <2>3, <2>4 DEF TypeOK
  <1>9. ItemsAreListed'
    BY <1>1, <1>2 DEF ItemsAreListed
  <1>10. ReadersAreInBatch'
    <2>1. Len(batchBlockIndexes') = batchLength
      BY <1>3, <1>4
    <2>2. \A n \in Name :
             /\ reader'[n] = "none" => tries[n] = 0
             /\ reader'[n] \in Running =>
                   /\ tries[n] < Attempts
                   /\ client'[n] \in 1..batchLength
                   /\ items[batchStart + client'[n]] = n
      BY <1>1, <1>7 DEF ReadersAreInBatch, Attempts
    <2>3. \A i \in DOMAIN items :
             /\ i <= batchStart => reader'[items[i]] \in Ended
             /\ batchStart < i /\ i <= batchStart + batchLength =>
                   reader'[items[i]] # "none" /\ client'[items[i]] = i - batchStart
             /\ i > batchStart + batchLength => reader'[items[i]] = "none"
      <3> TAKE i \in DOMAIN items
      <3>0. i \in Nat /\ i >= 1 /\ items[i] \in Name
        BY <1>3
      <3>1. CASE i <= batchStart
        <4>1. reader[items[i]] \in Ended
          BY <1>1, <3>1 DEF ReadersAreInBatch
        <4>2. reader'[items[i]] = reader[items[i]]
          BY <1>7, <3>0, <4>1 DEF Ended
        <4> QED  BY <1>3, <3>0, <3>1, <4>1, <4>2
      <3>2. CASE batchStart < i /\ i <= batchStart + batchLength
        <4>1. i - batchStart \in 1..batchLength /\ batchStart + (i - batchStart) = i
          BY <1>3, <3>0, <3>2
        <4> QED  BY <1>3, <1>6, <3>0, <3>2, <4>1
      <3>3. CASE i > batchStart + batchLength
        <4>1. reader[items[i]] = "none"
          BY <1>1, <1>3, <3>0, <3>3 DEF ReadersAreInBatch, Batching
        <4>2. items[i] \notin Range(Batch)
          <5>1. ASSUME NEW k \in 1..batchLength, items[batchStart + k] = items[i]
                PROVE  FALSE
            <6>1. batchStart + k \in DOMAIN items /\ batchStart + k # i
              BY <1>3, <3>0, <3>3
            <6> QED  BY <1>1, <5>1, <6>1 DEF ItemsAreListed
          <5> QED  BY <1>5, <3>0, <5>1
        <4> QED  BY <1>3, <1>4, <3>0, <3>3, <4>1, <4>2
      <3> QED  BY <1>3, <3>0, <3>1, <3>2, <3>3
    <2> QED  BY <1>1, <1>2, <2>1, <2>2, <2>3 DEF ReadersAreInBatch, Batching
  <1>11. WaitGroupCounts'
    <2>1. Readers' = Range(Batch)
      <3>1. \A n \in Name : reader'[n] \in Running <=> n \in Range(Batch)
        BY <1>1, <1>4 DEF Readers, Running
      <3>2. Range(Batch) \subseteq Name
        BY <1>1, BatchPlaces
      <3> QED  BY <3>1, <3>2 DEF Readers
    <2>2. Cardinality(Range(Batch)) = batchLength
      BY <1>1, BatchPlaces
    <2> QED  BY <1>1, <1>3, <1>4, <2>1, <2>2 DEF WaitGroupCounts
  <1>12. ReadsAreKept'
    <2>1. \A k \in DOMAIN batchBlockIndexes' : batchBlockIndexes'[k] = Nothing
      BY <1>4
    <2>2. \A b \in listed : \A k \in 1..batchLength :
             items[batchStart + k] = PathOf[b] => ~Readable(b)'
      BY <1>6 DEF Readable
    <2>3. \A b \in listed : \A i \in 1..batchStart :
             items[i] = PathOf[b] /\ Readable(b)' => b \in storeIndex
      <3> TAKE b \in listed
      <3>1. PathOf[b] \in Name
        BY <1>1, RebuildAssumption DEF TypeOK
      <3>2. Readable(b)' => Readable(b)
        BY <1>1, <1>7, <3>1 DEF Readable
      <3> QED  BY <1>1, <3>2 DEF IndInv, ReadsAreKept
    <2> QED  BY <1>1, <1>2, <2>1, <2>2, <2>3 DEF ReadsAreKept, Batching
  <1>13. IndexIsStored'
    BY <1>1, <1>2 DEF IndInv, IndexIsStored
  <1> QED  BY <1>8, <1>9, <1>10, <1>11, <1>12, <1>13 DEF IndInv

LEMMA MergeStep ==
  ASSUME IndInv, MergeBatch
  PROVE  IndInv'
  <1>1. /\ TypeOK /\ ItemsAreListed /\ ReadersAreInBatch /\ ReadsAreKept
        /\ pc = "merge" /\ pc' = "batch"
        /\ Readers = {}
        /\ batchStart < Len(items)
        /\ Len(batchBlockIndexes) = batchLength
        /\ batchStart' = batchStart + batchLength
        /\ storeIndex' = storeIndex \cup (Range(batchBlockIndexes) \ {Nothing})
        /\ UNCHANGED <<blobs, items, clients, client, reader, tries, wg,
                       batchBlockIndexes, listed>>
    BY NoReader DEF IndInv, MergeBatch, goroutine, ReadersAreInBatch, Batching
  <1>2. Stored' = Stored /\ Readers' = Readers
    BY <1>1 DEF Stored, Readers
  <1>3. /\ batchLength \in Nat
        /\ batchStart \in Nat /\ Len(items) \in Nat
        /\ batchStart + batchLength \in 0..Len(items)
        /\ DOMAIN items = 1..Len(items)
        /\ \A i \in DOMAIN items : items[i] \in Name
        /\ DOMAIN batchBlockIndexes = 1..batchLength
        /\ PathOf \in [Block -> Name]
        /\ listed \subseteq Block
    <2>1. /\ batchLength \in Nat
          /\ batchStart \in Nat /\ Len(items) \in Nat
          /\ batchStart + batchLength \in 0..Len(items)
      BY <1>1, BatchSize, RebuildAssumption DEF TypeOK
    <2>2. /\ DOMAIN items = 1..Len(items)
          /\ \A i \in DOMAIN items : items[i] \in Name
          /\ DOMAIN batchBlockIndexes = 1..Len(batchBlockIndexes)
      BY <1>1 DEF TypeOK
    <2> QED  BY <1>1, <2>1, <2>2, RebuildAssumption DEF TypeOK
  <1>4. Range(batchBlockIndexes) \ {Nothing} \subseteq Stored
    BY <1>1 DEF ReadsAreKept, Range
  <1>5. TypeOK'
    BY <1>1, <1>3, <1>4 DEF TypeOK, Stored
  <1>6. ItemsAreListed'
    BY <1>1, <1>2 DEF ItemsAreListed
  <1>7. ReadersAreInBatch'
    <2>1. \A n \in Name : reader[n] \notin Running
      BY <1>1 DEF Readers
    <2>2. \A i \in DOMAIN items :
             /\ i <= batchStart + batchLength => reader[items[i]] \in Ended
             /\ i > batchStart + batchLength => reader[items[i]] = "none"
      <3> TAKE i \in DOMAIN items
      <3>1. /\ i <= batchStart => reader[items[i]] \in Ended
            /\ batchStart < i /\ i <= batchStart + batchLength => reader[items[i]] # "none"
            /\ i > batchStart + batchLength => reader[items[i]] = "none"
        BY <1>1 DEF ReadersAreInBatch, Batching
      <3>2. reader[items[i]] \in {"none"} \cup Running \cup Ended
        BY <1>1, <1>3 DEF TypeOK
      <3>3. i \in Nat
        BY <1>3
      <3> QED  BY <1>3, <2>1, <3>1, <3>2, <3>3
    <2>3. \A i \in DOMAIN items : i \in Nat
      BY <1>3
    <2>4. \A n \in Name : reader[n] = "none" => tries[n] = 0
      BY <1>1 DEF ReadersAreInBatch
    <2>5. \A i \in DOMAIN items : i > batchStart + batchLength + 0 => i > batchStart + batchLength
      BY <1>3
    <2> QED  BY <1>1, <1>3, <2>1, <2>2, <2>3, <2>4, <2>5 DEF ReadersAreInBatch, Batching
  <1>8. WaitGroupCounts'
    BY <1>1, <1>2 DEF IndInv, WaitGroupCounts
  <1>9. ReadsAreKept'
    <2>1. \A b \in listed : \A i \in 1..(batchStart + batchLength) :
             items[i] = PathOf[b] /\ Readable(b) => b \in storeIndex'
      <3> TAKE b \in listed
      <3> TAKE i \in 1..(batchStart + batchLength)
      <3> HAVE items[i] = PathOf[b] /\ Readable(b)
      <3>1. CASE i <= batchStart
        BY <1>1, <1>3, <3>1 DEF ReadsAreKept
      <3>2. CASE i > batchStart
        <4>1. i - batchStart \in 1..batchLength /\ batchStart + (i - batchStart) = i
          BY <1>3, <3>2
        <4>2. batchBlockIndexes[i - batchStart] = b
          BY <1>1, <4>1 DEF ReadsAreKept, Batching
        <4>3. b # Nothing
          BY <1>3, RebuildAssumption
        <4> QED  BY <1>1, <1>3, <4>1, <4>2, <4>3 DEF Range
      <3> QED  BY <1>3, <3>1, <3>2
    <2> QED  BY <1>1, <1>2, <2>1 DEF ReadsAreKept, Readable, Batching
  <1>10. IndexIsStored'
    BY <1>1, <1>2, <1>4 DEF IndInv, IndexIsStored
  <1> QED  BY <1>5, <1>6, <1>7, <1>8, <1>9, <1>10 DEF IndInv

\* A goroutine goes on, or comes to its end.
Continues(n) ==
    /\ reader[n] \in Running
    /\ UNCHANGED <<Unscanned, wg, batchBlockIndexes>>
    /\ reader' = [reader EXCEPT ![n] = "read"]
    /\ tries' \in [Name -> 0..Attempts] /\ tries'[n] < Attempts
    /\ \A m \in Name \ {n} : tries'[m] = tries[m]

Finishes(n) ==
    /\ reader[n] \in Running
    /\ UNCHANGED Unscanned
    /\ wg' = wg - 1
    /\ \E end \in Ended : reader' = [reader EXCEPT ![n] = end]
    /\ tries' \in [Name -> 0..Attempts]
    /\ \A m \in Name \ {n} : tries'[m] = tries[m]
    /\ \/ /\ UNCHANGED batchBlockIndexes
          /\ reader'[n] = "unknown" \/ tries'[n] = Attempts
       \/ batchBlockIndexes' = [batchBlockIndexes EXCEPT ![client[n]] =
             IF Accepted(n) THEN blobs[n] ELSE @]

LEMMA ScanKinds ==
  ASSUME IndInv, NEW n \in Name, Scan(n)
  PROVE  Continues(n) \/ Finishes(n)
  <1>1. /\ tries \in [Name -> 0..Attempts]
        /\ reader \in [Name -> {"none"} \cup Running \cup Ended]
        /\ reader[n] \in Running => tries[n] < Attempts
    BY DEF IndInv, TypeOK, ReadersAreInBatch
  <1>2. CASE Exists(n)
    BY <1>1, <1>2 DEF Exists, Continues, Running
  <1>3. CASE ExistsFails(n)
    BY <1>1, <1>3 DEF ExistsFails, Finishes, Running, Ended
  <1>4. CASE Read(n)
    BY <1>1, <1>4 DEF Read, Finishes, Running, Ended
  <1>5. CASE ReadFails(n)
    <2>1. /\ tries' = [tries EXCEPT ![n] = @ + 1]
          /\ reader[n] = "read"
          /\ UNCHANGED <<Unscanned, batchBlockIndexes>>
      BY <1>5 DEF ReadFails
    <2>2. tries' \in [Name -> 0..Attempts]
      BY <1>1, <2>1 DEF Attempts, Running
    <2>3. CASE tries'[n] = Attempts
      BY <1>1, <1>5, <2>1, <2>2, <2>3 DEF ReadFails, Finishes, Running, Ended
    <2>4. CASE tries'[n] # Attempts
      <3>1. reader' = [reader EXCEPT ![n] = "read"] /\ UNCHANGED wg
        BY <1>1, <1>5, <2>1, <2>4 DEF ReadFails
      <3>2. tries'[n] < Attempts
        BY <2>2, <2>4 DEF Attempts
      <3> QED  BY <1>1, <2>1, <2>2, <3>1, <3>2 DEF Continues, Running
    <2> QED  BY <2>3, <2>4
  <1> QED  BY <1>2, <1>3, <1>4, <1>5 DEF Scan

\* What holds of the place of a running goroutine, and of the others' places.
LEMMA PlaceOfReader ==
  ASSUME IndInv, NEW n \in Name, reader[n] \in Running
  PROVE  /\ pc = "wait"
         /\ client[n] \in 1..batchLength
         /\ items[batchStart + client[n]] = n
         /\ \A i \in DOMAIN items : items[i] = n => i = batchStart + client[n]
         /\ batchStart \in Nat /\ batchLength \in Nat /\ Len(items) \in Nat
         /\ DOMAIN items = 1..Len(items)
         /\ batchStart + batchLength <= Len(items)
         /\ DOMAIN batchBlockIndexes = 1..batchLength
  <1>1. /\ pc = "wait"
        /\ client[n] \in 1..batchLength
        /\ items[batchStart + client[n]] = n
        /\ Len(batchBlockIndexes) = batchLength
    BY DEF IndInv, ReadersAreInBatch, Batching
  <1>2. /\ batchStart \in Nat /\ batchLength \in Nat /\ Len(items) \in Nat
        /\ DOMAIN items = 1..Len(items)
        /\ batchStart + batchLength <= Len(items)
        /\ DOMAIN batchBlockIndexes = 1..batchLength
    BY <1>1, BatchSize DEF IndInv, TypeOK
  <1>3. batchStart + client[n] \in DOMAIN items
    BY <1>1, <1>2
  <1> QED  BY <1>1, <1>2, <1>3 DEF IndInv, ItemsAreListed

LEMMA ScanStep ==
  ASSUME IndInv, NEW n \in Name, Scan(n)
  PROVE  IndInv'
  <1> DEFINE at == batchStart + client[n]
  <1>1. /\ TypeOK /\ ItemsAreListed /\ ReadersAreInBatch /\ WaitGroupCounts /\ ReadsAreKept
        /\ Continues(n) \/ Finishes(n)
        /\ reader[n] \in Running
        /\ UNCHANGED <<blobs, pc, items, clients, batchStart, client, storeIndex, listed>>
    BY ScanKinds DEF IndInv, Continues, Finishes, Unscanned
  <1>2. /\ pc = "wait"
        /\ client[n] \in 1..batchLength
        /\ items[at] = n
        /\ \A i \in DOMAIN items : items[i] = n => i = at
        /\ batchStart \in Nat /\ batchLength \in Nat /\ Len(items) \in Nat
        /\ DOMAIN items = 1..Len(items)
        /\ batchStart + batchLength <= Len(items)
        /\ DOMAIN batchBlockIndexes = 1..batchLength
    BY <1>1, PlaceOfReader
  <1>3. /\ Stored' = Stored
        /\ batchCount' = batchCount
        /\ batchLength' = batchLength
    BY <1>1 DEF Stored, batchCount, batchLength
  <1>4. /\ reader' \in [Name -> {"none"} \cup Running \cup Ended]
        /\ reader'[n] \in {"read"} \cup Ended
        /\ \A m \in Name \ {n} : reader'[m] = reader[m] /\ tries'[m] = tries[m]
        /\ tries' \in [Name -> 0..Attempts]
        /\ reader'[n] \in Running => tries'[n] < Attempts
    BY <1>1 DEF Continues, Finishes, TypeOK, Running, Ended
  <1>5. WaitGroupCounts' /\ wg' \in 0..WorkerCount
    <2>1. IsFiniteSet(Readers) /\ n \in Readers
      <3>1. Readers \in SUBSET Name /\ n \in Readers
        BY <1>1 DEF Readers
      <3> QED  BY <3>1, RebuildAssumption, FS_Subset
    <2>2. CASE Continues(n)
      <3>1. Readers' = Readers /\ wg' = wg
        BY <1>1, <2>2 DEF Continues, Readers, Running, TypeOK
      <3> QED  BY <1>1, <3>1 DEF WaitGroupCounts, TypeOK
    <2>3. CASE Finishes(n)
      <3>1. Readers' = Readers \ {n} /\ wg' = wg - 1
        BY <1>1, <2>3 DEF Finishes, Readers, Running, Ended, TypeOK
      <3>2. Cardinality(Readers \ {n}) = Cardinality(Readers) - 1
        BY <2>1, FS_RemoveElement
      <3>3. Cardinality(Readers \ {n}) \in Nat
        <4>1. IsFiniteSet(Readers \ {n})
          BY <2>1, FS_RemoveElement
        <4> QED  BY <4>1, FS_CardinalityType
      <3>4. WorkerCount \in Nat /\ wg \in 0..WorkerCount
        BY <1>1, RebuildAssumption DEF TypeOK
      <3> QED  BY <1>1, <3>1, <3>2, <3>3, <3>4 DEF WaitGroupCounts
    <2> QED  BY <1>1, <2>2, <2>3
  <1>6. /\ batchBlockIndexes' \in Seq(Block \cup {Nothing})
        /\ DOMAIN batchBlockIndexes' = 1..batchLength
        /\ Len(batchBlockIndexes') = batchLength
        /\ \A k \in 1..batchLength : k # client[n] =>
              batchBlockIndexes'[k] = batchBlockIndexes[k]
        /\ \/ batchBlockIndexes'[client[n]] = batchBlockIndexes[client[n]]
           \/ Accepted(n) /\ batchBlockIndexes'[client[n]] = blobs[n]
    <2>1. /\ batchBlockIndexes \in Seq(Block \cup {Nothing})
          /\ Len(batchBlockIndexes) = batchLength
      BY <1>1, <1>2 DEF TypeOK
    <2>2. CASE UNCHANGED batchBlockIndexes
      BY <1>2, <2>1, <2>2
    <2>3. CASE batchBlockIndexes' = [batchBlockIndexes EXCEPT ![client[n]] =
                  IF Accepted(n) THEN blobs[n] ELSE @]
      <3>1. Accepted(n) => blobs[n] \in Block
        BY DEF Accepted
      <3>2. (IF Accepted(n) THEN blobs[n] ELSE batchBlockIndexes[client[n]])
               \in Block \cup {Nothing}
        BY <1>2, <2>1, <3>1
      <3> QED  BY <1>2, <2>1, <2>3, <3>2
    <2> QED  BY <1>1, <2>2, <2>3 DEF Continues, Finishes
  <1>7. TypeOK'
    BY <1>1, <1>4, <1>5, <1>6 DEF TypeOK
  <1>8. ItemsAreListed'
    BY <1>1, <1>3 DEF ItemsAreListed
  <1>9. ReadersAreInBatch'
    <2>1. \A m \in Name :
             /\ reader'[m] = "none" => tries'[m] = 0
             /\ reader'[m] \in Running =>
                   /\ tries'[m] < Attempts
                   /\ client[m] \in 1..batchLength
                   /\ items[batchStart + client[m]] = m
      <3> TAKE m \in Name
      <3>1. CASE m = n
        BY <1>2, <1>4, <3>1 DEF Running, Ended
      <3>2. CASE m # n
        BY <1>1, <1>4, <3>2 DEF ReadersAreInBatch
      <3> QED  BY <3>1, <3>2
    <2>2. \A i \in DOMAIN items :
             /\ i <= batchStart => reader'[items[i]] \in Ended
             /\ batchStart < i /\ i <= batchStart + batchLength =>
                   reader'[items[i]] # "none" /\ client[items[i]] = i - batchStart
             /\ i > batchStart + batchLength => reader'[items[i]] = "none"
      <3> TAKE i \in DOMAIN items
      <3>1. /\ i <= batchStart => reader[items[i]] \in Ended
            /\ batchStart < i /\ i <= batchStart + batchLength =>
                  reader[items[i]] # "none" /\ client[items[i]] = i - batchStart
            /\ i > batchStart + batchLength => reader[items[i]] = "none"
        BY <1>1, <1>2 DEF ReadersAreInBatch, Batching
      <3>2. i \in Nat /\ items[i] \in Name
        BY <1>1, <1>2 DEF TypeOK
      <3>3. CASE items[i] = n
        <4>1. i = batchStart + client[n]
          BY <1>2, <3>3
        <4>2. batchStart < i /\ i <= batchStart + batchLength
          BY <1>2, <4>1
        <4>3. reader'[items[i]] # "none"
          BY <1>4, <3>3 DEF Ended
        <4> QED  BY <1>2, <3>1, <3>2, <4>2, <4>3
      <3>4. CASE items[i] # n
        BY <1>4, <3>1, <3>2, <3>4
      <3> QED  BY <3>3, <3>4
    <2> QED  BY <1>1, <1>2, <1>3, <1>6, <2>1, <2>2 DEF ReadersAreInBatch, Batching
  <1>10. ReadsAreKept'
    <2>1. \A k \in 1..batchLength : batchBlockIndexes'[k] \in Stored \cup {Nothing}
      BY <1>1, <1>2, <1>6, AcceptedIsStored DEF ReadsAreKept
    <2>2. \A b \in listed : PathOf[b] \in Name /\ b \in Stored
      BY <1>1, RebuildAssumption DEF TypeOK, ItemsAreListed
    <2>3. \A b \in listed : \A k \in 1..batchLength :
             items[batchStart + k] = PathOf[b] /\ Readable(b)' => batchBlockIndexes'[k] = b
      <3> TAKE b \in listed
      <3> TAKE k \in 1..batchLength
      <3> HAVE items[batchStart + k] = PathOf[b] /\ Readable(b)'
      <3>1. batchStart + k \in DOMAIN items
        BY <1>2
      <3>2. CASE PathOf[b] = n
        <4>1. k = client[n]
          BY <1>2, <3>1, <3>2
        <4>2. Accepted(n) /\ blobs[n] = b
          BY <2>2, <3>2, AcceptedIsStored
        <4>3. reader'[n] = "done" /\ tries'[n] # Attempts
          BY <1>1, <3>2 DEF Readable
        <4>4. ~Continues(n)
          BY <1>1, <4>3 DEF Continues, TypeOK
        <4>5. batchBlockIndexes' = [batchBlockIndexes EXCEPT ![client[n]] =
                 IF Accepted(n) THEN blobs[n] ELSE @]
          BY <1>1, <4>3, <4>4 DEF Finishes
        <4> QED  BY <1>2, <4>1, <4>2, <4>5
      <3>3. CASE PathOf[b] # n
        <4>1. Readable(b)
          BY <1>4, <2>2, <3>3 DEF Readable
        <4>2. batchBlockIndexes[k] = b
          BY <1>1, <1>2, <4>1 DEF ReadsAreKept, Batching
        <4>3. k # client[n]
          BY <1>2, <3>3
        <4> QED  BY <1>6, <4>2, <4>3
      <3> QED  BY <3>2, <3>3
    <2>4. \A b \in listed : \A i \in 1..batchStart :
             items[i] = PathOf[b] /\ Readable(b)' => b \in storeIndex
      <3> TAKE b \in listed
      <3> TAKE i \in 1..batchStart
      <3> HAVE items[i] = PathOf[b] /\ Readable(b)'
      <3>1. i \in DOMAIN items /\ i <= batchStart
        BY <1>2
      <3>2. PathOf[b] # n
        BY <1>2, <3>1
      <3>3. Readable(b)
        BY <1>4, <2>2, <3>2 DEF Readable
      <3> QED  BY <1>1, <1>2, <3>3 DEF ReadsAreKept
    <2> QED  BY <1>1, <1>2, <1>3, <1>6, <2>1, <2>3, <2>4 DEF ReadsAreKept, Batching
  <1>11. IndexIsStored'
    BY <1>1, <1>3 DEF IndInv, IndexIsStored
  <1> QED  BY <1>5, <1>7, <1>8, <1>9, <1>10, <1>11 DEF IndInv

\* In a finished index only those blocks are missing whose reads were given up.
LEMMA SkippedReads == IndInv => NothingSkipped
  <1> SUFFICES ASSUME IndInv, pc = "done",
                      NEW b \in listed \ storeIndex, tries[PathOf[b]] # Attempts
               PROVE  reader[PathOf[b]] = "unknown"
    BY DEF NothingSkipped, GivenUp, IndInv, TypeOK
  <1>1. PICK i \in DOMAIN items : items[i] = PathOf[b]
    BY DEF IndInv, ItemsAreListed
  <1>2. batchStart = Len(items) /\ i \in 1..batchStart
    BY DEF IndInv, ReadersAreInBatch, TypeOK
  <1>3. reader[PathOf[b]] \in Ended
    BY <1>1, <1>2 DEF IndInv, TypeOK, ReadersAreInBatch
  <1>4. ~Readable(b)
    BY <1>1, <1>2 DEF IndInv, ReadsAreKept
  <1> QED  BY <1>3, <1>4 DEF Readable, Ended

-----------------------------------------------------------------------------
(* The theorems.                                                           *)

\* The inductive invariant of the rebuild: what is read is in the batch, each
\* item at its place, and what has been read is kept.
THEOREM Invariance == Spec => []IndInv
  <1>1. IndInv /\ [Next]_vars => IndInv'
    <2> SUFFICES ASSUME IndInv, [Next]_vars PROVE IndInv'
      OBVIOUS
    <2>1. CASE Build
      BY <2>1, ListStep, ClientsStep, StartStep, JoinStep, MergeStep, CloseStep, FailStep DEF Build
    <2>2. ASSUME NEW n \in Name, Scan(n) PROVE IndInv'
      BY <2>2, ScanStep
    <2>3. ASSUME NEW b \in Block, StoreBlock(b) PROVE IndInv'
      BY <2>3, WriteStep
    <2>4. CASE UNCHANGED vars
      BY <2>4, StutterStep
    <2> QED  BY <2>1, <2>2, <2>3, <2>4 DEF Next
  <1> QED  BY Initially, <1>1, PTL DEF Spec

\* Every variable of the rebuild keeps its type: no batch starts behind the
\* last item and the WaitGroup is never negative.
THEOREM Types == Spec => []TypeOK
  <1>1. IndInv => TypeOK
    BY DEF IndInv
  <1> QED  BY Invariance, <1>1, PTL

\* The index lists only blocks that are stored under their names.
THEOREM OnlyStored == Spec => []IndexIsStored
  <1>1. IndInv => IndexIsStored
    BY DEF IndInv
  <1> QED  BY Invariance, <1>1, PTL

\* No two goroutines that run use one client, or one place of the batch.
THEOREM OwnClients == Spec => []OneReaderPerClient
  <1>1. IndInv => OneReaderPerClient
    BY DEF IndInv, ReadersAreInBatch, OneReaderPerClient
  <1> QED  BY Invariance, <1>1, PTL

\* A finished index lists every block that was stored when the blobs were
\* listed, except those whose reads the code gave up.
THEOREM NoneSkipped == Spec => []NothingSkipped
  <1> QED  BY Invariance, SkippedReads, PTL

\* The function never waits for a WaitGroup that no goroutine will release, and
\* never goes on while one still runs: wg counts those that run.
THEOREM WaitIsReleased ==
  Spec => [](/\ wg = 0 <=> \A n \in Name : reader[n] \notin Running
             /\ pc # "wait" => wg = 0)
  <1>1. IndInv => /\ wg = 0 <=> \A n \in Name : reader[n] \notin Running
                  /\ pc # "wait" => wg = 0
    <2> SUFFICES ASSUME IndInv
                 PROVE  /\ wg = 0 <=> Readers = {}
                        /\ pc # "wait" => Readers = {}
      BY DEF Readers
    <2>1. wg = Cardinality(Readers)
      BY DEF IndInv, WaitGroupCounts
    <2>2. IsFiniteSet(Readers)
      BY RebuildAssumption, FS_Subset DEF Readers
    <2>3. pc # "wait" => Readers = {}
      BY DEF IndInv, ReadersAreInBatch, Readers
    <2> QED  BY <2>1, <2>2, <2>3, FS_EmptySet
  <1> QED  BY <1>1, Invariance, PTL

-----------------------------------------------------------------------------
(* The rebuild implements BuiltIndex.                                      *)

LEMMA InitSnapshot == Init => OnlyListedRead
  BY DEF Init, OnlyListedRead, Range

\* Another process writes under a name that was not listed.
LEMMA WriteSnapshot ==
  ASSUME IndInv, OnlyListedRead, NEW c \in Block, StoreBlock(c)
  PROVE  /\ OnlyListedRead'
         /\ Stored' = Stored \cup {c}
  <1>1. /\ blobs \in [Name -> Block \cup {Absent, Empty, Junk}]
        /\ PathOf \in [Block -> Name]
        /\ \A b, d \in Block : PathOf[b] = PathOf[d] => b = d
        /\ Absent \notin Block
        /\ \A i \in DOMAIN items : items[i] \in Name
    BY RebuildAssumption DEF IndInv, TypeOK
  <1>2. /\ blobs[PathOf[c]] = Absent
        /\ blobs' = [blobs EXCEPT ![PathOf[c]] = c]
        /\ UNCHANGED <<items, listed, batchBlockIndexes, storeIndex>>
    BY DEF StoreBlock, goroutine
  <1>3. Stored' = Stored \cup {c}
    BY <1>1, <1>2 DEF Stored
  <1>4. \A i \in DOMAIN items : items[i] # PathOf[c]
    BY <1>2 DEF OnlyListedRead
  <1>5. \A i \in DOMAIN items : blobs'[items[i]] = blobs[items[i]]
    BY <1>1, <1>2, <1>4
  <1> QED  BY <1>2, <1>3, <1>4, <1>5 DEF OnlyListedRead

\* A goroutine reads a block that was stored when its blob was listed.
LEMMA ScanSnapshot ==
  ASSUME IndInv, OnlyListedRead, NEW n \in Name, Scan(n)
  PROVE  OnlyListedRead'
  <1>1. /\ Continues(n) \/ Finishes(n)
        /\ reader[n] \in Running
        /\ UNCHANGED <<blobs, items, storeIndex, listed>>
    BY ScanKinds DEF Continues, Finishes, Unscanned
  <1>2. /\ client[n] \in 1..batchLength
        /\ items[batchStart + client[n]] = n
        /\ batchStart + client[n] \in DOMAIN items
        /\ DOMAIN batchBlockIndexes = 1..batchLength
    BY <1>1, PlaceOfReader
  <1>3. Accepted(n) => blobs[n] \in listed
    BY <1>2, AcceptedIsStored DEF OnlyListedRead
  <1>4. \/ UNCHANGED batchBlockIndexes
        \/ batchBlockIndexes' = [batchBlockIndexes EXCEPT ![client[n]] =
              IF Accepted(n) THEN blobs[n] ELSE @]
    BY <1>1 DEF Continues, Finishes
  <1>5. Range(batchBlockIndexes') \subseteq listed \cup {Nothing}
    <2>1. Range(batchBlockIndexes) \subseteq listed \cup {Nothing}
      BY DEF OnlyListedRead
    <2>2. \A i \in DOMAIN batchBlockIndexes : batchBlockIndexes[i] \in listed \cup {Nothing}
      BY <2>1 DEF Range
    <2>3. DOMAIN batchBlockIndexes' = DOMAIN batchBlockIndexes
      BY <1>4
    <2>4. \A i \in DOMAIN batchBlockIndexes : batchBlockIndexes'[i] \in listed \cup {Nothing}
      <3> SUFFICES ASSUME NEW i \in DOMAIN batchBlockIndexes
                   PROVE  batchBlockIndexes'[i] \in listed \cup {Nothing}
        OBVIOUS
      <3>1. \/ batchBlockIndexes'[i] = batchBlockIndexes[i]
            \/ Accepted(n) /\ batchBlockIndexes'[i] = blobs[n]
        BY <1>4
      <3> QED  BY <1>3, <2>2, <3>1
    <2> QED  BY <2>3, <2>4 DEF Range
  <1>6. Stored' = Stored
    BY <1>1 DEF Stored
  <1> QED  BY <1>1, <1>5, <1>6 DEF OnlyListedRead

\* The function itself adds to the index only what was read.
LEMMA BuildSnapshot ==
  ASSUME IndInv, OnlyListedRead, Build
  PROVE  OnlyListedRead'
  <1>1. CASE GetObjects
    <2>1. \A i \in DOMAIN items' : blobs[items'[i]] # Absent
      BY <1>1, ListingIsComplete DEF IndInv
    <2>2. /\ UNCHANGED <<blobs, batchBlockIndexes, storeIndex>>
          /\ listed' = Stored /\ Stored' = Stored
      BY <1>1 DEF GetObjects, goroutine, Stored
    <2>3. Range(batchBlockIndexes) \subseteq Stored \cup {Nothing}
      BY DEF IndInv, ReadsAreKept, Range
    <2> QED  BY <2>1, <2>2, <2>3 DEF IndInv, IndexIsStored, OnlyListedRead
  <1>2. CASE StartBatch
    <2>1. /\ UNCHANGED <<blobs, items, storeIndex, listed>>
          /\ batchBlockIndexes' = [i \in 1..batchLength |-> Nothing]
      BY <1>2 DEF StartBatch
    <2>2. Range(batchBlockIndexes') \subseteq {Nothing} /\ Stored' = Stored
      BY <2>1 DEF Range, Stored
    <2> QED  BY <2>1, <2>2 DEF OnlyListedRead
  <1>3. CASE MergeBatch
    <2>1. /\ UNCHANGED <<blobs, items, listed, batchBlockIndexes>>
          /\ storeIndex' = storeIndex \cup (Range(batchBlockIndexes) \ {Nothing})
      BY <1>3 DEF MergeBatch, goroutine
    <2>2. Stored' = Stored
      BY <2>1 DEF Stored
    <2> QED  BY <2>1, <2>2 DEF OnlyListedRead
  <1>4. CASE NewClients \/ Join \/ CloseClients \/ Fails
    <2>1. /\ UNCHANGED <<blobs, items, listed, batchBlockIndexes>>
          /\ storeIndex' \subseteq storeIndex
      BY <1>4 DEF NewClients, Join, CloseClients, Fails, goroutine
    <2>2. Stored' = Stored
      BY <2>1 DEF Stored
    <2> QED  BY <2>1, <2>2 DEF OnlyListedRead
  <1> QED  BY <1>1, <1>2, <1>3, <1>4 DEF Build

LEMMA NextSnapshot ==
  ASSUME IndInv, OnlyListedRead, [Next]_vars
  PROVE  OnlyListedRead'
  <1>1. CASE UNCHANGED vars
    <2>1. UNCHANGED <<blobs, items, listed, batchBlockIndexes, storeIndex>> /\ Stored' = Stored
      BY <1>1 DEF vars, goroutine, Stored
    <2> QED  BY <2>1 DEF OnlyListedRead
  <1>2. CASE Next
    BY <1>2, BuildSnapshot, ScanSnapshot, WriteSnapshot DEF Next
  <1> QED  BY <1>1, <1>2

LEMMA InitRefines == Init => Snapshot!Init
  <1> SUFFICES ASSUME Init PROVE Snapshot!Init
    OBVIOUS
  <1>1. GivenUp = {}
    BY RebuildAssumption DEF Init, GivenUp, Attempts
  <1> QED  BY <1>1 DEF Init, Snapshot!Init, Stored, Phase

\* A step of one goroutine gives up the block it reads, or none.
LEMMA ScanGivesUp ==
  ASSUME IndInv, NEW n \in Name, Scan(n)
  PROVE  GivenUp' = GivenUp \/ \E c \in Block : GivenUp' = GivenUp \cup {c}
  <1>1. /\ reader[n] \in Running /\ pc = "wait"
        /\ tries[n] < Attempts
        /\ \A m \in Name \ {n} : reader'[m] = reader[m] /\ tries'[m] = tries[m]
    BY ScanKinds DEF Continues, Finishes, IndInv, TypeOK, ReadersAreInBatch
  <1>2. /\ PathOf \in [Block -> Name]
        /\ \A b, d \in Block : PathOf[b] = PathOf[d] => b = d
    BY RebuildAssumption
  <1>3. tries[n] # Attempts /\ reader[n] # "unknown"
    BY <1>1 DEF IndInv, TypeOK, Attempts, Running
  <1>4. \A b \in Block : PathOf[b] # n => (b \in GivenUp' <=> b \in GivenUp)
    BY <1>1, <1>2 DEF GivenUp
  <1>5. CASE \A b \in Block : PathOf[b] # n
    <2>1. GivenUp' = GivenUp
      BY <1>4, <1>5 DEF GivenUp
    <2> QED  BY <2>1
  <1>6. CASE \E b \in Block : PathOf[b] = n
    <2>1. PICK c \in Block : PathOf[c] = n
      BY <1>6
    <2>2. c \notin GivenUp
      BY <1>3, <2>1 DEF GivenUp
    <2>3. \A b \in Block \ {c} : b \in GivenUp' <=> b \in GivenUp
      BY <1>2, <1>4, <2>1
    <2>4. GivenUp \subseteq Block /\ GivenUp' \subseteq Block
      BY DEF GivenUp
    <2>5. GivenUp' = GivenUp \/ GivenUp' = GivenUp \cup {c}
      BY <2>2, <2>3, <2>4
    <2> QED  BY <2>5
  <1> QED  BY <1>5, <1>6

\* No batch is started again, and what was given up stays so.
LEMMA BuildGivesUpNone ==
  ASSUME IndInv, Build
  PROVE  GivenUp' = GivenUp
  <1>1. CASE StartBatch
    <2>1. \A n \in Name : reader'[n] # reader[n] => reader[n] = "none" /\ reader'[n] = "exists"
      <3>1. reader' = [n \in Name |-> IF n \in Range(Batch) THEN "exists" ELSE reader[n]]
        BY <1>1 DEF StartBatch
      <3>2. \A n \in Name : n \in Range(Batch) => reader[n] = "none"
        BY <1>1, BatchIsNew
      <3> QED  BY <3>1, <3>2
    <2>2. tries' = tries
      BY <1>1 DEF StartBatch
    <2>3. PathOf \in [Block -> Name]
      BY RebuildAssumption
    <2> QED  BY <2>1, <2>2, <2>3 DEF GivenUp
  <1>2. CASE GetObjects \/ NewClients \/ Join \/ MergeBatch \/ CloseClients \/ Fails
    <2>1. UNCHANGED <<reader, tries>>
      BY <1>2 DEF GetObjects, NewClients, Join, MergeBatch, CloseClients, Fails, goroutine
    <2> QED  BY <2>1 DEF GivenUp
  <1> QED  BY <1>1, <1>2 DEF Build

\* The listing and the return are steps of BuiltIndex, all between them none.
LEMMA StepRefines ==
  ASSUME IndInv, NothingSkipped', OnlyListedRead, OnlyListedRead', [Next]_vars
  PROVE  [Snapshot!Next]_(Snapshot!vars)
  <1> DEFINE Built == IF pc = "done" THEN storeIndex ELSE {}
  <1> USE DEF Snapshot!vars
  <1>1. CASE GetObjects
    <2>1. /\ pc = "list" /\ pc' = "clients" /\ listed' = Stored
          /\ Stored' = Stored
      BY <1>1 DEF GetObjects, Stored
    <2>2. Phase = "begun" /\ Phase' = "listed" /\ Built' = Built
      BY <2>1 DEF Phase
    <2>3. Snapshot!List
      BY <1>1, <2>1, <2>2, BuildGivesUpNone DEF Build, Snapshot!List
    <2> QED  BY <2>3 DEF Snapshot!Next
  <1>2. CASE CloseClients
    <2>1. /\ pc = "batch" /\ pc' = "done"
          /\ listed' = listed /\ Stored' = Stored
      BY <1>2 DEF CloseClients, Stored
    <2>2. Phase = "listed" /\ Phase' = "done" /\ Built' = storeIndex'
      BY <2>1 DEF Phase
    <2>3. storeIndex' \subseteq listed
      BY <2>1 DEF OnlyListedRead
    <2>4. GivenUp' = GivenUp
      BY <1>2, BuildGivesUpNone DEF Build
    <2>5. listed \ GivenUp \subseteq storeIndex'
      BY <2>1, <2>4 DEF NothingSkipped
    <2>6. Snapshot!Return
      BY <2>1, <2>2, <2>3, <2>4, <2>5 DEF Snapshot!Return
    <2> QED  BY <2>6 DEF Snapshot!Next
  <1>3. CASE Fails
    <2>1. /\ pc \in {"list", "clients", "merge"} /\ pc' = "failed"
          /\ listed' = listed /\ Stored' = Stored
      BY <1>3 DEF Fails, Stored
    <2>2. Phase \in {"begun", "listed"} /\ Phase' = "failed" /\ Built' = Built
      BY <2>1 DEF Phase
    <2>3. Snapshot!Fail
      BY <1>3, <2>1, <2>2, BuildGivesUpNone DEF Build, Snapshot!Fail
    <2> QED  BY <2>3 DEF Snapshot!Next
  <1>4. ASSUME NEW c \in Block, StoreBlock(c)
        PROVE  Snapshot!Store(c)
    <2>1. Stored' = Stored \cup {c}
      BY <1>4, WriteSnapshot
    <2>2. UNCHANGED <<pc, storeIndex, listed, reader, tries>>
      BY <1>4 DEF StoreBlock, goroutine
    <2> QED  BY <2>1, <2>2 DEF Snapshot!Store, Phase, GivenUp
  <1>5. CASE \/ NewClients \/ StartBatch \/ Join \/ MergeBatch
             \/ (\E n \in Name : Scan(n)) \/ UNCHANGED vars
    <2>1. UNCHANGED <<blobs, listed>>
      BY <1>5 DEF NewClients, StartBatch, Join, MergeBatch, Scan, Exists, ExistsFails, Read,
         ReadFails, Unscanned, vars
    <2>2. \/ UNCHANGED <<pc, storeIndex>>
          \/ pc \in {"clients", "batch", "wait", "merge"} /\ pc' \in {"batch", "wait", "merge"}
      BY <1>5 DEF NewClients, StartBatch, Join, MergeBatch, Scan, Exists, ExistsFails, Read,
         ReadFails, Unscanned, vars
    <2>3. Phase' = Phase /\ Built' = Built
      BY <2>2 DEF Phase
    <2>4. Stored' = Stored
      BY <2>1 DEF Stored
    <2>5. CASE GivenUp' = GivenUp
      BY <2>1, <2>3, <2>4, <2>5
    <2>6. CASE \E n \in Name : Scan(n)
      <3>1. PICK n \in Name : Scan(n)
        BY <2>6
      <3>2. CASE \E c \in Block : GivenUp' = GivenUp \cup {c}
        <4>1. PICK c \in Block : GivenUp' = GivenUp \cup {c}
          BY <3>2
        <4>2. pc = "wait"
          BY <3>1, ScanKinds, PlaceOfReader DEF Continues, Finishes
        <4>3. Phase = "listed"
          BY <4>2 DEF Phase
        <4>4. Snapshot!GiveUp(c)
          BY <2>1, <2>3, <2>4, <4>1, <4>3 DEF Snapshot!GiveUp
        <4> QED  BY <4>4 DEF Snapshot!Next
      <3> QED  BY <2>5, <3>1, <3>2, ScanGivesUp
    <2>7. UNCHANGED vars => GivenUp' = GivenUp
      BY DEF vars, goroutine, GivenUp
    <2> QED  BY <1>5, <2>5, <2>6, <2>7, BuildGivesUpNone DEF Build
  <1> QED  BY <1>1, <1>2, <1>3, <1>4, <1>5 DEF Next, Build, Snapshot!Next

\* The rebuild implements BuiltIndex: what it returns is what was stored when
\* it listed the blobs, but for blocks whose reads were given up: exactly that
\* when none was.
THEOREM BuildsSnapshot == Spec => RebuildIsSnapshot
  <1>1. Init => IndInv /\ OnlyListedRead /\ Snapshot!Init
    BY Initially, InitSnapshot, InitRefines
  <1>2. IndInv /\ OnlyListedRead /\ [Next]_vars => OnlyListedRead'
    BY NextSnapshot
  <1>3. IndInv /\ NothingSkipped' /\ OnlyListedRead /\ OnlyListedRead' /\ [Next]_vars
           => [Snapshot!Next]_(Snapshot!vars)
    BY StepRefines
  <1> QED  BY <1>1, <1>2, <1>3, Invariance, SkippedReads, PTL DEF Spec, RebuildIsSnapshot, Snapshot!Spec
=============================================================================
