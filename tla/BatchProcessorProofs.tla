------------------------- MODULE BatchProcessorProofs ------------------------
(***************************************************************************)
(* Theorems about BatchProcessor, for any slice, batch size, limit of      *)
(* concurrency and cancellation.                                           *)
(***************************************************************************)
EXTENDS BatchProcessor, FiniteSetTheorems, TLAPS

\* The multiples of the batch size are at least a batch apart.
LEMMA BatchesApart ==
  ASSUME NEW i \in Nat, NEW j \in Nat, i < j
  PROVE  i * BatchSize + BatchSize <= j * BatchSize
<1>1. PICK d \in Nat : j = i + 1 + d
  <2>1. j - i - 1 \in Nat /\ j = i + 1 + (j - i - 1)
    OBVIOUS
  <2>. QED
    BY <2>1
<1>2. BatchSize \in Nat
  BY BatchAssumption DEF BatchAssumption
<1>3. j * BatchSize = i * BatchSize + BatchSize + d * BatchSize /\ d * BatchSize >= 0
  BY <1>1, <1>2
<1>. QED
  BY <1>2, <1>3

\* So no item is in two batches.
LEMMA BatchesDisjoint ==
  ASSUME NEW i \in Batch, NEW j \in Batch, i # j, NEW k \in batch(i)
  PROVE  k \notin batch(j)
<1>1. i \in Nat /\ j \in Nat /\ k \in Int /\ BatchSize \in Nat
  BY BatchAssumption DEF BatchAssumption, Batch, batch, Item
<1>2. i * BatchSize \in Int /\ j * BatchSize \in Int
  BY <1>1
<1>3. i * BatchSize <= k /\ k < i * BatchSize + BatchSize
  BY DEF batch
<1>4. CASE i < j
  <2>1. i * BatchSize + BatchSize <= j * BatchSize
    BY <1>1, <1>4, BatchesApart
  <2>2. k < j * BatchSize
    BY <1>1, <1>2, <1>3, <2>1
  <2>. QED
    BY <1>1, <1>2, <2>2 DEF batch
<1>5. CASE j < i
  <2>1. j * BatchSize + BatchSize <= i * BatchSize
    BY <1>1, <1>5, BatchesApart
  <2>2. j * BatchSize + BatchSize <= k
    BY <1>1, <1>2, <1>3, <2>1
  <2>. QED
    BY <1>1, <1>2, <2>2 DEF batch
<1>. QED
  BY <1>1, <1>4, <1>5

\* The number of batches is a number.
LEMMA BatchCount ==
  ASSUME totalItems \in 0 .. MaxItems
  PROVE  batchCount \in Nat
  BY BatchAssumption DEF BatchAssumption, batchCount

\* What a division rounds.
LEMMA Rounding ==
  ASSUME NEW m \in Nat, NEW d \in Nat \ {0}
  PROVE  /\ m \div d \in Nat
         /\ (m \div d) * d <= m /\ m < (m \div d) * d + d
  OBVIOUS

\* There is a goroutine for at most each item: every batch that exists is in Batch.
LEMMA FewBatches ==
  ASSUME totalItems \in 0 .. MaxItems
  PROVE  batchCount \in Nat /\ batchCount <= totalItems
<1>1. totalItems \in Nat /\ BatchSize \in Nat \ {0} /\ batchCount \in Nat
  BY BatchAssumption, BatchCount DEF BatchAssumption
<1>2. batchCount * BatchSize <= totalItems + BatchSize - 1
  BY <1>1, Rounding DEF batchCount
<1>. SUFFICES ASSUME totalItems < batchCount PROVE FALSE
  BY <1>1
<1>3. totalItems * BatchSize + BatchSize <= batchCount * BatchSize
  BY <1>1, BatchesApart
<1>4. totalItems <= totalItems * BatchSize /\ totalItems * BatchSize \in Nat
  BY <1>1
<1>5. batchCount * BatchSize \in Nat
  BY <1>1
<1>. QED  BY <1>1, <1>2, <1>3, <1>4, <1>5

-----------------------------------------------------------------------------
\* What holds between the goroutines and the shared state: slots are held by
\* the goroutines that passed the semaphore, an error is put last, only batches
\* that are launched run, the items of a batch are untouched until it is processed, and the
\* wait group counts the goroutines that are running.
Waiting == {"none", "start", "acquire", "check"}

StartedInOrder == \A b \in Batch : pc[b] # "none" <=> b < launched
HoldsASlot     == \A b \in Batch : pc[b] \in {"check", "process"} => b \in semaphore
ErrorIsLast    == \A b \in Batch : errChan[b] # "none" => pc[b] \in {"leave", "done"}
Untouched      == \A b \in Batch, k \in Item :
                    pc[b] \in Waiting /\ k \in batch(b) => calls[k] = 0
SlotsBounded   == IsFiniteSet(semaphore) /\ Cardinality(semaphore) <= MaxConcurrentBatches
Running        == {b \in Batch : pc[b] \notin {"none", "done"}}
Counted        == wg = Cardinality(Running)
AfterTheWait   == closed => launched = batchCount /\ wg = 0
AfterTheClose  == result # "none" => closed \/ totalItems = 0

Bookkeeping ==
  /\ StartedInOrder /\ HoldsASlot /\ ErrorIsLast /\ Untouched
  /\ EachItemAtMostOnce /\ SlotsBounded /\ Counted /\ AfterTheWait /\ AfterTheClose

IInv == TypeOK /\ Bookkeeping

\* Goroutines are few, so that they can be counted.
LEMMA RunningFinite == IsFiniteSet(Running) /\ Cardinality(Running) \in Nat
<1>1. MaxItems \in Nat
  BY BatchAssumption DEF BatchAssumption
<1>2. IsFiniteSet(Batch)
  BY <1>1, FS_Interval DEF Batch
<1>3. Running \in SUBSET Batch
  BY DEF Running
<1>. QED  BY <1>2, <1>3, FS_Subset, FS_CardinalityType

\* The count of the wait group is what keeps the channel open and the caller waiting.
LEMMA StillWaiting ==
  ASSUME IInv, NEW b \in Batch, pc[b] \notin {"none", "done"}
  PROVE  ~closed /\ result = "none"
<1>1. wg # 0
  <2>1. Running # {}
    BY DEF Running
  <2>. QED  BY <2>1, RunningFinite, FS_EmptySet DEF IInv, Bookkeeping, Counted
<1>2. ~closed
  BY <1>1 DEF IInv, Bookkeeping, AfterTheWait
<1>3. totalItems # 0
  <2>1. /\ b \in Nat /\ b < launched /\ launched \in 0 .. batchCount
        /\ totalItems \in Nat /\ batchCount \in Nat /\ batchCount <= totalItems
    BY FewBatches, BatchAssumption
    DEF IInv, TypeOK, Bookkeeping, StartedInOrder, Batch, BatchAssumption
  <2>. QED  BY <2>1
<1>. QED  BY <1>2, <1>3 DEF IInv, Bookkeeping, AfterTheClose

\* When the call may return every batch is done.
LEMMA WaitIsOver ==
  ASSUME IInv, closed \/ totalItems = 0
  PROVE  \A b \in Batch : /\ pc[b] \in {"none", "done"}
                          /\ b < batchCount => pc[b] = "done"
<1>1. launched = batchCount /\ batchCount \in Nat
  <2>1. /\ launched \in 0 .. batchCount /\ totalItems \in Nat
        /\ batchCount \in Nat /\ batchCount <= totalItems
    BY FewBatches, BatchAssumption DEF IInv, TypeOK, BatchAssumption
  <2>. QED  BY <2>1 DEF IInv, Bookkeeping, AfterTheWait
<1>2. ASSUME NEW b \in Batch  PROVE pc[b] \in {"none", "done"}
  <2>1. CASE closed
    BY <2>1, StillWaiting
  <2>2. CASE totalItems = 0
    <3>1. ~(b < launched)
      <4>1. b \in Nat /\ batchCount <= 0
        BY <2>2, FewBatches DEF IInv, TypeOK, Batch
      <4>. QED  BY <1>1, <4>1
    <3>. QED  BY <3>1 DEF IInv, Bookkeeping, StartedInOrder
  <2>. QED  BY <2>1, <2>2
<1>. QED  BY <1>1, <1>2 DEF IInv, Bookkeeping, StartedInOrder

LEMMA InitInv == Init => IInv
<1>. SUFFICES ASSUME Init PROVE IInv
  OBVIOUS
<1>1. TypeOK
  <2>1. batchCount \in Nat
    BY BatchCount DEF Init
  <2>2. launched \in 0 .. batchCount
    BY <2>1 DEF Init
  <2>. QED
    BY <2>2 DEF Init, TypeOK, States
<1>2. SlotsBounded
  BY FS_EmptySet, BatchAssumption DEF Init, BatchAssumption, SlotsBounded
<1>3. Counted
  <2>1. Running = {}
    BY DEF Init, Running
  <2>. QED  BY <2>1, FS_EmptySet DEF Init, Counted
<1>4. StartedInOrder
  BY DEF Init, StartedInOrder, Batch
<1>. QED
  BY <1>1, <1>2, <1>3, <1>4
  DEF Init, IInv, Bookkeeping, HoldsASlot, ErrorIsLast, Untouched, EachItemAtMostOnce,
      AfterTheWait, AfterTheClose

LEMMA NextTypeOK == IInv /\ [Next]_vars => TypeOK'
<1>. SUFFICES ASSUME IInv, [Next]_vars PROVE TypeOK'
  OBVIOUS
<1>0. TypeOK
  BY DEF IInv
<1>1. batchCount \in Nat
  BY <1>0, BatchCount DEF TypeOK
<1>2. CASE Launch
  <2>1. batchCount' = batchCount
    BY <1>2 DEF Launch, batchCount
  <2>2. launched' \in 0 .. batchCount'
    BY <1>0, <1>1, <1>2, <2>1 DEF TypeOK, Launch
  <2>3. pc' \in [Batch -> States]
    BY <1>0, <1>2 DEF TypeOK, Launch, States
  <2>. QED
    BY <1>0, <1>2, <2>2, <2>3 DEF TypeOK, Launch
<1>3. CASE Return
  BY <1>0, <1>1, <1>3 DEF TypeOK, Return, batchCount
<1>4. CASE Cancel \/ Close \/ Returned
  BY <1>0, <1>4 DEF TypeOK, Cancel, Close, Returned, vars, call, batchCount
<1>5. ASSUME NEW b \in Batch, Goroutine(b)
      PROVE  TypeOK'
  <2>. USE <1>0 DEF TypeOK
  <2>1. UNCHANGED call /\ cancelled' = cancelled /\ batchCount' = batchCount
    BY <1>5
    DEF Goroutine, Start, Acquire, GiveUp, Process, Processed, SendCtxErr, Leave, call, batchCount
  <2>2. pc' \in [Batch -> States]
    BY <1>5 DEF Goroutine, Start, Acquire, GiveUp, Process, Processed, SendCtxErr,
                Leave, Goto, States
  <2>3. semaphore' \subseteq Batch
    BY <1>5 DEF Goroutine, Start, Acquire, GiveUp, Process, Processed, SendCtxErr, Leave
  <2>4. errChan' \in [Batch -> Errors \cup {"none"}]
    BY <1>5 DEF Goroutine, Start, Acquire, GiveUp, Process, Processed, SendCtxErr,
                Leave, Put, Errors
  <2>5. calls' \in [Item -> Nat]
    BY <1>5 DEF Goroutine, Start, Acquire, GiveUp, Process, Processed, SendCtxErr, Leave
  <2>6. wg' \in Nat
    <3>1. wg # 0
      <4>1. pc[b] \notin {"none", "done"}
        BY <1>5 DEF Goroutine, Start, Acquire, GiveUp, Process, Processed, SendCtxErr, Leave, Goto
      <4>2. Running # {}
        BY <4>1 DEF Running
      <4>. QED  BY <4>2, RunningFinite, FS_EmptySet DEF IInv, Bookkeeping, Counted
    <3>2. wg' \in {wg, wg - 1}
      BY <1>5 DEF Goroutine, Start, Acquire, GiveUp, Process, Processed, SendCtxErr, Leave
    <3>. QED  BY <3>1, <3>2
  <2>. QED
    BY <2>1, <2>2, <2>3, <2>4, <2>5, <2>6 DEF call
<1>6. CASE UNCHANGED vars
  BY <1>0, <1>6 DEF TypeOK, vars, batchCount
<1>. QED
  BY <1>2, <1>3, <1>4, <1>5, <1>6 DEF Next

\* A slot taken and a slot given back.
LEMMA TakeSlot ==
  ASSUME NEW S, NEW b, IsFiniteSet(S), Cardinality(S) < MaxConcurrentBatches
  PROVE  IsFiniteSet(S \cup {b}) /\ Cardinality(S \cup {b}) <= MaxConcurrentBatches
<1>1. Cardinality(S) \in Nat /\ MaxConcurrentBatches \in Nat
  BY FS_CardinalityType, BatchAssumption DEF BatchAssumption
<1>. QED
  BY <1>1, FS_AddElement

LEMMA FreeSlot ==
  ASSUME NEW S, NEW b, IsFiniteSet(S), Cardinality(S) <= MaxConcurrentBatches
  PROVE  IsFiniteSet(S \ {b}) /\ Cardinality(S \ {b}) <= MaxConcurrentBatches
<1>1. Cardinality(S) \in Nat /\ MaxConcurrentBatches \in Nat
  BY FS_CardinalityType, BatchAssumption DEF BatchAssumption
<1>. QED
  BY <1>1, FS_RemoveElement

\* The first goroutine that processes an item finds it untouched, and no other
\* goroutine processes it later.
LEMMA ProcessOnce ==
  ASSUME IInv, NEW b \in Batch, Process(b), ~cancelled
  PROVE  /\ \A c \in Batch, k \in Item :
               pc'[c] \in Waiting /\ k \in batch(c) => calls'[k] = 0
         /\ \A k \in Item : calls'[k] <= 1
<1>1. pc[b] = "check" /\ pc' = [pc EXCEPT ![b] = "process"] /\ pc \in [Batch -> States]
  BY DEF Process, Goto, IInv, TypeOK
<1>2. calls' = [k \in Item |-> IF k \in batch(b) THEN calls[k] + 1 ELSE calls[k]]
  BY DEF Process
<1>3. \A k \in Item : k \in batch(b) => calls[k] = 0
  BY <1>1 DEF IInv, Bookkeeping, Untouched, Waiting
<1>4. ASSUME NEW c \in Batch, NEW k \in Item, pc'[c] \in Waiting, k \in batch(c)
      PROVE  calls'[k] = 0
  <2>1. c # b
    BY <1>1, <1>4 DEF Waiting
  <2>2. k \notin batch(b)
    BY <1>4, <2>1, BatchesDisjoint
  <2>3. pc[c] \in Waiting
    BY <1>1, <1>4, <2>1
  <2>4. calls[k] = 0
    BY <1>4, <2>3 DEF IInv, Bookkeeping, Untouched
  <2>. QED
    BY <1>2, <2>2, <2>4
<1>5. ASSUME NEW k \in Item
      PROVE  calls'[k] <= 1
  <2>1. calls[k] <= 1
    BY DEF IInv, Bookkeeping, EachItemAtMostOnce
  <2>. QED
    BY <1>2, <1>3, <2>1
<1>. QED
  BY <1>4, <1>5

LEMMA NextBookkeeping == IInv /\ [Next]_vars => Bookkeeping'
<1>. SUFFICES ASSUME IInv, [Next]_vars PROVE Bookkeeping'
  OBVIOUS
<1>. USE DEF IInv, Bookkeeping
<1>1. batchCount \in Nat
  BY BatchCount DEF TypeOK
<1>2. CASE Launch
  <2>1. /\ launched < batchCount /\ launched' = launched + 1
        /\ pc' = [pc EXCEPT ![launched] = "start"] /\ pc \in [Batch -> States]
        /\ launched \in Nat /\ launched \in Batch /\ wg' = wg + 1
        /\ UNCHANGED <<totalItems, semaphore, errChan, closed, calls, cancelled, result>>
    BY <1>1, <1>2, FewBatches, BatchAssumption DEF Launch, TypeOK, Batch, BatchAssumption
  <2>2. StartedInOrder'
    BY <2>1 DEF StartedInOrder, Batch
  <2>3. HoldsASlot'
    BY <2>1 DEF HoldsASlot
  <2>4. ErrorIsLast'
    <3>1. launched \in Batch => pc[launched] = "none"
      BY <2>1 DEF StartedInOrder
    <3>. QED
      BY <2>1, <3>1 DEF ErrorIsLast
  <2>5. Untouched'
    <3>1. launched \in Batch => pc[launched] = "none"
      BY <2>1 DEF StartedInOrder
    <3>2. ASSUME NEW b \in Batch, NEW k \in Item, pc'[b] \in Waiting, k \in batch(b)
          PROVE  calls[k] = 0
      <4>1. pc[b] \in Waiting
        BY <2>1, <3>1, <3>2 DEF Waiting
      <4>. QED
        BY <3>2, <4>1 DEF Untouched
    <3>. QED
      BY <2>1, <3>2 DEF Untouched, batch
  <2>6. EachItemAtMostOnce' /\ SlotsBounded'
    BY <2>1 DEF EachItemAtMostOnce, SlotsBounded
  <2>7. AfterTheWait' /\ AfterTheClose'
    <3>1. ~closed
      BY <1>1, <2>1 DEF AfterTheWait
    <3>. QED
      BY <2>1, <3>1 DEF AfterTheWait, AfterTheClose
  <2>8. Counted'
    <3>1. launched \notin Running
      BY <2>1 DEF Running, StartedInOrder
    <3>2. Running' = Running \cup {launched}
      BY <2>1 DEF Running
    <3>. QED  BY <2>1, <3>1, <3>2, RunningFinite, FS_AddElement DEF Counted
  <2>. QED
    BY <2>2, <2>3, <2>4, <2>5, <2>6, <2>7, <2>8
<1>3. CASE Close \/ Return
  <2>1. UNCHANGED <<totalItems, launched, wg, pc, semaphore, errChan, calls, cancelled>>
    BY <1>3 DEF Close, Return
  <2>2. /\ StartedInOrder' /\ HoldsASlot' /\ ErrorIsLast' /\ EachItemAtMostOnce' /\ SlotsBounded'
        /\ Counted'
    BY <2>1
    DEF StartedInOrder, HoldsASlot, ErrorIsLast, EachItemAtMostOnce, SlotsBounded, Counted, Running
  <2>3. Untouched'
    BY <2>1 DEF Untouched, batch
  <2>4. AfterTheWait'
    BY <1>3, <2>1 DEF Close, Return, AfterTheWait, batchCount
  <2>5. AfterTheClose'
    BY <1>3, <2>1 DEF Close, Return, mayReturn, AfterTheClose
  <2>. QED
    BY <2>2, <2>3, <2>4, <2>5
<1>4. CASE Cancel \/ Returned \/ UNCHANGED vars
  <2>1. UNCHANGED <<totalItems, launched, wg, pc, semaphore, errChan, closed, calls, result>>
    BY <1>4 DEF Cancel, Returned, vars, call
  <2>. QED
    BY <2>1 DEF StartedInOrder, HoldsASlot, ErrorIsLast, Untouched, batch, Counted, Running,
                EachItemAtMostOnce, SlotsBounded, AfterTheWait, AfterTheClose, batchCount
<1>5. ASSUME NEW b \in Batch, Goroutine(b)
      PROVE  Bookkeeping'
  <2>. USE DEF Goroutine, Start, Acquire, GiveUp, Process, Processed, SendCtxErr, Leave, Goto, Put
  <2>1. UNCHANGED <<totalItems, launched, closed, result>> /\ batchCount' = batchCount
    BY <1>5 DEF batchCount, call
  <2>2. pc[b] \notin {"none", "done"}
    BY <1>5
  <2>3. \E s \in States \ {"none"} : pc' = [pc EXCEPT ![b] = s]
    BY <1>5 DEF States
  <2>4. pc \in [Batch -> States] /\ errChan \in [Batch -> Errors \cup {"none"}]
    BY DEF TypeOK
  <2>5. StartedInOrder'
    BY <2>1, <2>2, <2>3, <2>4 DEF StartedInOrder
  <2>6. HoldsASlot'
    BY <1>5, <2>4 DEF HoldsASlot
  <2>7. ErrorIsLast'
    BY <1>5, <2>4 DEF ErrorIsLast
  <2>8. Untouched' /\ EachItemAtMostOnce'
    <3>1. CASE Process(b) /\ ~cancelled
      <4>1. /\ \A c \in Batch, k \in Item :
                  pc'[c] \in Waiting /\ k \in batch(c) => calls'[k] = 0
            /\ \A k \in Item : calls'[k] <= 1
        BY <3>1, ProcessOnce
      <4>. QED
        BY <2>1, <4>1 DEF Untouched, batch, EachItemAtMostOnce
    <3>2. CASE ~(Process(b) /\ ~cancelled)
      <4>1. calls' = calls
        BY <1>5, <3>2
      <4>2. \A c \in Batch : pc'[c] \in Waiting => pc[c] \in Waiting
        BY <1>5, <2>4 DEF Waiting
      <4>. QED
        BY <2>1, <4>1, <4>2 DEF Untouched, batch, EachItemAtMostOnce
    <3>. QED
      BY <3>1, <3>2
  <2>9. SlotsBounded'
    <3>1. CASE Acquire(b)
      BY <3>1, TakeSlot DEF SlotsBounded, slotFree
    <3>2. CASE Leave(b)
      BY <3>2, FreeSlot DEF SlotsBounded
    <3>3. CASE ~Acquire(b) /\ ~Leave(b)
      <4>1. semaphore' = semaphore
        BY <1>5, <3>3
      <4>. QED
        BY <4>1 DEF SlotsBounded
    <3>. QED
      BY <3>1, <3>2, <3>3
  <2>10. AfterTheWait' /\ AfterTheClose'
    <3>1. ~closed /\ result = "none"
      BY <2>2, StillWaiting
    <3>. QED
      BY <2>1, <3>1 DEF AfterTheWait, AfterTheClose
  <2>11. Counted'
    <3>1. CASE Leave(b)
      <4>1. Running' = Running \ {b} /\ b \in Running
        BY <2>4, <3>1 DEF Running
      <4>2. Cardinality(Running') = Cardinality(Running) - 1
        BY <4>1, RunningFinite, FS_RemoveElement
      <4>. QED  BY <3>1, <4>2 DEF Counted
    <3>2. CASE ~Leave(b)
      <4>1. Running' = Running /\ wg' = wg
        BY <1>5, <2>4, <3>2 DEF Running
      <4>. QED  BY <4>1 DEF Counted
    <3>. QED  BY <3>1, <3>2
  <2>. QED
    BY <2>5, <2>6, <2>7, <2>8, <2>9, <2>10, <2>11
<1>. QED
  BY <1>2, <1>3, <1>4, <1>5 DEF Next

LEMMA Invariance == Spec => []IInv
<1>1. Init => IInv
  BY InitInv
<1>2. IInv /\ [Next]_vars => IInv'
  BY NextTypeOK, NextBookkeeping DEF IInv
<1>. QED
  BY <1>1, <1>2, PTL DEF Spec

-----------------------------------------------------------------------------
\* A goroutine that calls processFn holds a slot, and there are not more slots
\* than the limit.
LEMMA LimitHolds == IInv => NeverOverloaded
<1>. SUFFICES ASSUME IInv PROVE NeverOverloaded
  OBVIOUS
<1>. DEFINE working == {b \in Batch : pc[b] = "process"}
<1>1. working \in SUBSET semaphore
  BY DEF IInv, Bookkeeping, HoldsASlot
<1>2. IsFiniteSet(semaphore) /\ Cardinality(semaphore) <= MaxConcurrentBatches
  BY DEF IInv, Bookkeeping, SlotsBounded
<1>3. IsFiniteSet(working) /\ Cardinality(working) <= Cardinality(semaphore)
  BY <1>1, <1>2, FS_Subset
<1>4. Cardinality(working) \in Nat /\ Cardinality(semaphore) \in Nat /\ MaxConcurrentBatches \in Nat
  BY <1>2, <1>3, FS_CardinalityType, BatchAssumption DEF BatchAssumption
<1>5. Cardinality(working) <= MaxConcurrentBatches
  BY <1>2, <1>3, <1>4
<1>. QED
  BY <1>5 DEF NeverOverloaded

\* The batches that have put an error in the channel are among the others, of
\* which there are batchCount - 1.
LEMMA RoomIsLeft == IInv => ErrorsFit
<1>. SUFFICES ASSUME IInv, NEW b \in Batch, pc[b] \in {"fail", "process"}
              PROVE  hasRoom
  BY DEF ErrorsFit
<1>. DEFINE senders == {c \in Batch : errChan[c] # "none"}
            others  == (0 .. batchCount - 1) \ {b}
<1>1. batchCount \in Nat /\ launched \in 0 .. batchCount
  BY BatchCount DEF IInv, TypeOK
<1>2. \A c \in Batch : pc[c] # "none" => c \in 0 .. batchCount - 1
  BY <1>1 DEF IInv, Bookkeeping, StartedInOrder, Batch
<1>3. b \in 0 .. batchCount - 1 /\ b \notin senders
  BY <1>2 DEF IInv, Bookkeeping, ErrorIsLast
<1>4. senders \in SUBSET others
  BY <1>2, <1>3 DEF IInv, Bookkeeping, ErrorIsLast
<1>5. IsFiniteSet(0 .. batchCount - 1) /\ Cardinality(0 .. batchCount - 1) = batchCount
  <2>1. 0 \in Int /\ batchCount - 1 \in Int
    BY <1>1
  <2>. QED
    BY <1>1, <2>1, FS_Interval
<1>6. IsFiniteSet(others) /\ Cardinality(others) = batchCount - 1
  BY <1>3, <1>5, FS_RemoveElement
<1>7. IsFiniteSet(senders) /\ Cardinality(senders) <= Cardinality(others)
  BY <1>4, <1>6, FS_Subset
<1>8. Cardinality(senders) \in Nat
  BY <1>7, FS_CardinalityType
<1>9. Cardinality(senders) < batchCount
  BY <1>1, <1>6, <1>7, <1>8
<1>. QED
  BY <1>9 DEF hasRoom

\* Every variable stays within its type.
THEOREM TypeCorrect == Spec => []TypeOK
<1>1. IInv => TypeOK
  BY DEF IInv
<1>. QED
  BY <1>1, Invariance, PTL

\* No item is processed twice, however the slice is cut into batches.
THEOREM NoItemTwice == Spec => []EachItemAtMostOnce
<1>1. IInv => EachItemAtMostOnce
  BY DEF IInv, Bookkeeping
<1>. QED
  BY <1>1, Invariance, PTL

\* The limit of concurrency holds.
THEOREM ConcurrencyIsLimited == Spec => []NeverOverloaded
  BY LimitHolds, Invariance, PTL

\* No send on the error channel blocks, and no error of processFn is dropped.
THEOREM ErrorsAlwaysFit == Spec => []ErrorsFit
  BY RoomIsLeft, Invariance, PTL

\* Nothing is sent on the error channel once it is closed: the wait group's counter is
\* the number of goroutines that run, at any point of the loop and of any of them.
THEOREM ChannelIsQuiet == Spec => []NoSendAfterClose
<1>1. IInv => NoSendAfterClose
  BY WaitIsOver DEF NoSendAfterClose
<1>. QED
  BY <1>1, Invariance, PTL
-----------------------------------------------------------------------------
\* Every item of the slice is in a batch that is launched.
LEMMA BatchesCover ==
  ASSUME totalItems \in 0 .. MaxItems, NEW k \in Item, k < totalItems
  PROVE  \E b \in 0 .. batchCount - 1 : b \in Batch /\ k \in batch(b)
<1>. DEFINE b == k \div BatchSize
<1>1. /\ k \in Nat /\ totalItems \in Nat /\ MaxItems \in Nat /\ totalItems <= MaxItems
      /\ BatchSize \in Nat \ {0}
  BY BatchAssumption DEF BatchAssumption, Item
<1>2. b \in Nat /\ b * BatchSize <= k /\ k < b * BatchSize + BatchSize
  BY <1>1, Rounding
<1>3. batchCount \in Nat /\ totalItems + BatchSize - 1 < batchCount * BatchSize + BatchSize
  BY <1>1, Rounding DEF batchCount
<1>. HIDE DEF b
<1>4. b < batchCount
  <2>. SUFFICES ASSUME batchCount <= b PROVE FALSE
    BY <1>2, <1>3
  <2>1. batchCount * BatchSize <= b * BatchSize
    <3>1. CASE batchCount = b
      BY <1>1, <1>2, <3>1
    <3>2. CASE batchCount < b
      <4>1. batchCount * BatchSize + BatchSize <= b * BatchSize
        BY <1>2, <1>3, <3>2, BatchesApart
      <4>. QED  BY <1>1, <1>2, <1>3, <4>1
    <3>. QED  BY <1>2, <1>3, <3>1, <3>2
  <2>2. b * BatchSize \in Nat /\ batchCount * BatchSize \in Nat
    BY <1>1, <1>2, <1>3
  <2>. QED  BY <1>1, <1>2, <1>3, <2>1, <2>2
<1>5. b <= k
  <2>1. b <= b * BatchSize
    BY <1>1, <1>2
  <2>2. b * BatchSize \in Nat
    BY <1>1, <1>2
  <2>. QED  BY <1>1, <1>2, <2>1, <2>2
<1>6. b \in 0 .. batchCount - 1
  BY <1>2, <1>3, <1>4
<1>7. b \in Batch
  <2>1. k <= MaxItems
    BY <1>1
  <2>. QED  BY <1>1, <1>2, <1>5, <2>1 DEF Batch
<1>8. k \in batch(b)
  BY <1>2 DEF batch
<1>. QED  BY <1>6, <1>7, <1>8

\* A batch that is being processed, or is through and met no cancelled context, has been
\* given to processFn whole; nil is returned when all batches are through without error.
Given(b) == pc[b] = "process" \/ (pc[b] \in {"leave", "done"} /\ errChan[b] # "ctx")

ProcessedWhole == \A b \in Batch : Given(b) => \A k \in batch(b) : calls[k] = 1
NilIsClean ==
  result = "nil" => \A b \in 0 .. batchCount - 1 : b \in Batch => Given(b)

\* processFn is called with the batch as a whole, and Wait returns only when every
\* batch is done.
LEMMA NextProcessed ==
  IInv /\ IInv' /\ ProcessedWhole /\ NilIsClean /\ [Next]_vars => ProcessedWhole' /\ NilIsClean'
<1>. SUFFICES ASSUME IInv, IInv', ProcessedWhole, NilIsClean, [Next]_vars
              PROVE  ProcessedWhole' /\ NilIsClean'
  OBVIOUS
<1>0. pc \in [Batch -> States] /\ errChan \in [Batch -> Errors \cup {"none"}] /\ batchCount \in Nat
  BY BatchCount DEF IInv, TypeOK
<1>1. CASE Launch
  <2>1. /\ pc' = [pc EXCEPT ![launched] = "start"] /\ launched < batchCount /\ launched \in Nat
        /\ UNCHANGED <<totalItems, errChan, calls, result>>
    BY <1>0, <1>1 DEF Launch, IInv, TypeOK
  <2>2. result = "none"
    <3>1. launched \in Batch /\ pc[launched] = "none" /\ pc'[launched] # "none"
      BY <1>0, <2>1, FewBatches, BatchAssumption
      DEF IInv, TypeOK, Bookkeeping, StartedInOrder, Batch, BatchAssumption
    <3>2. ~(closed \/ totalItems = 0)
      BY <2>1, <3>1, WaitIsOver
    <3>. QED  BY <3>2 DEF IInv, Bookkeeping, AfterTheClose
  <2>3. ASSUME NEW b \in Batch, Given(b)'  PROVE Given(b)
    BY <1>0, <2>1, <2>3 DEF Given
  <2>. QED  BY <2>1, <2>2, <2>3 DEF ProcessedWhole, NilIsClean, batch
<1>2. CASE Return
  <2>1. UNCHANGED <<totalItems, pc, errChan, calls>>
    BY <1>2 DEF Return
  <2>2. ASSUME result' = "nil", NEW b \in 0 .. batchCount - 1, b \in Batch  PROVE Given(b)
    <3>1. pc[b] = "done"
      BY <1>0, <1>2, <2>2, WaitIsOver DEF Return, mayReturn
    <3>2. errChan[b] = "none"
      BY <1>0, <1>2, <2>2 DEF Return, Errors
    <3>. QED  BY <3>1, <3>2 DEF Given
  <2>. QED  BY <2>1, <2>2 DEF ProcessedWhole, NilIsClean, batch, Given, batchCount
<1>3. CASE Close \/ Cancel \/ Returned \/ UNCHANGED vars
  <2>1. UNCHANGED <<totalItems, pc, errChan, calls, result>>
    BY <1>3 DEF Close, Cancel, Returned, vars, call
  <2>. QED  BY <2>1 DEF ProcessedWhole, NilIsClean, batch, Given, batchCount
<1>4. ASSUME NEW b \in Batch, Goroutine(b)  PROVE ProcessedWhole' /\ NilIsClean'
  <2>. USE DEF Start, Acquire, GiveUp, Process, Processed, SendCtxErr, Leave, Goto, Put, call
  <2>1. pc[b] \notin {"none", "done"} /\ UNCHANGED <<totalItems, result>>
    BY <1>4 DEF Goroutine
  <2>2. result = "none"
    BY <2>1, StillWaiting
  <2>3. CASE Process(b) /\ ~cancelled
    <3>1. /\ pc[b] = "check" /\ pc' = [pc EXCEPT ![b] = "process"] /\ errChan' = errChan
          /\ calls' = [k \in Item |-> IF k \in batch(b) THEN calls[k] + 1 ELSE calls[k]]
      BY <2>3
    <3>2. \A k \in batch(b) : k \in Item /\ calls[k] = 0
      BY <3>1 DEF IInv, Bookkeeping, Untouched, Waiting, batch
    <3>3. ASSUME NEW c \in Batch, Given(c)', NEW k \in batch(c)  PROVE calls'[k] = 1
      <4>1. CASE c = b
        BY <3>1, <3>2, <4>1
      <4>2. CASE c # b
        <5>1. k \in Item /\ k \notin batch(b)
          BY <4>2, BatchesDisjoint DEF batch
        <5>2. Given(c)
          BY <1>0, <3>1, <3>3, <4>2 DEF Given
        <5>. QED  BY <3>1, <5>1, <5>2 DEF ProcessedWhole
      <4>. QED  BY <4>1, <4>2
    <3>. QED  BY <2>1, <2>2, <3>3 DEF ProcessedWhole, NilIsClean, batch
  <2>4. CASE ~(Process(b) /\ ~cancelled)
    <3>1. calls' = calls
      BY <1>4, <2>4 DEF Goroutine
    <3>2. ASSUME NEW c \in Batch, Given(c)'  PROVE Given(c)
      <4>1. CASE c # b
        BY <1>0, <1>4, <3>2, <4>1 DEF Goroutine, Given
      <4>2. CASE c = b
        BY <1>0, <1>4, <2>4, <3>2, <4>2 DEF Goroutine, Given
      <4>. QED  BY <4>1, <4>2
    <3>. QED  BY <2>1, <2>2, <3>1, <3>2 DEF ProcessedWhole, NilIsClean, batch
  <2>. QED  BY <2>3, <2>4
<1>. QED  BY <1>1, <1>2, <1>3, <1>4 DEF Next

LEMMA InitProcessed == Init => ProcessedWhole /\ NilIsClean
  BY DEF Init, ProcessedWhole, NilIsClean, Given

\* nil is returned only when every item of the slice was given to processFn, for any
\* slice, batch size and limit, and a context cancelled at any point.
THEOREM NilReallyMeansAll == Spec => []NilMeansAll
<1>2. IInv /\ ProcessedWhole /\ NilIsClean => NilMeansAll
  <2>. SUFFICES ASSUME IInv, ProcessedWhole, NilIsClean, result = "nil",
                       NEW k \in Item, k < totalItems
                PROVE  calls[k] = 1
    BY DEF NilMeansAll
  <2>1. PICK b \in 0 .. batchCount - 1 : b \in Batch /\ k \in batch(b)
    BY BatchesCover DEF IInv, TypeOK
  <2>. QED  BY <2>1 DEF ProcessedWhole, NilIsClean
<1>. QED  BY <1>2, InitProcessed, Invariance, NextProcessed, PTL DEF Spec

-----------------------------------------------------------------------------
(***************************************************************************)
(* Every step is a step of ForEach, or none.                               *)
(***************************************************************************)

\* A batch that is launched has items, and no more than BatchSize.
LEMMA BatchesFilled ==
  ASSUME totalItems \in 0 .. MaxItems, NEW b \in Batch, b < batchCount
  PROVE  batch(b) # {} /\ IsFiniteSet(batch(b)) /\ Cardinality(batch(b)) <= BatchSize
<1>1. /\ b \in Nat /\ totalItems \in Nat /\ MaxItems \in Nat /\ totalItems <= MaxItems
      /\ BatchSize \in Nat \ {0} /\ batchCount \in Nat
  BY BatchAssumption, BatchCount DEF BatchAssumption, Batch
<1>2. b * BatchSize \in Nat
  BY <1>1
<1>3. batch(b) # {}
  <2>1. batchCount * BatchSize <= totalItems + BatchSize - 1
    BY <1>1, Rounding DEF batchCount
  <2>2. b * BatchSize + BatchSize <= batchCount * BatchSize
    BY <1>1, BatchesApart
  <2>3. batchCount * BatchSize \in Nat
    BY <1>1
  <2>4. b * BatchSize < totalItems
    BY <1>1, <1>2, <2>1, <2>2, <2>3
  <2>5. b * BatchSize \in batch(b)
    BY <1>1, <1>2, <2>4 DEF batch, Item
  <2>. QED  BY <2>5
<1>4. /\ IsFiniteSet(b * BatchSize .. b * BatchSize + BatchSize - 1)
      /\ Cardinality(b * BatchSize .. b * BatchSize + BatchSize - 1) = BatchSize
  <2>. DEFINE from == b * BatchSize
              to   == from + BatchSize - 1
  <2>1. from \in Int /\ to \in Int /\ from <= to /\ to - from + 1 = BatchSize
    BY <1>1, <1>2
  <2>. HIDE DEF from, to
  <2>2. IsFiniteSet(from .. to) /\ Cardinality(from .. to) = to - from + 1
    BY <2>1, FS_Interval
  <2>. QED  BY <2>1, <2>2 DEF from, to
<1>5. batch(b) \in SUBSET (b * BatchSize .. b * BatchSize + BatchSize - 1)
  BY <1>1, <1>2 DEF batch, Item
<1>. QED  BY <1>3, <1>4, <1>5, FS_Subset

\* The batches that exist are the first batchCount.
LEMMA RunningExist ==
  ASSUME IInv, NEW b \in Batch, pc[b] # "none"
  PROVE  b < batchCount /\ totalItems \in 0 .. MaxItems /\ batchCount \in Nat
  BY BatchCount DEF IInv, TypeOK, Bookkeeping, StartedInOrder, Batch

\* There is a group for every batch in process, hence no more than slots that are held.
LEMMA FewGroups ==
  ASSUME IInv, NEW b \in Batch, pc[b] = "check"
  PROVE  Cardinality(inProcess) < MaxConcurrentBatches
<1>. DEFINE busy == {c \in Batch : pc[c] = "process"}
            f    == [c \in busy |-> batch(c)]
<1>1. busy \in SUBSET (semaphore \ {b}) /\ b \in semaphore
  BY DEF IInv, Bookkeeping, HoldsASlot
<1>2. IsFiniteSet(semaphore) /\ Cardinality(semaphore) <= MaxConcurrentBatches
  BY DEF IInv, Bookkeeping, SlotsBounded
<1>3. IsFiniteSet(semaphore \ {b}) /\ Cardinality(semaphore \ {b}) = Cardinality(semaphore) - 1
  BY <1>1, <1>2, FS_RemoveElement
<1>4. IsFiniteSet(busy) /\ Cardinality(busy) <= Cardinality(semaphore \ {b})
  BY <1>1, <1>3, FS_Subset
<1>5. f \in Surjection(busy, inProcess)
  BY DEF Surjection, inProcess
<1>6. IsFiniteSet(inProcess) /\ Cardinality(inProcess) <= Cardinality(busy)
  BY <1>4, <1>5, FS_Surjection
<1>7. /\ Cardinality(semaphore) \in Nat /\ Cardinality(busy) \in Nat
      /\ Cardinality(inProcess) \in Nat /\ MaxConcurrentBatches \in Nat
  BY <1>2, <1>4, <1>6, FS_CardinalityType, BatchAssumption DEF BatchAssumption
<1>. HIDE DEF busy
<1>. QED  BY <1>2, <1>3, <1>4, <1>6, <1>7

\* Only a cancelled context makes a batch fail before it is processed.
FailsWhenCancelled == \A b \in Batch : pc[b] = "fail" => cancelled

LEMMA NextFails == IInv /\ FailsWhenCancelled /\ [Next]_vars => FailsWhenCancelled'
  BY DEF IInv, TypeOK, FailsWhenCancelled, Next, Goroutine, Launch, Close, Return, Cancel,
         Returned, call, Start, Acquire, GiveUp, Process, Processed, SendCtxErr, Leave, Goto, vars

WorkInv == IInv /\ ProcessedWhole /\ FailsWhenCancelled

\* The set sizes of the two modules are the same.
LEMMA SameCardinality == \A S : ForAll!Cardinality(S) = Cardinality(S)
  BY DEF ForAll!Cardinality, Cardinality

abstract == <<itemsLeft, inProcess, errorsPut, cancelled, result>>

\* Steps that change neither calls nor errors, and start and end no processing.
LEMMA StepBetween ==
  ASSUME IInv, UNCHANGED <<totalItems, errChan, calls, cancelled, result>>,
         \A b \in Batch : pc[b] = "process" <=> pc'[b] = "process"
  PROVE  UNCHANGED abstract
<1>1. \A b \in Batch : batch(b)' = batch(b)
  BY DEF batch
<1>2. UNCHANGED inProcess
  BY <1>1 DEF inProcess
<1>. QED  BY <1>2 DEF abstract, itemsLeft, errorsPut

\* processFn is called with items that nobody has taken.
LEMMA ProcessTakes ==
  ASSUME IInv, NEW b \in Batch, Process(b), ~cancelled
  PROVE  ForAll!Open
<1>1. /\ pc[b] = "check" /\ pc' = [pc EXCEPT ![b] = "process"] /\ pc \in [Batch -> States]
      /\ calls' = [k \in Item |-> IF k \in batch(b) THEN calls[k] + 1 ELSE calls[k]]
      /\ UNCHANGED <<totalItems, errChan, cancelled, result>>
  BY DEF Process, Goto, IInv, TypeOK, call
<1>2. b < batchCount /\ totalItems \in 0 .. MaxItems
  BY <1>1, RunningExist
<1>3. batch(b) # {} /\ Cardinality(batch(b)) <= BatchSize
  BY <1>2, BatchesFilled
<1>4. \A k \in batch(b) : k \in Item /\ k < totalItems /\ calls[k] = 0
  BY <1>1 DEF IInv, Bookkeeping, Untouched, Waiting, batch
<1>5. batch(b) \in SUBSET itemsLeft
  BY <1>4 DEF itemsLeft
<1>6. itemsLeft' = itemsLeft \ batch(b)
  <2>1. \A k \in Item : calls'[k] = 0 <=> calls[k] = 0 /\ k \notin batch(b)
    BY <1>1, <1>4 DEF IInv, TypeOK
  <2>. QED  BY <1>1, <2>1 DEF itemsLeft
<1>7. inProcess' = inProcess \cup {batch(b)}
  <2>1. \A c \in Batch : batch(c)' = batch(c)
    BY <1>1 DEF batch
  <2>2. \A c \in Batch : pc'[c] = "process" <=> pc[c] = "process" \/ c = b
    BY <1>1
  <2>. QED  BY <2>1, <2>2 DEF inProcess
<1>8. Cardinality(inProcess) < MaxConcurrentBatches
  BY <1>1, FewGroups
<1>9. UNCHANGED errorsPut /\ result = "none"
  BY <1>1, StillWaiting DEF errorsPut
<1>11. UNCHANGED <<cancelled, result>>
  BY <1>1
<1>10. ForAll!Take(batch(b))
  BY <1>3, <1>6, <1>7, <1>8, <1>9, <1>11, SameCardinality DEF ForAll!Take
<1>. QED  BY <1>5, <1>9, <1>10 DEF ForAll!Open

\* An error that is put is one more; the batch had put none before.
LEMMA OneMoreError ==
  ASSUME IInv, NEW b \in Batch, pc[b] \in {"process", "fail"}, NEW e \in Errors, Put(b, e)
  PROVE  errorsPut' = errorsPut \cup {e}
<1>1. errChan[b] = "none" /\ errChan \in [Batch -> Errors \cup {"none"}]
  BY DEF IInv, TypeOK, Bookkeeping, ErrorIsLast
<1>2. errChan' = [errChan EXCEPT ![b] = e] /\ e # "none"
  BY DEF Put, Errors
<1>. QED  BY <1>1, <1>2 DEF errorsPut

LEMMA ProcessedFinishes ==
  ASSUME IInv, NEW b \in Batch, Processed(b)
  PROVE  ForAll!Open
<1>1. /\ pc[b] = "process" /\ pc' = [pc EXCEPT ![b] = "leave"] /\ pc \in [Batch -> States]
      /\ UNCHANGED <<totalItems, calls, cancelled, result>>
      /\ UNCHANGED errChan \/ Put(b, "fn")
  BY DEF Processed, Goto, IInv, TypeOK, call
<1>2. inProcess' = inProcess \ {batch(b)}
  <2>1. \A c \in Batch : batch(c)' = batch(c)
    BY <1>1 DEF batch
  <2>2. \A c \in Batch : pc'[c] = "process" <=> pc[c] = "process" /\ c # b
    BY <1>1
  <2>3. ASSUME NEW c \in Batch, c # b  PROVE batch(c) # batch(b)
    <3>1. batch(b) # {}
      BY <1>1, RunningExist, BatchesFilled
    <3>. QED  BY <2>3, <3>1, BatchesDisjoint
  <2>. QED  BY <2>1, <2>2, <2>3 DEF inProcess
<1>3. errorsPut' \in {errorsPut, errorsPut \cup {"fn"}}
  <2>1. CASE UNCHANGED errChan
    BY <2>1 DEF errorsPut
  <2>2. CASE Put(b, "fn")
    BY <1>1, <2>2, OneMoreError DEF Errors
  <2>. QED  BY <1>1, <2>1, <2>2
<1>4. UNCHANGED itemsLeft /\ batch(b) \in inProcess
  BY <1>1 DEF itemsLeft, inProcess
<1>5. result = "none"
  BY <1>1, StillWaiting
<1>6. ForAll!Finish(batch(b))
  BY <1>1, <1>2, <1>3, <1>4 DEF ForAll!Finish
<1>. QED  BY <1>4, <1>5, <1>6 DEF ForAll!Open

LEMMA SendGivesUp ==
  ASSUME IInv, FailsWhenCancelled, NEW b \in Batch, SendCtxErr(b)
  PROVE  ForAll!Open
<1>1. /\ pc[b] = "fail" /\ pc' = [pc EXCEPT ![b] = "leave"] /\ pc \in [Batch -> States]
      /\ UNCHANGED <<totalItems, calls, cancelled, result>> /\ Put(b, "ctx")
  BY DEF SendCtxErr, Goto, IInv, TypeOK, call
<1>2. errorsPut' = errorsPut \cup {"ctx"}
  BY <1>1, OneMoreError DEF Errors
<1>3. UNCHANGED itemsLeft
  BY <1>1 DEF itemsLeft
<1>4. UNCHANGED inProcess
  <2>1. \A c \in Batch : batch(c)' = batch(c)
    BY <1>1 DEF batch
  <2>2. \A c \in Batch : pc'[c] = "process" <=> pc[c] = "process"
    BY <1>1
  <2>. QED  BY <2>1, <2>2 DEF inProcess
<1>5. cancelled /\ result = "none"
  BY <1>1, StillWaiting DEF FailsWhenCancelled
<1>. QED  BY <1>1, <1>2, <1>3, <1>4, <1>5 DEF ForAll!GiveUp, ForAll!Open

\* When all batches are through, every item was taken, or somebody met the cancelled
\* context and said so.
LEMMA ReturnAnswers ==
  ASSUME WorkInv, Return
  PROVE  ForAll!Answer
<1>1. /\ mayReturn /\ result = "none" /\ totalItems \in 0 .. MaxItems /\ batchCount \in Nat
      /\ UNCHANGED <<totalItems, pc, errChan, calls, cancelled>>
  BY BatchCount DEF Return, mayReturn, WorkInv, IInv, TypeOK
<1>2. result' \in IF errorsPut = {} THEN {"nil"} ELSE errorsPut
  BY DEF Return, errorsPut
<1>3. \A b \in Batch : pc[b] \in {"none", "done"} /\ (b < batchCount => pc[b] = "done")
  BY <1>1, WaitIsOver DEF mayReturn, WorkInv
<1>4. inProcess = {}
  BY <1>3 DEF inProcess
<1>5. ASSUME "ctx" \notin errorsPut  PROVE itemsLeft = {}
  <2>. SUFFICES ASSUME NEW k \in Item, k < totalItems  PROVE calls[k] # 0
    BY DEF itemsLeft
  <2>1. PICK b \in 0 .. batchCount - 1 : b \in Batch /\ k \in batch(b)
    BY <1>1, BatchesCover
  <2>2. pc[b] = "done" /\ errChan[b] # "ctx"
    BY <1>1, <1>3, <1>5, <2>1 DEF errorsPut
  <2>3. calls[k] = 1
    BY <2>1, <2>2 DEF WorkInv, ProcessedWhole, Given
  <2>. QED  BY <2>3
<1>6. UNCHANGED <<itemsLeft, inProcess, errorsPut, cancelled>>
  BY <1>1 DEF itemsLeft, inProcess, errorsPut, batch
<1>. QED  BY <1>1, <1>2, <1>4, <1>5, <1>6 DEF ForAll!Answer

LEMMA NextForEach == WorkInv /\ [Next]_vars => [ForAll!Next]_abstract
<1>. SUFFICES ASSUME WorkInv, [Next]_vars PROVE ForAll!Next \/ UNCHANGED abstract
  OBVIOUS
<1>. USE DEF WorkInv
<1>0. pc \in [Batch -> States]
  BY DEF IInv, TypeOK
<1>1. CASE Launch
  <2>1. pc' = [pc EXCEPT ![launched] = "start"]
        /\ UNCHANGED <<totalItems, errChan, calls, cancelled, result>>
    BY <1>1 DEF Launch
  <2>2. launched \in Batch => pc[launched] = "none"
    <3>1. launched \in Nat
      BY BatchCount DEF IInv, TypeOK
    <3>. QED  BY <3>1 DEF IInv, Bookkeeping, StartedInOrder
  <2>3. \A b \in Batch : pc[b] = "process" <=> pc'[b] = "process"
    BY <1>0, <2>1, <2>2
  <2>. QED  BY <2>1, <2>3, StepBetween
<1>2. CASE Return
  BY <1>2, ReturnAnswers DEF ForAll!Next
<1>3. CASE Cancel
  BY <1>3 DEF Cancel, call, ForAll!Next, ForAll!Cancel, itemsLeft, inProcess, errorsPut, batch
<1>4. CASE Close \/ Returned \/ UNCHANGED vars
  BY <1>4, StepBetween DEF Close, Returned, vars
<1>5. ASSUME NEW b \in Batch, Goroutine(b)
      PROVE  ForAll!Next \/ UNCHANGED abstract
  <2>1. CASE Process(b) /\ ~cancelled
    BY <2>1, ProcessTakes DEF ForAll!Next
  <2>2. CASE Processed(b)
    BY <2>2, ProcessedFinishes DEF ForAll!Next
  <2>3. CASE SendCtxErr(b)
    BY <2>3, SendGivesUp DEF ForAll!Next
  <2>4. CASE Start(b) \/ Acquire(b) \/ GiveUp(b) \/ Leave(b) \/ (Process(b) /\ cancelled)
    <3>1. UNCHANGED <<totalItems, errChan, calls, cancelled, result>>
      BY <2>4 DEF Start, Acquire, GiveUp, Leave, Process, call
    <3>2. \A c \in Batch : pc[c] = "process" <=> pc'[c] = "process"
      BY <1>0, <2>4 DEF Start, Acquire, GiveUp, Leave, Process, Goto
    <3>. QED  BY <3>1, <3>2, StepBetween
  <2>. QED  BY <1>5, <2>1, <2>2, <2>3, <2>4 DEF Goroutine
<1>. QED  BY <1>1, <1>2, <1>3, <1>4, <1>5 DEF Next

\* However a slice is cut, scheduled, cancelled and whatever fails: to the caller it is a
\* loop over the items that takes each once and reports what went wrong.
THEOREM ItIsForEach == Spec => WorksAsForEach
<1>1. Init => ForAll!Init
  BY DEF Init, ForAll!Init, itemsLeft, inProcess, errorsPut
<1>2. Init => FailsWhenCancelled
  BY DEF Init, FailsWhenCancelled
<1>3. Spec => []WorkInv
  BY <1>2, InitProcessed, Invariance, NextProcessed, NextFails, PTL DEF Spec, WorkInv
<1>4. WorkInv /\ [Next]_vars
        => [ForAll!Next]_<<itemsLeft, inProcess, errorsPut, cancelled, result>>
  BY NextForEach DEF abstract
<1>. QED  BY <1>1, <1>3, <1>4, PTL DEF Spec, WorksAsForEach, ForAll!Spec
=============================================================================
