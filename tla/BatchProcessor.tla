--------------------------- MODULE BatchProcessor ----------------------------
(***************************************************************************)
(* BatchProcessor of src/app/pkg/utils/batch.go: it cuts a slice into      *)
(* batches, starts a goroutine for each, lets at most MaxConcurrentBatches *)
(* of them work at a time, waits for all and returns an error if there was *)
(* one.  AnnotateAndCordonNodes and RemoveProtectionFromNodes call it.     *)
(***************************************************************************)
EXTENDS Integers, FiniteSets

CONSTANTS
  BatchSize, MaxConcurrentBatches,
  MaxItems,   \* bound: items in a call
  Cancels     \* may the caller's context be cancelled?

ASSUME BatchAssumption ==
  /\ BatchSize \in Nat \ {0} /\ MaxConcurrentBatches \in Nat \ {0}
  /\ MaxItems \in Nat /\ Cancels \in BOOLEAN

VARIABLES
  totalItems,   \* len(items)
  launched,     \* the loop counter: batches whose goroutine exists
  wg,           \* the counter of the wait group
  pc,           \* where each goroutine is
  semaphore,    \* the batches that hold a slot
  errChan,      \* batch -> the error it has put into the channel
  closed,       \* is the channel closed?
  calls,        \* item -> how often it was given to processFn
  cancelled,    \* ctx is done
  result        \* what the call returned, once it has

vars == <<totalItems, launched, wg, pc, semaphore, errChan, closed, calls, cancelled, result>>

batchCount == (totalItems + BatchSize - 1) \div BatchSize
Item  == 0 .. MaxItems - 1
Batch == 0 .. MaxItems       \* more than batchCount ever is

\* The batch boundary one too far: batches overlap.
batch_Overlapping(i) ==
  {k \in Item : /\ i * BatchSize <= k /\ k <= i * BatchSize + BatchSize
                /\ k < totalItems}

\* The batch boundary one short: an item of each batch is left out.
batch_Short(i) ==
  {k \in Item : /\ i * BatchSize <= k /\ k < i * BatchSize + BatchSize - 1
                /\ k < totalItems}

\* items[start:end]
batch(i) ==
  {k \in Item : /\ i * BatchSize <= k /\ k < i * BatchSize + BatchSize
                /\ k < totalItems}

\* A channel that holds one error less.
hasRoom_OneLess ==
  Cardinality({b \in Batch : errChan[b] # "none"}) < batchCount - 1

\* Is there room in errChan, whose capacity is batchCount?
hasRoom == Cardinality({b \in Batch : errChan[b] # "none"}) < batchCount

\* A slot too many.
slotFree_OneMore == Cardinality(semaphore) <= MaxConcurrentBatches

slotFree == Cardinality(semaphore) < MaxConcurrentBatches

States == {"none", "start", "acquire", "check", "process", "fail", "leave", "done"}
Errors == {"ctx", "fn"}

TypeOK ==
  /\ totalItems \in 0 .. MaxItems
  /\ launched \in 0 .. batchCount
  /\ wg \in Nat
  /\ pc \in [Batch -> States]
  /\ semaphore \subseteq Batch
  /\ errChan \in [Batch -> Errors \cup {"none"}]
  /\ closed \in BOOLEAN
  /\ calls \in [Item -> Nat]
  /\ cancelled \in BOOLEAN
  /\ result \in Errors \cup {"none", "nil"}

Init ==
  /\ totalItems \in 0 .. MaxItems
  /\ launched = 0
  /\ wg = 0
  /\ pc = [b \in Batch |-> "none"]
  /\ semaphore = {}
  /\ errChan = [b \in Batch |-> "none"]
  /\ closed = FALSE
  /\ calls = [k \in Item |-> 0]
  /\ cancelled = FALSE
  /\ result = "none"

-----------------------------------------------------------------------------
Goto(b, from, to) == pc[b] = from /\ pc' = [pc EXCEPT ![b] = to]
Put(b, err)       == errChan' = [errChan EXCEPT ![b] = err]

call == <<totalItems, launched, closed, result>>

\* The loop with <= for <.
Launch_OneMore ==
  /\ launched <= batchCount
  /\ launched' = launched + 1
  /\ wg' = wg + 1
  /\ pc' = [pc EXCEPT ![launched] = "start"]
  /\ UNCHANGED <<totalItems, semaphore, errChan, closed, calls, cancelled, result>>

\* The loop: wg.Add(1) and the go statement.
Launch ==
  /\ launched < batchCount
  /\ launched' = launched + 1
  /\ wg' = wg + 1
  /\ pc' = [pc EXCEPT ![launched] = "start"]
  /\ UNCHANGED <<totalItems, semaphore, errChan, closed, calls, cancelled, result>>

\* The first look at the context.
Start(b) ==
  /\ Goto(b, "start", IF cancelled THEN "fail" ELSE "acquire")
  /\ UNCHANGED <<call, wg, semaphore, errChan, calls, cancelled>>

\* The select on the semaphore and ctx.Done(): either branch when both can go.
Acquire(b) ==
  /\ Goto(b, "acquire", "check")
  /\ slotFree
  /\ semaphore' = semaphore \cup {b}
  /\ UNCHANGED <<call, wg, errChan, calls, cancelled>>

\* wg.Done() called here although it is deferred.
GiveUp_DoneTwice(b) ==
  /\ Goto(b, "acquire", "fail")
  /\ cancelled
  /\ wg' = wg - 1
  /\ UNCHANGED <<call, semaphore, errChan, calls, cancelled>>

GiveUp(b) ==
  /\ Goto(b, "acquire", "fail")
  /\ cancelled
  /\ UNCHANGED <<call, wg, semaphore, errChan, calls, cancelled>>

\* The second look at the context, and the call of processFn.
Process(b) ==
  /\ Goto(b, "check", IF cancelled THEN "fail" ELSE "process")
  /\ calls' = IF cancelled THEN calls
              ELSE [k \in Item |-> IF k \in batch(b) THEN calls[k] + 1 ELSE calls[k]]
  /\ UNCHANGED <<call, wg, semaphore, errChan, cancelled>>

\* processFn returns, with an error or without; the error is dropped when the
\* channel is full.
Processed(b) ==
  /\ Goto(b, "process", "leave")
  /\ \/ UNCHANGED errChan
     \/ hasRoom /\ Put(b, "fn")
     \/ ~hasRoom /\ UNCHANGED errChan
  /\ UNCHANGED <<call, wg, semaphore, calls, cancelled>>

\* errChan <- ctx.Err(), which waits for room.
SendCtxErr(b) ==
  /\ Goto(b, "fail", "leave")
  /\ hasRoom
  /\ Put(b, "ctx")
  /\ UNCHANGED <<call, wg, semaphore, calls, cancelled>>

\* The slot is not given back after an error.
Leave_KeepsSlot(b) ==
  /\ Goto(b, "leave", "done")
  /\ semaphore' = IF errChan[b] = "none" THEN semaphore \ {b} ELSE semaphore
  /\ wg' = wg - 1
  /\ UNCHANGED <<call, errChan, calls, cancelled>>

\* The deferred calls: the slot is given back, then wg.Done().
Leave(b) ==
  /\ Goto(b, "leave", "done")
  /\ semaphore' = semaphore \ {b}
  /\ wg' = wg - 1
  /\ UNCHANGED <<call, errChan, calls, cancelled>>

\* After the loop wg.Wait() waits for the counter to be zero, and the channel is closed.
Close ==
  /\ totalItems > 0 /\ ~closed
  /\ launched = batchCount /\ wg = 0
  /\ closed' = TRUE
  /\ UNCHANGED <<totalItems, launched, wg, pc, semaphore, errChan, calls, cancelled, result>>

\* An empty slice returns at once.
mayReturn == result = "none" /\ (closed \/ totalItems = 0)

\* The loop over the channel left out.
Return_NoError ==
  /\ mayReturn
  /\ result' = "nil"
  /\ UNCHANGED <<totalItems, launched, wg, pc, semaphore, errChan, closed, calls, cancelled>>

\* An error is taken out of the channel, if there is one.
Return ==
  /\ mayReturn
  /\ LET errors == {errChan[b] : b \in Batch} \ {"none"}
     IN  result' \in IF errors = {} THEN {"nil"} ELSE errors
  /\ UNCHANGED <<totalItems, launched, wg, pc, semaphore, errChan, closed, calls, cancelled>>

Cancel ==
  /\ Cancels /\ ~cancelled
  /\ cancelled' = TRUE
  /\ UNCHANGED <<call, wg, pc, semaphore, errChan, calls>>

Returned == result # "none" /\ UNCHANGED vars

Goroutine(b) == \/ Start(b) \/ Acquire(b) \/ GiveUp(b) \/ Process(b)
                \/ Processed(b) \/ SendCtxErr(b) \/ Leave(b)

Next == \/ Launch \/ Close \/ Return \/ Cancel \/ Returned
        \/ \E b \in Batch : Goroutine(b)

\* The scheduler runs every goroutine, and every call of processFn returns.
Spec ==
  /\ Init /\ [][Next]_vars
  /\ WF_vars(Launch) /\ WF_vars(Close) /\ WF_vars(Return)
  /\ \A b \in Batch : WF_vars(Goroutine(b))

-----------------------------------------------------------------------------
(***************************************************************************)
(* Properties.                                                             *)
(***************************************************************************)

\* No node is given to processFn twice, even when the last batch is short.
EachItemAtMostOnce == \A k \in Item : calls[k] <= 1

\* nil is returned only if every item of the slice was processed.
NilMeansAll == result = "nil" => \A k \in Item : k < totalItems => calls[k] = 1

\* At most MaxConcurrentBatches calls of processFn run at a time: this is what
\* protects the API server.
NeverOverloaded ==
  Cardinality({b \in Batch : pc[b] = "process"}) <= MaxConcurrentBatches

\* The buffer takes an error of every batch: the blocking sends never block,
\* and the branch that drops an error of processFn is never taken.
ErrorsFit == \A b \in Batch : pc[b] \in {"fail", "process"} => hasRoom

\* When the channel is closed no goroutine is left that could send to it, which would
\* panic: Wait has counted every Add and every Done.
NoSendAfterClose == closed => \A b \in Batch : pc[b] \in {"none", "done"}

itemsLeft == {k \in Item : k < totalItems /\ calls[k] = 0}
inProcess == {batch(b) : b \in {c \in Batch : pc[c] = "process"}}
errorsPut == {errChan[b] : b \in Batch} \ {"none"}

ForAll == INSTANCE ForEach
            WITH GroupSize <- BatchSize, AtOnce <- MaxConcurrentBatches,
                 left <- itemsLeft, working <- inProcess, errors <- errorsPut,
                 stop <- cancelled, answer <- result

\* The calls at controller.go:233 and 313 look at the error only.  Groups of items are
\* worked on, a few at a time, each item in one of them, and one that fails keeps no
\* other back; the answer comes after the last, and is nil only when no item is left
\* and no call of processFn failed.
WorksAsForEach == ForAll!Spec

\* The call returns, even when batches wait for slots and the context is
\* cancelled in between.
Returns == <>(result # "none")
=============================================================================
