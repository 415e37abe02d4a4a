----------------------------- MODULE EventIntake -----------------------------
(***************************************************************************)
(* From the SQS queue to the handlers: pollSQS of src/app/main.go in the   *)
(* pods of LeaderElection.  The queue (event_rule_stack.py) hides a        *)
(* received message for a while and moves it to a dead-letter queue when   *)
(* it has been received too often.                                         *)
(***************************************************************************)
EXTENDS LeaderElection

CONSTANTS
  Message,
  Malformed,      \* those whose body json.Unmarshal refuses
  NoMessage,
  MaxReceives     \* max_receive_count of the queue, 3

ASSUME IntakeAssumption ==
  /\ Malformed \subseteq Message /\ NoMessage \notin Message
  /\ MaxReceives \in Nat \ {0}
  /\ Pod \cap {"unsent", "queued", "deleted", "deadLetter"} = {}

VARIABLES
  where,     \* each message's place: in flight it is with the pod that received it
  receives,  \* how often it has been received
  handled,   \* how often handleEvent has been started for it
  polling,   \* has the pod's loop found isLeader set and asked for messages?
  batch,     \* the messages it got and has not looked at yet
  cur        \* the one whose goroutine is started and that is not deleted yet

queue   == <<where, receives, handled>>
loops   == <<polling, batch, cur>>
allVars == <<pods, lease, trouble, queue, loops>>

Place == {"unsent", "queued", "deleted", "deadLetter"} \cup Pod

TypeOK ==
  /\ LifeTypeOK
  /\ where \in [Message -> Place]
  /\ receives \in [Message -> 0 .. MaxReceives]
  /\ handled \in [Message -> Nat]
  /\ polling \in [Pod -> BOOLEAN]
  /\ batch \in [Pod -> SUBSET Message]
  /\ cur \in [Pod -> Message \cup {NoMessage}]

Alive(p) == isLeader(p) \/ state[p] = "exiting"
Holds(p, m) == m \in batch[p] \/ cur[p] = m
Busy(p) == polling[p] \/ batch[p] # {} \/ cur[p] # NoMessage

-----------------------------------------------------------------------------
(***************************************************************************)
(* The queue.                                                              *)
(***************************************************************************)
Goes(m, place) == where' = [where EXCEPT ![m] = place]

Send(m) ==
  /\ where[m] = "unsent"
  /\ Goes(m, "queued")
  /\ UNCHANGED <<pods, lease, trouble, receives, handled, loops>>

\* The visibility timeout is over.  While the pod that received the message still has
\* it that is trouble: its loop is slower than expected.
BecomesVisible(m) ==
  /\ where[m] \in Pod
  /\ IF Holds(where[m], m) THEN Trouble ELSE UNCHANGED trouble
  /\ Goes(m, "queued")
  /\ UNCHANGED <<pods, lease, receives, handled, loops>>

DeadLetter(m) ==
  /\ where[m] = "queued" /\ receives[m] = MaxReceives
  /\ Goes(m, "deadLetter")
  /\ UNCHANGED <<pods, lease, trouble, receives, handled, loops>>

Receivable == {m \in Message : where[m] = "queued" /\ receives[m] < MaxReceives}

(***************************************************************************)
(* pollSQS.                                                                *)
(***************************************************************************)
\* The top of the loop: isLeader is read, and ReceiveMessage is called.
CheckLeader(p) ==
  /\ isLeader(p) /\ ~Busy(p)
  /\ polling' = [polling EXCEPT ![p] = TRUE]
  /\ UNCHANGED <<pods, lease, trouble, queue, batch, cur>>

\* Up to twenty seconds later it returns some messages (with none the loop begins
\* anew).  Whether the pod still leads is not asked.  When the answer is lost, the loop
\* gets an error and begins anew while the queue hides the messages.
ReceiveMessage(p) ==
  /\ Alive(p) /\ polling[p]
  /\ \E S \in (SUBSET Receivable) \ {{}} :
       /\ where' = [m \in Message |-> IF m \in S THEN p ELSE where[m]]
       /\ receives' = [m \in Message |-> IF m \in S THEN receives[m] + 1 ELSE receives[m]]
       /\ \/ batch' = [batch EXCEPT ![p] = S] /\ UNCHANGED trouble
          \/ Trouble /\ UNCHANGED batch
  /\ polling' = [polling EXCEPT ![p] = FALSE]
  /\ UNCHANGED <<pods, lease, handled, cur>>

\* A body that does not parse ends the loop over the messages.
rest_BreaksOff(p, m) == IF m \in Malformed THEN {} ELSE batch[p] \ {m}

\* The loop does not get on to the next message.
rest_Stuck(p, m) == batch[p]

\* What is left of the batch after m.  A body that does not parse is skipped, and
\* stays in the queue.
rest(p, m) == batch[p] \ {m}

\* A body that does not parse is deleted as well.
TakeMessage_DeletesAny(p, m) ==
  /\ Alive(p) /\ m \in batch[p] /\ cur[p] = NoMessage
  /\ batch' = [batch EXCEPT ![p] = rest(p, m)]
  /\ cur' = [cur EXCEPT ![p] = m]
  /\ handled' = [handled EXCEPT ![m] = IF m \in Malformed THEN @ ELSE @ + 1]
  /\ UNCHANGED <<pods, lease, trouble, where, receives, polling>>

\* The next message of the batch: parsed, and handed to a goroutine.
TakeMessage(p, m) ==
  /\ Alive(p) /\ m \in batch[p] /\ cur[p] = NoMessage
  /\ batch' = [batch EXCEPT ![p] = rest(p, m)]
  /\ IF m \in Malformed
     THEN UNCHANGED <<cur, handled>>
     ELSE /\ cur' = [cur EXCEPT ![p] = m]
          /\ handled' = [handled EXCEPT ![m] = @ + 1]
  /\ UNCHANGED <<pods, lease, trouble, where, receives, polling>>

\* The deletion left to the goroutine, where it is forgotten.
deletedFrom_Never(p, place) == {place}

\* Where a message may be after p's successful DeleteMessage.  With the receipt of
\* an earlier delivery the call may have no effect; in the dead-letter queue, which is
\* another queue, it has none.
deletedFrom(p, place) ==
  CASE place = p            -> {"deleted"}
    [] place = "deadLetter" -> {place}
    [] OTHER                -> {"deleted", place}

DeleteMessage(p) ==
  /\ Alive(p) /\ cur[p] # NoMessage
  /\ \/ /\ \E place \in deletedFrom(p, where[cur[p]]) : Goes(cur[p], place)
        /\ UNCHANGED trouble
     \/ Trouble /\ UNCHANGED where
  /\ cur' = [cur EXCEPT ![p] = NoMessage]
  /\ UNCHANGED <<pods, lease, receives, handled, polling, batch>>

\* A process that ends takes its loop along.
Ends(p) ==
  /\ Crash(p) \/ Exit(p)
  /\ polling' = [polling EXCEPT ![p] = FALSE]
  /\ batch' = [batch EXCEPT ![p] = {}]
  /\ cur' = [cur EXCEPT ![p] = NoMessage]
  /\ UNCHANGED queue

-----------------------------------------------------------------------------
Init ==
  /\ LifeInit
  /\ where = [m \in Message |-> "unsent"]
  /\ receives = [m \in Message |-> 0]
  /\ handled = [m \in Message |-> 0]
  /\ polling = [p \in Pod |-> FALSE]
  /\ batch = [p \in Pod |-> {}]
  /\ cur = [p \in Pod |-> NoMessage]

Life(p) == (Start(p) \/ Elect(p)) /\ UNCHANGED <<queue, loops>>
pollSQS(p) ==
  CheckLeader(p) \/ ReceiveMessage(p) \/ DeleteMessage(p) \/ \E m \in Message : TakeMessage(p, m)
Queue(m) == BecomesVisible(m) \/ DeadLetter(m)

Next ==
  \/ \E p \in Pod : Life(p) \/ pollSQS(p) \/ Ends(p)
  \/ \E m \in Message : Send(m) \/ Queue(m)
  \/ Tick /\ UNCHANGED <<queue, loops>>

\* Processes run, pods are restarted, time passes, and the queue hands a message out
\* again when its visibility timeout is over.  Nothing has to be sent.
Spec ==
  /\ Init /\ [][Next]_allVars
  /\ \A p \in Pod : /\ WF_allVars(Life(p)) /\ WF_allVars(pollSQS(p))
                    /\ WF_allVars(state[p] = "exiting" /\ Ends(p))
  /\ \A m \in Message : WF_allVars(Queue(m))
  /\ WF_allVars(Tick /\ UNCHANGED <<queue, loops>>)

-----------------------------------------------------------------------------
(***************************************************************************)
(* Properties.                                                             *)
(***************************************************************************)
Leading == {p \in Pod : state[p] = "leading"}

\* Whenever renewals fail and pods die and come back: a pod that leads, and has not
\* given up, has the lease, so that there is one at a time.  Other pods have messages
\* only between the end of their lease and the end of their process.
OneLeader ==
  /\ \A p \in Leading : holder = p
  /\ \A p \in Pod : Busy(p) => p \in Leading \/ state[p] \in {"releasing", "exiting"}

\* A message is deleted after its first delivery, so that its event is handled again
\* only when something went wrong meanwhile: a deletion that failed, an answer that
\* was lost, a loop slower than the visibility timeout, a lease or a pod lost.  Each such
\* trouble repeats it once.
HandledOnceUnlessTrouble == \A m \in Message : handled[m] <= trouble + 1

\* An event that parses gets to the dead-letter queue only when each of its deliveries
\* met trouble: a malformed body in the same batch costs its neighbours nothing.
LostOnlyAfterTrouble ==
  \A m \in Message \ Malformed : where[m] = "deadLetter" => trouble >= MaxReceives

\* Where a message is, for one who does not see who has received it.
placeOf(m) ==
  CASE where[m] = "deadLetter" -> "lost"
    [] where[m] \in {"unsent", "deleted"} -> where[m]
    [] OTHER -> "open"

Promise == INSTANCE Delivery WITH place <- [m \in Message |-> placeOf(m)]

\* Whatever becomes of pods, leases, receipts and visibility timeouts, each step does to
\* an event what Delivery allows: it is deleted only when a handler was started for it,
\* is gone for good then, and is repeated or lost only for trouble.
DeliveredAsPromised == Promise!Spec

\* The zones a pod works with are those that the tags name; they differ only when a
\* call failed that nobody noticed: the listing of the CRDs, which may leave any zone
\* out, or the first listing of subnets, which leaves out no available one.
ZonesExplained ==
  \A p \in Pod : state[p] # "down" =>
    /\ missed[p] \cap {"crds", "probe"} = {} => clusterZones[p] = ExpectedZones
    /\ "crds" \notin missed[p] /\ AutoCluster =>
         zonesOf(FirstTagged \cap Available) \subseteq clusterZones[p]

\* Every event that parses is handled at last, by whichever pod, or is in the
\* dead-letter queue.
EventsHandled ==
  \A m \in Message \ Malformed :
    where[m] = "queued" ~> handled[m] > 0 \/ where[m] = "deadLetter"
=============================================================================
