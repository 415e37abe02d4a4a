-------------------------- MODULE EventIntakeProofs --------------------------
(***************************************************************************)
(* Theorems about LeaderElection and EventIntake, for any pods, messages,  *)
(* subnets and bounds, and any times that meet LeaseAssumption.            *)
(***************************************************************************)
EXTENDS EventIntake, FiniteSetTheorems, TLAPS

-----------------------------------------------------------------------------
(***************************************************************************)
(* Zone discovery.                                                         *)
(***************************************************************************)

\* The zones found are zones.
LEMMA FoundAreZones ==
  ASSUME NEW fails \in SUBSET Call
  PROVE  getEKSClusterZones(fails) \in SUBSET ZoneName
<1>1. \A S \in SUBSET Subnets : zonesOf(S) \subseteq ZoneName
  BY DiscoveryAssumption DEF DiscoveryAssumption, Subnet, zonesOf
<1>2. taggedSubnets(fails) \subseteq Subnets /\ Available \subseteq Subnets
  BY DEF taggedSubnets, Tagged, Available
<1>. QED  BY <1>1, <1>2 DEF getEKSClusterZones

\* Without a failing call the zones are those that the tags name, and a failing
\* first listing of subnets leaves out none with an available subnet.
LEMMA FoundAreExpected ==
  ASSUME NEW fails \in SUBSET Call
  PROVE  /\ fails \cap {"crds", "probe"} = {} => getEKSClusterZones(fails) = ExpectedZones
         /\ "crds" \notin fails /\ AutoCluster =>
              zonesOf(FirstTagged \cap Available) \subseteq getEKSClusterZones(fails)
<1>. DEFINE found == IF fallsBack(fails) THEN Available ELSE taggedSubnets(fails)
<1>1. ASSUME fails \cap {"crds", "probe"} = {}
      PROVE  getEKSClusterZones(fails) = ExpectedZones
  BY <1>1, Zenon
     DEF getEKSClusterZones, fallsBack, taggedSubnets, isAutoMode, ExpectedZones, FirstTagged
<1>2. ASSUME "crds" \notin fails, AutoCluster
      PROVE  zonesOf(FirstTagged \cap Available) \subseteq getEKSClusterZones(fails)
  <2>1. FirstTagged \cap Available \subseteq found
    BY <1>2 DEF fallsBack, taggedSubnets, isAutoMode, FirstTagged
  <2>2. \A S, T : S \subseteq T => zonesOf(S) \subseteq zonesOf(T)
    BY DEF zonesOf
  <2>. QED  BY <2>1, <2>2 DEF getEKSClusterZones
<1>. QED  BY <1>1, <1>2

-----------------------------------------------------------------------------
(***************************************************************************)
(* Types.                                                                  *)
(***************************************************************************)

LEMMA TypeInit == Init => TypeOK
<1>1. 0 \in 0 .. MaxReceives /\ 0 \in 0 .. MaxTrouble /\ 0 \in 0 .. LeaseDuration
  <2>1. MaxReceives \in Nat /\ MaxTrouble \in Nat /\ LeaseDuration \in Nat
    BY LeaseAssumption, IntakeAssumption, Zenon DEF LeaseAssumption, IntakeAssumption
  <2>. QED  BY <2>1
<1>2. Init => LifeTypeOK
  BY <1>1 DEF Init, LifeInit, LifeTypeOK, State
<1>. QED  BY <1>1, <1>2 DEF Init, TypeOK, Place

LEMMA TroubleType ==
  ASSUME trouble \in 0 .. MaxTrouble, Trouble \/ UNCHANGED trouble
  PROVE  trouble' \in 0 .. MaxTrouble
  BY LeaseAssumption DEF LeaseAssumption, Trouble

\* The steps of the pods' lives keep their variables within their types.
LEMMA LifeTypeNext ==
  ASSUME LifeTypeOK, NEW p \in Pod,
         Start(p) \/ Elect(p) \/ Crash(p) \/ Exit(p)
  PROVE  LifeTypeOK'
<1>. USE LeaseAssumption DEF LeaseAssumption, LifeTypeOK, State, Becomes, Trouble, pods, lease
<1>1. CASE Start(p)
  <2>1. PICK fails \in {{}} \cup {{c} : c \in Call} :
          /\ IF fails = {} THEN UNCHANGED trouble ELSE Trouble
          /\ IF fatal(fails)
             THEN UNCHANGED <<state, clusterZones, missed>>
             ELSE /\ Becomes(p, "candidate")
                  /\ clusterZones' = [clusterZones EXCEPT ![p] = getEKSClusterZones(fails)]
                  /\ missed' = [missed EXCEPT ![p] = fails]
    BY <1>1, Zenon DEF Start
  <2>2. fails \in SUBSET Call
    OBVIOUS
  <2>3. getEKSClusterZones(fails) \in SUBSET ZoneName
    BY <2>2, FoundAreZones
  <2>4. trouble' \in 0 .. MaxTrouble
    BY <2>1
  <2>5. /\ state' \in [Pod -> State] /\ clusterZones' \in [Pod -> SUBSET ZoneName]
        /\ missed' \in [Pod -> SUBSET Call]
    BY <2>1, <2>2, <2>3
  <2>. QED  BY <1>1, <2>4, <2>5 DEF Start
<1>2. CASE Observe(p)
  BY <1>2 DEF Observe
<1>3. CASE Acquire(p)
  BY <1>3 DEF Acquire, Written
<1>4. CASE Renew(p)
  BY <1>4 DEF Renew, Written
<1>5. CASE GiveUp(p) \/ StopLeading(p)
  <2>1. trouble' \in 0 .. MaxTrouble
    BY <1>5, TroubleType DEF GiveUp, StopLeading
  <2>. QED  BY <1>5, <2>1 DEF GiveUp, StopLeading
<1>8. CASE Release(p)
  BY <1>8 DEF Release, Written
<1>6. CASE Crash(p)
  BY <1>6 DEF Crash, Stops
<1>7. CASE Exit(p)
  BY <1>7 DEF Exit, Stops
<1>. QED  BY <1>1, <1>2, <1>3, <1>4, <1>5, <1>6, <1>7, <1>8 DEF Elect

LEMMA TickType == LifeTypeOK /\ Tick => LifeTypeOK'
  BY LeaseAssumption DEF LeaseAssumption, LifeTypeOK, Tick, pods, State

LEMMA TypeNext == TypeOK /\ [Next]_allVars => TypeOK'
<1>. SUFFICES ASSUME TypeOK, [Next]_allVars  PROVE TypeOK'
  OBVIOUS
<1>. USE DEF queue, loops
<1>1. ASSUME NEW p \in Pod, Life(p)  PROVE TypeOK'
  <2>1. LifeTypeOK'
    BY <1>1, LifeTypeNext DEF Life, TypeOK
  <2>. QED  BY <1>1, <2>1 DEF Life, TypeOK, Place
<1>2. ASSUME NEW p \in Pod, Ends(p)  PROVE TypeOK'
  <2>1. LifeTypeOK'
    BY <1>2, LifeTypeNext DEF Ends, TypeOK
  <2>. QED  BY <1>2, <2>1 DEF Ends, TypeOK, Place
<1>3. ASSUME NEW p \in Pod, CheckLeader(p)  PROVE TypeOK'
  BY <1>3 DEF CheckLeader, TypeOK, LifeTypeOK, pods, lease
<1>4. ASSUME NEW p \in Pod, ReceiveMessage(p)  PROVE TypeOK'
  <2>1. PICK S \in (SUBSET Receivable) \ {{}} :
          /\ where' = [m \in Message |-> IF m \in S THEN p ELSE where[m]]
          /\ receives' = [m \in Message |-> IF m \in S THEN receives[m] + 1 ELSE receives[m]]
          /\ \/ batch' = [batch EXCEPT ![p] = S] /\ UNCHANGED trouble
             \/ Trouble /\ UNCHANGED batch
    BY <1>4 DEF ReceiveMessage
  <2>2. \A m \in S : m \in Message /\ receives[m] < MaxReceives
    BY DEF Receivable
  <2>3. LifeTypeOK' /\ handled' = handled /\ cur' = cur
    <3>1. trouble' \in 0 .. MaxTrouble
      BY <2>1, TroubleType DEF TypeOK, LifeTypeOK
    <3>. QED  BY <1>4, <3>1 DEF ReceiveMessage, TypeOK, LifeTypeOK, pods, lease
  <2>4. where' \in [Message -> Place]
    BY <2>1 DEF TypeOK, Place
  <2>5. receives' \in [Message -> 0 .. MaxReceives]
    <3>1. \A m \in Message : receives[m] \in 0 .. MaxReceives
      BY DEF TypeOK
    <3>2. \A m \in S : receives[m] + 1 \in 0 .. MaxReceives
      <4>1. MaxReceives \in Nat
        BY IntakeAssumption, Zenon DEF IntakeAssumption
      <4>. QED  BY <2>2, <3>1, <4>1
    <3>. QED  BY <2>1, <3>1, <3>2
  <2>6. batch' \in [Pod -> SUBSET Message] /\ polling' \in [Pod -> BOOLEAN]
    BY <1>4, <2>1, <2>2 DEF ReceiveMessage, TypeOK
  <2>. QED  BY <2>3, <2>4, <2>5, <2>6 DEF TypeOK
<1>5. ASSUME NEW p \in Pod, NEW m \in Message, TakeMessage(p, m)  PROVE TypeOK'
  <2>1. handled' \in [Message -> Nat]
    <3>1. handled' = handled \/ handled' = [handled EXCEPT ![m] = handled[m] + 1]
      BY <1>5, Zenon DEF TakeMessage
    <3>2. handled \in [Message -> Nat]
      BY DEF TypeOK
    <3>. QED  BY <3>1, <3>2
  <2>2. cur' \in [Pod -> Message \cup {NoMessage}] /\ batch' \in [Pod -> SUBSET Message]
    BY <1>5 DEF TakeMessage, TypeOK, rest
  <2>. QED  BY <1>5, <2>1, <2>2 DEF TakeMessage, TypeOK, LifeTypeOK, pods, lease
<1>6. ASSUME NEW p \in Pod, DeleteMessage(p)  PROVE TypeOK'
  <2>1. where' \in [Message -> Place]
    BY <1>6 DEF DeleteMessage, TypeOK, Goes, deletedFrom, Place
  <2>2. trouble' \in 0 .. MaxTrouble
    <3>1. Trouble \/ UNCHANGED trouble
      BY <1>6, Zenon DEF DeleteMessage
    <3>. QED  BY <3>1, TroubleType DEF TypeOK, LifeTypeOK
  <2>3. cur' \in [Pod -> Message \cup {NoMessage}]
    BY <1>6 DEF DeleteMessage, TypeOK
  <2>. QED  BY <1>6, <2>1, <2>2, <2>3 DEF DeleteMessage, TypeOK, LifeTypeOK, pods, lease
<1>7. ASSUME NEW m \in Message, Send(m) \/ Queue(m)  PROVE TypeOK'
  <2>1. where' \in [Message -> Place]
    BY <1>7 DEF Send, Queue, BecomesVisible, DeadLetter, TypeOK, Goes, Place
  <2>2. trouble' \in 0 .. MaxTrouble
    <3>1. Trouble \/ UNCHANGED trouble
      BY <1>7, Zenon DEF Send, Queue, BecomesVisible, DeadLetter
    <3>. QED  BY <3>1, TroubleType DEF TypeOK, LifeTypeOK
  <2>. QED
    BY <1>7, <2>1, <2>2 DEF Send, Queue, BecomesVisible, DeadLetter, TypeOK, LifeTypeOK, pods, lease
<1>8. ASSUME Tick, UNCHANGED <<queue, loops>>  PROVE TypeOK'
  BY <1>8, TickType DEF TypeOK, Place
<1>9. CASE UNCHANGED allVars
  BY <1>9 DEF allVars, pods, lease, TypeOK, LifeTypeOK, Place
<1>. QED  BY <1>1, <1>2, <1>3, <1>4, <1>5, <1>6, <1>7, <1>8, <1>9 DEF Next, pollSQS

\* Every variable of the pods, the lease and the queue keeps its type.
THEOREM TypeCorrect == Spec => []TypeOK
  BY TypeInit, TypeNext, PTL DEF Spec

-----------------------------------------------------------------------------
(***************************************************************************)
(* One leader.                                                             *)
(***************************************************************************)

\* While p leads the lease is its own, and p has renewed it no earlier than any other
\* pod has seen it as it is.  That is why nobody can take it over: p gives up, by its
\* own clock, before LeaseDuration is over for a candidate, by that one's.
Leads(p) ==
  /\ holder = p /\ age[p] <= lastMoment
  /\ \A q \in Pod : q # p /\ fresh[q] => age[q] <= age[p]

LeaseInv == \A p \in Pod : state[p] = "leading" => Leads(p)

\* Nobody acquires the lease of a pod that leads.
LEMMA NoTakeOver ==
  ASSUME LifeTypeOK, LeaseInv, NEW p \in Pod, NEW q \in Pod,
         state[p] = "leading", q # p
  PROVE  ~mayAcquire(q)
<1>1. holder = p /\ p # NoPod
  BY LeaseAssumption DEF LeaseInv, Leads, LeaseAssumption
<1>2. fresh[q] => age[q] < LeaseDuration
  <2>1. fresh[q] => age[q] <= age[p]
    BY DEF LeaseInv, Leads
  <2>2. age[p] <= lastMoment /\ age[p] \in Nat /\ age[q] \in Nat
    BY DEF LeaseInv, Leads, LifeTypeOK
  <2>. QED  BY <2>1, <2>2, LeaseAssumption DEF LeaseAssumption, lastMoment
<1>. QED  BY <1>1, <1>2, LeaseAssumption DEF mayAcquire, LifeTypeOK, LeaseAssumption

LEMMA LeaseLife ==
  ASSUME LifeTypeOK, LeaseInv, NEW p \in Pod,
         Start(p) \/ Elect(p) \/ Crash(p) \/ Exit(p)
  PROVE  LeaseInv'
<1>. SUFFICES ASSUME NEW l \in Pod, state'[l] = "leading"  PROVE Leads(l)'
  BY DEF LeaseInv
<1>. USE LeaseAssumption DEF LeaseAssumption, LifeTypeOK, Becomes, pods, lease
<1>1. CASE Start(p)
  BY <1>1 DEF Start, LeaseInv, Leads, lastMoment
<1>2. CASE Observe(p)
  BY <1>2 DEF Observe, LeaseInv, Leads, lastMoment
<1>3. CASE Acquire(p)
  <2>1. l = p
    BY <1>3, NoTakeOver DEF Acquire
  <2>. QED  BY <1>3, <2>1 DEF Acquire, Written, Leads, lastMoment
<1>4. CASE Renew(p)
  <2>1. l = p
    BY <1>4 DEF Renew, LeaseInv, Leads
  <2>. QED  BY <1>4, <2>1 DEF Renew, Written, Leads, lastMoment
<1>5. CASE GiveUp(p) \/ StopLeading(p)
  <2>1. l # p /\ state[l] = "leading"
    BY <1>5 DEF GiveUp, StopLeading
  <2>. QED  BY <1>5, <2>1 DEF GiveUp, StopLeading, LeaseInv, Leads, lastMoment
<1>8. CASE Release(p)
  <2>1. l # p /\ state[l] = "leading"
    BY <1>8 DEF Release
  <2>2. FALSE
    BY <1>8, <2>1 DEF Release, LeaseInv, Leads
  <2>. QED  BY <2>2
<1>6. CASE Crash(p)
  BY <1>6 DEF Crash, Stops, LeaseInv, Leads, lastMoment
<1>7. CASE Exit(p)
  BY <1>7 DEF Exit, Stops, LeaseInv, Leads, lastMoment
<1>. QED  BY <1>1, <1>2, <1>3, <1>4, <1>5, <1>6, <1>7, <1>8 DEF Elect

LEMMA LeaseTick == LifeTypeOK /\ LeaseInv /\ Tick => LeaseInv'
<1>. SUFFICES ASSUME LifeTypeOK, LeaseInv, Tick, NEW l \in Pod, state'[l] = "leading"
              PROVE  Leads(l)'
  BY DEF LeaseInv
<1>1. state[l] = "leading" /\ age[l] < lastMoment /\ Leads(l)
  BY DEF Tick, LeaseInv, pods
<1>2. /\ lastMoment \in Nat /\ LeaseDuration \in Nat /\ lastMoment < LeaseDuration
      /\ \A q \in Pod : age[q] \in Nat
  BY LeaseAssumption DEF LeaseAssumption, LifeTypeOK, lastMoment
<1>3. age'[l] = age[l] + 1
  BY <1>1, <1>2 DEF Tick
<1>4. \A q \in Pod : age'[q] <= age[q] + 1
  BY <1>2 DEF Tick
<1>5. holder' = l /\ fresh' = fresh
  BY <1>1 DEF Tick, Leads
<1>6. age'[l] <= lastMoment'
  BY <1>1, <1>2, <1>3 DEF lastMoment
<1>7. ASSUME NEW q \in Pod, q # l, fresh'[q]  PROVE age'[q] <= age'[l]
  <2>1. age[q] <= age[l]
    BY <1>1, <1>5, <1>7 DEF Leads
  <2>2. age'[q] \in Nat
    BY LeaseAssumption, <1>2 DEF LeaseAssumption, Tick
  <2>. QED  BY <1>2, <1>3, <1>4, <2>1, <2>2
<1>. QED  BY <1>5, <1>6, <1>7 DEF Leads

\* The lease and the pods' lives change in no other step.
LEMMA LeaseNext == TypeOK /\ LeaseInv /\ [Next]_allVars => LeaseInv'
<1>. SUFFICES ASSUME TypeOK, LeaseInv, [Next]_allVars  PROVE LeaseInv'
  OBVIOUS
<1>1. LifeTypeOK
  BY DEF TypeOK
<1>2. ASSUME NEW p \in Pod, Life(p) \/ Ends(p)  PROVE LeaseInv'
  BY <1>1, <1>2, LeaseLife DEF Life, Ends
<1>3. CASE Tick
  BY <1>1, <1>3, LeaseTick
<1>4. CASE UNCHANGED <<pods, lease>>
  BY <1>4 DEF LeaseInv, Leads, pods, lease, lastMoment
<1>5. ASSUME NEW p \in Pod, pollSQS(p)  PROVE UNCHANGED <<pods, lease>>
  BY <1>5 DEF pollSQS, CheckLeader, ReceiveMessage, TakeMessage, DeleteMessage
<1>6. ASSUME NEW m \in Message, Send(m) \/ Queue(m)  PROVE UNCHANGED <<pods, lease>>
  BY <1>6 DEF Send, Queue, BecomesVisible, DeadLetter
<1>. QED  BY <1>2, <1>3, <1>4, <1>5, <1>6 DEF Next, allVars

\* Only the leader and pods on their way out are in the middle of a poll.
BusyInv == \A p \in Pod : Busy(p) => Alive(p)

LEMMA BusyNext == TypeOK /\ BusyInv /\ [Next]_allVars => BusyInv'
<1>. SUFFICES ASSUME TypeOK, BusyInv, [Next]_allVars, NEW l \in Pod, Busy(l)'
              PROVE  Alive(l)'
  BY DEF BusyInv
<1>. USE DEF BusyInv, Busy, Alive, isLeader, TypeOK, LifeTypeOK, Becomes, pods, lease, loops
<1>1. ASSUME NEW p \in Pod, Life(p)  PROVE Alive(l)'
  <2>1. Alive(l) /\ (l = p => ~Start(p) /\ ~Observe(p) /\ ~Acquire(p))
    BY <1>1 DEF Life, Start, Observe, Acquire
  <2>. QED
    BY <1>1, <2>1
    DEF Life, Elect, Start, Observe, Acquire, Renew, GiveUp, Release, StopLeading
<1>2. ASSUME NEW p \in Pod, Ends(p)  PROVE Alive(l)'
  <2>1. l # p
    BY <1>2 DEF Ends
  <2>. QED  BY <1>2, <2>1 DEF Ends, Crash, Exit, Stops
<1>3. ASSUME NEW p \in Pod, pollSQS(p)  PROVE Alive(l)'
  BY <1>3 DEF pollSQS, CheckLeader, ReceiveMessage, TakeMessage, DeleteMessage
<1>4. ASSUME NEW m \in Message, Send(m) \/ Queue(m)  PROVE Alive(l)'
  BY <1>4 DEF Send, Queue, BecomesVisible, DeadLetter
<1>5. CASE Tick /\ UNCHANGED <<queue, loops>>
  BY <1>5 DEF Tick
<1>6. CASE UNCHANGED allVars
  BY <1>6 DEF allVars
<1>. QED  BY <1>1, <1>2, <1>3, <1>4, <1>5, <1>6 DEF Next

\* The pod that leads has the lease, and only it and pods that have given up are in the
\* middle of a poll, for any number of pods and any times with RetryPeriod +
\* RenewDeadline less than LeaseDuration.
THEOREM OneLeaderAlways == Spec => []OneLeader
<1>1. Init => LeaseInv /\ BusyInv
  BY DEF Init, LifeInit, LeaseInv, BusyInv, Busy
<1>2. LeaseInv /\ BusyInv => OneLeader
  BY DEF OneLeader, LeaseInv, Leads, BusyInv, Alive, isLeader, Leading
<1>. QED  BY <1>1, <1>2, TypeInit, TypeNext, LeaseNext, BusyNext, PTL DEF Spec

-----------------------------------------------------------------------------
(***************************************************************************)
(* The zones a pod works with.                                             *)
(***************************************************************************)

\* What a pod knows is what its start found.
FoundInv == \A p \in Pod : state[p] # "down" => clusterZones[p] = getEKSClusterZones(missed[p])

LEMMA FoundNext == TypeOK /\ FoundInv /\ [Next]_allVars => FoundInv'
<1>. SUFFICES ASSUME TypeOK, FoundInv, [Next]_allVars, NEW l \in Pod, state'[l] # "down"
              PROVE  clusterZones'[l] = getEKSClusterZones(missed'[l])
  BY DEF FoundInv
<1>. USE DEF FoundInv, TypeOK, LifeTypeOK, Becomes, pods, lease
<1>1. ASSUME NEW p \in Pod, Life(p)  PROVE clusterZones'[l] = getEKSClusterZones(missed'[l])
  <2>1. CASE Start(p)
    BY <2>1 DEF Start
  <2>2. CASE Elect(p)
    BY <2>2 DEF Elect, Observe, Acquire, Renew, GiveUp, Release, StopLeading
  <2>. QED  BY <1>1, <2>1, <2>2 DEF Life
<1>2. ASSUME NEW p \in Pod, Ends(p)  PROVE clusterZones'[l] = getEKSClusterZones(missed'[l])
  BY <1>2 DEF Ends, Crash, Exit, Stops
<1>3. ASSUME NEW p \in Pod, pollSQS(p)  PROVE UNCHANGED pods
  BY <1>3 DEF pollSQS, CheckLeader, ReceiveMessage, TakeMessage, DeleteMessage
<1>4. ASSUME NEW m \in Message, Send(m) \/ Queue(m)  PROVE UNCHANGED pods
  BY <1>4 DEF Send, Queue, BecomesVisible, DeadLetter
<1>5. CASE Tick
  BY <1>5 DEF Tick
<1>6. CASE UNCHANGED pods
  BY <1>6
<1>. QED  BY <1>1, <1>2, <1>3, <1>4, <1>5, <1>6 DEF Next, allVars

\* For any subnets and tags, a pod's zones differ from those the tags name only after
\* one of two calls failed unnoticed, and one of the two leaves out no available zone.
THEOREM ZonesAlwaysExplained == Spec => []ZonesExplained
<1>1. Init => FoundInv
  BY DEF Init, LifeInit, FoundInv
<1>2. TypeOK /\ FoundInv => ZonesExplained
  <2>. SUFFICES ASSUME TypeOK, FoundInv, NEW p \in Pod, state[p] # "down"
                PROVE  /\ missed[p] \cap {"crds", "probe"} = {} => clusterZones[p] = ExpectedZones
                       /\ "crds" \notin missed[p] /\ AutoCluster =>
                            zonesOf(FirstTagged \cap Available) \subseteq clusterZones[p]
    BY DEF ZonesExplained
  <2>1. missed[p] \in SUBSET Call /\ clusterZones[p] = getEKSClusterZones(missed[p])
    BY DEF TypeOK, LifeTypeOK, FoundInv
  <2>. QED  BY <2>1, FoundAreExpected
<1>. QED  BY <1>1, <1>2, TypeInit, TypeNext, FoundNext, PTL DEF Spec
-----------------------------------------------------------------------------
(***************************************************************************)
(* Deliveries.                                                             *)
(***************************************************************************)

\* A pod that asks for messages has none.
AskInv == \A p \in Pod : polling[p] => batch[p] = {} /\ cur[p] = NoMessage

LEMMA AskNext == TypeOK /\ AskInv /\ [Next]_allVars => AskInv'
<1>. SUFFICES ASSUME TypeOK, AskInv, [Next]_allVars  PROVE AskInv'
  OBVIOUS
<1>. USE DEF AskInv, TypeOK, loops
<1>1. ASSUME NEW p \in Pod, pollSQS(p)  PROVE AskInv'
  BY <1>1 DEF pollSQS, CheckLeader, Busy, ReceiveMessage, TakeMessage, DeleteMessage
<1>2. ASSUME NEW p \in Pod, Ends(p)  PROVE AskInv'
  BY <1>2 DEF Ends
<1>3. CASE UNCHANGED loops
  BY <1>3
<1>4. ASSUME NEW m \in Message, Send(m) \/ Queue(m)  PROVE UNCHANGED loops
  BY <1>4 DEF Send, Queue, BecomesVisible, DeadLetter
<1>. QED  BY <1>1, <1>2, <1>3, <1>4 DEF Next, Life, allVars

\* Each delivery of a message but the last one has met a trouble of its own; the last
\* one has as well, unless it is Underway or has succeeded.  A pod that has given the
\* lease up takes one delivery along without further trouble when it exits: the loss of
\* its lease is that delivery's, and the pod Reserves it.  As another pod may give up
\* before the first one has ended, the reservations are counted.
Underway(m) == where[m] \in Pod /\ Holds(where[m], m)
Reserves(p, m) ==
  \/ state[p] = "releasing"
  \/ state[p] = "exiting" /\ (polling[p] \/ (where[m] = p /\ Holds(p, m)))
Reserving(m) == {p \in Pod : Reserves(p, m)}
Count(b) == IF b THEN 1 ELSE 0
Paid(m) ==
  /\ IsFiniteSet(Reserving(m))
  /\ receives[m] + Cardinality(Reserving(m))
       <= trouble + Count(Underway(m) \/ where[m] = "deleted")

PaidInv == \A m \in Message \ Malformed : Paid(m)

LEMMA Numbers ==
  ASSUME TypeOK, NEW m \in Message
  PROVE  /\ receives[m] \in Nat /\ handled[m] \in Nat /\ trouble \in Nat
         /\ MaxReceives \in Nat /\ receives[m] <= MaxReceives
<1>1. receives[m] \in 0 .. MaxReceives /\ trouble \in 0 .. MaxTrouble /\ handled[m] \in Nat
  BY DEF TypeOK, LifeTypeOK
<1>2. MaxReceives \in Nat /\ MaxTrouble \in Nat
  BY LeaseAssumption, IntakeAssumption DEF LeaseAssumption, IntakeAssumption
<1>. QED  BY <1>1, <1>2

\* The steps that deliver nothing: a delivery ends without success only at the price of
\* a trouble.
LEMMA PaidAlso ==
  ASSUME TypeOK, NEW m \in Message, Paid(m), receives'[m] = receives[m],
         \A q \in Pod : Reserves(q, m)' => Reserves(q, m),
         \/ trouble' = trouble + 1
         \/ /\ trouble' = trouble
            /\ Underway(m) \/ where[m] = "deleted" => Underway(m)' \/ where'[m] = "deleted"
  PROVE  Paid(m)'
<1>1. receives[m] \in Nat /\ trouble \in Nat
  BY Numbers
<1>2. Reserving(m)' \subseteq Reserving(m)
  BY DEF Reserving
<1>3. /\ IsFiniteSet(Reserving(m)') /\ Cardinality(Reserving(m)') <= Cardinality(Reserving(m))
      /\ Cardinality(Reserving(m)) \in Nat /\ Cardinality(Reserving(m)') \in Nat
  BY <1>2, FS_Subset, FS_CardinalityType DEF Paid
<1>. QED  BY <1>1, <1>3 DEF Paid, Count

LEMMA PaidLife ==
  ASSUME TypeOK, NEW m \in Message, Paid(m), NEW p \in Pod, Life(p)
  PROVE  Paid(m)'
<1>. USE DEF queue, loops, pods, lease, Life
<1>1. /\ receives'[m] = receives[m] /\ where' = where
      /\ UNCHANGED <<polling, batch, cur>>
  OBVIOUS
<1>2. Underway(m)' <=> Underway(m)
  BY <1>1 DEF Underway, Holds
<1>3. CASE GiveUp(p)
  <2>1. /\ trouble' = trouble + 1 /\ receives[m] \in Nat /\ trouble \in Nat
        /\ state[p] = "leading" /\ state' = [state EXCEPT ![p] = "releasing"]
    BY <1>3, Numbers DEF GiveUp, Trouble, Becomes
  <2>2. p \notin Reserving(m)
    BY <2>1 DEF Reserving, Reserves
  <2>3. Reserving(m)' = Reserving(m) \cup {p}
    BY <1>1, <2>1 DEF Reserving, Reserves, Holds, TypeOK, LifeTypeOK
  <2>4. IsFiniteSet(Reserving(m)') /\ Cardinality(Reserving(m)') = Cardinality(Reserving(m)) + 1
    BY <2>2, <2>3, FS_AddElement DEF Paid
  <2>5. Cardinality(Reserving(m)) \in Nat
    BY FS_CardinalityType DEF Paid
  <2>. QED  BY <1>1, <1>2, <2>1, <2>4, <2>5 DEF Paid, Count
<1>4. CASE Start(p) \/ Observe(p) \/ Acquire(p) \/ Renew(p) \/ Release(p) \/ StopLeading(p)
  <2>1. trouble' \in {trouble, trouble + 1}
    <3>1. CASE Start(p)
      <4>1. UNCHANGED trouble \/ Trouble
        BY <3>1, Zenon DEF Start
      <4>. QED  BY <4>1 DEF Trouble
    <3>2. CASE ~Start(p)
      BY <1>4, <3>2 DEF Observe, Acquire, Renew, Release, StopLeading
    <3>. QED  BY <3>1, <3>2
  <2>2. \A q \in Pod : /\ state'[q] = "releasing" => state[q] = "releasing"
                       /\ state'[q] = "exiting" => state[q] \in {"releasing", "exiting"}
    BY <1>4
    DEF Start, Observe, Acquire, Renew, Release, StopLeading, Becomes, TypeOK, LifeTypeOK
  <2>3. \A q \in Pod : Reserves(q, m)' => Reserves(q, m)
    BY <1>1, <2>2 DEF Reserves, Holds
  <2>. QED  BY <1>1, <1>2, <2>1, <2>3, PaidAlso
<1>. QED  BY <1>3, <1>4 DEF Elect

LEMMA PaidEnds ==
  ASSUME TypeOK, NEW m \in Message, Paid(m), NEW p \in Pod, Ends(p)
  PROVE  Paid(m)'
<1>. USE IntakeAssumption DEF IntakeAssumption, queue, TypeOK, LifeTypeOK
<1>1. /\ receives'[m] = receives[m] /\ where' = where
      /\ \A q \in Pod : /\ q # p => /\ polling'[q] = polling[q] /\ state'[q] = state[q]
                                    /\ Holds(q, m)' = Holds(q, m)
                        /\ q = p => state'[q] = "down" /\ ~Holds(q, m)'
  BY DEF Ends, Holds, Crash, Exit, Stops, Becomes
<1>2. \A q \in Pod : Reserves(q, m)' => Reserves(q, m) /\ q # p
  BY <1>1 DEF Reserves
<1>3. CASE Crash(p)
  <2>1. trouble' = trouble + 1
    BY <1>3 DEF Crash, Trouble
  <2>. QED  BY <1>1, <1>2, <2>1, PaidAlso
<1>4. CASE Exit(p)
  <2>1. trouble' = trouble /\ state[p] = "exiting"
    BY <1>4 DEF Exit
  <2>2. CASE where[m] = p /\ Holds(p, m)
    <3>1. p \in Reserving(m)
      BY <2>1, <2>2 DEF Reserving, Reserves
    <3>2. Reserving(m)' \subseteq Reserving(m) \ {p}
      BY <1>2 DEF Reserving
    <3>3. /\ receives[m] \in Nat /\ trouble \in Nat
          /\ IsFiniteSet(Reserving(m)) /\ Cardinality(Reserving(m)) \in Nat
      BY Numbers, FS_CardinalityType DEF Paid
    <3>4. /\ IsFiniteSet(Reserving(m) \ {p})
          /\ Cardinality(Reserving(m) \ {p}) = Cardinality(Reserving(m)) - 1
      BY <3>1, <3>3, FS_RemoveElement
    <3>5. /\ IsFiniteSet(Reserving(m)') /\ Cardinality(Reserving(m)') \in Nat
          /\ Cardinality(Reserving(m)') <= Cardinality(Reserving(m)) - 1
      BY <3>2, <3>4, FS_Subset, FS_CardinalityType
    <3>. QED  BY <1>1, <2>1, <3>3, <3>5 DEF Paid, Count
  <2>3. CASE ~(where[m] = p /\ Holds(p, m))
    <3>1. Underway(m) => Underway(m)'
      BY <1>1, <2>3 DEF Underway
    <3>. QED  BY <1>1, <1>2, <2>1, <3>1, PaidAlso
  <2>. QED  BY <2>2, <2>3
<1>. QED  BY <1>3, <1>4 DEF Ends

\* A delivery is Underway with the pod that asked for it; one whose answer is lost costs
\* a trouble at once.
LEMMA PaidReceive ==
  ASSUME TypeOK, AskInv, NEW m \in Message, Paid(m), NEW p \in Pod,
         ReceiveMessage(p)
  PROVE  Paid(m)'
<1>. USE IntakeAssumption DEF IntakeAssumption, pods, lease
<1>1. PICK S \in (SUBSET Receivable) \ {{}} :
        /\ where' = [k \in Message |-> IF k \in S THEN p ELSE where[k]]
        /\ receives' = [k \in Message |-> IF k \in S THEN receives[k] + 1 ELSE receives[k]]
        /\ \/ batch' = [batch EXCEPT ![p] = S] /\ UNCHANGED trouble
           \/ Trouble /\ UNCHANGED batch
  BY DEF ReceiveMessage
<1>2. /\ UNCHANGED <<state, cur>> /\ polling' = [polling EXCEPT ![p] = FALSE]
      /\ polling[p] /\ batch[p] = {} /\ cur[p] = NoMessage
  BY DEF ReceiveMessage, AskInv
<1>3. /\ receives[m] \in Nat /\ trouble \in Nat
      /\ trouble' = trouble \/ (trouble' = trouble + 1 /\ batch' = batch)
  BY <1>1, Numbers DEF Trouble
<1>4. CASE m \in S
  <2>1. where[m] = "queued" /\ where'[m] = p /\ receives'[m] = receives[m] + 1
    BY <1>1, <1>4 DEF Receivable
  <2>2. ~Underway(m) /\ (Underway(m)' \/ trouble' = trouble + 1)
    BY <1>1, <1>4, <2>1 DEF Underway, Holds, TypeOK, Trouble
  <2>3. Reserving(m)' \subseteq Reserving(m)
    BY <1>2, <2>1 DEF Reserving, Reserves, TypeOK
  <2>4. /\ IsFiniteSet(Reserving(m)') /\ Cardinality(Reserving(m)') <= Cardinality(Reserving(m))
        /\ Cardinality(Reserving(m)) \in Nat /\ Cardinality(Reserving(m)') \in Nat
    BY <2>3, FS_Subset, FS_CardinalityType DEF Paid
  <2>. QED  BY <1>2, <1>3, <2>1, <2>2, <2>4 DEF Paid, Count
<1>5. CASE m \notin S
  <2>1. where'[m] = where[m] /\ receives'[m] = receives[m]
    BY <1>1, <1>5
  <2>2. \A q \in Pod : Holds(q, m)' <=> Holds(q, m)
    BY <1>1, <1>2, <1>5 DEF Holds, TypeOK
  <2>3. Underway(m)' <=> Underway(m)
    BY <2>1, <2>2 DEF Underway
  <2>4. \A q \in Pod : Reserves(q, m)' => Reserves(q, m)
    BY <1>2, <2>1, <2>2 DEF Reserves, TypeOK
  <2>. QED  BY <1>3, <2>1, <2>3, <2>4, PaidAlso
<1>. QED  BY <1>4, <1>5

LEMMA PaidTake ==
  ASSUME TypeOK, NEW m \in Message \ Malformed, Paid(m), NEW p \in Pod, NEW k \in Message,
         TakeMessage(p, k)
  PROVE  Paid(m)'
<1>. USE DEF pods, lease
<1>1. UNCHANGED <<state, trouble, where, receives, polling>>
  BY DEF TakeMessage
<1>2. \A q \in Pod : Holds(q, m)' <=> Holds(q, m)
  <2>1. \A q \in Pod : q # p => batch'[q] = batch[q] /\ cur'[q] = cur[q]
    BY DEF TakeMessage, TypeOK
  <2>2. batch'[p] = batch[p] \ {k} /\ cur[p] = NoMessage /\ k \in batch[p]
    BY DEF TakeMessage, TypeOK, rest
  <2>3. cur'[p] = IF k \in Malformed THEN NoMessage ELSE k
    BY <2>2 DEF TakeMessage, TypeOK
  <2>. QED  BY <2>1, <2>2, <2>3, IntakeAssumption DEF Holds, IntakeAssumption
<1>3. (Underway(m)' <=> Underway(m)) /\ \A q \in Pod : Reserves(q, m)' => Reserves(q, m)
  BY <1>1, <1>2 DEF Underway, Reserves
<1>. QED  BY <1>1, <1>3, PaidAlso

LEMMA PaidDelete ==
  ASSUME TypeOK, NEW m \in Message, Paid(m), NEW p \in Pod, DeleteMessage(p)
  PROVE  Paid(m)'
<1>. USE IntakeAssumption DEF IntakeAssumption, pods, lease
<1>1. UNCHANGED <<state, receives, polling, batch>> /\ cur' = [cur EXCEPT ![p] = NoMessage]
  BY DEF DeleteMessage
<1>2. cur[p] \in Message /\ where'[m] \in {where[m], "deleted"}
  BY DEF DeleteMessage, TypeOK, Goes, deletedFrom
<1>3. \A q \in Pod : /\ Holds(q, m)' => Holds(q, m)
                     /\ Holds(q, m) => Holds(q, m)' \/ (q = p /\ cur[p] = m)
  BY <1>1 DEF Holds, TypeOK
<1>4. \A q \in Pod : Reserves(q, m)' => Reserves(q, m)
  BY <1>1, <1>2, <1>3 DEF Reserves
<1>5. CASE trouble' = trouble + 1
  BY <1>1, <1>4, <1>5, PaidAlso
<1>6. CASE ~(trouble' = trouble + 1)
  <2>1. PICK place \in deletedFrom(p, where[cur[p]]) : Goes(cur[p], place)
    BY <1>6 DEF DeleteMessage, Trouble
  <2>2. trouble' = trouble
    BY <1>6 DEF DeleteMessage, Trouble
  <2>3. ASSUME Underway(m) \/ where[m] = "deleted"
        PROVE  Underway(m)' \/ where'[m] = "deleted"
    <3>1. CASE where[m] = p /\ cur[p] = m
      <4>1. where'[m] = "deleted"
        BY <2>1, <3>1 DEF Goes, deletedFrom, TypeOK
      <4>. QED  BY <4>1
    <3>2. CASE ~(where[m] = p /\ cur[p] = m)
      BY <1>2, <1>3, <2>3, <3>2 DEF Underway
    <3>. QED  BY <3>1, <3>2
  <2>. QED  BY <1>1, <1>4, <2>2, <2>3, PaidAlso
<1>. QED  BY <1>5, <1>6

LEMMA PaidQueue ==
  ASSUME TypeOK, NEW m \in Message, Paid(m), NEW k \in Message, Send(k) \/ Queue(k)
  PROVE  Paid(m)'
<1>. USE IntakeAssumption DEF IntakeAssumption, pods, lease, loops
<1>1. UNCHANGED <<state, receives, polling, batch, cur>>
  BY DEF Send, Queue, BecomesVisible, DeadLetter
<1>2. /\ \A q \in Pod : Holds(q, m)' <=> Holds(q, m)
      /\ where'[m] \in {where[m], "queued", "deadLetter"}
  BY <1>1 DEF Holds, Send, Queue, BecomesVisible, DeadLetter, Goes, TypeOK
<1>3. \A q \in Pod : Reserves(q, m)' => Reserves(q, m)
  BY <1>1, <1>2 DEF Reserves
<1>4. CASE trouble' = trouble + 1
  BY <1>1, <1>3, <1>4, PaidAlso
<1>5. CASE ~(trouble' = trouble + 1)
  <2>1. trouble' = trouble
    BY <1>5 DEF Send, Queue, BecomesVisible, DeadLetter, Trouble
  <2>2. Underway(m) \/ where[m] = "deleted" => where'[m] = where[m]
    BY <1>5 DEF Send, Queue, BecomesVisible, DeadLetter, Goes, TypeOK, Underway, Trouble
  <2>3. Underway(m) \/ where[m] = "deleted" => Underway(m)' \/ where'[m] = "deleted"
    BY <1>2, <2>2 DEF Underway
  <2>. QED  BY <1>1, <1>3, <2>1, <2>3, PaidAlso
<1>. QED  BY <1>4, <1>5

LEMMA PaidNext ==
  TypeOK /\ AskInv /\ PaidInv /\ [Next]_allVars => PaidInv'
<1>. SUFFICES ASSUME TypeOK, AskInv, PaidInv, [Next]_allVars,
                     NEW m \in Message \ Malformed
              PROVE  Paid(m)'
  BY DEF PaidInv
<1>1. Paid(m)
  BY DEF PaidInv
<1>2. ASSUME NEW p \in Pod, CheckLeader(p)  PROVE Paid(m)'
  <2>1. /\ UNCHANGED <<state, trouble, where, receives, batch, cur>>
        /\ state[p] \in {"leading", "releasing"} /\ polling' = [polling EXCEPT ![p] = TRUE]
    BY <1>2 DEF CheckLeader, isLeader, pods, queue
  <2>2. (Underway(m)' <=> Underway(m)) /\ \A q \in Pod : Reserves(q, m)' => Reserves(q, m)
    BY <2>1 DEF Underway, Reserves, Holds, TypeOK
  <2>. QED  BY <1>1, <2>1, <2>2, PaidAlso
<1>3. CASE UNCHANGED <<state, trouble, queue, loops>>
  BY <1>1, <1>3 DEF Paid, Underway, Reserving, Reserves, Holds, queue, loops
<1>4. Tick => UNCHANGED <<state, trouble>>
  BY DEF Tick, pods
<1>. QED
  BY <1>1, <1>2, <1>3, <1>4, PaidLife, PaidEnds, PaidReceive, PaidTake, PaidDelete, PaidQueue
  DEF Next, pollSQS, allVars, pods

\* A message has been handled at most once for each delivery, and a delivery that still
\* waits in a pod's batch has not been handled.
Waiting(m) == {p \in Pod : m \in batch[p]}
HandledInv ==
  \A m \in Message :
    /\ IsFiniteSet(Waiting(m)) /\ handled[m] + Cardinality(Waiting(m)) <= receives[m]
    /\ m \in Malformed => handled[m] = 0
    /\ where[m] = "deadLetter" => receives[m] = MaxReceives

LEMMA HandledNext == TypeOK /\ AskInv /\ HandledInv /\ [Next]_allVars => HandledInv'
<1>. SUFFICES ASSUME TypeOK, AskInv, HandledInv, [Next]_allVars, NEW m \in Message
              PROVE  /\ IsFiniteSet(Waiting(m)')
                     /\ handled'[m] + Cardinality(Waiting(m)') <= receives'[m]
                     /\ m \in Malformed => handled'[m] = 0
                     /\ where'[m] = "deadLetter" => receives'[m] = MaxReceives
  BY DEF HandledInv
<1>. DEFINE Goal == /\ IsFiniteSet(Waiting(m)')
                    /\ handled'[m] + Cardinality(Waiting(m)') <= receives'[m]
                    /\ m \in Malformed => handled'[m] = 0
                    /\ where'[m] = "deadLetter" => receives'[m] = MaxReceives
<1>. USE DEF queue, loops
<1>1. /\ IsFiniteSet(Waiting(m)) /\ handled[m] + Cardinality(Waiting(m)) <= receives[m]
      /\ m \in Malformed => handled[m] = 0
      /\ where[m] = "deadLetter" => receives[m] = MaxReceives
      /\ handled[m] \in Nat /\ receives[m] \in Nat /\ Cardinality(Waiting(m)) \in Nat
  BY Numbers, FS_CardinalityType DEF HandledInv
<1>2. ASSUME UNCHANGED <<handled, receives, where>>, \A p \in Pod : batch'[p] \subseteq batch[p]
      PROVE  Goal
  <2>1. Waiting(m)' \subseteq Waiting(m)
    BY <1>2 DEF Waiting
  <2>2. IsFiniteSet(Waiting(m)') /\ Cardinality(Waiting(m)') <= Cardinality(Waiting(m))
    BY <1>1, <2>1, FS_Subset
  <2>3. Cardinality(Waiting(m)') \in Nat
    BY <2>2, FS_CardinalityType
  <2>. QED  BY <1>1, <1>2, <2>2, <2>3
<1>3. ASSUME NEW p \in Pod, ReceiveMessage(p)  PROVE Goal
  <2>1. PICK S \in (SUBSET Receivable) \ {{}} :
          /\ where' = [k \in Message |-> IF k \in S THEN p ELSE where[k]]
          /\ receives' = [k \in Message |-> IF k \in S THEN receives[k] + 1 ELSE receives[k]]
          /\ batch' = [batch EXCEPT ![p] = S] \/ batch' = batch
    BY <1>3 DEF ReceiveMessage
  <2>2. handled' = handled /\ batch[p] = {} /\ p # "deadLetter"
    BY <1>3, IntakeAssumption DEF ReceiveMessage, AskInv, IntakeAssumption
  <2>3. CASE m \in S
    <3>1. ASSUME batch' = [batch EXCEPT ![p] = S]
          PROVE  /\ IsFiniteSet(Waiting(m)')
                 /\ Cardinality(Waiting(m)') = Cardinality(Waiting(m)) + 1
      <4>1. Waiting(m)' = Waiting(m) \cup {p} /\ p \notin Waiting(m)
        BY <2>2, <2>3, <3>1 DEF Waiting, TypeOK
      <4>. QED  BY <1>1, <4>1, FS_AddElement
    <3>2. /\ IsFiniteSet(Waiting(m)') /\ Cardinality(Waiting(m)') \in Nat
          /\ Cardinality(Waiting(m)') <= Cardinality(Waiting(m)) + 1
      <4>1. CASE batch' = batch
        BY <1>1, <4>1 DEF Waiting
      <4>. QED  BY <1>1, <2>1, <3>1, <4>1, FS_AddElement, FS_CardinalityType
    <3>3. receives'[m] = receives[m] + 1 /\ where'[m] = p
      BY <2>1, <2>3
    <3>. QED  BY <1>1, <2>2, <3>2, <3>3
  <2>4. CASE m \notin S
    <3>1. Waiting(m)' = Waiting(m)
      BY <2>1, <2>2, <2>4 DEF Waiting, TypeOK
    <3>2. receives'[m] = receives[m] /\ where'[m] = where[m]
      BY <2>1, <2>4
    <3>. QED  BY <1>1, <2>2, <3>1, <3>2
  <2>. QED  BY <2>3, <2>4
<1>4. ASSUME NEW p \in Pod, NEW k \in Message, TakeMessage(p, k)  PROVE Goal
  <2>1. /\ UNCHANGED <<where, receives>> /\ k \in batch[p]
        /\ batch' = [batch EXCEPT ![p] = batch[p] \ {k}]
    BY <1>4 DEF TakeMessage, rest
  <2>2. CASE k = m /\ k \notin Malformed
    <3>1. Waiting(m)' = Waiting(m) \ {p} /\ p \in Waiting(m)
      BY <2>1, <2>2 DEF Waiting, TypeOK
    <3>2. IsFiniteSet(Waiting(m)') /\ Cardinality(Waiting(m)') = Cardinality(Waiting(m)) - 1
      BY <1>1, <3>1, FS_RemoveElement
    <3>3. handled' = [handled EXCEPT ![k] = handled[k] + 1]
      BY <1>4, <2>2, Zenon DEF TakeMessage
    <3>4. handled'[m] = handled[m] + 1
      BY <2>2, <3>3 DEF TypeOK
    <3>. QED  BY <1>1, <2>1, <2>2, <3>2, <3>4
  <2>3. CASE ~(k = m /\ k \notin Malformed)
    <3>1. handled'[m] = handled[m]
      <4>1. CASE k \in Malformed
        BY <1>4, <4>1 DEF TakeMessage
      <4>2. CASE k \notin Malformed
        <5>1. handled' = [handled EXCEPT ![k] = handled[k] + 1] /\ k # m
          BY <1>4, <2>3, <4>2, Zenon DEF TakeMessage
        <5>. QED  BY <5>1 DEF TypeOK
      <4>. QED  BY <4>1, <4>2
    <3>2. Waiting(m)' \subseteq Waiting(m)
      BY <2>1 DEF Waiting, TypeOK
    <3>3. IsFiniteSet(Waiting(m)') /\ Cardinality(Waiting(m)') <= Cardinality(Waiting(m))
      BY <1>1, <3>2, FS_Subset
    <3>4. Cardinality(Waiting(m)') \in Nat
      BY <3>3, FS_CardinalityType
    <3>. QED  BY <1>1, <2>1, <3>1, <3>3, <3>4
  <2>. QED  BY <2>2, <2>3
<1>5. ASSUME NEW k \in Message, Send(k) \/ Queue(k)  PROVE Goal
  <2>1. /\ UNCHANGED <<handled, receives, batch>>
        /\ where'[m] = "deadLetter" => where[m] = "deadLetter" \/ receives[m] = MaxReceives
    BY <1>5 DEF Send, Queue, BecomesVisible, DeadLetter, Goes, TypeOK
  <2>2. Waiting(m)' = Waiting(m)
    BY <2>1 DEF Waiting
  <2>. QED  BY <1>1, <2>1, <2>2
<1>6. ASSUME NEW p \in Pod, DeleteMessage(p)  PROVE Goal
  <2>1. /\ UNCHANGED <<handled, receives, batch>>
        /\ where'[m] \in {where[m], "deleted"}
    BY <1>6 DEF DeleteMessage, Goes, deletedFrom, TypeOK
  <2>2. Waiting(m)' = Waiting(m)
    BY <2>1 DEF Waiting
  <2>. QED  BY <1>1, <2>1, <2>2
<1>7. ASSUME NEW p \in Pod, Ends(p) \/ CheckLeader(p) \/ Life(p)  PROVE Goal
  BY <1>2, <1>7 DEF Ends, CheckLeader, Life, TypeOK
<1>8. CASE UNCHANGED <<queue, loops>>
  BY <1>2, <1>8
<1>. QED  BY <1>3, <1>4, <1>5, <1>6, <1>7, <1>8 DEF Next, pollSQS, allVars

DeliveryInv == AskInv /\ PaidInv /\ HandledInv

LEMMA DeliveryInit == Init => DeliveryInv
<1>. SUFFICES ASSUME Init PROVE DeliveryInv
  OBVIOUS
<1>1. AskInv
  BY DEF Init, AskInv
<1>2. PaidInv
  <2>1. \A m \in Message : Reserving(m) = {}
    BY DEF Init, LifeInit, Reserving, Reserves
  <2>. QED  BY <2>1, FS_EmptySet DEF Init, LifeInit, PaidInv, Paid, Count
<1>3. HandledInv
  <2>1. \A m \in Message : Waiting(m) = {}
    BY DEF Init, Waiting
  <2>. QED  BY <2>1, FS_EmptySet DEF Init, HandledInv
<1>. QED  BY <1>1, <1>2, <1>3 DEF DeliveryInv

LEMMA DeliveryInvariance == Spec => [](TypeOK /\ DeliveryInv)
<1>1. TypeOK /\ DeliveryInv /\ [Next]_allVars => DeliveryInv'
  BY AskNext, PaidNext, HandledNext DEF DeliveryInv
<1>. QED  BY <1>1, DeliveryInit, TypeInit, TypeNext, PTL DEF Spec

\* Each repetition of an event has its own trouble, for any pods, messages and receive
\* count, even where a pod receives messages after it has lost the lease.
THEOREM RepeatsAreExplained == Spec => []HandledOnceUnlessTrouble
<1>1. TypeOK /\ DeliveryInv => HandledOnceUnlessTrouble
  <2>. SUFFICES ASSUME TypeOK, DeliveryInv, NEW m \in Message
                PROVE  handled[m] <= trouble + 1
    BY DEF HandledOnceUnlessTrouble
  <2>1. handled[m] \in Nat /\ receives[m] \in Nat /\ trouble \in Nat
    BY Numbers
  <2>2. handled[m] <= receives[m]
    <3>1. /\ IsFiniteSet(Waiting(m))
          /\ handled[m] + Cardinality(Waiting(m)) <= receives[m]
      BY DEF DeliveryInv, HandledInv
    <3>2. Cardinality(Waiting(m)) \in Nat
      BY <3>1, FS_CardinalityType
    <3>. QED  BY <2>1, <3>1, <3>2
  <2>3. CASE m \in Malformed
    BY <2>1, <2>3 DEF DeliveryInv, HandledInv
  <2>4. CASE m \notin Malformed
    <3>1. Paid(m)
      BY <2>4 DEF DeliveryInv, PaidInv
    <3>2. Cardinality(Reserving(m)) \in Nat
      BY <3>1, FS_CardinalityType DEF Paid
    <3>. QED  BY <2>1, <2>2, <3>1, <3>2 DEF Paid, Count
  <2>. QED  BY <2>3, <2>4
<1>. QED  BY <1>1, DeliveryInvariance, PTL

\* An event in the dead-letter queue has met trouble at each of its deliveries.
THEOREM LossesAreExplained == Spec => []LostOnlyAfterTrouble
<1>1. TypeOK /\ DeliveryInv => LostOnlyAfterTrouble
  <2>. SUFFICES ASSUME TypeOK, DeliveryInv, NEW m \in Message \ Malformed,
                       where[m] = "deadLetter"
                PROVE  trouble >= MaxReceives
    BY DEF LostOnlyAfterTrouble
  <2>1. receives[m] = MaxReceives /\ Paid(m)
    BY DEF DeliveryInv, HandledInv, PaidInv
  <2>2. ~Underway(m)
    BY IntakeAssumption DEF IntakeAssumption, Underway
  <2>3. receives[m] \in Nat /\ trouble \in Nat /\ MaxReceives \in Nat
    BY Numbers
  <2>4. Cardinality(Reserving(m)) \in Nat
    BY <2>1, FS_CardinalityType DEF Paid
  <2>. QED  BY <2>1, <2>2, <2>3, <2>4 DEF Paid, Count
<1>. QED  BY <1>1, DeliveryInvariance, PTL

-----------------------------------------------------------------------------
(***************************************************************************)
(* Every step is a step of Delivery, or none.                              *)
(***************************************************************************)

\* What a loop has was sent, and a message that it is about to delete was handled.
InHand ==
  /\ \A p \in Pod : \A m \in batch[p] : where[m] # "unsent"
  /\ \A p \in Pod : cur[p] # NoMessage =>
       cur[p] \notin Malformed /\ where[cur[p]] # "unsent" /\ handled[cur[p]] > 0

\* Nothing is unsent again, and no handler is taken back.
LEMMA SentStays ==
  ASSUME TypeOK, [Next]_allVars, NEW m \in Message
  PROVE  /\ where[m] # "unsent" => where'[m] # "unsent"
         /\ handled'[m] >= handled[m]
<1>. USE IntakeAssumption DEF IntakeAssumption, TypeOK, queue, loops
<1>1. handled[m] \in Nat /\ \A p \in Pod : p # "unsent"
  OBVIOUS
<1>2. ASSUME UNCHANGED <<where, handled>>
      PROVE  (where[m] # "unsent" => where'[m] # "unsent") /\ handled'[m] >= handled[m]
  BY <1>1, <1>2
<1>3. ASSUME NEW p \in Pod, Life(p) \/ Ends(p) \/ CheckLeader(p)
      PROVE  UNCHANGED <<where, handled>>
  BY <1>3 DEF Life, Ends, CheckLeader
<1>4. ASSUME NEW n \in Message, Send(n) \/ Queue(n)
      PROVE  (where[m] # "unsent" => where'[m] # "unsent") /\ handled'[m] >= handled[m]
  BY <1>1, <1>4 DEF Send, Queue, BecomesVisible, DeadLetter, Goes
<1>5. ASSUME NEW p \in Pod, ReceiveMessage(p)
      PROVE  (where[m] # "unsent" => where'[m] # "unsent") /\ handled'[m] >= handled[m]
  BY <1>1, <1>5 DEF ReceiveMessage
<1>6. ASSUME NEW p \in Pod, NEW n \in Message, TakeMessage(p, n)
      PROVE  (where[m] # "unsent" => where'[m] # "unsent") /\ handled'[m] >= handled[m]
  BY <1>1, <1>6 DEF TakeMessage
<1>7. ASSUME NEW p \in Pod, DeleteMessage(p)
      PROVE  (where[m] # "unsent" => where'[m] # "unsent") /\ handled'[m] >= handled[m]
  BY <1>1, <1>7 DEF DeleteMessage, deletedFrom, Goes
<1>. QED
  BY <1>2, <1>3, <1>4, <1>5, <1>6, <1>7 DEF Next, pollSQS, allVars

LEMMA InHandNext == TypeOK /\ InHand /\ [Next]_allVars => InHand'
<1>. SUFFICES ASSUME TypeOK, InHand, [Next]_allVars PROVE InHand'
  OBVIOUS
<1>. USE DEF queue, loops
<1>1. \A m \in Message : /\ where[m] # "unsent" => where'[m] # "unsent"
                         /\ handled'[m] >= handled[m] /\ handled[m] \in Nat
                         /\ handled'[m] \in Nat
  BY SentStays, TypeNext DEF TypeOK
<1>2. ASSUME \A p \in Pod : batch'[p] \subseteq batch[p] /\ cur'[p] \in {cur[p], NoMessage}
      PROVE  InHand'
  BY <1>1, <1>2 DEF InHand, TypeOK
<1>3. ASSUME NEW p \in Pod, Life(p) \/ Ends(p) \/ CheckLeader(p) \/ DeleteMessage(p)
      PROVE  InHand'
  BY <1>2, <1>3 DEF Life, Ends, CheckLeader, DeleteMessage, TypeOK
<1>4. ASSUME NEW p \in Pod, ReceiveMessage(p)
      PROVE  InHand'
  <2>1. PICK S \in SUBSET Receivable :
          /\ where' = [m \in Message |-> IF m \in S THEN p ELSE where[m]]
          /\ batch' = [batch EXCEPT ![p] = S] \/ batch' = batch
    BY <1>4 DEF ReceiveMessage
  <2>2. \A m \in S : m \in Message /\ where'[m] # "unsent"
    BY <2>1, IntakeAssumption DEF IntakeAssumption, Receivable
  <2>3. UNCHANGED <<cur, handled>>
    BY <1>4 DEF ReceiveMessage
  <2>. QED  BY <1>1, <2>1, <2>2, <2>3 DEF InHand, TypeOK
<1>5. ASSUME NEW p \in Pod, NEW m \in Message, TakeMessage(p, m)
      PROVE  InHand'
  <2>1. /\ m \in batch[p] /\ where[m] # "unsent" /\ UNCHANGED where
        /\ \A q \in Pod : batch'[q] \subseteq batch[q]
    BY <1>5 DEF TakeMessage, rest, InHand, TypeOK
  <2>2. CASE m \in Malformed
    BY <1>2, <1>5, <2>1, <2>2 DEF TakeMessage
  <2>3. CASE m \notin Malformed
    <3>1. /\ cur' = [cur EXCEPT ![p] = m] /\ handled' = [handled EXCEPT ![m] = @ + 1]
      BY <1>5, <2>3 DEF TakeMessage
    <3>2. handled'[m] > 0
      BY <1>1, <3>1 DEF TypeOK
    <3>. QED  BY <1>1, <2>1, <2>3, <3>1, <3>2 DEF InHand, TypeOK
  <2>. QED  BY <2>2, <2>3
<1>6. CASE UNCHANGED loops
  BY <1>2, <1>6
<1>. QED
  BY <1>3, <1>4, <1>5, <1>6 DEF Next, pollSQS, allVars, Send, Queue, BecomesVisible, DeadLetter

abstract == <<[m \in Message |-> placeOf(m)], handled, trouble>>

\* Steps that nobody sees from outside, but perhaps a trouble.
LEMMA QuietDelivery ==
  ASSUME \A m \in Message : placeOf(m)' = placeOf(m),
         UNCHANGED handled, Trouble \/ UNCHANGED trouble
  PROVE  Promise!Next \/ UNCHANGED abstract
<1>1. UNCHANGED [m \in Message |-> placeOf(m)]
  OBVIOUS
<1>. QED  BY <1>1 DEF Trouble, Promise!Next, Promise!Trouble, abstract

\* A message that goes from one place to another.
LEMMA MessageGoes ==
  ASSUME TypeOK, NEW m \in Message, NEW to, Goes(m, to), UNCHANGED <<handled, trouble>>
  PROVE  /\ \A n \in Message : n # m => placeOf(n)' = placeOf(n)
         /\ where'[m] = to
         /\ Promise!Goes(m, placeOf(m), placeOf(m)')
<1>1. where' = [where EXCEPT ![m] = to] /\ where'[m] = to
  BY DEF Goes, TypeOK
<1>2. \A n \in Message : n # m => placeOf(n)' = placeOf(n)
  BY <1>1 DEF placeOf, TypeOK
<1>3. [n \in Message |-> placeOf(n)]'
        = [[n \in Message |-> placeOf(n)] EXCEPT ![m] = placeOf(m)']
  BY <1>2
<1>. QED  BY <1>1, <1>2, <1>3 DEF Promise!Goes

LEMMA QueueDelivers ==
  ASSUME TypeOK, LostOnlyAfterTrouble', NEW m \in Message, Send(m) \/ Queue(m)
  PROVE  Promise!Next \/ UNCHANGED abstract
<1>. USE IntakeAssumption DEF IntakeAssumption
<1>1. CASE Send(m)
  <2>1. placeOf(m) = "unsent" /\ Goes(m, "queued") /\ UNCHANGED <<handled, trouble>>
    BY <1>1 DEF Send, placeOf, queue
  <2>2. placeOf(m)' = "open"
    BY <2>1, MessageGoes DEF placeOf
  <2>3. Promise!Send(m)
    BY <2>1, <2>2, MessageGoes DEF Promise!Send
  <2>. QED  BY <2>3 DEF Promise!Next
<1>2. CASE BecomesVisible(m)
  <2>1. where[m] \in Pod /\ where' = [where EXCEPT ![m] = "queued"]
    BY <1>2 DEF BecomesVisible, Goes
  <2>2. \A n \in Message : placeOf(n)' = placeOf(n)
    BY <2>1 DEF placeOf, TypeOK
  <2>3. UNCHANGED handled /\ (Trouble \/ UNCHANGED trouble)
    BY <1>2 DEF BecomesVisible
  <2>. QED  BY <2>2, <2>3, QuietDelivery
<1>3. CASE DeadLetter(m)
  <2>1. placeOf(m) = "open" /\ Goes(m, "deadLetter") /\ UNCHANGED <<handled, trouble>>
    BY <1>3 DEF DeadLetter, placeOf
  <2>2. placeOf(m)' = "lost" /\ where'[m] = "deadLetter"
    BY <2>1, MessageGoes DEF placeOf
  <2>3. m \in Malformed \/ trouble >= MaxReceives
    BY <2>1, <2>2 DEF LostOnlyAfterTrouble
  <2>4. Promise!Lose(m)
    BY <2>1, <2>2, <2>3, MessageGoes DEF Promise!Lose
  <2>. QED  BY <2>4 DEF Promise!Next
<1>. QED  BY <1>1, <1>2, <1>3 DEF Queue

LEMMA PollingDelivers ==
  ASSUME TypeOK, InHand, HandledOnceUnlessTrouble', NEW p \in Pod, pollSQS(p)
  PROVE  Promise!Next \/ UNCHANGED abstract
<1>. USE IntakeAssumption DEF IntakeAssumption
<1>1. CASE CheckLeader(p)
  BY <1>1, QuietDelivery DEF CheckLeader, queue, placeOf
<1>2. CASE ReceiveMessage(p)
  <2>1. PICK S \in SUBSET Receivable :
          where' = [m \in Message |-> IF m \in S THEN p ELSE where[m]]
    BY <1>2 DEF ReceiveMessage
  <2>2. \A m \in Message : placeOf(m)' = placeOf(m)
    BY <2>1 DEF placeOf, Receivable, TypeOK
  <2>. QED  BY <1>2, <2>2, QuietDelivery DEF ReceiveMessage
<1>3. ASSUME NEW m \in Message, TakeMessage(p, m)
      PROVE  Promise!Next \/ UNCHANGED abstract
  <2>1. UNCHANGED <<where, trouble>> /\ m \in batch[p]
    BY <1>3 DEF TakeMessage
  <2>2. \A n \in Message : placeOf(n)' = placeOf(n)
    BY <2>1 DEF placeOf
  <2>3. CASE m \in Malformed
    BY <1>3, <2>1, <2>2, <2>3, QuietDelivery DEF TakeMessage
  <2>4. CASE m \notin Malformed
    <3>1. handled' = [handled EXCEPT ![m] = @ + 1]
      BY <1>3, <2>4 DEF TakeMessage
    <3>2. handled[m] <= trouble
      <4>1. handled'[m] = handled[m] + 1 /\ handled[m] \in Nat /\ trouble \in Nat
        BY <3>1, Numbers DEF TypeOK
      <4>2. handled'[m] <= trouble' + 1
        BY DEF HandledOnceUnlessTrouble
      <4>. QED  BY <2>1, <4>1, <4>2
    <3>3. placeOf(m) # "unsent"
      BY <2>1 DEF InHand, placeOf
    <3>4. UNCHANGED [n \in Message |-> placeOf(n)]
      BY <2>2
    <3>5. Promise!Handle(m)
      BY <2>1, <2>4, <3>1, <3>2, <3>3, <3>4 DEF Promise!Handle
    <3>. QED  BY <3>5 DEF Promise!Next
  <2>. QED  BY <2>3, <2>4
<1>4. CASE DeleteMessage(p)
  <2>1. PICK m \in Message :
          m = cur[p] /\ where[m] # "unsent" /\ handled[m] > 0 /\ UNCHANGED handled
    BY <1>4 DEF DeleteMessage, InHand, TypeOK
  <2>2. CASE UNCHANGED where
    <3>1. \A n \in Message : placeOf(n)' = placeOf(n)
      BY <2>2 DEF placeOf
    <3>. QED  BY <1>4, <2>1, <3>1, QuietDelivery DEF DeleteMessage
  <2>3. CASE ~ UNCHANGED where
    <3>1. /\ \E place \in deletedFrom(p, where[m]) : Goes(m, place)
          /\ UNCHANGED trouble
      BY <1>4, <2>1, <2>3 DEF DeleteMessage
    <3>2. PICK place \in deletedFrom(p, where[m]) : Goes(m, place)
      BY <3>1
    <3>3. place # where[m]
      BY <2>1, <2>3, <3>2 DEF Goes, TypeOK
    <3>4. place = "deleted" /\ where[m] # "deadLetter"
      BY <3>2, <3>3 DEF deletedFrom
    <3>5. placeOf(m) = "open"
      BY <2>1, <3>3, <3>4 DEF placeOf
    <3>6. placeOf(m)' = "deleted"
      BY <2>1, <3>1, <3>2, <3>4, MessageGoes DEF placeOf
    <3>7. Promise!Delete(m)
      BY <2>1, <3>1, <3>2, <3>5, <3>6, MessageGoes DEF Promise!Delete
    <3>. QED  BY <2>1, <3>7 DEF Promise!Next
  <2>. QED  BY <2>2, <2>3
<1>. QED  BY <1>1, <1>2, <1>3, <1>4 DEF pollSQS

\* Pods, leases and clocks change nothing but the trouble.
LEMMA RestDelivers ==
  ASSUME (\E p \in Pod : Life(p) \/ Ends(p))
           \/ (Tick /\ UNCHANGED <<queue, loops>>) \/ UNCHANGED allVars
  PROVE  Promise!Next \/ UNCHANGED abstract
<1>1. UNCHANGED <<where, handled>>
  BY DEF Life, Ends, allVars, queue
<1>2. Trouble \/ UNCHANGED trouble
  <2>1. ASSUME NEW p \in Pod, Life(p)  PROVE Trouble \/ UNCHANGED trouble
    BY <2>1, Zenon
       DEF Life, Start, Elect, Observe, Acquire, Renew, GiveUp, Release, StopLeading
  <2>2. ASSUME NEW p \in Pod, Ends(p)  PROVE Trouble \/ UNCHANGED trouble
    BY <2>2, Zenon DEF Ends, Crash, Exit
  <2>3. CASE Tick \/ UNCHANGED allVars
    BY <2>3 DEF Tick, allVars
  <2>. QED  BY <2>1, <2>2, <2>3
<1>. QED  BY <1>1, <1>2, QuietDelivery DEF placeOf

\* Events are delivered as Delivery says, for any pods, messages, times and receive
\* count: what a handler may expect does not depend on who leads.
THEOREM EventsAreDelivered == Spec => DeliveredAsPromised
<1>1. Init => Promise!Init
  BY DEF Init, LifeInit, placeOf, Promise!Init
<1>2. Init => InHand
  BY DEF Init, InHand
<1>3. Spec => []InHand
  BY <1>2, TypeCorrect, InHandNext, PTL DEF Spec
<1>4. TypeOK /\ InHand /\ HandledOnceUnlessTrouble' /\ LostOnlyAfterTrouble' /\ [Next]_allVars
        => [Promise!Next]_<<[m \in Message |-> placeOf(m)], handled, trouble>>
  <2>. SUFFICES ASSUME TypeOK, InHand, HandledOnceUnlessTrouble', LostOnlyAfterTrouble',
                       [Next]_allVars
                PROVE  Promise!Next \/ UNCHANGED abstract
    BY DEF abstract
  <2>. QED  BY QueueDelivers, PollingDelivers, RestDelivers DEF Next
<1>. QED
  BY <1>1, <1>3, <1>4, TypeCorrect, RepeatsAreExplained, LossesAreExplained, PTL
  DEF Spec, DeliveredAsPromised, Promise!Spec
=============================================================================
