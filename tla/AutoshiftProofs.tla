--------------------------- MODULE AutoshiftProofs ---------------------------
(***************************************************************************)
(* Theorems about Autoshift, for any pools, zones, pods, handlers, events  *)
(* and redeliveries: which promises the controller keeps in an orderly     *)
(* environment.                                                            *)
(***************************************************************************)
EXTENDS Autoshift, NodePoolsProofs

-----------------------------------------------------------------------------
(***************************************************************************)
(* Types, and what NodePools promises anyway.                              *)
(***************************************************************************)

\* A message that is received is an event, and starts one of the pod's handlers.
LEMMA EventBegins ==
  ASSUME SystemTypeOK, NEW pod \in Pod, NEW n \in queue, handleEvent(pod, n)
  PROVE  /\ n \in 1 .. Len(sent) /\ sent[n] \in EventType
         /\ sent[n].kind \in Kinds /\ sent[n].id \in ZoneId /\ sent[n].id \in AwayFrom
         /\ \E h \in Handler : Begin(h, sent[n].kind, sent[n].id)
<1>1. n \in DOMAIN sent /\ sent \in Seq(EventType)
  BY DEF SystemTypeOK
<1>2. n \in 1 .. Len(sent) /\ sent[n] \in EventType
  BY <1>1
<1>3. (CHOOSE h \in Unused(pod) : TRUE) \in Unused(pod)
  BY DEF handleEvent
<1>. QED  BY <1>2, <1>3 DEF handleEvent, EventType, AwayFrom, Unused

\* Every step of the system is a step of NodePools, or none.
LEMMA StepOfNodePools == SystemTypeOK /\ [SystemNext]_allVars => [Next]_vars
<1>. SUFFICES ASSUME SystemTypeOK, [SystemNext]_allVars PROVE [Next]_vars
  OBVIOUS
<1>1. ASSUME NEW id \in ShiftZone, StartShift(id) \/ EndShift(id)
      PROVE  UNCHANGED vars
  BY <1>1 DEF StartShift, EndShift, Send
<1>2. ASSUME NEW pod \in Pod, Polling(pod)
      PROVE  [Next]_vars
  <2>1. ASSUME NEW n \in queue, handleEvent(pod, n)
        PROVE  Next
    BY <2>1, EventBegins DEF Next
  <2>. QED  BY <1>2, <2>1 DEF Polling, DeleteMessage
<1>3. ASSUME NEW pod \in Pod, PodDies(pod)
      PROVE  Next
  BY <1>3 DEF PodDies, Next
<1>4. ASSUME NEW h \in Handler, Handling(h)
      PROVE  Next
  BY <1>4 DEF Handling, Next
<1>5. ASSUME UNCHANGED allVars
      PROVE  UNCHANGED vars
  BY <1>5 DEF allVars
<1>. QED  BY <1>1, <1>2, <1>3, <1>4, <1>5 DEF SystemNext, Finished

LEMMA InitSystemTypes == SystemInit => SystemTypeOK
<1>. SUFFICES ASSUME SystemInit PROVE SystemTypeOK
  OBVIOUS
<1>1. TypeOK
  BY InitTypes DEF SystemInit
<1>2. sent \in Seq(EventType) /\ Len(sent) = 0
  BY DEF SystemInit
<1>. QED  BY <1>1, <1>2, EnvironmentAssumption DEF SystemInit, SystemTypeOK, EnvironmentAssumption

\* What is true of the environment's variables but for sent, which only ARC changes.
LEMMA NextSystemTypes == SystemTypeOK /\ [SystemNext]_allVars => SystemTypeOK'
<1>. SUFFICES ASSUME SystemTypeOK, [SystemNext]_allVars PROVE SystemTypeOK'
  OBVIOUS
<1>1. TypeOK'
  BY StepOfNodePools, NextTypes DEF SystemTypeOK
<1>2. ASSUME NEW id \in ShiftZone, NEW k \in Kinds, Send(k, id), active' \subseteq ShiftZone
      PROVE  SystemTypeOK'
  <2>1. [kind |-> k, id |-> id] \in EventType
    BY EnvironmentAssumption DEF EnvironmentAssumption, EventType
  <2>2. /\ sent' = Append(sent, [kind |-> k, id |-> id]) /\ sent \in Seq(EventType)
        /\ Len(sent) \in Nat /\ Len(sent) < MaxEvents /\ MaxEvents \in Nat
    BY <1>2, EnvironmentAssumption DEF EnvironmentAssumption, Send, SystemTypeOK
  <2>3. sent' \in Seq(EventType) /\ Len(sent') = Len(sent) + 1
    BY <2>1, <2>2
  <2>4. Len(sent') <= MaxEvents
    BY <2>2, <2>3
  <2>5. DOMAIN sent = 1 .. Len(sent) /\ DOMAIN sent' = 1 .. Len(sent) + 1
    BY <2>2, <2>3
  <2>6. DOMAIN sent \subseteq DOMAIN sent' /\ Len(sent) + 1 \in DOMAIN sent'
    BY <2>2, <2>5
  <2>7. /\ queue \subseteq DOMAIN sent /\ held \in [Pod -> {0} \cup DOMAIN sent]
        /\ redeliveries \in 0 .. MaxRedeliveries /\ told \subseteq ZoneName
    BY DEF SystemTypeOK
  <2>8. queue' = queue \cup {Len(sent) + 1} /\ UNCHANGED <<held, redeliveries, told>>
    BY <1>2 DEF Send
  <2>9. queue' \subseteq DOMAIN sent' /\ held' \in [Pod -> {0} \cup DOMAIN sent']
    BY <2>6, <2>7, <2>8
  <2>. QED  BY <1>1, <1>2, <2>3, <2>4, <2>7, <2>8, <2>9 DEF SystemTypeOK
<1>3. ASSUME NEW id \in ShiftZone, StartShift(id) \/ EndShift(id)
      PROVE  SystemTypeOK'
  BY <1>2, <1>3 DEF StartShift, EndShift, SystemTypeOK, Kinds
<1>4. ASSUME UNCHANGED environment, queue' \subseteq DOMAIN sent,
             held' \in [Pod -> {0} \cup DOMAIN sent],
             redeliveries' \in 0 .. MaxRedeliveries, told' \subseteq ZoneName
      PROVE  SystemTypeOK'
  BY <1>1, <1>4 DEF SystemTypeOK, environment
<1>5. ASSUME NEW pod \in Pod, DeleteMessage(pod)
      PROVE  SystemTypeOK'
  <2>1. held[pod] \in DOMAIN sent
    BY <1>5 DEF DeleteMessage, SystemTypeOK
  <2>2. redeliveries' \in 0 .. MaxRedeliveries
    BY <1>5, EnvironmentAssumption DEF EnvironmentAssumption, DeleteMessage, SystemTypeOK
  <2>. QED  BY <1>4, <1>5, <2>1, <2>2 DEF DeleteMessage, SystemTypeOK
<1>6. ASSUME NEW pod \in Pod, NEW n \in queue, handleEvent(pod, n)
      PROVE  SystemTypeOK'
  <2>1. n \in DOMAIN sent
    BY <1>6 DEF SystemTypeOK
  <2>2. told' \subseteq ZoneName
    BY <1>6, EventBegins, ZonesAssumption
    DEF ZonesAssumption, handleEvent, SystemTypeOK, getZoneNameFromZoneId
  <2>. QED  BY <1>4, <1>6, <2>1, <2>2 DEF handleEvent, SystemTypeOK
<1>7. ASSUME NEW pod \in Pod, PodDies(pod)
      PROVE  SystemTypeOK'
  <2>1. held[pod] # 0 => held[pod] \in DOMAIN sent
    BY <1>7 DEF SystemTypeOK
  <2>2. redeliveries' \in 0 .. MaxRedeliveries
    BY <1>7, EnvironmentAssumption DEF EnvironmentAssumption, PodDies, SystemTypeOK
  <2>. QED  BY <1>4, <1>7, <2>1, <2>2 DEF PodDies, SystemTypeOK
<1>8. ASSUME UNCHANGED <<environment, intake>>
      PROVE  SystemTypeOK'
  BY <1>4, <1>8 DEF SystemTypeOK, intake
<1>. QED
  BY <1>3, <1>5, <1>6, <1>7, <1>8 DEF SystemNext, Polling, Handling, Finished, allVars

\* Messages are events that were sent, received or not, and counters stay in their
\* bounds: for any environment.
THEOREM SystemTypeCorrect == SystemSpec => []SystemTypeOK
  BY InitSystemTypes, NextSystemTypes, PTL DEF SystemSpec

\* Whatever ARC and the queue do, they do nothing to the pools that NodePools does not
\* allow for: its safety properties hold of the system.
THEOREM SystemIsNodePools == SystemSpec => Init /\ [][Next]_vars
<1>1. SystemInit => Init
  BY DEF SystemInit
<1>. QED
  BY <1>1, SystemTypeCorrect, StepOfNodePools, PTL DEF SystemSpec

-----------------------------------------------------------------------------
(***************************************************************************)
(* An orderly environment: ARC shifts one zone at a time, waits until each *)
(* event is handled, and names zones of the cluster; no call fails.  There *)
(* may be any number of events, of deliveries of each, and of handlers at  *)
(* work on it at once.                                                     *)
(***************************************************************************)
Orderly ==
  /\ Serial /\ ~Overlap /\ MaxFaults = 0
  /\ \A id \in ShiftZone : id \in DOMAIN zoneMapping /\ zoneMapping[id] \in clusterZones

\* Is it always the same zone?
OneZone == \A a, b \in ShiftZone : a = b

LEMMA ShiftZoneNames ==
  ASSUME Orderly, NEW id \in ShiftZone
  PROVE  /\ id \in AwayFrom
         /\ getZoneNameFromZoneId(id) \in clusterZones
         /\ getZoneNameFromZoneId(id) \in ZoneName /\ getZoneNameFromZoneId(id) \in AnyZone
         /\ getZoneNameFromZoneId(id) # NoZone
         /\ restoredZone(id) = getZoneNameFromZoneId(id)
  BY ZonesAssumption, EnvironmentAssumption
  DEF ZonesAssumption, EnvironmentAssumption, Orderly, AwayFrom, AnyZone,
      getZoneNameFromZoneId, restoredZone

\* The last event, and the name of its zone.
Last      == sent[Len(sent)]
LastZone  == IF sent = <<>> THEN NoZone ELSE getZoneNameFromZoneId(Last.id)
Shifting  == sent # <<>> /\ Last.kind = "shift"
Restoring == sent # <<>> /\ Last.kind = "restore"

\* Its handlers are through, and no delivery of it is still to come.
Handled == Running = {} /\ Len(sent) \notin queue

\* Only between its PATCHes does a handler have a current pool, and only one.
CurOK == \A h \in Handler : /\ cur[h] # {} => pc[h] = "annotate"
                            /\ \A p, q \in cur[h] : p = q

\* Only the last event is anywhere in the system.
OneEventAtATime ==
  /\ SystemTypeOK /\ faults = 0
  /\ active = IF Shifting THEN {Last.id} ELSE {}
  /\ sent # <<>> => Last.id \in ShiftZone
  /\ queue \subseteq {Len(sent)}
  /\ \A pod \in Pod : held[pod] \in {0, Len(sent)}
  /\ \A h \in Running : sent # <<>> /\ kind[h] = Last.kind /\ away[h] = Last.id
  /\ CurOK

\* What the environment does to its own variables, and a new event to the old ones.
LEMMA SendIsLast ==
  ASSUME OneEventAtATime, Orderly, NEW k \in Kinds, NEW id \in ShiftZone, Send(k, id)
  PROVE  /\ queue = {} /\ Running = {} /\ (\A pod \in Pod : held[pod] = 0)
         /\ Last' = [kind |-> k, id |-> id] /\ sent' # <<>>
         /\ LastZone' = getZoneNameFromZoneId(id)
         /\ Len(sent') = Len(sent) + 1 /\ queue' = {Len(sent')}
         /\ UNCHANGED <<vars, held, told>>
<1>1. queue = {} /\ Running = {} /\ \A pod \in Pod : held[pod] = 0
  BY DEF Orderly, Send, Settled
<1>2. sent \in Seq(EventType) /\ [kind |-> k, id |-> id] \in EventType
  BY EnvironmentAssumption
  DEF EnvironmentAssumption, OneEventAtATime, SystemTypeOK, EventType
<1>3. sent' = Append(sent, [kind |-> k, id |-> id])
  BY DEF Send
<1>4. Len(sent') = Len(sent) + 1 /\ Len(sent) \in Nat
  BY <1>2, <1>3
<1>5. sent'[Len(sent) + 1] = [kind |-> k, id |-> id]
  BY <1>2, <1>3
<1>6. sent' # <<>>
  BY <1>2, <1>3
<1>7. Last' = [kind |-> k, id |-> id]
  BY <1>4, <1>5 DEF Last
<1>. QED  BY <1>1, <1>4, <1>6, <1>7 DEF LastZone, Send

LEMMA EventsOrLess ==
  ASSUME SystemTypeOK
  PROVE  Len(sent) \in Nat /\ (sent = <<>> <=> Len(sent) = 0)
         /\ (sent # <<>> => Last \in EventType /\ Last.kind \in Kinds)
<1>1. sent \in Seq(EventType)
  BY DEF SystemTypeOK
<1>2. Len(sent) \in Nat /\ (sent = <<>> <=> Len(sent) = 0)
  BY <1>1
<1>3. sent # <<>> => sent[Len(sent)] \in EventType
  BY <1>1, <1>2
<1>. QED  BY <1>2, <1>3 DEF Last, EventType

\* A handler at work changes nothing of the others but, perhaps, their pools.
LEMMA HandlerSteps ==
  ASSUME TypeOK, NEW g \in Handler, HandlerStep(g)
  PROVE  /\ g \in Running /\ Running' \subseteq Running
         /\ UNCHANGED <<kind, away, auto>>
         /\ \A h \in Handler \ {g} : pc'[h] = pc[h] /\ todo'[h] = todo[h] /\ cur'[h] = cur[h]
         /\ pc'[g] \in {"pools", "annotate", "done"}
<1>. DEFINE Same == /\ UNCHANGED <<kind, away, auto>> /\ g \in Running
                    /\ pc'[g] \in {"pools", "annotate", "done"}
                    /\ \A h \in Handler \ {g} : pc'[h] = pc[h] /\ todo'[h] = todo[h] /\ cur'[h] = cur[h]
<1>1. CASE ListNodePools(g) \/ ListFails(g)
  BY <1>1 DEF TypeOK, ListNodePools, ListFails, Step, Running
<1>2. CASE \E p \in Pool : UpdateInPlace(g, p) \/ RestoreInPlace(g, p)
  BY <1>2 DEF TypeOK, UpdateInPlace, RestoreInPlace, Step, Reached, Running
<1>3. CASE \E p \in Pool : CreateNodePool(g, p) \/ DeleteNodePool(g, p)
  BY <1>3 DEF TypeOK, CreateNodePool, DeleteNodePool, Step, Reached, Running
<1>4. CASE PatchAnnotation(g) \/ Return(g)
  BY <1>4 DEF TypeOK, PatchAnnotation, Return, Step, Running
<1>5. Same
  BY <1>1, <1>2, <1>3, <1>4 DEF HandlerStep
<1>6. Running' \subseteq Running
  BY <1>5 DEF Running
<1>. QED  BY <1>5, <1>6

LEMMA HandlerCur ==
  ASSUME TypeOK, NEW g \in Handler, HandlerStep(g), CurOK
  PROVE  CurOK'
<1>1. (cur'[g] # {} => pc'[g] = "annotate") /\ \A p, q \in cur'[g] : p = q
  BY DEF TypeOK, HandlerStep, ListNodePools, ListFails, UpdateInPlace, RestoreInPlace,
         PatchAnnotation, CreateNodePool, DeleteNodePool, Return, Step, CurOK
<1>2. \A h \in Handler \ {g} : pc'[h] = pc[h] /\ cur'[h] = cur[h]
  BY HandlerSteps
<1>. QED  BY <1>1, <1>2 DEF CurOK

\* The message a pod receives is the last event, and its handler is like the others.
LEMMA EventIsLast ==
  ASSUME OneEventAtATime, NEW pod \in Pod, NEW n \in queue, handleEvent(pod, n)
  PROVE  /\ n = Len(sent) /\ sent # <<>> /\ queue' = {}
         /\ held' = [held EXCEPT ![pod] = n] /\ UNCHANGED environment
         /\ \E g \in Handler :
              /\ Begin(g, Last.kind, Last.id)
              /\ g \notin Running /\ Running' = Running \cup {g} /\ pc'[g] = "list"
              /\ kind'[g] = Last.kind /\ away'[g] = Last.id
              /\ todo' = todo /\ cur' = cur /\ pools' = pools
              /\ \A h \in Handler \ {g} :
                   /\ pc'[h] = pc[h] /\ kind'[h] = kind[h]
                   /\ away'[h] = away[h] /\ auto'[h] = auto[h]
<1>1. SystemTypeOK /\ TypeOK
  BY DEF OneEventAtATime, SystemTypeOK
<1>2. n = Len(sent) /\ queue' = {}
  BY DEF OneEventAtATime, handleEvent
<1>3. sent # <<>>
  BY <1>1, <1>2, EventBegins, EventsOrLess
<1>4. PICK g \in Handler : Begin(g, Last.kind, Last.id)
  BY <1>1, <1>2, EventBegins DEF Last
<1>5. /\ pc[g] = "idle" /\ pc' = [pc EXCEPT ![g] = "list"]
      /\ kind' = [kind EXCEPT ![g] = Last.kind] /\ away' = [away EXCEPT ![g] = Last.id]
      /\ todo' = todo /\ cur' = cur /\ pools' = pools
      /\ \A h \in Handler \ {g} : auto'[h] = auto[h]
  BY <1>1, <1>4 DEF Begin, Step, TypeOK
<1>6. /\ pc \in [Handler -> {"idle", "list", "pools", "annotate", "done", "dead"}]
      /\ kind \in [Handler -> Kinds \cup {"none"}] /\ away \in [Handler -> AwayFrom]
  BY <1>1 DEF TypeOK
<1>7. /\ pc'[g] = "list" /\ kind'[g] = Last.kind /\ away'[g] = Last.id
      /\ \A h \in Handler \ {g} :
            /\ pc'[h] = pc[h] /\ kind'[h] = kind[h] /\ away'[h] = away[h] /\ auto'[h] = auto[h]
  BY <1>5, <1>6
<1>8. g \notin Running /\ Running' = Running \cup {g}
  BY <1>5, <1>7 DEF Running
<1>9. held' = [held EXCEPT ![pod] = n] /\ UNCHANGED environment
  BY DEF handleEvent
<1>. QED  BY <1>2, <1>3, <1>4, <1>5, <1>7, <1>8, <1>9

LEMMA InitOneEvent == SystemInit => OneEventAtATime
<1>. SUFFICES ASSUME SystemInit PROVE OneEventAtATime
  OBVIOUS
<1>1. sent = <<>> /\ Len(sent) = 0 /\ active = {} /\ queue = {} /\ faults = 0
  BY DEF SystemInit, Init
<1>2. Running = {} /\ \A h \in Handler : cur[h] = {}
  BY DEF SystemInit, Init, Running
<1>. QED  BY <1>1, <1>2, InitSystemTypes DEF SystemInit, OneEventAtATime, Shifting, CurOK

LEMMA NextOneEvent ==
  ASSUME Orderly, OneEventAtATime, [SystemNext]_allVars
  PROVE  OneEventAtATime'
<1>1. SystemTypeOK /\ TypeOK /\ SystemTypeOK' /\ TypeOK'
  BY NextSystemTypes DEF OneEventAtATime, SystemTypeOK
<1>2. faults' = 0
  BY <1>1 DEF TypeOK, Orderly
<1>3. ASSUME NEW id \in ShiftZone, StartShift(id) \/ EndShift(id)
      PROVE  OneEventAtATime'
  <2>1. PICK k \in Kinds : /\ Send(k, id)
                           /\ active' = IF k = "shift" THEN {id} ELSE {}
    BY <1>3 DEF StartShift, EndShift, Kinds, Orderly, OneEventAtATime
  <2>2. /\ queue = {} /\ Running = {} /\ (\A pod \in Pod : held[pod] = 0)
        /\ Last' = [kind |-> k, id |-> id] /\ sent' # <<>>
        /\ queue' = {Len(sent')}
        /\ UNCHANGED <<vars, held, told>>
    BY <2>1, SendIsLast
  <2>3. Running' = {} /\ CurOK'
    BY <2>2 DEF Running, vars, CurOK, OneEventAtATime
  <2>4. Shifting' <=> k = "shift"
    BY <2>2 DEF Shifting
  <2>5. Last'.id \in ShiftZone
    BY <2>2
  <2>. QED
    BY <1>1, <1>2, <2>1, <2>2, <2>3, <2>4, <2>5 DEF OneEventAtATime
<1>4. ASSUME UNCHANGED environment, queue' \subseteq {Len(sent)},
             \A pod \in Pod : held'[pod] \in {0, Len(sent)},
             \A h \in Running' : sent # <<>> /\ kind'[h] = Last.kind /\ away'[h] = Last.id,
             CurOK'
      PROVE  OneEventAtATime'
  BY <1>1, <1>2, <1>4 DEF OneEventAtATime, environment, Shifting, Last
<1>5. ASSUME NEW pod \in Pod, DeleteMessage(pod)
      PROVE  OneEventAtATime'
  <2>1. queue' \subseteq {Len(sent)} /\ (\A q \in Pod : held'[q] \in {0, Len(sent)})
    BY <1>1, <1>5 DEF DeleteMessage, OneEventAtATime, SystemTypeOK
  <2>2. UNCHANGED environment /\ UNCHANGED vars
    BY <1>5 DEF DeleteMessage
  <2>. QED  BY <1>4, <2>1, <2>2 DEF OneEventAtATime, Running, vars, CurOK
<1>6. ASSUME NEW pod \in Pod, NEW n \in queue, handleEvent(pod, n)
      PROVE  OneEventAtATime'
  <2>1. PICK g \in Handler :
          /\ n = Len(sent) /\ sent # <<>> /\ queue' = {} /\ UNCHANGED environment
          /\ held' = [held EXCEPT ![pod] = n]
          /\ Running' = Running \cup {g} /\ kind'[g] = Last.kind /\ away'[g] = Last.id
          /\ g \notin Running /\ pc[g] = "idle" /\ cur' = cur
          /\ \A h \in Handler \ {g} :
               pc'[h] = pc[h] /\ kind'[h] = kind[h] /\ away'[h] = away[h]
    BY <1>6, EventIsLast DEF Begin, Step
  <2>2. \A q \in Pod : held'[q] \in {0, Len(sent)}
    BY <1>1, <2>1 DEF OneEventAtATime, SystemTypeOK
  <2>3. \A h \in Running' : sent # <<>> /\ kind'[h] = Last.kind /\ away'[h] = Last.id
    BY <2>1 DEF OneEventAtATime, Running
  <2>4. CurOK'
    BY <2>1 DEF OneEventAtATime, CurOK
  <2>. QED  BY <1>4, <2>1, <2>2, <2>3, <2>4
<1>7. ASSUME NEW pod \in Pod, PodDies(pod)
      PROVE  OneEventAtATime'
  <2>1. queue' \subseteq {Len(sent)} /\ (\A q \in Pod : held'[q] \in {0, Len(sent)})
    BY <1>1, <1>7 DEF PodDies, OneEventAtATime, SystemTypeOK
  <2>2. UNCHANGED environment /\ UNCHANGED <<kind, away>>
    BY <1>7 DEF PodDies, Crash
  <2>3. Running' \subseteq Running /\ CurOK'
    BY <1>7 DEF PodDies, Crash, Running, OneEventAtATime, CurOK
  <2>. QED  BY <1>4, <2>1, <2>2, <2>3 DEF OneEventAtATime
<1>8. ASSUME NEW g \in Handler, Handling(g)
      PROVE  OneEventAtATime'
  <2>1. HandlerStep(g) /\ UNCHANGED <<environment, intake>>
    BY <1>8 DEF Handling
  <2>2. Running' \subseteq Running /\ UNCHANGED <<kind, away>>
    BY <1>1, <2>1, HandlerSteps
  <2>3. CurOK'
    BY <1>1, <2>1, HandlerCur DEF OneEventAtATime
  <2>. QED  BY <1>4, <2>1, <2>2, <2>3 DEF OneEventAtATime, intake
<1>9. ASSUME UNCHANGED allVars
      PROVE  OneEventAtATime'
  BY <1>4, <1>9 DEF OneEventAtATime, allVars, intake, environment, vars, Running, CurOK
<1>. QED
  BY <1>3, <1>5, <1>6, <1>7, <1>8, <1>9 DEF SystemNext, Polling, Finished

-----------------------------------------------------------------------------
(***************************************************************************)
(* What the handlers write about a pool during one shift.                  *)
(***************************************************************************)

\* The zones that an object, or a copy of one, lets a pool use.
usableIn(o) == IF o.req THEN InList(o.values) ELSE clusterZones

\* What is written in it about pool p: at most the zone z is missing, and it is marked
\* only if z is one of the pool's zones.
Kept(o, p, z) ==
  /\ o.op = "In" /\ (InitialPools[p].req => o.req)
  /\ usableIn(o) \subseteq Home(p) /\ Home(p) \ {z} \subseteq usableIn(o)
  /\ o.mark # {} => o.req /\ z \in Home(p)
  /\ EmptyRefused /\ usableIn(o) = {} => Home(p) = {}

LEMMA InPoolFacts ==
  ASSUME NEW p \in InPools
  PROVE  /\ p \in Pool /\ p \notin Builtin /\ p \notin KssPools
         /\ InitialPools[p] \in NodePool /\ InitialPools[p].op = "In"
         /\ InitialPools[p].mark = {}
         /\ usableIn(InitialPools[p]) = Home(p)
  BY PoolsAssumption DEF PoolsAssumption, InPools, usableIn, Home

\* An update takes away the zone, unless it is a pool's only one: then it writes nothing
\* where empty lists are refused, and leaves a pool without requirement as it is.
LEMMA KeptUpdate ==
  ASSUME Orderly, NEW id \in ShiftZone, NEW p \in InPools,
         NEW o \in NodePool, NEW s \in NodePool,
         Kept(o, p, getZoneNameFromZoneId(id)), Kept(s, p, getZoneNameFromZoneId(id)),
         getZoneNameFromZoneId(id) \in Home(p)
  PROVE  LET u == updatedPool(o, s, id)
             z == getZoneNameFromZoneId(id)
         IN  /\ u \in NodePool /\ u.req /\ u.mark = o.mark
             /\ ~refused(u) => Kept(u, p, z)
             /\ refused(u) => s.req
             /\ EmptyRefused /\ ~refused(u) =>
                  usableIn(u) = IF Home(p) \subseteq {z} THEN Home(p) ELSE Home(p) \ {z}
<1>. DEFINE u == updatedPool(o, s, id)
            z == getZoneNameFromZoneId(id)
<1>1. id \in AwayFrom /\ z \in clusterZones /\ z # NoZone
  BY ShiftZoneNames
<1>2. /\ u \in NodePool /\ u.req = TRUE /\ u.op = "In" /\ u.mark = o.mark
      /\ u.values = shiftedValues(s, id)
  <2>1. u \in NodePool
    BY <1>1, WrittenPools
  <2>. QED  BY <2>1 DEF updatedPool, NodePool, Kept
<1>3. CASE s.req
  <2>1. InList(u.values) = InList(s.values) \ {z}
    BY <1>1, <1>2, <1>3, ShiftedValues
  <2>2. usableIn(u) = Home(p) \ {z}
    BY <1>2, <1>3, <2>1 DEF Kept, usableIn
  <2>. QED
    BY <1>2, <1>3, <2>1, <2>2 DEF Kept, usableIn, refused
<1>4. CASE ~s.req
  <2>1. InList(u.values) = getUpdatedZones(id)
    BY <1>1, <1>2, <1>4, ShiftedValues
  <2>2. Home(p) = clusterZones
    BY <1>4 DEF Kept, usableIn, Home
  <2>3. usableIn(u) = IF Home(p) \subseteq {z} THEN Home(p) ELSE Home(p) \ {z}
    BY <1>1, <1>2, <2>1, <2>2 DEF usableIn, getUpdatedZones
  <2>. QED
    BY <1>1, <1>2, <2>1, <2>2, <2>3 DEF Kept, usableIn, refused
<1>. QED  BY <1>3, <1>4

\* A restore brings all the pool's zones back.
LEMMA KeptRestore ==
  ASSUME Orderly, NEW id \in ShiftZone, NEW p \in InPools,
         NEW o \in NodePool, NEW s \in NodePool,
         Kept(o, p, getZoneNameFromZoneId(id)), Kept(s, p, getZoneNameFromZoneId(id)),
         getZoneNameFromZoneId(id) \in Home(p), s.req
  PROVE  LET r == restoredPool(o, s, id)
         IN  /\ r \in NodePool /\ r.req /\ r.mark = o.mark /\ ~refused(r)
             /\ usableIn(r) = Home(p) /\ Kept(r, p, getZoneNameFromZoneId(id))
<1>. DEFINE r == restoredPool(o, s, id)
            z == getZoneNameFromZoneId(id)
<1>1. id \in AwayFrom /\ restoredZone(id) = z /\ z \in AnyZone
  BY ShiftZoneNames
<1>2. /\ r \in NodePool /\ r.req = TRUE /\ r.op = "In" /\ r.mark = o.mark
      /\ r.values = Appended(s.values, z)
  <2>1. r \in NodePool
    BY <1>1, WrittenPools
  <2>. QED  BY <1>1, <2>1 DEF restoredPool, NodePool, Kept
<1>3. InList(r.values) = InList(s.values) \cup {z}
  BY <1>1, <1>2, ListLaws DEF NodePool
<1>4. usableIn(r) = Home(p)
  BY <1>2, <1>3 DEF Kept, usableIn
<1>. QED
  BY <1>2, <1>3, <1>4 DEF Kept, usableIn, refused

\* The annotation changes no zones, and is not refused.
LEMMA KeptAnnotation ==
  ASSUME NEW id \in AwayFrom, NEW p \in InPools, NEW z, NEW m, m = {} \/ m = {id},
         NEW o \in NodePool, Kept(o, p, z), o.req, z \in Home(p)
  PROVE  LET a == annotatedPool(o, m)
         IN  /\ a \in NodePool /\ a.req /\ a.mark = m /\ ~refused(a)
             /\ usableIn(a) = usableIn(o) /\ Kept(a, p, z)
<1>. DEFINE a == annotatedPool(o, m)
<1>1. /\ a \in NodePool /\ a.req = TRUE /\ a.op = o.op /\ a.mark = m /\ a.values = o.values
  <2>1. a \in NodePool
    BY WrittenPools
  <2>. QED  BY <2>1 DEF annotatedPool, NodePool
<1>2. usableIn(a) = usableIn(o)
  BY <1>1 DEF usableIn
<1>. QED  BY <1>1, <1>2 DEF Kept, refused, usableIn

-----------------------------------------------------------------------------
(***************************************************************************)
(* What a handler's step is to one pool.                                   *)
(***************************************************************************)
Writes(p, new) == pools'[p] = IF refused(new) THEN pools[p] ELSE new

\* It has to do with another pool, or ends when there is nothing left.
Passes(g, p) ==
  /\ pc[g] # "list"
  /\ pools'[p] = pools[p] /\ todo'[g][p] = todo[g][p] /\ (p \in cur'[g] <=> p \in cur[g])
  /\ pc'[g] = "done" => todo[g][p] = Absent /\ p \notin cur[g]

Lists(g, p) ==
  /\ pc[g] = "list" /\ pc'[g] = "pools"
  /\ pools'[p] = pools[p] /\ p \notin cur'[g]
  /\ todo'[g][p] = IF wanted(g, p, pools[p]) THEN pools[p] ELSE Absent

Updates(g, p) ==
  /\ kind[g] = "shift" /\ todo[g][p] # Absent
  /\ Writes(p, updatedPool(pools[p], todo[g][p], away[g]))
  /\ todo'[g][p] = Absent /\ p \in cur'[g] /\ pc'[g] = "annotate"

Restores(g, p) ==
  /\ kind[g] = "restore" /\ todo[g][p] # Absent
  /\ Writes(p, restoredPool(pools[p], todo[g][p], away[g]))
  /\ todo'[g][p] = Absent /\ p \in cur'[g] /\ pc'[g] = "annotate"

Annotates(g, p) ==
  /\ p \in cur[g] /\ Writes(p, annotatedPool(pools[p], markOf(g)))
  /\ todo'[g][p] = todo[g][p] /\ p \notin cur'[g] /\ pc'[g] = "pools"

\* Without failures a PATCH writes what it may.
LEMMA PatchWrites ==
  ASSUME TypeOK, MaxFaults = 0, NEW q \in Pool, NEW new, Patch(q, new),
         NEW p \in Pool, pools[p] # Absent
  PROVE  IF p = q THEN Writes(p, new) ELSE pools'[p] = pools[p]
<1>1. ~(faults < MaxFaults)
  BY DEF TypeOK
<1>. QED  BY <1>1 DEF Patch, ApiFault, Writes, TypeOK

LEMMA PoolSteps ==
  ASSUME Orderly, TypeOK, CurOK, NEW g \in Handler, HandlerStep(g),
         NEW p \in InPools, pools[p] # Absent
  PROVE  \/ Passes(g, p) \/ Lists(g, p)
         \/ Updates(g, p) \/ Restores(g, p) \/ Annotates(g, p)
<1>1. p \in Pool /\ p \notin KssPools /\ MaxFaults = 0 /\ ~(faults < MaxFaults)
  BY InPoolFacts DEF Orderly, TypeOK
<1>2. CASE ListNodePools(g)
  BY <1>1, <1>2 DEF ListNodePools, Step, TypeOK, Lists, CurOK
<1>3. CASE ListFails(g)
  BY <1>1, <1>3 DEF ListFails, ApiFault
<1>4. ASSUME NEW q \in Pool, UpdateInPlace(g, q)
      PROVE  Passes(g, p) \/ Updates(g, p)
  <2>1. /\ pc[g] = "pools" /\ pc' = [pc EXCEPT ![g] = "annotate"]
        /\ todo' = [todo EXCEPT ![g][q] = Absent] /\ cur' = [cur EXCEPT ![g] = {q}]
        /\ kind[g] = "shift" /\ todo[g][q] # Absent
        /\ Patch(q, updatedPool(pools[q], todo[g][q], away[g]))
    BY <1>4 DEF UpdateInPlace, Step, Reached
  <2>2. /\ pc'[g] = "annotate" /\ cur'[g] = {q} /\ cur[g] = {}
        /\ IF p = q THEN todo'[g][p] = Absent ELSE todo'[g][p] = todo[g][p]
    BY <1>1, <2>1 DEF TypeOK, CurOK
  <2>3. IF p = q THEN Writes(p, updatedPool(pools[q], todo[g][q], away[g])) ELSE pools'[p] = pools[p]
    BY <1>1, <2>1, PatchWrites
  <2>. QED  BY <2>1, <2>2, <2>3 DEF Passes, Updates
<1>5. ASSUME NEW q \in Pool, RestoreInPlace(g, q)
      PROVE  Passes(g, p) \/ Restores(g, p)
  <2>1. /\ pc[g] = "pools" /\ pc' = [pc EXCEPT ![g] = "annotate"]
        /\ todo' = [todo EXCEPT ![g][q] = Absent] /\ cur' = [cur EXCEPT ![g] = {q}]
        /\ kind[g] = "restore" /\ todo[g][q] # Absent
        /\ Patch(q, restoredPool(pools[q], todo[g][q], away[g]))
    BY <1>5 DEF RestoreInPlace, Step, Reached
  <2>2. /\ pc'[g] = "annotate" /\ cur'[g] = {q} /\ cur[g] = {}
        /\ IF p = q THEN todo'[g][p] = Absent ELSE todo'[g][p] = todo[g][p]
    BY <1>1, <2>1 DEF TypeOK, CurOK
  <2>3. IF p = q THEN Writes(p, restoredPool(pools[q], todo[g][q], away[g])) ELSE pools'[p] = pools[p]
    BY <1>1, <2>1, PatchWrites
  <2>. QED  BY <2>1, <2>2, <2>3 DEF Passes, Restores
<1>6. CASE PatchAnnotation(g)
  <2>1. PICK q \in cur[g] : Patch(q, annotatedPool(pools[q], markOf(g)))
    BY <1>6 DEF PatchAnnotation
  <2>2. /\ pc[g] = "annotate" /\ pc'[g] = "pools" /\ todo' = todo /\ cur'[g] = {}
        /\ cur[g] = {q} /\ q \in Pool
    BY <1>6, <2>1 DEF PatchAnnotation, Step, TypeOK, CurOK
  <2>3. IF p = q THEN Writes(p, annotatedPool(pools[q], markOf(g))) ELSE pools'[p] = pools[p]
    BY <1>1, <2>1, <2>2, PatchWrites
  <2>. QED  BY <2>2, <2>3 DEF Passes, Annotates
<1>7. ASSUME NEW q \in Pool, CreateNodePool(g, q) \/ DeleteNodePool(g, q)
      PROVE  Passes(g, p)
  <2>1. /\ pc[g] = "pools" /\ pc'[g] = "pools" /\ cur' = cur
        /\ todo' = [todo EXCEPT ![g][q] = Absent]
    BY <1>7 DEF CreateNodePool, DeleteNodePool, Step, Reached, TypeOK
  <2>2. p # q
    BY <1>1, <1>7, InPoolFacts DEF CreateNodePool, DeleteNodePool, copiesBuiltin, deletesKss
  <2>3. todo'[g][p] = todo[g][p]
    BY <1>1, <2>1, <2>2 DEF TypeOK
  <2>4. pools'[p] = pools[p]
    <3>1. q \in Builtin => Kss[q] # p
      BY <1>1 DEF KssPools
    <3>. QED
      BY <1>1, <1>7, <2>2, <3>1
      DEF CreateNodePool, DeleteNodePool, copiesBuiltin, ApiFault, TypeOK
  <2>. QED  BY <2>1, <2>3, <2>4 DEF Passes
<1>8. CASE Return(g)
  BY <1>1, <1>8 DEF Return, Step, TypeOK, Passes, NoCopies, CurOK
<1>. QED
  BY <1>2, <1>3, <1>4, <1>5, <1>6, <1>7, <1>8 DEF HandlerStep

-----------------------------------------------------------------------------
(***************************************************************************)
(* No zone is forgotten: MissingZoneIsMarked and OnlyDyingShiftForgets.    *)
(***************************************************************************)
AtRest(p) == usableIn(pools[p]) = Home(p) /\ pools[p].mark = {}

\* The pool and the copies of it are kept, and no zone requirement that a copy has is
\* gone from the pool.
PoolKept(p) ==
  /\ pools[p] # Absent /\ Kept(pools[p], p, LastZone)
  /\ \A h \in Handler :
       /\ todo[h][p] # Absent =>
            Kept(todo[h][p], p, LastZone) /\ (todo[h][p].req => pools[p].req)
       /\ p \in cur[h] => LastZone \in Home(p) /\ pools[p].req
  /\ sent = <<>> => AtRest(p)

DeadShift == \E h \in Handler : kind[h] = "shift" /\ pc[h] = "dead"

\* A missing zone is marked, or about to be; before its mark is removed it is back.
Marked(p) ==
  /\ \/ usableIn(pools[p]) = Home(p) \/ pools[p].mark # {} \/ DeadShift
     \/ \E h \in Running : kind[h] = "shift" /\ p \in cur[h]
  /\ \A h \in Handler :
       kind[h] = "restore" /\ p \in cur[h] => usableIn(pools[p]) = Home(p)

OrderInv ==
  /\ OneEventAtATime /\ CopiesWanted
  /\ \A p \in InPools : PoolKept(p) /\ Marked(p)

LEMMA InitOrder == SystemInit => OrderInv
<1>. SUFFICES ASSUME SystemInit, NEW p \in InPools PROVE PoolKept(p) /\ Marked(p)
  BY InitOneEvent, InitCopiesWanted DEF OrderInv, SystemInit
<1>1. /\ p \in Pool /\ pools[p] = InitialPools[p] /\ pools[p] # Absent /\ sent = <<>>
      /\ \A h \in Handler : todo[h][p] = Absent /\ cur[h] = {}
  BY InPoolFacts DEF SystemInit, Init, NoCopies, InPools
<1>2. AtRest(p) /\ Kept(pools[p], p, LastZone)
  BY <1>1, InPoolFacts DEF AtRest, Kept, usableIn
<1>. QED  BY <1>1, <1>2 DEF PoolKept, Marked, AtRest

\* A handler with something to do for a pool is busy with the last event, and its zone
\* is one of the pool's.
LEMMA CopyZone ==
  ASSUME Orderly, OneEventAtATime, CopiesWanted, NEW p \in InPools, PoolKept(p),
         NEW h \in Handler, todo[h][p] # Absent
  PROVE  /\ h \in Running /\ sent # <<>> /\ kind[h] = Last.kind /\ away[h] = Last.id
         /\ Last.id \in ShiftZone /\ LastZone = getZoneNameFromZoneId(away[h])
         /\ LastZone \in Home(p)
         /\ kind[h] = "restore" => todo[h][p].req
<1>1. /\ p \in Pool /\ p \notin Builtin /\ p \notin KssPools
  BY InPoolFacts
<1>2. h \in Running /\ wanted(h, p, todo[h][p])
  BY <1>1 DEF CopiesWanted, Running
<1>3. /\ sent # <<>> /\ kind[h] = Last.kind /\ away[h] = Last.id
      /\ Last.id \in ShiftZone /\ LastZone = getZoneNameFromZoneId(away[h])
  BY <1>2 DEF OneEventAtATime, LastZone
<1>4. LastZone \in AnyZone /\ LastZone \in clusterZones
  BY <1>3, ShiftZoneNames
<1>5. Kept(todo[h][p], p, LastZone)
  BY DEF PoolKept
<1>6. CASE kind[h] = "shift" /\ needsUpdate(todo[h][p], away[h])
  <2>1. LastZone \in usableIn(todo[h][p])
    BY <1>3, <1>4, <1>6 DEF needsUpdate, usableIn, InList
  <2>. QED  BY <1>2, <1>3, <1>5, <1>6, <2>1 DEF Kept
<1>7. CASE kind[h] = "restore" /\ needsRestore(todo[h][p])
  BY <1>2, <1>3, <1>5, <1>7 DEF Kept, needsRestore
<1>. QED  BY <1>1, <1>2, <1>6, <1>7 DEF wanted, copiesBuiltin, deletesKss

\* The same of a handler between its PATCHes.
LEMMA CurZone ==
  ASSUME Orderly, OneEventAtATime, NEW p \in InPools, PoolKept(p),
         NEW h \in Handler, p \in cur[h]
  PROVE  /\ h \in Running /\ sent # <<>> /\ kind[h] = Last.kind /\ away[h] = Last.id
         /\ LastZone \in Home(p) /\ pools[p].req
<1>1. h \in Running
  BY DEF OneEventAtATime, CurOK, Running
<1>. QED  BY <1>1 DEF OneEventAtATime, PoolKept

\* What a handler's writing makes of a pool.
LEMMA WriteEffects ==
  ASSUME Orderly, OneEventAtATime, CopiesWanted, NEW p \in InPools, PoolKept(p),
         Marked(p), NEW g \in Handler, Updates(g, p) \/ Restores(g, p) \/ Annotates(g, p)
  PROVE  /\ g \in Running /\ kind[g] = Last.kind /\ LastZone \in Home(p)
         /\ pools'[p] \in NodePool /\ Kept(pools'[p], p, LastZone) /\ pools'[p].req
         /\ Updates(g, p) =>
              /\ pools'[p].mark = pools[p].mark
              /\ EmptyRefused => \/ usableIn(pools'[p]) = usableIn(pools[p])
                                 \/ usableIn(pools'[p]) = IF Home(p) \subseteq {LastZone}
                                                          THEN Home(p) ELSE Home(p) \ {LastZone}
         /\ Restores(g, p) => usableIn(pools'[p]) = Home(p) /\ pools'[p].mark = pools[p].mark
         /\ Annotates(g, p) => /\ usableIn(pools'[p]) = usableIn(pools[p])
                               /\ pools'[p].mark = markOf(g)
<1>1. p \in Pool /\ pools[p] \in NodePool /\ Kept(pools[p], p, LastZone)
  BY InPoolFacts DEF PoolKept, OneEventAtATime, SystemTypeOK, TypeOK
<1>2. ASSUME todo[g][p] # Absent
      PROVE  /\ g \in Running /\ kind[g] = Last.kind /\ LastZone \in Home(p)
             /\ away[g] \in ShiftZone /\ LastZone = getZoneNameFromZoneId(away[g])
             /\ todo[g][p] \in NodePool /\ Kept(todo[g][p], p, LastZone)
             /\ todo[g][p].req => pools[p].req
             /\ kind[g] = "restore" => todo[g][p].req
  <2>1. todo[g][p] \in NodePool
    BY <1>1, <1>2 DEF OneEventAtATime, SystemTypeOK, TypeOK
  <2>. QED  BY <1>2, <2>1, CopyZone DEF PoolKept
<1>3. CASE Updates(g, p)
  <2>. DEFINE u == updatedPool(pools[p], todo[g][p], away[g])
  <2>1. todo[g][p] # Absent /\ kind[g] = "shift" /\ pools'[p] = IF refused(u) THEN pools[p] ELSE u
    BY <1>3 DEF Updates, Writes
  <2>2. /\ u \in NodePool /\ u.req /\ u.mark = pools[p].mark
        /\ ~refused(u) => Kept(u, p, LastZone)
        /\ refused(u) => todo[g][p].req
        /\ EmptyRefused /\ ~refused(u) =>
             usableIn(u) = IF Home(p) \subseteq {LastZone} THEN Home(p) ELSE Home(p) \ {LastZone}
    <3>. DEFINE z == getZoneNameFromZoneId(away[g])
    <3>1. /\ away[g] \in ShiftZone /\ todo[g][p] \in NodePool /\ pools[p] \in NodePool
          /\ Kept(pools[p], p, z) /\ Kept(todo[g][p], p, z) /\ z \in Home(p) /\ LastZone = z
      BY <1>1, <1>2, <2>1
    <3>2. /\ u \in NodePool /\ u.req /\ u.mark = pools[p].mark
          /\ ~refused(u) => Kept(u, p, z)
          /\ refused(u) => todo[g][p].req
          /\ EmptyRefused /\ ~refused(u) =>
               usableIn(u) = IF Home(p) \subseteq {z} THEN Home(p) ELSE Home(p) \ {z}
      BY <3>1, KeptUpdate
    <3>. HIDE DEF u, z
    <3>. QED  BY <3>1, <3>2
  <2>3. ~Restores(g, p) /\ ~Annotates(g, p)
    BY <1>3, <2>1 DEF Updates, Restores, Annotates
  <2>. HIDE DEF u
  <2>. QED  BY <1>1, <1>2, <2>1, <2>2, <2>3
<1>4. CASE Restores(g, p)
  <2>. DEFINE r == restoredPool(pools[p], todo[g][p], away[g])
  <2>1. todo[g][p] # Absent /\ kind[g] = "restore" /\ pools'[p] = IF refused(r) THEN pools[p] ELSE r
    BY <1>4 DEF Restores, Writes
  <2>2. /\ r \in NodePool /\ r.req /\ r.mark = pools[p].mark /\ ~refused(r)
        /\ usableIn(r) = Home(p) /\ Kept(r, p, LastZone)
    BY <1>1, <1>2, <2>1, KeptRestore
  <2>3. ~Updates(g, p) /\ ~Annotates(g, p)
    BY <1>4, <2>1 DEF Updates, Restores, Annotates
  <2>. HIDE DEF r
  <2>. QED  BY <1>1, <1>2, <2>1, <2>2, <2>3
<1>5. CASE Annotates(g, p)
  <2>. DEFINE a == annotatedPool(pools[p], markOf(g))
  <2>1. p \in cur[g] /\ pools'[p] = IF refused(a) THEN pools[p] ELSE a
    BY <1>5 DEF Annotates, Writes
  <2>2. /\ g \in Running /\ kind[g] = Last.kind /\ LastZone \in Home(p) /\ pools[p].req
        /\ away[g] \in AwayFrom
    BY <2>1, CurZone DEF OneEventAtATime, SystemTypeOK, TypeOK
  <2>3. markOf(g) = {} \/ markOf(g) = {away[g]}
    BY DEF markOf
  <2>4. /\ a \in NodePool /\ a.req /\ a.mark = markOf(g) /\ ~refused(a)
        /\ usableIn(a) = usableIn(pools[p]) /\ Kept(a, p, LastZone)
    <3>1. /\ away[g] \in AwayFrom /\ (markOf(g) = {} \/ markOf(g) = {away[g]}) /\ pools[p] \in NodePool
          /\ Kept(pools[p], p, LastZone) /\ pools[p].req /\ LastZone \in Home(p)
      BY <1>1, <2>2, <2>3
    <3>. QED  BY <3>1, KeptAnnotation
  <2>5. ~Updates(g, p) /\ ~Restores(g, p)
    BY <1>5 DEF Updates, Restores, Annotates
  <2>. HIDE DEF a
  <2>. QED  BY <2>1, <2>2, <2>4, <2>5
<1>. QED  BY <1>3, <1>4, <1>5

\* A new event: nothing is underway, and a pool where all is well stays so.
LEMMA SendKeepsPool ==
  ASSUME OrderInv, Orderly, NEW k \in Kinds, NEW id \in ShiftZone, Send(k, id),
         NEW p \in InPools, LastZone' = LastZone \/ AtRest(p)
  PROVE  PoolKept(p)' /\ Marked(p)'
<1>1. /\ Running = {} /\ UNCHANGED vars /\ sent' # <<>> /\ PoolKept(p) /\ Marked(p)
      /\ p \in Pool
  BY SendIsLast, InPoolFacts DEF OrderInv
<1>2. \A h \in Handler : todo[h][p] = Absent /\ p \notin cur[h]
  BY <1>1 DEF OrderInv, OneEventAtATime, CopiesWanted, CurOK, Running
<1>3. /\ pools' = pools /\ todo' = todo /\ cur' = cur /\ kind' = kind /\ pc' = pc
  BY <1>1 DEF vars
<1>4. pools[p].op = "In" /\ (InitialPools[p].req => pools[p].req)
  BY <1>1 DEF PoolKept, Kept
<1>5. Kept(pools[p], p, LastZone')
  BY <1>1, <1>4 DEF AtRest, Kept, PoolKept
<1>6. PoolKept(p)'
  BY <1>1, <1>2, <1>3, <1>5 DEF PoolKept
<1>7. Marked(p)'
  BY <1>1, <1>3 DEF Marked, DeadShift, Running
<1>. QED  BY <1>6, <1>7

\* Starting a handler, losing some, and other pods' doings leave the pools alone.
LEMMA OthersKeepPool ==
  ASSUME OrderInv, NEW p \in InPools,
         \/ UNCHANGED <<vars, sent>>
         \/ \E pod \in Pod : PodDies(pod)
         \/ \E pod \in Pod, n \in queue : handleEvent(pod, n)
  PROVE  PoolKept(p)' /\ Marked(p)'
<1>1. /\ PoolKept(p) /\ Marked(p) /\ OneEventAtATime /\ TypeOK /\ p \in Pool
  BY InPoolFacts DEF OrderInv, OneEventAtATime, SystemTypeOK
<1>2. ASSUME pools' = pools, sent' = sent,
             \A h \in Handler : /\ todo'[h][p] = todo[h][p] \/ todo'[h][p] = Absent
                                /\ p \in cur'[h] => p \in cur[h]
      PROVE  PoolKept(p)'
  BY <1>1, <1>2 DEF PoolKept, AtRest, LastZone, Last
<1>3. CASE UNCHANGED <<vars, sent>>
  <2>1. PoolKept(p)'
    BY <1>2, <1>3 DEF vars
  <2>2. Marked(p)'
    BY <1>1, <1>3 DEF vars, Marked, DeadShift, Running
  <2>. QED  BY <2>1, <2>2
<1>4. ASSUME NEW pod \in Pod, PodDies(pod)
      PROVE  PoolKept(p)' /\ Marked(p)'
  <2>1. /\ pools' = pools /\ sent' = sent /\ kind' = kind
        /\ \A h \in Handler :
             \/ h \in Running /\ pc'[h] = "dead" /\ todo'[h] = NoCopies /\ cur'[h] = {}
             \/ pc'[h] = pc[h] /\ todo'[h] = todo[h] /\ cur'[h] = cur[h]
    BY <1>4 DEF PodDies, Crash, environment
  <2>2. PoolKept(p)'
    BY <1>1, <1>2, <2>1 DEF NoCopies
  <2>3. DeadShift => DeadShift'
    BY <2>1 DEF DeadShift, Running
  <2>4. ASSUME NEW h \in Running, kind[h] = "shift", p \in cur[h]
        PROVE  DeadShift' \/ (h \in Running' /\ kind'[h] = "shift" /\ p \in cur'[h])
    BY <2>1, <2>4 DEF DeadShift, Running
  <2>5. Marked(p)'
    BY <1>1, <2>1, <2>3, <2>4 DEF Marked
  <2>. QED  BY <2>2, <2>5
<1>5. ASSUME NEW pod \in Pod, NEW n \in queue, handleEvent(pod, n)
      PROVE  PoolKept(p)' /\ Marked(p)'
  <2>1. PICK g \in Handler :
          /\ pools' = pools /\ todo' = todo /\ cur' = cur /\ UNCHANGED environment
          /\ pc[g] = "idle" /\ Running' = Running \cup {g} /\ g \notin Running
          /\ \A h \in Handler \ {g} : pc'[h] = pc[h] /\ kind'[h] = kind[h]
    BY <1>1, <1>5, EventIsLast DEF Begin, Step
  <2>2. PoolKept(p)'
    BY <1>2, <2>1 DEF environment
  <2>3. DeadShift => DeadShift'
    BY <2>1 DEF DeadShift
  <2>4. cur[g] = {}
    BY <1>1, <2>1 DEF OneEventAtATime, CurOK
  <2>5. \A h \in Running : kind[h] = kind'[h]
    BY <2>1 DEF Running
  <2>6. Marked(p)'
    BY <1>1, <2>1, <2>3, <2>4, <2>5 DEF Marked
  <2>. QED  BY <2>2, <2>6
<1>. QED  BY <1>3, <1>4, <1>5

\* The handlers' own steps: an update about to mark, or a mark about to be removed when
\* the zone is back.
LEMMA HandlingKeepsPool ==
  ASSUME Orderly, OrderInv, NEW g \in Handler, Handling(g), NEW p \in InPools
  PROVE  PoolKept(p)' /\ Marked(p)'
<1>1. /\ PoolKept(p) /\ Marked(p) /\ OneEventAtATime /\ CopiesWanted /\ CurOK /\ TypeOK
      /\ p \in Pool /\ pools[p] # Absent /\ HandlerStep(g) /\ sent' = sent
  BY InPoolFacts DEF OrderInv, OneEventAtATime, SystemTypeOK, Handling, environment, PoolKept
<1>2. /\ g \in Running /\ Running' \subseteq Running /\ UNCHANGED <<kind, away, auto>>
      /\ \A h \in Handler \ {g} : pc'[h] = pc[h] /\ todo'[h] = todo[h] /\ cur'[h] = cur[h]
  BY <1>1, HandlerSteps
<1>3. /\ LastZone' = LastZone /\ sent # <<>> /\ sent' # <<>>
      /\ \A h \in Running : kind[h] = kind[g]
  BY <1>1, <1>2 DEF LastZone, Last, OneEventAtATime
<1>4. Passes(g, p) \/ Lists(g, p) \/ Updates(g, p) \/ Restores(g, p) \/ Annotates(g, p)
  BY <1>1, PoolSteps
<1>5. ASSUME Updates(g, p) \/ Restores(g, p) \/ Annotates(g, p)
      PROVE  /\ LastZone \in Home(p)
             /\ pools'[p] \in NodePool /\ Kept(pools'[p], p, LastZone) /\ pools'[p].req
  BY <1>1, <1>5, WriteEffects
<1>6. /\ pools'[p] # Absent /\ Kept(pools'[p], p, LastZone)
      /\ pools[p].req => pools'[p].req
  BY <1>1, <1>4, <1>5, PoolsAssumption DEF PoolsAssumption, PoolKept, Passes, Lists
<1>7. /\ todo'[g][p] # Absent => /\ Kept(todo'[g][p], p, LastZone)
                                 /\ todo'[g][p].req => pools'[p].req
      /\ p \in cur'[g] => LastZone \in Home(p) /\ pools'[p].req
  BY <1>1, <1>4, <1>5, <1>6
  DEF PoolKept, Passes, Lists, Updates, Restores, Annotates
<1>8. PoolKept(p)'
  <2>1. ASSUME NEW h \in Handler
        PROVE  /\ todo'[h][p] # Absent => /\ Kept(todo'[h][p], p, LastZone)
                                          /\ todo'[h][p].req => pools'[p].req
               /\ p \in cur'[h] => LastZone \in Home(p) /\ pools'[p].req
    BY <1>1, <1>2, <1>6, <1>7 DEF PoolKept
  <2>. QED  BY <1>3, <1>6, <2>1 DEF PoolKept
<1>9. DeadShift => DeadShift'
  BY <1>2 DEF DeadShift, Running
<1>10. ASSUME NEW h \in Handler, kind'[h] = "restore", p \in cur'[h]
       PROVE  usableIn(pools'[p]) = Home(p)
  <2>1. CASE h = g
    BY <1>1, <1>2, <1>4, <1>10, <2>1, WriteEffects
    DEF Passes, Lists, Updates, Restores, Annotates, Marked
  <2>2. CASE h # g
    <3>1. p \in cur[h] /\ kind[h] = "restore" /\ h \in Running /\ kind[g] = "restore"
      BY <1>1, <1>2, <1>3, <1>10, <2>2 DEF CurOK, Running
    <3>2. usableIn(pools[p]) = Home(p)
      BY <1>1, <3>1 DEF Marked
    <3>. QED
      BY <1>1, <1>4, <3>1, <3>2, WriteEffects DEF Passes, Lists, Updates
  <2>. QED  BY <2>1, <2>2
<1>11. \/ usableIn(pools'[p]) = Home(p) \/ pools'[p].mark # {} \/ DeadShift'
       \/ \E h \in Running' : kind'[h] = "shift" /\ p \in cur'[h]
  <2>1. CASE Passes(g, p) \/ Lists(g, p)
    <3>1. pools'[p] = pools[p]
      BY <2>1 DEF Passes, Lists
    <3>2. ASSUME NEW h \in Running, kind[h] = "shift", p \in cur[h]
          PROVE  h \in Running' /\ kind'[h] = "shift" /\ p \in cur'[h]
      <4>1. CASE h # g
        BY <1>2, <3>2, <4>1 DEF Running
      <4>2. CASE h = g
        <5>1. pc'[g] \in {"pools", "annotate", "done"} /\ pc[g] = "annotate"
          BY <1>1, <3>2, <4>2, HandlerSteps DEF CurOK
        <5>2. Passes(g, p)
          BY <2>1, <5>1 DEF Lists
        <5>. QED  BY <1>2, <3>2, <4>2, <5>1, <5>2 DEF Passes, Running
      <4>. QED  BY <4>1, <4>2
    <3>. QED  BY <1>1, <1>9, <3>1, <3>2 DEF Marked
  <2>2. CASE Updates(g, p)
    BY <1>2, <2>2 DEF Updates, Running
  <2>3. CASE Restores(g, p)
    BY <1>1, <2>3, WriteEffects
  <2>4. CASE Annotates(g, p)
    <3>1. kind[g] \in Kinds
      BY <1>1, <2>4, WriteEffects, EventsOrLess, <1>3 DEF OneEventAtATime
    <3>2. CASE kind[g] = "shift"
      BY <1>1, <2>4, <3>2, WriteEffects DEF markOf
    <3>3. CASE kind[g] = "restore"
      BY <1>1, <2>4, <3>3, WriteEffects DEF Marked, Annotates
    <3>. QED  BY <3>1, <3>2, <3>3 DEF Kinds
  <2>. QED  BY <1>4, <2>1, <2>2, <2>3, <2>4
<1>. QED  BY <1>8, <1>10, <1>11 DEF Marked

\* Is every pool as it was when the next shift begins?
RestedForShift == Settled /\ ~Shifting => \A p \in InPools : AtRest(p)

LEMMA NextOrder ==
  ASSUME Orderly, OrderInv, [SystemNext]_allVars, OneZone \/ RestedForShift
  PROVE  OrderInv'
<1>1. OneEventAtATime /\ SystemTypeOK /\ TypeOK /\ CopiesWanted
  BY DEF OrderInv, OneEventAtATime, SystemTypeOK
<1>2. OneEventAtATime' /\ CopiesWanted'
  BY <1>1, NextOneEvent, StepOfNodePools, NextCopiesWanted
<1>. SUFFICES ASSUME NEW p \in InPools PROVE PoolKept(p)' /\ Marked(p)'
  BY <1>2 DEF OrderInv
<1>3. ASSUME NEW id \in ShiftZone, StartShift(id) \/ EndShift(id)
      PROVE  PoolKept(p)' /\ Marked(p)'
  <2>1. PICK k \in Kinds : Send(k, id)
    BY <1>3 DEF StartShift, EndShift, Kinds
  <2>2. LastZone' = getZoneNameFromZoneId(id) /\ Settled
    BY <1>1, <2>1, SendIsLast DEF Orderly, Send
  <2>3. CASE EndShift(id)
    <3>1. id = Last.id /\ sent # <<>>
      BY <1>1, <2>3 DEF EndShift, OneEventAtATime, Shifting
    <3>. QED  BY <2>1, <2>2, <3>1, SendKeepsPool DEF LastZone
  <2>4. CASE StartShift(id) /\ RestedForShift
    <3>1. ~Shifting
      BY <1>1, <2>4 DEF StartShift, Orderly, OneEventAtATime
    <3>. QED  BY <2>1, <2>2, <2>4, <3>1, SendKeepsPool DEF RestedForShift
  <2>5. CASE OneZone
    <3>1. CASE sent = <<>>
      BY <2>1, <3>1, SendKeepsPool DEF OrderInv, PoolKept
    <3>2. CASE sent # <<>>
      <4>1. id = Last.id
        BY <1>1, <2>5, <3>2 DEF OneEventAtATime, OneZone
      <4>. QED  BY <2>1, <2>2, <3>2, <4>1, SendKeepsPool DEF LastZone
    <3>. QED  BY <3>1, <3>2
  <2>. QED  BY <1>3, <2>3, <2>4, <2>5
<1>4. ASSUME NEW h \in Handler, Handling(h)
      PROVE  PoolKept(p)' /\ Marked(p)'
  BY <1>4, HandlingKeepsPool
<1>5. ASSUME \/ UNCHANGED allVars
             \/ \E pod \in Pod : PodDies(pod) \/ Polling(pod)
      PROVE  PoolKept(p)' /\ Marked(p)'
  <2>1. \/ UNCHANGED <<vars, sent>>
        \/ \E pod \in Pod : PodDies(pod)
        \/ \E pod \in Pod, n \in queue : handleEvent(pod, n)
    BY <1>5 DEF Polling, DeleteMessage, allVars, environment
  <2>. QED  BY <2>1, OthersKeepPool
<1>. QED
  BY <1>3, <1>4, <1>5 DEF SystemNext, Finished

LEMMA MarkedMeans ==
  ASSUME OrderInv, ~DeadShift
  PROVE  MissingZoneIsMarked
<1>. SUFFICES ASSUME NEW p \in InPools
              PROVE  \/ Home(p) \subseteq usableZones(p) \/ pools[p].mark # {}
                     \/ \E h \in Running : kind[h] = "shift" /\ p \in cur[h]
  BY DEF MissingZoneIsMarked
<1>1. usableZones(p) = usableIn(pools[p])
  BY DEF usableZones, usableIn
<1>. QED  BY <1>1 DEF OrderInv, Marked

\* While it is always the same zone that is shifted, and the environment is orderly but
\* pods may die at any point, no pool forgets a zone unless an update died: a restore
\* that was cut off, at any point, is made good by a later one.
THEOREM OnlyDyingShiftsForget ==
  ASSUME Orderly, OneZone
  PROVE  SystemSpec => []OnlyDyingShiftForgets
<1>1. OrderInv => OnlyDyingShiftForgets
  BY MarkedMeans DEF OnlyDyingShiftForgets, DeadShift
<1>2. OrderInv /\ [SystemNext]_allVars => OrderInv'
  BY NextOrder
<1>. QED
  BY <1>1, <1>2, InitOrder, PTL DEF SystemSpec

-----------------------------------------------------------------------------
(***************************************************************************)
(* What was taken comes back: RestoredWhenQuiet.                           *)
(***************************************************************************)

\* From the moment a restore has listed the pools, each of them is as it was, or this
\* handler is still to write it; so when the event is handled, they all are.
ToRest(p) ==
  Restoring =>
    /\ Handled => AtRest(p)
    /\ \A h \in Running : pc[h] # "list" => AtRest(p) \/ todo[h][p] # Absent \/ p \in cur[h]

NobodyDied == \A h \in Handler : pc[h] # "dead"

RestInv == OrderInv /\ NobodyDied /\ \A p \in InPools : ToRest(p)

LEMMA RestAllowsShift == RestInv => RestedForShift
<1>. SUFFICES ASSUME RestInv, Settled, ~Shifting, NEW p \in InPools PROVE AtRest(p)
  BY DEF RestedForShift
<1>1. CASE sent = <<>>
  BY <1>1 DEF RestInv, OrderInv, PoolKept
<1>2. CASE sent # <<>>
  <2>1. Restoring
    BY <1>2, EventsOrLess DEF RestInv, OrderInv, OneEventAtATime, Shifting, Restoring, Kinds
  <2>. QED  BY <2>1 DEF RestInv, ToRest, Handled, Settled
<1>. QED  BY <1>1, <1>2

LEMMA InitRest == SystemInit => RestInv
<1>1. SystemInit => NobodyDied /\ ~Restoring
  BY DEF SystemInit, Init, NobodyDied, Restoring
<1>. QED  BY <1>1, InitOrder DEF RestInv, ToRest

LEMMA NextNobodyDied ==
  ASSUME ~Crashes, TypeOK, SystemTypeOK, NobodyDied, [SystemNext]_allVars
  PROVE  NobodyDied'
<1>1. ASSUME NEW g \in Handler, Handling(g)
      PROVE  NobodyDied'
  BY <1>1, HandlerSteps DEF Handling, NobodyDied
<1>2. ASSUME NEW pod \in Pod, Polling(pod)
      PROVE  NobodyDied'
  <2>1. ASSUME NEW n \in queue, handleEvent(pod, n)
        PROVE  NobodyDied'
    BY <2>1, EventBegins DEF Begin, Step, NobodyDied, TypeOK
  <2>. QED  BY <1>2, <2>1 DEF Polling, DeleteMessage, vars, NobodyDied
<1>. QED
  BY <1>1, <1>2 DEF SystemNext, StartShift, EndShift, Send, PodDies, Finished, allVars,
     vars, NobodyDied

\* A restore's step for one pool.
LEMMA HandlingToRest ==
  ASSUME Orderly, RestInv, NEW g \in Handler, Handling(g), NEW p \in InPools
  PROVE  ToRest(p)'
<1>1. /\ PoolKept(p) /\ Marked(p) /\ ToRest(p) /\ OneEventAtATime /\ CopiesWanted
      /\ CurOK /\ TypeOK /\ SystemTypeOK
      /\ p \in Pool /\ p \notin Builtin /\ p \notin KssPools /\ pools[p] # Absent
      /\ HandlerStep(g) /\ sent' = sent /\ queue' = queue
  BY InPoolFacts DEF RestInv, OrderInv, OneEventAtATime, SystemTypeOK, Handling, environment,
     intake, PoolKept
<1>2. /\ g \in Running /\ Running' \subseteq Running /\ UNCHANGED <<kind, away, auto>>
      /\ \A h \in Handler \ {g} : pc'[h] = pc[h] /\ todo'[h] = todo[h] /\ cur'[h] = cur[h]
      /\ pc'[g] \in {"pools", "annotate", "done"}
  BY <1>1, HandlerSteps
<1>. SUFFICES ASSUME Restoring
              PROVE  /\ Handled' => AtRest(p)'
                     /\ \A h \in Running' : pc'[h] # "list" =>
                          AtRest(p)' \/ todo'[h][p] # Absent \/ p \in cur'[h]
  BY <1>1 DEF ToRest, Restoring, Last
<1>3. \A h \in Running : kind[h] = "restore"
  BY <1>1 DEF OneEventAtATime, Restoring
<1>4. Passes(g, p) \/ Lists(g, p) \/ Restores(g, p) \/ Annotates(g, p)
  BY <1>1, <1>2, <1>3, PoolSteps DEF Updates
<1>5. AtRest(p) => AtRest(p)'
  <2>1. CASE Passes(g, p) \/ Lists(g, p)
    BY <2>1 DEF Passes, Lists, AtRest
  <2>2. CASE Restores(g, p)
    BY <1>1, <2>2, WriteEffects DEF AtRest
  <2>3. CASE Annotates(g, p)
    BY <1>1, <1>2, <1>3, <2>3, WriteEffects DEF AtRest, markOf
  <2>. QED  BY <1>4, <2>1, <2>2, <2>3
<1>6. pc[g] = "list" => AtRest(p)' \/ todo'[g][p] # Absent
  <2>. SUFFICES ASSUME pc[g] = "list" PROVE AtRest(p)' \/ todo'[g][p] # Absent
    OBVIOUS
  <2>1. Lists(g, p)
    BY <1>1, <1>4, CopyZone DEF Passes, Restores, Annotates, CopiesWanted, CurOK
  <2>2. CASE wanted(g, p, pools[p])
    BY <1>1, <2>1, <2>2 DEF Lists
  <2>3. CASE ~wanted(g, p, pools[p])
    <3>1. pools[p].mark = {}
      BY <1>1, <1>2, <1>3, <2>3 DEF wanted, deletesKss, needsRestore, PoolKept, Kept
    <3>2. ~DeadShift
      BY DEF RestInv, NobodyDied, DeadShift
    <3>3. usableIn(pools[p]) = Home(p)
      BY <1>1, <1>3, <3>1, <3>2 DEF Marked
    <3>. QED  BY <2>1, <3>1, <3>3 DEF Lists, AtRest
  <2>. QED  BY <2>2, <2>3
<1>7. ASSUME NEW h \in Running', pc'[h] # "list"
      PROVE  AtRest(p)' \/ todo'[h][p] # Absent \/ p \in cur'[h]
  <2>1. CASE h # g
    BY <1>1, <1>2, <1>5, <1>7, <2>1 DEF ToRest, Running
  <2>2. CASE h = g /\ pc[g] = "list"
    BY <1>6, <2>2
  <2>3. CASE h = g /\ pc[g] # "list"
    <3>1. AtRest(p) \/ todo[g][p] # Absent \/ p \in cur[g]
      BY <1>1, <1>2, <2>3 DEF ToRest
    <3>2. CASE Passes(g, p)
      BY <1>5, <2>3, <3>1, <3>2 DEF Passes
    <3>3. CASE Restores(g, p)
      BY <2>3, <3>3 DEF Restores
    <3>4. CASE Annotates(g, p)
      <4>1. pools'[p].mark = {}
        BY <1>1, <1>2, <1>3, <3>4, WriteEffects DEF markOf
      <4>2. usableIn(pools'[p]) = Home(p)
        BY <1>1, <1>2, <1>3, <3>4, WriteEffects DEF Marked, Annotates
      <4>. QED  BY <4>1, <4>2 DEF AtRest
    <3>. QED  BY <1>4, <2>3, <3>2, <3>3, <3>4 DEF Lists
  <2>. QED  BY <2>1, <2>2, <2>3
<1>8. ASSUME Handled'
      PROVE  AtRest(p)'
  <2>1. pc'[g] = "done"
    BY <1>2, <1>8 DEF Handled, Running
  <2>2. Passes(g, p) /\ pc[g] # "list" /\ todo[g][p] = Absent /\ p \notin cur[g]
    BY <1>4, <2>1 DEF Passes, Lists, Restores, Annotates
  <2>. QED  BY <1>1, <1>2, <1>5, <2>2 DEF ToRest
<1>. QED  BY <1>7, <1>8

LEMMA NextRest ==
  ASSUME Orderly, ~Crashes, RestInv, [SystemNext]_allVars
  PROVE  RestInv'
<1>1. /\ OrderInv /\ OneEventAtATime /\ SystemTypeOK /\ TypeOK /\ NobodyDied
      /\ \A p \in InPools : ToRest(p)
  BY DEF RestInv, OrderInv, OneEventAtATime, SystemTypeOK
<1>2. OrderInv' /\ NobodyDied'
  BY <1>1, RestAllowsShift, NextOrder, NextNobodyDied
<1>. SUFFICES ASSUME NEW p \in InPools PROVE ToRest(p)'
  BY <1>2 DEF RestInv
<1>3. ASSUME NEW id \in ShiftZone, StartShift(id) \/ EndShift(id)
      PROVE  ToRest(p)'
  <2>1. PICK k \in Kinds : Send(k, id)
    BY <1>3 DEF StartShift, EndShift, Kinds
  <2>2. Running = {} /\ UNCHANGED vars /\ queue' = {Len(sent')}
    BY <1>1, <2>1, SendIsLast
  <2>3. Running' = {} /\ ~Handled'
    BY <2>2 DEF vars, Running, Handled
  <2>. QED  BY <2>3 DEF ToRest
<1>4. ASSUME NEW pod \in Pod, NEW n \in queue, handleEvent(pod, n)
      PROVE  ToRest(p)'
  <2>1. PICK g \in Handler :
          /\ sent' = sent /\ Running' = Running \cup {g} /\ pc'[g] = "list"
          /\ todo' = todo /\ cur' = cur /\ pools' = pools
          /\ \A h \in Handler \ {g} : pc'[h] = pc[h]
    BY <1>1, <1>4, EventIsLast DEF environment
  <2>2. Restoring' <=> Restoring
    BY <2>1 DEF Restoring, Last
  <2>3. ~Handled'
    BY <2>1 DEF Handled
  <2>4. AtRest(p)' <=> AtRest(p)
    BY <2>1 DEF AtRest
  <2>. QED  BY <1>1, <2>1, <2>2, <2>3, <2>4 DEF ToRest, Running
<1>5. ASSUME UNCHANGED <<vars, sent>>, Len(sent) \in queue => Len(sent) \in queue'
      PROVE  ToRest(p)'
  BY <1>1, <1>5 DEF ToRest, Restoring, Last, Handled, AtRest, Running, vars
<1>6. ASSUME NEW pod \in Pod, DeleteMessage(pod)
      PROVE  ToRest(p)'
  BY <1>5, <1>6 DEF DeleteMessage, environment
<1>7. ASSUME UNCHANGED allVars
      PROVE  ToRest(p)'
  BY <1>5, <1>7 DEF allVars, environment, intake
<1>. QED
  BY <1>3, <1>4, <1>6, <1>7, HandlingToRest DEF SystemNext, Polling, PodDies, Finished

\* No zone is ever missing from a pool without the annotation that will bring it back,
\* or a handler that is just about to write it, while pods do not die.
THEOREM MissingZonesAreMarked ==
  ASSUME Orderly, ~Crashes
  PROVE  SystemSpec => []MissingZoneIsMarked
<1>1. RestInv => MissingZoneIsMarked
  BY MarkedMeans DEF RestInv, NobodyDied, DeadShift
<1>2. RestInv /\ [SystemNext]_allVars => RestInv'
  BY NextRest
<1>. QED
  BY <1>1, <1>2, InitRest, PTL DEF SystemSpec

\* When no shift is active and every event is handled, each pool has exactly the zones
\* it had before the first: after any number of shifts, each event handled any number of
\* times and by several handlers at once.
THEOREM PoolsAreRestored ==
  ASSUME Orderly, ~Crashes
  PROVE  SystemSpec => []RestoredWhenQuiet
<1>1. RestInv => RestoredWhenQuiet
  <2>. SUFFICES ASSUME RestInv, Settled, active = {}, NEW p \in InPools
                PROVE  usableZones(p) = Home(p)
    BY DEF RestoredWhenQuiet
  <2>1. ~Shifting
    BY DEF RestInv, OrderInv, OneEventAtATime
  <2>2. AtRest(p)
    BY <2>1, RestAllowsShift DEF RestedForShift
  <2>. QED  BY <2>2 DEF AtRest, usableZones, usableIn
<1>2. RestInv /\ [SystemNext]_allVars => RestInv'
  BY NextRest
<1>. QED
  BY <1>1, <1>2, InitRest, PTL DEF SystemSpec

-----------------------------------------------------------------------------
(***************************************************************************)
(* The temporary copies of built-in pools: KssFollowsShift.                *)
(***************************************************************************)

\* Does the cluster have another zone than the shifted one?
SecondZone == \A id \in ShiftZone : clusterZones # {zoneMapping[id]}

\* The copy of b leaves the last event's zone out, and only restores have it listed.  A
\* handler of an update that has listed the pools is still to create it, or it is there;
\* one of a restore is still to delete it, or it is gone.
KssKept(b) ==
  LET k == Kss[b] IN
  /\ pools[k] # Absent => /\ InitialPools[b] # Absent /\ sent # <<>> /\ pools[k].req
                          /\ InList(pools[k].values) = clusterZones \ {LastZone}
  /\ \A h \in Handler : /\ todo[h][k] # Absent => kind[h] = "restore"
                        /\ todo[h][b] # Absent => InitialPools[b] # Absent
                        /\ k \notin cur[h]
  /\ Shifting /\ InitialPools[b] # Absent =>
       /\ Handled => pools[k] # Absent
       /\ \A h \in Running : pc[h] # "list" => pools[k] # Absent \/ todo[h][b] # Absent
  /\ Restoring =>
       /\ Handled => pools[k] = Absent
       /\ \A h \in Running : pc[h] # "list" => pools[k] = Absent \/ todo[h][k] # Absent

\* What NodePools shows about built-in pools and their copies, in Auto Mode.
AutoInv ==
  /\ RestInv /\ AllAccountedFor /\ OnlyCopied /\ ModeAnswered /\ CopiesPlain
  /\ \A b \in Builtin : KssKept(b)

LEMMA KssFacts ==
  ASSUME NEW b \in Builtin
  PROVE  /\ b \in Pool /\ b \notin KssPools
         /\ Kss[b] \in Pool /\ Kss[b] \in KssPools /\ Kss[b] \notin Builtin
         /\ InitialPools[Kss[b]] = Absent
         /\ \A c \in Builtin : Kss[c] = Kss[b] => c = b
  BY PoolsAssumption DEF PoolsAssumption, KssPools

LEMMA InitAuto == SystemInit => AutoInv
<1>. SUFFICES ASSUME SystemInit PROVE AutoInv
  OBVIOUS
<1>1. Init /\ RestInv
  BY InitRest DEF SystemInit
<1>2. AllAccountedFor /\ OnlyCopied /\ ModeAnswered /\ CopiesPlain
  BY <1>1, InitShift DEF ShiftInv
<1>3. ASSUME NEW b \in Builtin
      PROVE  KssKept(b)
  <2>1. /\ pools[Kss[b]] = Absent /\ ~Shifting /\ ~Restoring
        /\ \A h \in Handler : /\ todo[h][Kss[b]] = Absent /\ todo[h][b] = Absent
                              /\ cur[h] = {}
    BY KssFacts DEF SystemInit, Init, NoCopies, Shifting, Restoring
  <2>. QED  BY <2>1 DEF KssKept
<1>. QED  BY <1>1, <1>2, <1>3 DEF AutoInv

\* In Auto Mode a built-in pool is as it was, and its copies are for updates to copy.
LEMMA BuiltinFacts ==
  ASSUME AutoCluster, AutoInv, NEW b \in Builtin
  PROVE  /\ \A h \in Started : auto[h]
         /\ pools[b] # Absent <=> InitialPools[b] # Absent
         /\ \A h \in Handler : /\ todo[h][b] # Absent => kind[h] = "shift" /\ ~todo[h][b].req
                               /\ b \notin cur[h]
<1>1. \A h \in Started : auto[h]
  BY DEF AutoInv, RestInv, OrderInv, OneEventAtATime, ModeAnswered
<1>2. ModeKnown
  BY <1>1 DEF ModeKnown
<1>3. SameButEdits(InitialPools[b], pools[b])
  BY <1>2 DEF AutoInv, OnlyCopied
<1>4. pools[b] # Absent <=> InitialPools[b] # Absent
  BY <1>3 DEF SameButEdits
<1>. QED  BY <1>1, <1>2, <1>4 DEF AutoInv, OnlyCopied, CopiesPlain

\* A handler's step for the copy of b.
KssPasses(g, b) ==
  /\ pc[g] # "list" /\ pools'[Kss[b]] = pools[Kss[b]]
  /\ todo'[g][Kss[b]] = todo[g][Kss[b]] /\ todo'[g][b] = todo[g][b]
  /\ pc'[g] = "done" => todo[g] = NoCopies

KssLists(g, b) ==
  /\ pc[g] = "list" /\ pc'[g] = "pools" /\ pools'[Kss[b]] = pools[Kss[b]]
  /\ \A p \in {b, Kss[b]} :
       todo'[g][p] = IF pools[p] # Absent /\ wanted(g, p, pools[p]) THEN pools[p] ELSE Absent

Creates(g, b) ==
  /\ kind[g] = "shift" /\ todo[g][b] # Absent /\ pc'[g] = "pools"
  /\ pools'[Kss[b]] = IF pools[Kss[b]] = Absent THEN copiedPool(todo[g][b], away[g])
                      ELSE pools[Kss[b]]
  /\ todo'[g][b] = Absent /\ todo'[g][Kss[b]] = todo[g][Kss[b]]

Deletes(g, b) ==
  /\ kind[g] = "restore" /\ todo[g][Kss[b]] # Absent /\ pc'[g] = "pools"
  /\ pools'[Kss[b]] = Absent
  /\ todo'[g][Kss[b]] = Absent /\ todo'[g][b] = todo[g][b]

LEMMA KssSteps ==
  ASSUME AutoCluster, Orderly, AutoInv, NEW g \in Handler, HandlerStep(g), NEW b \in Builtin
  PROVE  /\ KssPasses(g, b) \/ KssLists(g, b) \/ Creates(g, b) \/ Deletes(g, b)
         /\ Kss[b] \notin cur'[g]
<1>. DEFINE k == Kss[b]
<1>1. /\ b \in Pool /\ b \notin KssPools /\ k \in Pool /\ k \in KssPools /\ k \notin Builtin
      /\ \A c \in Builtin : Kss[c] = k => c = b
  BY KssFacts
<1>2. /\ TypeOK /\ KssKept(b) /\ CurOK /\ ~(faults < MaxFaults)
  BY DEF AutoInv, RestInv, OrderInv, OneEventAtATime, SystemTypeOK, TypeOK, Orderly
<1>3. /\ todo[g][k] # Absent => kind[g] = "restore"
      /\ k \notin cur[g]
      /\ todo[g][b] # Absent => kind[g] = "shift"
      /\ b \notin cur[g] /\ \A h \in Started : auto[h]
  BY <1>2, BuiltinFacts DEF KssKept
<1>4. /\ pools \in [Pool -> NodePool \cup {Absent}]
      /\ todo \in [Handler -> [Pool -> NodePool \cup {Absent}]]
      /\ pc \in [Handler -> {"idle", "list", "pools", "annotate", "done", "dead"}]
      /\ cur \in [Handler -> SUBSET Pool]
  BY <1>2 DEF TypeOK
<1>5. CASE ListNodePools(g)
  BY <1>1, <1>3, <1>4, <1>5 DEF ListNodePools, Step, KssLists
<1>6. CASE ListFails(g)
  BY <1>2, <1>6 DEF ListFails, ApiFault
<1>7. ASSUME NEW q \in Pool, UpdateInPlace(g, q) \/ RestoreInPlace(g, q)
      PROVE  KssPasses(g, b) /\ k \notin cur'[g]
  <2>1. /\ todo[g][q] # Absent /\ pc[g] = "pools" /\ pc' = [pc EXCEPT ![g] = "annotate"]
        /\ todo' = [todo EXCEPT ![g][q] = Absent] /\ cur' = [cur EXCEPT ![g] = {q}]
        /\ \/ kind[g] = "shift" /\ ~copiesBuiltin(g, q)
           \/ kind[g] = "restore" /\ ~deletesKss(g, q)
        /\ \E new : Patch(q, new)
    BY <1>7 DEF UpdateInPlace, RestoreInPlace, Step, Reached
  <2>2. auto[g]
    BY <1>3, <2>1 DEF Started
  <2>3. q # k /\ q # b
    BY <1>1, <1>3, <2>1, <2>2 DEF copiesBuiltin, deletesKss
  <2>4. pools'[k] = pools[k]
    BY <1>1, <1>4, <2>1, <2>3 DEF Patch
  <2>5. /\ todo'[g][k] = todo[g][k] /\ todo'[g][b] = todo[g][b]
        /\ pc'[g] = "annotate" /\ cur'[g] = {q}
    BY <1>1, <1>4, <2>1, <2>3
  <2>. QED  BY <2>1, <2>3, <2>4, <2>5 DEF KssPasses
<1>8. CASE PatchAnnotation(g)
  <2>1. PICK q \in cur[g] : Patch(q, annotatedPool(pools[q], markOf(g)))
    BY <1>8 DEF PatchAnnotation
  <2>2. pools'[k] = pools[k]
    BY <1>1, <1>3, <1>4, <2>1 DEF Patch
  <2>3. /\ pc[g] = "annotate" /\ pc'[g] = "pools" /\ todo' = todo /\ cur'[g] = {}
    BY <1>4, <1>8 DEF PatchAnnotation, Step
  <2>. QED  BY <2>2, <2>3 DEF KssPasses
<1>9. ASSUME NEW q \in Pool, CreateNodePool(g, q)
      PROVE  KssPasses(g, b) \/ Creates(g, b)
  <2>1. /\ kind[g] = "shift" /\ q \in Builtin /\ todo[g][q] # Absent
        /\ pc[g] = "pools" /\ pc'[g] = "pools"
        /\ todo' = [todo EXCEPT ![g][q] = Absent]
        /\ \/ /\ pools[Kss[q]] = Absent
              /\ pools' = [pools EXCEPT ![Kss[q]] = copiedPool(todo[g][q], away[g])]
           \/ pools[Kss[q]] # Absent /\ pools' = pools
    BY <1>2, <1>4, <1>9 DEF CreateNodePool, copiesBuiltin, Step, Reached, ApiFault
  <2>2. CASE q = b
    BY <1>1, <1>4, <2>1, <2>2 DEF Creates
  <2>3. CASE q # b
    <3>1. Kss[q] # k /\ q # k
      BY <1>1, <2>1, <2>3
    <3>. QED  BY <1>1, <1>4, <2>1, <2>3, <3>1 DEF KssPasses
  <2>. QED  BY <2>2, <2>3
<1>10. ASSUME NEW q \in Pool, DeleteNodePool(g, q)
       PROVE  KssPasses(g, b) \/ Deletes(g, b)
  <2>1. /\ kind[g] = "restore" /\ q \in KssPools /\ todo[g][q] # Absent
        /\ pc[g] = "pools" /\ pc'[g] = "pools"
        /\ todo' = [todo EXCEPT ![g][q] = Absent]
        /\ pools' = [pools EXCEPT ![q] = Absent]
    BY <1>2, <1>4, <1>10 DEF DeleteNodePool, deletesKss, Step, Reached, ApiFault
  <2>2. CASE q = k
    BY <1>1, <1>4, <2>1, <2>2 DEF Deletes
  <2>3. CASE q # k
    BY <1>1, <1>4, <2>1, <2>3 DEF KssPasses
  <2>. QED  BY <2>2, <2>3
<1>11. CASE Return(g)
  BY <1>3, <1>4, <1>11 DEF Return, Step, KssPasses
<1>12. ASSUME \E q \in Pool : CreateNodePool(g, q) \/ DeleteNodePool(g, q)
       PROVE  k \notin cur'[g]
  BY <1>3, <1>12 DEF CreateNodePool, DeleteNodePool
<1>. QED
  BY <1>3, <1>5, <1>6, <1>7, <1>8, <1>9, <1>10, <1>11, <1>12
  DEF HandlerStep, ListNodePools, Return

\* What an update puts into the copy.
LEMMA CopyZones ==
  ASSUME Orderly, SecondZone, NEW id \in ShiftZone, NEW s \in NodePool, ~s.req
  PROVE  /\ copiedPool(s, id).req /\ copiedPool(s, id) # Absent
         /\ InList(copiedPool(s, id).values) = clusterZones \ {getZoneNameFromZoneId(id)}
<1>. DEFINE u == copiedPool(s, id)
            z == getZoneNameFromZoneId(id)
<1>1. id \in AwayFrom /\ z \in clusterZones /\ z # NoZone /\ z = zoneMapping[id]
  BY ShiftZoneNames DEF Orderly, getZoneNameFromZoneId
<1>2. u \in NodePool /\ u # Absent
  <2>1. u \in NodePool
    BY <1>1, WrittenPools
  <2>. HIDE DEF u
  <2>. QED  BY <2>1, PoolsAssumption DEF PoolsAssumption
<1>3. u.req = TRUE /\ u.values = ListOf(getUpdatedZones(id))
  BY DEF copiedPool
<1>4. InList(u.values) = getUpdatedZones(id)
  BY <1>1, <1>3, ZoneTypes DEF ListOf, InList
<1>5. clusterZones \ {z} # {}
  BY <1>1 DEF SecondZone
<1>. QED  BY <1>1, <1>2, <1>3, <1>4, <1>5 DEF getUpdatedZones

LEMMA HandlingKss ==
  ASSUME AutoCluster, Orderly, SecondZone, AutoInv, NEW g \in Handler, Handling(g),
         NEW b \in Builtin
  PROVE  KssKept(b)'
<1>. DEFINE k == Kss[b]
<1>1. /\ OneEventAtATime /\ TypeOK /\ SystemTypeOK /\ CurOK /\ KssKept(b) /\ CopiesWanted
      /\ HandlerStep(g) /\ sent' = sent /\ queue' = queue
  BY DEF AutoInv, RestInv, OrderInv, OneEventAtATime, SystemTypeOK, Handling, environment,
     intake
<1>2. /\ g \in Running /\ Running' \subseteq Running /\ UNCHANGED <<kind, away, auto>>
      /\ \A h \in Handler \ {g} : pc'[h] = pc[h] /\ todo'[h] = todo[h] /\ cur'[h] = cur[h]
      /\ pc'[g] \in {"pools", "annotate", "done"}
  BY <1>1, HandlerSteps
<1>3. /\ b \in Pool /\ k \in Pool /\ k \in KssPools /\ k \notin Builtin
  BY KssFacts
<1>4. /\ auto[g] /\ (pools[b] # Absent <=> InitialPools[b] # Absent)
      /\ todo[g][b] # Absent => kind[g] = "shift" /\ ~todo[g][b].req
  BY <1>2, BuiltinFacts DEF Running, Started
<1>5. /\ sent # <<>> /\ kind[g] = Last.kind /\ away[g] = Last.id /\ Last.id \in ShiftZone
      /\ LastZone = getZoneNameFromZoneId(away[g]) /\ kind[g] \in Kinds
      /\ \A h \in Running : kind[h] = kind[g]
      /\ LastZone' = LastZone /\ sent' # <<>>
      /\ (Shifting' <=> Shifting) /\ (Restoring' <=> Restoring)
      /\ (Shifting <=> kind[g] = "shift") /\ (Restoring <=> kind[g] = "restore")
  BY <1>1, <1>2, EventsOrLess
  DEF OneEventAtATime, LastZone, Last, Shifting, Restoring
<1>6. LastZone \in AnyZone /\ LastZone \in clusterZones
  BY <1>5, ShiftZoneNames
<1>7. KssPasses(g, b) \/ KssLists(g, b) \/ Creates(g, b) \/ Deletes(g, b)
  BY <1>1, KssSteps
<1>8. k \notin cur'[g]
  BY <1>1, KssSteps
<1>9. /\ pools[k] # Absent => /\ InitialPools[b] # Absent /\ pools[k].req
                              /\ InList(pools[k].values) = clusterZones \ {LastZone}
      /\ \A h \in Handler : /\ todo[h][k] # Absent => kind[h] = "restore"
                            /\ todo[h][b] # Absent => InitialPools[b] # Absent
                            /\ k \notin cur[h]
  BY <1>1 DEF KssKept
\* What the copy is.
<1>10. pools'[k] # Absent => /\ InitialPools[b] # Absent /\ pools'[k].req
                             /\ InList(pools'[k].values) = clusterZones \ {LastZone}
  <2>1. CASE KssPasses(g, b) \/ KssLists(g, b) \/ Deletes(g, b)
    BY <1>9, <2>1 DEF KssPasses, KssLists, Deletes
  <2>2. CASE Creates(g, b)
    <3>1. todo[g][b] \in NodePool /\ ~todo[g][b].req /\ InitialPools[b] # Absent
      BY <1>1, <1>3, <1>4, <1>9, <2>2 DEF Creates, TypeOK
    <3>2. /\ copiedPool(todo[g][b], away[g]).req
          /\ InList(copiedPool(todo[g][b], away[g]).values) = clusterZones \ {LastZone}
      BY <1>5, <3>1, CopyZones
    <3>. QED  BY <1>9, <2>2, <3>1, <3>2 DEF Creates
  <2>. QED  BY <1>7, <2>1, <2>2
\* What the handler has listed.
<1>11. /\ todo'[g][k] # Absent => kind[g] = "restore"
       /\ todo'[g][b] # Absent => InitialPools[b] # Absent
  <2>1. CASE KssLists(g, b)
    <3>1. todo'[g][b] # Absent => InitialPools[b] # Absent
      BY <1>4, <2>1 DEF KssLists
    <3>2. todo'[g][k] # Absent => pools[k] # Absent /\ wanted(g, k, pools[k])
      BY <2>1 DEF KssLists
    <3>3. pools[k] # Absent => ~(pools[k].values[LastZone] > 0)
      BY <1>6, <1>9 DEF InList
    <3>4. pools[k] # Absent => ~needsUpdate(pools[k], away[g])
      BY <1>5, <1>9, <3>3 DEF needsUpdate
    <3>. QED  BY <1>3, <3>1, <3>2, <3>4 DEF wanted, copiesBuiltin, deletesKss
  <2>2. CASE KssPasses(g, b) \/ Creates(g, b) \/ Deletes(g, b)
    BY <1>9, <2>2 DEF KssPasses, Creates, Deletes
  <2>. QED  BY <1>7, <2>1, <2>2
<1>12. \A h \in Handler : /\ todo'[h][k] # Absent => kind'[h] = "restore"
                          /\ todo'[h][b] # Absent => InitialPools[b] # Absent
                          /\ k \notin cur'[h]
  BY <1>2, <1>8, <1>9, <1>11
\* An update creates the copy.
<1>13. ASSUME kind[g] = "shift", InitialPools[b] # Absent
       PROVE  /\ pools[k] # Absent => pools'[k] # Absent
              /\ pools'[k] # Absent \/ todo'[g][b] # Absent
              /\ pc'[g] = "done" => pools'[k] # Absent
  <2>1. pools[k] # Absent => pools'[k] # Absent
    BY <1>7, <1>13 DEF KssPasses, KssLists, Creates, Deletes
  <2>2. CASE KssLists(g, b)
    <3>1. wanted(g, b, pools[b])
      BY <1>4, <1>6, <1>13 DEF wanted, copiesBuiltin
    <3>. QED  BY <1>4, <1>13, <2>1, <2>2, <3>1 DEF KssLists
  <2>3. CASE Creates(g, b)
    <3>1. todo[g][b] \in NodePool /\ ~todo[g][b].req
      BY <1>1, <1>3, <1>4, <2>3 DEF Creates, TypeOK
    <3>2. copiedPool(todo[g][b], away[g]) # Absent
      BY <1>5, <3>1, CopyZones
    <3>. QED  BY <2>3, <3>2 DEF Creates
  <2>4. CASE KssPasses(g, b)
    <3>1. pools[k] # Absent \/ todo[g][b] # Absent
      BY <1>1, <1>2, <1>5, <1>13, <2>4 DEF KssPasses, KssKept
    <3>. QED  BY <1>3, <2>4, <3>1 DEF KssPasses, NoCopies
  <2>. QED  BY <1>7, <1>13, <2>1, <2>2, <2>3, <2>4 DEF Deletes
\* A restore deletes it.
<1>14. ASSUME kind[g] = "restore"
       PROVE  /\ pools[k] = Absent => pools'[k] = Absent
              /\ pools'[k] = Absent \/ todo'[g][k] # Absent
              /\ pc'[g] = "done" => pools'[k] = Absent
  <2>1. pools[k] = Absent => pools'[k] = Absent
    BY <1>7, <1>14 DEF KssPasses, KssLists, Creates, Deletes
  <2>2. CASE KssLists(g, b)
    <3>1. wanted(g, k, pools[k])
      BY <1>3, <1>4, <1>14 DEF wanted, deletesKss
    <3>. QED  BY <1>14, <2>1, <2>2, <3>1 DEF KssLists
  <2>3. CASE KssPasses(g, b)
    <3>1. pools[k] = Absent \/ todo[g][k] # Absent
      BY <1>1, <1>2, <1>5, <1>14, <2>3 DEF KssPasses, KssKept
    <3>. QED  BY <1>3, <2>3, <3>1 DEF KssPasses, NoCopies
  <2>. QED  BY <1>7, <1>14, <2>1, <2>2, <2>3 DEF Deletes, Creates
\* The pledges of the others, which all have the same kind.
<1>15. ASSUME Shifting, InitialPools[b] # Absent
       PROVE  /\ Handled' => pools'[k] # Absent
              /\ \A h \in Running' : pc'[h] # "list" => pools'[k] # Absent \/ todo'[h][b] # Absent
  <2>1. Handled' => pools'[k] # Absent
    BY <1>2, <1>5, <1>13, <1>15 DEF Handled, Running
  <2>2. ASSUME NEW h \in Running', h # g, pc'[h] # "list"
        PROVE  pools'[k] # Absent \/ todo'[h][b] # Absent
    BY <1>1, <1>2, <1>5, <1>13, <1>15, <2>2 DEF KssKept, Running
  <2>. QED  BY <1>5, <1>13, <1>15, <2>1, <2>2
<1>16. ASSUME Restoring
       PROVE  /\ Handled' => pools'[k] = Absent
              /\ \A h \in Running' : pc'[h] # "list" => pools'[k] = Absent \/ todo'[h][k] # Absent
  <2>1. Handled' => pools'[k] = Absent
    BY <1>2, <1>5, <1>14, <1>16 DEF Handled, Running
  <2>2. ASSUME NEW h \in Running', h # g, pc'[h] # "list"
        PROVE  pools'[k] = Absent \/ todo'[h][k] # Absent
    BY <1>1, <1>2, <1>5, <1>14, <1>16, <2>2 DEF KssKept, Running
  <2>. QED  BY <1>5, <1>14, <1>16, <2>1, <2>2
<1>. QED  BY <1>5, <1>10, <1>12, <1>15, <1>16 DEF KssKept

LEMMA NextAuto ==
  ASSUME AutoCluster, Orderly, SecondZone, ~Crashes, AutoInv, [SystemNext]_allVars
  PROVE  AutoInv'
<1>1. /\ RestInv /\ OrderInv /\ OneEventAtATime /\ SystemTypeOK /\ TypeOK
      /\ AllAccountedFor /\ OnlyCopied /\ ModeAnswered /\ CopiesPlain
  BY DEF AutoInv, RestInv, OrderInv, OneEventAtATime, SystemTypeOK
<1>2. [Next]_vars
  BY <1>1, StepOfNodePools
<1>3. RestInv' /\ AllAccountedFor' /\ OnlyCopied' /\ ModeAnswered' /\ CopiesPlain'
  BY <1>1, <1>2, NextRest, NextAccounted, NextOnlyCopied, NextModeAnswered, NextCopiesPlain
<1>. SUFFICES ASSUME NEW b \in Builtin PROVE KssKept(b)'
  BY <1>3 DEF AutoInv
<1>4. KssKept(b) /\ b \in Pool /\ Kss[b] \in Pool
  BY KssFacts DEF AutoInv
<1>5. ASSUME NEW id \in ShiftZone, StartShift(id) \/ EndShift(id)
      PROVE  KssKept(b)'
  <2>1. PICK k \in Kinds : Send(k, id)
    BY <1>5 DEF StartShift, EndShift, Kinds
  <2>2. /\ Running = {} /\ UNCHANGED vars /\ queue' = {Len(sent')} /\ sent' # <<>>
        /\ LastZone' = getZoneNameFromZoneId(id) /\ queue = {}
    BY <1>1, <2>1, SendIsLast
  <2>3. /\ Running' = {} /\ ~Handled' /\ Handled
        /\ pools' = pools /\ todo' = todo /\ cur' = cur /\ kind' = kind
    BY <2>2 DEF vars, Running, Handled
  <2>4. LastZone' = LastZone \/ pools[Kss[b]] = Absent
    <3>1. CASE EndShift(id)
      <4>1. id = Last.id /\ sent # <<>>
        BY <1>1, <3>1 DEF EndShift, OneEventAtATime, Shifting
      <4>. QED  BY <2>2, <4>1 DEF LastZone
    <3>2. CASE StartShift(id)
      <4>1. ~Shifting
        BY <1>1, <3>2 DEF StartShift, Orderly, OneEventAtATime
      <4>2. sent # <<>> => Restoring
        BY <1>1, <4>1, EventsOrLess DEF Shifting, Restoring, Kinds
      <4>. QED  BY <1>4, <2>3, <4>2 DEF KssKept
    <3>. QED  BY <1>5, <3>1, <3>2
  <2>. QED  BY <1>4, <2>2, <2>3, <2>4 DEF KssKept
<1>6. ASSUME NEW pod \in Pod, NEW n \in queue, handleEvent(pod, n)
      PROVE  KssKept(b)'
  <2>1. PICK g \in Handler :
          /\ sent' = sent /\ Running' = Running \cup {g} /\ pc'[g] = "list" /\ pc[g] = "idle"
          /\ todo' = todo /\ cur' = cur /\ pools' = pools
          /\ \A h \in Handler \ {g} : pc'[h] = pc[h] /\ kind'[h] = kind[h]
    BY <1>1, <1>6, EventIsLast DEF environment, Begin, Step
  <2>2. ~Handled' /\ LastZone' = LastZone /\ (Shifting' <=> Shifting) /\ (Restoring' <=> Restoring)
    BY <2>1 DEF Handled, LastZone, Last, Shifting, Restoring
  <2>3. todo[g][Kss[b]] = Absent
    BY <1>1, <1>4, <2>1 DEF OrderInv, CopiesWanted
  <2>4. \A h \in Handler : todo'[h][Kss[b]] # Absent => kind'[h] = "restore"
    BY <1>4, <2>1, <2>3 DEF KssKept
  <2>. QED  BY <1>4, <2>1, <2>2, <2>4 DEF KssKept, Running
<1>7. ASSUME UNCHANGED <<vars, sent>>, Len(sent) \in queue => Len(sent) \in queue'
      PROVE  KssKept(b)'
  <2>1. /\ (Handled' => Handled) /\ LastZone' = LastZone
        /\ (Shifting' <=> Shifting) /\ (Restoring' <=> Restoring) /\ Running' = Running
    BY <1>7 DEF Handled, LastZone, Last, Shifting, Restoring, Running, vars
  <2>. QED  BY <1>4, <1>7, <2>1 DEF KssKept, vars
<1>8. ASSUME NEW pod \in Pod, DeleteMessage(pod)
      PROVE  KssKept(b)'
  BY <1>7, <1>8 DEF DeleteMessage, environment
<1>9. ASSUME UNCHANGED allVars
      PROVE  KssKept(b)'
  BY <1>7, <1>9 DEF allVars, environment, intake
<1>. QED
  BY <1>5, <1>6, <1>8, <1>9, HandlingKss DEF SystemNext, Polling, PodDies, Finished

\* In Auto Mode the temporary copies exist between events exactly while a zone is shifted
\* away from, and have all other zones of the cluster, if there are others.
THEOREM KssFollowsShifts ==
  ASSUME AutoCluster, Orderly, SecondZone, ~Crashes
  PROVE  SystemSpec => []KssFollowsShift
<1>1. AutoInv => KssFollowsShift
  <2>. SUFFICES ASSUME AutoInv, Settled, NEW b \in Builtin
                PROVE  /\ InitialPools[b] # Absent /\ active # {} <=> pools[Kss[b]] # Absent
                       /\ pools[Kss[b]] # Absent =>
                            InList(pools[Kss[b]].values)
                              = clusterZones \ {zoneMapping[id] : id \in active}
    BY DEF KssFollowsShift
  <2>1. OneEventAtATime /\ SystemTypeOK /\ KssKept(b) /\ Handled
    BY DEF AutoInv, RestInv, OrderInv, OneEventAtATime, Handled, Settled
  <2>2. active # {} <=> Shifting
    BY <2>1 DEF OneEventAtATime
  <2>3. Shifting \/ Restoring \/ sent = <<>>
    BY <2>1, EventsOrLess DEF Shifting, Restoring, Kinds
  <2>4. InitialPools[b] # Absent /\ active # {} <=> pools[Kss[b]] # Absent
    BY <2>1, <2>2, <2>3 DEF KssKept
  <2>5. Shifting => {zoneMapping[id] : id \in active} = {LastZone}
    BY <2>1 DEF OneEventAtATime, LastZone, getZoneNameFromZoneId, Orderly, Shifting
  <2>. QED  BY <2>1, <2>2, <2>4, <2>5 DEF KssKept
<1>2. AutoInv /\ [SystemNext]_allVars => AutoInv'
  BY NextAuto
<1>. QED
  BY <1>1, <1>2, InitAuto, PTL DEF SystemSpec

-----------------------------------------------------------------------------
(***************************************************************************)
(* The refinement of ZonalShift, but for its liveness: NeverAstray.        *)
(***************************************************************************)

\* While handlers are at work, told is what their event says.
ToldInv ==
  /\ sent = <<>> => told = {}
  /\ Shifting => told \subseteq {LastZone} /\ (Running # {} => told = {LastZone})
  /\ Restoring => /\ told \subseteq {LastZone}
                  /\ told = {} \/ (Len(sent) \in queue /\ Running = {})

LEMMA NextTold ==
  ASSUME Orderly, OneEventAtATime, ToldInv, [SystemNext]_allVars
  PROVE  ToldInv'
<1>1. SystemTypeOK /\ TypeOK
  BY DEF OneEventAtATime, SystemTypeOK
<1>2. ASSUME NEW id \in ShiftZone, StartShift(id) \/ EndShift(id)
      PROVE  ToldInv'
  <2>1. PICK k \in Kinds : Send(k, id) /\ (k = "shift" <=> StartShift(id))
    BY <1>2 DEF StartShift, EndShift, Kinds
  <2>2. /\ Running = {} /\ UNCHANGED vars /\ queue' = {Len(sent')} /\ sent' # <<>>
        /\ LastZone' = getZoneNameFromZoneId(id) /\ queue = {} /\ told' = told
        /\ Last' = [kind |-> k, id |-> id]
    BY <2>1, SendIsLast
  <2>3. Running' = {} /\ Len(sent') \in queue'
    BY <2>2 DEF vars, Running
  <2>4. CASE StartShift(id)
    <3>1. ~Shifting
      BY <1>1, <2>4 DEF StartShift, Orderly, OneEventAtATime
    <3>2. told = {}
      BY <1>1, <2>2, <3>1, EventsOrLess DEF ToldInv, Shifting, Restoring, Kinds
    <3>. QED  BY <2>2, <2>3, <3>2 DEF ToldInv
  <2>5. CASE EndShift(id) /\ ~StartShift(id)
    <3>1. Shifting /\ id = Last.id
      BY <2>5 DEF EndShift, OneEventAtATime
    <3>2. LastZone' = LastZone /\ told \subseteq {LastZone} /\ ~Shifting'
      BY <2>1, <2>2, <2>5, <3>1 DEF LastZone, ToldInv, Shifting
    <3>. QED  BY <2>2, <2>3, <3>2 DEF ToldInv
  <2>. QED  BY <1>2, <2>4, <2>5
<1>3. ASSUME sent' = sent
      PROVE  LastZone' = LastZone /\ (Shifting' <=> Shifting) /\ (Restoring' <=> Restoring)
  BY <1>3 DEF LastZone, Last, Shifting, Restoring
<1>4. ASSUME NEW pod \in Pod, NEW n \in queue, handleEvent(pod, n)
      PROVE  ToldInv'
  <2>1. sent' = sent /\ sent # <<>> /\ n = Len(sent)
    BY <1>4, EventIsLast DEF environment
  <2>2. Last.id \in ShiftZone /\ LastZone = getZoneNameFromZoneId(Last.id) /\ LastZone # NoZone
    BY <2>1, ShiftZoneNames DEF OneEventAtATime, LastZone
  <2>3. told' = IF Last.kind = "shift" THEN told \cup {LastZone} ELSE told \ {LastZone}
    BY <1>4, <2>1, <2>2 DEF handleEvent, Last
  <2>. QED  BY <1>3, <2>1, <2>3 DEF ToldInv, Shifting, Restoring
<1>5. ASSUME told' = told, sent' = sent, queue \subseteq queue',
             Running # {} \/ Running' = {}, Running' # {} => Running # {}
      PROVE  ToldInv'
  BY <1>3, <1>5 DEF ToldInv
<1>6. ASSUME NEW pod \in Pod, DeleteMessage(pod)
      PROVE  ToldInv'
  BY <1>5, <1>6 DEF DeleteMessage, vars, Running, environment
<1>7. ASSUME NEW pod \in Pod, PodDies(pod)
      PROVE  ToldInv'
  BY <1>5, <1>7 DEF PodDies, Crash, environment
<1>8. ASSUME NEW g \in Handler, Handling(g)
      PROVE  ToldInv'
  BY <1>1, <1>5, <1>8, HandlerSteps DEF Handling, environment, intake
<1>9. ASSUME UNCHANGED allVars
      PROVE  ToldInv'
  BY <1>5, <1>9 DEF allVars, vars, Running, environment, intake
<1>. QED
  BY <1>2, <1>4, <1>6, <1>7, <1>8, <1>9 DEF SystemNext, Polling, Finished

\* A handler's step writes one pool at most.
LEMMA OnePoolWritten ==
  ASSUME TypeOK, NEW g \in Handler, HandlerStep(g)
  PROVE  \A p, q \in Pool : pools'[p] # pools[p] /\ pools'[q] # pools[q] => p = q
<1>. DEFINE Goal == \A p, q \in Pool : pools'[p] # pools[p] /\ pools'[q] # pools[q] => p = q
<1>1. pools \in [Pool -> NodePool \cup {Absent}]
  BY DEF TypeOK
<1>2. ASSUME NEW r, NEW new, pools' = pools \/ pools' = [pools EXCEPT ![r] = new]
      PROVE  Goal
  BY <1>1, <1>2
<1>3. ASSUME NEW r \in Pool, UpdateInPlace(g, r) \/ RestoreInPlace(g, r)
      PROVE  Goal
  BY <1>2, <1>3 DEF UpdateInPlace, RestoreInPlace, Patch
<1>4. CASE PatchAnnotation(g)
  BY <1>2, <1>4 DEF PatchAnnotation, Patch
<1>5. ASSUME NEW r \in Pool, CreateNodePool(g, r) \/ DeleteNodePool(g, r)
      PROVE  Goal
  BY <1>2, <1>5 DEF CreateNodePool, DeleteNodePool
<1>6. CASE ListNodePools(g) \/ ListFails(g) \/ Return(g)
  BY <1>6 DEF ListNodePools, ListFails, Return
<1>. QED  BY <1>3, <1>4, <1>5, <1>6 DEF HandlerStep

usableNow == [p \in InPools |-> usableZones(p)]

\* If it changes a pool's zones, it makes them the target.
LEMMA HandlingApplies ==
  ASSUME Orderly, EmptyRefused, OrderInv, ToldInv, NEW g \in Handler, Handling(g)
  PROVE  UNCHANGED usableNow \/ \E p \in InPools : Promise!Apply(p)
<1>1. /\ OneEventAtATime /\ TypeOK /\ SystemTypeOK /\ CurOK /\ CopiesWanted
      /\ HandlerStep(g) /\ told' = told
  BY DEF OrderInv, OneEventAtATime, SystemTypeOK, Handling, intake
<1>2. g \in Running /\ sent # <<>> /\ kind[g] = Last.kind
  BY <1>1, HandlerSteps DEF OneEventAtATime
<1>3. told = IF kind[g] = "shift" THEN {LastZone} ELSE {}
  BY <1>1, <1>2, EventsOrLess DEF ToldInv, Shifting, Restoring, Kinds
<1>4. ASSUME NEW p \in InPools
      PROVE  /\ usableZones(p) = usableIn(pools[p])
             /\ usableZones(p)' = usableIn(pools'[p])
             /\ Promise!Target(p) = IF Home(p) \subseteq told THEN Home(p) ELSE Home(p) \ told
  BY DEF usableZones, usableIn, Promise!Target
<1>5. ASSUME NEW p \in InPools
      PROVE  usableZones(p)' = usableZones(p) \/ usableZones(p)' = Promise!Target(p)
  <2>1. p \in Pool /\ PoolKept(p) /\ Marked(p) /\ pools[p] # Absent
    BY InPoolFacts DEF OrderInv, PoolKept
  <2>2. Passes(g, p) \/ Lists(g, p) \/ Updates(g, p) \/ Restores(g, p) \/ Annotates(g, p)
    BY <1>1, <2>1, PoolSteps
  <2>3. CASE Passes(g, p) \/ Lists(g, p)
    BY <1>4, <2>3 DEF Passes, Lists
  <2>4. CASE Updates(g, p)
    <3>1. \/ usableIn(pools'[p]) = usableIn(pools[p])
          \/ usableIn(pools'[p]) = IF Home(p) \subseteq {LastZone}
                                   THEN Home(p) ELSE Home(p) \ {LastZone}
      BY <1>1, <2>1, <2>4, WriteEffects
    <3>2. told = {LastZone}
      BY <1>3, <2>4 DEF Updates
    <3>. QED  BY <1>4, <3>1, <3>2
  <2>5. CASE Restores(g, p)
    <3>1. usableIn(pools'[p]) = Home(p) /\ told = {}
      BY <1>1, <1>3, <2>1, <2>5, WriteEffects DEF Restores
    <3>. QED  BY <1>4, <3>1
  <2>6. CASE Annotates(g, p)
    BY <1>1, <1>4, <2>1, <2>6, WriteEffects
  <2>. QED  BY <2>2, <2>3, <2>4, <2>5, <2>6
<1>6. CASE \A p \in InPools : usableZones(p)' = usableZones(p)
  BY <1>6 DEF usableNow
<1>7. CASE \E p \in InPools : usableZones(p)' # usableZones(p)
  <2>1. PICK p \in InPools : usableZones(p)' # usableZones(p)
    BY <1>7
  <2>2. ASSUME NEW q \in InPools, q # p
        PROVE  usableZones(q)' = usableZones(q)
    <3>1. p \in Pool /\ q \in Pool /\ pools'[p] # pools[p]
      BY <1>4, <2>1, InPoolFacts
    <3>2. pools'[q] = pools[q]
      BY <1>1, <2>2, <3>1, OnePoolWritten
    <3>. QED  BY <1>4, <2>2, <3>2
  <2>3. usableZones(p)' = Promise!Target(p)
    BY <1>5, <2>1
  <2>4. usableNow' = [usableNow EXCEPT ![p] = Promise!Target(p)]
    BY <2>2, <2>3 DEF usableNow
  <2>5. usableNow[p] # Promise!Target(p)
    BY <2>1, <2>3 DEF usableNow
  <2>. QED  BY <1>1, <2>4, <2>5 DEF usableNow, Promise!Apply
<1>. QED  BY <1>6, <1>7

\* Every step of the system is a step of ZonalShift, or none that it can see.
LEMMA StepMoves ==
  ASSUME Orderly, EmptyRefused, OrderInv, ToldInv, [SystemNext]_allVars
  PROVE  [Promise!Next]_<<told, usableNow>>
<1>1. ASSUME pools' = pools
      PROVE  UNCHANGED usableNow
  BY <1>1 DEF usableNow, usableZones
<1>2. ASSUME NEW id \in ShiftZone, StartShift(id) \/ EndShift(id)
      PROVE  UNCHANGED <<told, usableNow>>
  BY <1>1, <1>2 DEF StartShift, EndShift, Send, vars
<1>3. ASSUME NEW pod \in Pod, NEW n \in queue, handleEvent(pod, n)
      PROVE  [Promise!Next]_<<told, usableNow>>
  <2>1. UNCHANGED usableNow
    BY <1>1, <1>3 DEF handleEvent, Begin
  <2>2. told' = told \/ \E z \in ZoneName : \/ z \notin told /\ told' = told \cup {z}
                                            \/ z \in told /\ told' = told \ {z}
    <3>1. getZoneNameFromZoneId(sent[n].id) \in ZoneName \cup {NoZone}
      BY ZonesAssumption DEF ZonesAssumption, getZoneNameFromZoneId
    <3>. QED  BY <1>3, <3>1 DEF handleEvent
  <2>. QED  BY <2>1, <2>2 DEF Promise!Next, Promise!Tell, Promise!Clear, usableNow
<1>4. ASSUME NEW pod \in Pod, DeleteMessage(pod) \/ PodDies(pod)
      PROVE  UNCHANGED <<told, usableNow>>
  BY <1>1, <1>4 DEF DeleteMessage, PodDies, Crash, vars
<1>5. ASSUME NEW g \in Handler, Handling(g)
      PROVE  [Promise!Next]_<<told, usableNow>>
  <2>1. told' = told
    BY <1>5 DEF Handling, intake
  <2>. QED  BY <1>5, <2>1, HandlingApplies DEF Promise!Next
<1>6. ASSUME UNCHANGED allVars
      PROVE  UNCHANGED <<told, usableNow>>
  BY <1>1, <1>6 DEF allVars, vars, intake
<1>. QED
  BY <1>2, <1>3, <1>4, <1>5, <1>6 DEF SystemNext, Polling, Finished

LEMMA InitMoves == SystemInit => Promise!Init /\ ToldInv
<1>. SUFFICES ASSUME SystemInit PROVE Promise!Init /\ ToldInv
  OBVIOUS
<1>1. told = {} /\ sent = <<>>
  BY DEF SystemInit
<1>2. ASSUME NEW p \in InPools
      PROVE  usableZones(p) = Home(p)
  BY InPoolFacts DEF SystemInit, Init, usableZones, usableIn
<1>3. Promise!Init
  BY <1>1, <1>2 DEF Promise!Init
<1>. QED  BY <1>1, <1>3 DEF ToldInv, Shifting, Restoring

\* Where the API refuses empty zone lists, each write of a handler takes a pool from what
\* it was to what the event asks for: the system implements ZonalShift but for its
\* liveness.  Shifts of one zone may lose handlers at any point; no pod may die in shifts
\* of several.
THEOREM PoolsNeverGoAstray ==
  ASSUME Orderly, EmptyRefused, OneZone \/ ~Crashes
  PROVE  SystemSpec => NeverAstray
<1>1. CASE OneZone
  <2>1. OrderInv /\ ToldInv /\ [SystemNext]_allVars => OrderInv' /\ ToldInv'
    BY <1>1, NextOrder, NextTold DEF OrderInv
  <2>2. OrderInv /\ ToldInv /\ [SystemNext]_allVars => [Promise!Next]_<<told, usableNow>>
    BY StepMoves
  <2>. QED
    BY <2>1, <2>2, InitOrder, InitMoves, PTL DEF SystemSpec, NeverAstray, Promise!Moves, usableNow
<1>2. CASE ~Crashes
  <2>1. RestInv /\ ToldInv /\ [SystemNext]_allVars => RestInv' /\ ToldInv'
    BY <1>2, NextRest, NextTold DEF RestInv, OrderInv
  <2>2. RestInv /\ ToldInv /\ [SystemNext]_allVars => [Promise!Next]_<<told, usableNow>>
    BY StepMoves DEF RestInv
  <2>. QED
    BY <2>1, <2>2, InitRest, InitMoves, PTL DEF SystemSpec, NeverAstray, Promise!Moves, usableNow
<1>. QED  BY <1>1, <1>2
=============================================================================
