--------------------------- MODULE NodePoolsProofs ---------------------------
(***************************************************************************)
(* Theorems about NodePools, for any pools, zones, handlers and bounds.    *)
(***************************************************************************)
EXTENDS NodePools, FiniteSetTheorems, TLAPS

-----------------------------------------------------------------------------
(***************************************************************************)
(* Zones and zone lists.                                                   *)
(***************************************************************************)

\* The zone strings the handlers compute are strings a list may hold.
LEMMA ZoneTypes ==
  ASSUME NEW id \in AwayFrom
  PROVE  /\ getZoneNameFromZoneId(id) \in AnyZone
         /\ restoredZone(id) \in AnyZone
         /\ getUpdatedZones(id) \subseteq clusterZones
         /\ getUpdatedZones(id) \subseteq AnyZone
  BY ZonesAssumption
  DEF ZonesAssumption, AwayFrom, AnyZone, getZoneNameFromZoneId, restoredZone, getUpdatedZones

\* An update leaves out at most the zone its event names.
LEMMA UpdatedZonesLack ==
  ASSUME NEW id \in AwayFrom
  PROVE  clusterZones \ {getZoneNameFromZoneId(id)} \subseteq getUpdatedZones(id)
  BY DEF getUpdatedZones

\* The list operations are what their names say.
LEMMA ListLaws ==
  ASSUME NEW l \in ZoneList, NEW z \in AnyZone, NEW S \in SUBSET AnyZone
  PROVE  /\ ListOf(S) \in ZoneList /\ InList(ListOf(S)) = S
         /\ Without(l, z) \in ZoneList /\ InList(Without(l, z)) = InList(l) \ {z}
         /\ Appended(l, z) \in ZoneList /\ InList(Appended(l, z)) = InList(l) \cup {z}
<1>1. ListOf(S) \in ZoneList /\ InList(ListOf(S)) = S
  BY DEF ListOf, InList, ZoneList
<1>2. Without(l, z) \in ZoneList /\ InList(Without(l, z)) = InList(l) \ {z}
  BY DEF Without, InList, ZoneList
<1>3. Appended(l, z) \in ZoneList /\ InList(Appended(l, z)) = InList(l) \cup {z}
  BY DEF Appended, InList, ZoneList
<1>. QED  BY <1>1, <1>2, <1>3

\* What the update writes is a list, and lacks at most the impaired zone.
LEMMA ShiftedValues ==
  ASSUME NEW s \in NodePool, NEW id \in AwayFrom
  PROVE  /\ shiftedValues(s, id) \in ZoneList
         /\ s.req => InList(shiftedValues(s, id)) = InList(s.values) \ {getZoneNameFromZoneId(id)}
         /\ ~s.req => InList(shiftedValues(s, id)) = getUpdatedZones(id)
<1>1. s.values \in ZoneList
  BY DEF NodePool
<1>. QED
  BY <1>1, ZoneTypes, ListLaws DEF shiftedValues

-----------------------------------------------------------------------------
(***************************************************************************)
(* Types.                                                                  *)
(***************************************************************************)

\* The records the handlers and the owner write are NodePools again.
LEMMA WrittenPools ==
  ASSUME NEW o \in NodePool, NEW s \in NodePool, NEW id \in AwayFrom
  PROVE  /\ updatedPool(o, s, id) \in NodePool
         /\ restoredPool(o, s, id) \in NodePool
         /\ annotatedPool(o, {id}) \in NodePool
         /\ annotatedPool(o, {}) \in NodePool
         /\ copiedPool(s, id) \in NodePool
         /\ editedPool(o) \in NodePool
<1>1. s.values \in ZoneList
  BY DEF NodePool
<1>2. shiftedValues(s, id) \in ZoneList
  BY ShiftedValues
<1>3. Appended(s.values, restoredZone(id)) \in ZoneList
  BY <1>1, ZoneTypes, ListLaws
<1>4. ListOf(getUpdatedZones(id)) \in ZoneList
  BY ZoneTypes DEF ListOf, ZoneList
<1>5. updatedPool(o, s, id) \in NodePool
  BY <1>2 DEF NodePool, updatedPool
<1>6. restoredPool(o, s, id) \in NodePool
  BY <1>3 DEF NodePool, restoredPool
<1>7. annotatedPool(o, {id}) \in NodePool /\ annotatedPool(o, {}) \in NodePool
  BY DEF NodePool, annotatedPool
<1>8. copiedPool(s, id) \in NodePool
  BY <1>1, <1>4 DEF NodePool, copiedPool
<1>9. editedPool(o) \in NodePool
  BY DEF NodePool, editedPool
<1>. QED
  BY <1>5, <1>6, <1>7, <1>8, <1>9

\* A PATCH with a NodePool leaves NodePools and a legal count of failures.
LEMMA PatchType ==
  ASSUME TypeOK, NEW p \in Pool, NEW new, Patch(p, new),
         pools[p] # Absent => new \in NodePool
  PROVE  /\ pools' \in [Pool -> NodePool \cup {Absent}]
         /\ faults' \in 0 .. MaxFaults
  BY HandlerAssumption DEF HandlerAssumption, TypeOK, Patch, ApiFault

LEMMA InitTypes == Init => TypeOK
  BY ZonesAssumption, PoolsAssumption, HandlerAssumption
  DEF ZonesAssumption, PoolsAssumption, HandlerAssumption,
      Init, TypeOK, NoCopies, AwayFrom, Kinds

LEMMA NextTypes == TypeOK /\ [Next]_vars => TypeOK'
<1>. SUFFICES ASSUME TypeOK, [Next]_vars PROVE TypeOK'
  OBVIOUS
<1>. USE HandlerAssumption DEF HandlerAssumption
<1>1. ASSUME NEW h \in Handler, NEW k \in Kinds, NEW id \in AwayFrom, Begin(h, k, id)
      PROVE  TypeOK'
  BY <1>1 DEF TypeOK, Begin, Step, ApiFault
<1>2. ASSUME NEW h \in Handler, ListNodePools(h)
      PROVE  TypeOK'
  BY <1>2 DEF TypeOK, ListNodePools, Step
<1>3. ASSUME NEW h \in Handler, ListFails(h)
      PROVE  TypeOK'
  BY <1>3 DEF TypeOK, ListFails, Step, ApiFault
<1>4. ASSUME NEW h \in Handler, NEW p \in Pool, UpdateInPlace(h, p)
      PROVE  TypeOK'
  <2>1. todo[h][p] \in NodePool /\ away[h] \in AwayFrom
    BY <1>4 DEF TypeOK, UpdateInPlace
  <2>2. pools[p] # Absent => updatedPool(pools[p], todo[h][p], away[h]) \in NodePool
    BY <2>1, WrittenPools DEF TypeOK
  <2>3. pools' \in [Pool -> NodePool \cup {Absent}] /\ faults' \in 0 .. MaxFaults
    BY <1>4, <2>2, PatchType DEF UpdateInPlace
  <2>. QED
    BY <1>4, <2>3 DEF TypeOK, UpdateInPlace, Step, Reached
<1>5. ASSUME NEW h \in Handler, NEW p \in Pool, RestoreInPlace(h, p)
      PROVE  TypeOK'
  <2>1. todo[h][p] \in NodePool /\ away[h] \in AwayFrom
    BY <1>5 DEF TypeOK, RestoreInPlace
  <2>2. pools[p] # Absent => restoredPool(pools[p], todo[h][p], away[h]) \in NodePool
    BY <2>1, WrittenPools DEF TypeOK
  <2>3. pools' \in [Pool -> NodePool \cup {Absent}] /\ faults' \in 0 .. MaxFaults
    BY <1>5, <2>2, PatchType DEF RestoreInPlace
  <2>. QED
    BY <1>5, <2>3 DEF TypeOK, RestoreInPlace, Step, Reached
<1>6. ASSUME NEW h \in Handler, PatchAnnotation(h)
      PROVE  TypeOK'
  <2>1. PICK p \in cur[h] : Patch(p, annotatedPool(pools[p], markOf(h)))
    BY <1>6 DEF PatchAnnotation
  <2>2. p \in Pool /\ away[h] \in AwayFrom
    BY DEF TypeOK
  <2>3. pools[p] # Absent => annotatedPool(pools[p], markOf(h)) \in NodePool
    <3>1. markOf(h) \in {{away[h]}, {}}
      BY DEF markOf
    <3>2. pools[p] # Absent => pools[p] \in NodePool
      BY <2>2 DEF TypeOK
    <3>. QED
      BY <2>2, <3>1, <3>2, WrittenPools
  <2>4. pools' \in [Pool -> NodePool \cup {Absent}] /\ faults' \in 0 .. MaxFaults
    BY <2>1, <2>2, <2>3, PatchType
  <2>. QED
    BY <1>6, <2>4 DEF TypeOK, PatchAnnotation, Step
<1>7. ASSUME NEW h \in Handler, NEW p \in Pool, CreateNodePool(h, p)
      PROVE  TypeOK'
  <2>1. todo[h][p] \in NodePool /\ away[h] \in AwayFrom
    BY <1>7 DEF TypeOK, CreateNodePool
  <2>2. copiedPool(todo[h][p], away[h]) \in NodePool
    BY <2>1, WrittenPools
  <2>3. pools' \in [Pool -> NodePool \cup {Absent}] /\ faults' \in 0 .. MaxFaults
    BY <1>7, <2>2 DEF TypeOK, CreateNodePool, ApiFault
  <2>. QED
    BY <1>7, <2>3 DEF TypeOK, CreateNodePool, Step, Reached
<1>8. ASSUME NEW h \in Handler, NEW p \in Pool, DeleteNodePool(h, p)
      PROVE  TypeOK'
  BY <1>8 DEF TypeOK, DeleteNodePool, Step, Reached, ApiFault
<1>9. ASSUME NEW h \in Handler, Return(h)
      PROVE  TypeOK'
  BY <1>9 DEF TypeOK, Return, Step
<1>10. ASSUME NEW pod \in Pod, Crash(pod)
       PROVE  TypeOK'
  <2>1. NoCopies \in [Pool -> NodePool \cup {Absent}]
    BY DEF NoCopies
  <2>. QED
    BY <1>10, <2>1 DEF TypeOK, Crash
<1>11. ASSUME NEW p \in Pool, EditDisruption(p)
       PROVE  TypeOK'
  <2>1. pools[p] \in NodePool
    BY <1>11 DEF TypeOK, EditDisruption
  <2>2. editedPool(pools[p]) \in NodePool
    BY <2>1, WrittenPools, ZonesAssumption DEF AwayFrom
  <2>3. pools' = [pools EXCEPT ![p] = editedPool(pools[p])]
    BY <1>11 DEF EditDisruption
  <2>4. pools' \in [Pool -> NodePool \cup {Absent}]
    BY <2>2, <2>3 DEF TypeOK
  <2>. QED
    BY <1>11, <2>4 DEF TypeOK, EditDisruption
<1>12. ASSUME UNCHANGED vars
       PROVE  TypeOK'
  BY <1>12 DEF TypeOK, vars
<1>. QED
  BY <1>1, <1>2, <1>3, <1>4, <1>5, <1>6, <1>7, <1>8, <1>9, <1>10, <1>11, <1>12
  DEF Next, HandlerStep, AllHandled

\* Every variable keeps its type: in particular every object the handlers
\* write is a NodePool again, and failures stay within their bound.
THEOREM TypeCorrect == Spec => []TypeOK
  BY InitTypes, NextTypes, PTL DEF Spec

-----------------------------------------------------------------------------
(***************************************************************************)
(* Where zones come from and go to.                                        *)
(***************************************************************************)

\* An event, once it is being handled, stays the event of its handler.
LEMMA StartedStays ==
  ASSUME TypeOK, [Next]_vars, NEW h \in Started
  PROVE  /\ h \in Started'
         /\ kind'[h] = kind[h] /\ away'[h] = away[h] /\ auto'[h] = auto[h]
<1>1. h \in Handler /\ pc[h] # "idle"
  BY DEF Started
<1>2. pc'[h] # "idle" /\ kind'[h] = kind[h] /\ away'[h] = away[h] /\ auto'[h] = auto[h]
  BY <1>1 DEF TypeOK, Next, vars, Begin, HandlerStep, ListNodePools, ListFails,
     UpdateInPlace, RestoreInPlace, PatchAnnotation, CreateNodePool, DeleteNodePool,
     Return, Crash, EditDisruption, AllHandled, Step
<1>. QED
  BY <1>1, <1>2 DEF Started

\* So the zones that events have named so far stay named.
LEMMA NamedZonesGrow ==
  ASSUME TypeOK, [Next]_vars
  PROVE  TakenZones \subseteq TakenZones' /\ GivenZones \subseteq GivenZones'
<1>1. \A h \in Started : h \in Started' /\ kind'[h] = kind[h] /\ away'[h] = away[h]
  BY StartedStays
<1>2. TakenZones \subseteq TakenZones'
  BY <1>1 DEF TakenZones
<1>3. GivenZones \subseteq GivenZones'
  BY <1>1 DEF GivenZones
<1>. QED
  BY <1>2, <1>3

\* The predicate survives more events.
LEMMA AccountedMore ==
  ASSUME NEW s, NEW p, NEW T, NEW G, NEW T2, NEW G2,
         T \subseteq T2, G \subseteq G2, Accounted(s, p, T, G)
  PROVE  Accounted(s, p, T2, G2)
  BY DEF Accounted

\* What the handlers write is accounted for when the copy it is made from is,
\* and when the zone of their event is among the named ones.
LEMMA AccountedUpdate ==
  ASSUME NEW o \in NodePool, NEW s \in NodePool, NEW p \in Pool, NEW id \in AwayFrom,
         NEW T, NEW G, Accounted(s, p, T, G), getZoneNameFromZoneId(id) \in T
  PROVE  Accounted(updatedPool(o, s, id), p, T, G)
<1>. DEFINE u == updatedPool(o, s, id)
<1>1. u.req = TRUE /\ u.values = shiftedValues(s, id)
  BY DEF updatedPool, NodePool
<1>2. CASE s.req
  <2>1. InList(u.values) = InList(s.values) \ {getZoneNameFromZoneId(id)}
    BY <1>1, <1>2, ShiftedValues
  <2>. QED
    BY <1>1, <1>2, <2>1 DEF Accounted
<1>3. CASE ~s.req
  <2>1. InList(u.values) = getUpdatedZones(id)
    BY <1>1, <1>3, ShiftedValues
  <2>2. Home(p) = clusterZones
    BY <1>3 DEF Accounted, Home
  <2>. QED
    BY <1>1, <2>1, <2>2, ZoneTypes, UpdatedZonesLack DEF Accounted
<1>. QED
  BY <1>2, <1>3

LEMMA AccountedRestore ==
  ASSUME NEW o \in NodePool, NEW s \in NodePool, NEW p \in Pool, NEW id \in AwayFrom,
         NEW T, NEW G, Accounted(s, p, T, G), s.req, restoredZone(id) \in G
  PROVE  Accounted(restoredPool(o, s, id), p, T, G)
<1>. DEFINE u == restoredPool(o, s, id)
<1>1. u.req = TRUE /\ u.values = Appended(s.values, restoredZone(id))
  BY DEF restoredPool, NodePool
<1>2. InList(u.values) = InList(s.values) \cup {restoredZone(id)}
  BY <1>1, ZoneTypes, ListLaws DEF NodePool
<1>. QED
  BY <1>1, <1>2 DEF Accounted

LEMMA AccountedSame ==
  ASSUME NEW o \in NodePool, NEW p \in Pool, NEW m, NEW T, NEW G, Accounted(o, p, T, G)
  PROVE  /\ Accounted(annotatedPool(o, m), p, T, G)
         /\ Accounted(editedPool(o), p, T, G)
<1>1. annotatedPool(o, m).req = o.req /\ annotatedPool(o, m).values = o.values
  BY DEF annotatedPool, NodePool
<1>2. editedPool(o).req = o.req /\ editedPool(o).values = o.values
  BY DEF editedPool, NodePool
<1>. QED
  BY <1>1, <1>2 DEF Accounted

LEMMA AccountedCopy ==
  ASSUME NEW s \in NodePool, NEW b \in Builtin, NEW id \in AwayFrom,
         NEW T, NEW G, Accounted(s, b, T, G), getZoneNameFromZoneId(id) \in T
  PROVE  Accounted(copiedPool(s, id), Kss[b], T, G)
<1>. DEFINE u == copiedPool(s, id)
<1>1. b \in Pool /\ Kss[b] \in Pool /\ Kss[b] \in KssPools
  BY PoolsAssumption DEF PoolsAssumption, KssPools
<1>2. InitialPools[Kss[b]] = Absent /\ Home(Kss[b]) = clusterZones /\ Home(b) = clusterZones
  BY <1>1, PoolsAssumption DEF PoolsAssumption, Home
<1>3. u.req = TRUE /\ u.values = IF s.req THEN s.values ELSE ListOf(getUpdatedZones(id))
  BY DEF copiedPool
<1>4. CASE s.req
  BY <1>2, <1>3, <1>4 DEF Accounted
<1>5. CASE ~s.req
  <2>1. InList(u.values) = getUpdatedZones(id)
    BY <1>3, <1>5, ZoneTypes DEF ListOf, InList
  <2>. QED
    BY <1>2, <1>3, <2>1, ZoneTypes, UpdatedZonesLack DEF Accounted
<1>. QED
  BY <1>4, <1>5

-----------------------------------------------------------------------------
(***************************************************************************)
(* The copies the handlers hold.                                           *)
(***************************************************************************)

\* Before the first event no handler holds a copy.
LEMMA InitCopiesWanted == Init => CopiesWanted
  BY DEF Init, CopiesWanted, NoCopies

\* Starting a handler leaves those that hold copies alone.
LEMMA BeginCopies ==
  ASSUME TypeOK, CopiesWanted, NEW g \in Handler, NEW k \in Kinds, NEW id \in AwayFrom,
         Begin(g, k, id), NEW h \in Handler, NEW p \in Pool, todo'[h][p] # Absent
  PROVE  /\ todo' = todo /\ pc'[h] = pc[h]
         /\ kind'[h] = kind[h] /\ away'[h] = away[h] /\ auto'[h] = auto[h]
<1>1. todo' = todo /\ g # h
  BY DEF Begin, Step, CopiesWanted
<1>. QED
  BY <1>1 DEF TypeOK, Begin, Step

\* Any other step but a listing keeps a copy or drops it.
LEMMA StepCopies ==
  ASSUME TypeOK, CopiesWanted, NEW h \in Handler, NEW p \in Pool, todo'[h][p] # Absent,
         \/ \E g \in Handler :
              \/ ListFails(g) \/ PatchAnnotation(g) \/ Return(g)
              \/ \E q \in Pool : \/ UpdateInPlace(g, q) \/ RestoreInPlace(g, q)
                                \/ CreateNodePool(g, q) \/ DeleteNodePool(g, q)
         \/ \E pod \in Pod : Crash(pod)
         \/ \E q \in Pool : EditDisruption(q)
         \/ UNCHANGED vars
  PROVE  /\ todo'[h][p] = todo[h][p]
         /\ pc'[h] \in {"pools", "annotate"}
         /\ UNCHANGED <<kind, away, auto>>
<1>1. ASSUME NEW g \in Handler, ListFails(g) \/ PatchAnnotation(g) \/ Return(g)
      PROVE  /\ todo' = todo /\ UNCHANGED <<kind, away, auto>>
             /\ pc'[h] \in {"pools", "annotate"}
  BY <1>1 DEF TypeOK, CopiesWanted, ListFails, PatchAnnotation, Return, Step, NoCopies
<1>2. ASSUME NEW g \in Handler, NEW q \in Pool,
             \/ UpdateInPlace(g, q) \/ RestoreInPlace(g, q)
             \/ CreateNodePool(g, q) \/ DeleteNodePool(g, q)
      PROVE  /\ todo'[h][p] = todo[h][p] /\ UNCHANGED <<kind, away, auto>>
             /\ pc'[h] \in {"pools", "annotate"}
  <2>1. /\ todo' = [todo EXCEPT ![g][q] = Absent]
        /\ UNCHANGED <<kind, away, auto>>
        /\ pc[g] = "pools"
        /\ pc' = [pc EXCEPT ![g] = "pools"] \/ pc' = [pc EXCEPT ![g] = "annotate"]
    BY <1>2 DEF UpdateInPlace, RestoreInPlace, CreateNodePool, DeleteNodePool, Step, Reached
  <2>2. todo'[h][p] = todo[h][p]
    BY <2>1 DEF TypeOK
  <2>. QED
    BY <2>1, <2>2 DEF TypeOK, CopiesWanted
<1>3. ASSUME NEW pod \in Pod, Crash(pod)
      PROVE  /\ todo'[h][p] = todo[h][p] /\ UNCHANGED <<kind, away, auto>>
             /\ pc'[h] \in {"pools", "annotate"}
  BY <1>3 DEF TypeOK, CopiesWanted, Crash, NoCopies
<1>4. ASSUME (\E q \in Pool : EditDisruption(q)) \/ UNCHANGED vars
      PROVE  /\ todo' = todo /\ UNCHANGED <<kind, away, auto>> /\ pc' = pc
  BY <1>4 DEF EditDisruption, vars
<1>. QED
  BY <1>1, <1>2, <1>3, <1>4 DEF CopiesWanted

\* A listing makes copies of what the pools are, for the pools it wants.
LEMMA ListCopies ==
  ASSUME TypeOK, CopiesWanted, NEW g \in Handler, ListNodePools(g),
         NEW h \in Handler, NEW p \in Pool, todo'[h][p] # Absent
  PROVE  /\ UNCHANGED <<kind, away, auto>>
         /\ pc'[h] \in {"pools", "annotate"}
         /\ \/ todo'[h][p] = todo[h][p]
            \/ todo'[h][p] = pools[p] /\ wanted(h, p, pools[p])
  BY DEF TypeOK, CopiesWanted, ListNodePools, Step

LEMMA NextCopiesWanted == TypeOK /\ CopiesWanted /\ [Next]_vars => CopiesWanted'
<1>. SUFFICES ASSUME TypeOK, CopiesWanted, [Next]_vars,
                     NEW h \in Handler, NEW p \in Pool, todo'[h][p] # Absent
              PROVE  pc'[h] \in {"pools", "annotate"} /\ wanted(h, p, todo[h][p])'
  BY DEF CopiesWanted
<1>1. ASSUME NEW g \in Handler, NEW k \in Kinds, NEW id \in AwayFrom, Begin(g, k, id)
      PROVE  pc'[h] \in {"pools", "annotate"} /\ wanted(h, p, todo[h][p])'
  BY <1>1, BeginCopies DEF CopiesWanted, wanted, copiesBuiltin, deletesKss
<1>2. ASSUME NEW g \in Handler, ListNodePools(g)
      PROVE  pc'[h] \in {"pools", "annotate"} /\ wanted(h, p, todo[h][p])'
  BY <1>2, ListCopies DEF CopiesWanted, wanted, copiesBuiltin, deletesKss
<1>3. ASSUME todo'[h][p] = todo[h][p], pc'[h] \in {"pools", "annotate"},
             UNCHANGED <<kind, away, auto>>
      PROVE  pc'[h] \in {"pools", "annotate"} /\ wanted(h, p, todo[h][p])'
  BY <1>3 DEF CopiesWanted, wanted, copiesBuiltin, deletesKss
<1>. QED
  BY <1>1, <1>2, <1>3, StepCopies DEF Next, HandlerStep, AllHandled

-----------------------------------------------------------------------------
(***************************************************************************)
(* PoolsAccountedFor is inductive together with the same of the copies.    *)
(***************************************************************************)
AllAccountedFor == TypeOK /\ CopiesWanted /\ PoolsAccountedFor /\ CopiesAccountedFor

LEMMA InitAccounted == Init => AllAccountedFor
<1>. SUFFICES ASSUME Init PROVE PoolsAccountedFor /\ CopiesAccountedFor
  BY InitTypes, InitCopiesWanted DEF AllAccountedFor
<1>1. \A p \in Pool : pools[p] # Absent =>
        /\ pools[p] = InitialPools[p] 
        /\ pools[p].req => Home(p) = InList(pools[p].values)
  BY DEF Init, Home
<1>2. PoolsAccountedFor
  BY <1>1 DEF PoolsAccountedFor, Accounted
<1>3. CopiesAccountedFor
  BY DEF Init, CopiesAccountedFor, NoCopies
<1>. QED
  BY <1>2, <1>3

\* A PATCH with something accounted for keeps the pools accounted for.
LEMMA PatchAccounted ==
  ASSUME TypeOK, PoolsAccountedFor, NEW p \in Pool, NEW new, Patch(p, new),
         pools[p] # Absent => Accounted(new, p, TakenZones, GivenZones),
         NEW q \in Pool, pools'[q] # Absent
  PROVE  Accounted(pools'[q], q, TakenZones, GivenZones)
  BY DEF TypeOK, PoolsAccountedFor, Patch

\* In every step what stands in a pool is accounted for by the zones that were
\* named before it.
LEMMA StepAccounted ==
  ASSUME AllAccountedFor, [Next]_vars, NEW q \in Pool, pools'[q] # Absent
  PROVE  Accounted(pools'[q], q, TakenZones, GivenZones)
<1>. USE DEF AllAccountedFor
<1>1. ASSUME NEW h \in Handler, NEW p \in Pool, UpdateInPlace(h, p)
      PROVE  Accounted(pools'[q], q, TakenZones, GivenZones)
  <2>1. /\ todo[h][p] \in NodePool /\ away[h] \in AwayFrom
        /\ Accounted(todo[h][p], p, TakenZones, GivenZones)
    BY <1>1 DEF UpdateInPlace, TypeOK, CopiesAccountedFor
  <2>2. getZoneNameFromZoneId(away[h]) \in TakenZones
    BY <1>1 DEF UpdateInPlace, Step, Started, TakenZones
  <2>3. pools[p] # Absent =>
          Accounted(updatedPool(pools[p], todo[h][p], away[h]), p, TakenZones, GivenZones)
    BY <2>1, <2>2, AccountedUpdate DEF TypeOK
  <2>. QED
    BY <1>1, <2>3, PatchAccounted DEF UpdateInPlace
<1>2. ASSUME NEW h \in Handler, NEW p \in Pool, RestoreInPlace(h, p)
      PROVE  Accounted(pools'[q], q, TakenZones, GivenZones)
  <2>1. /\ todo[h][p] \in NodePool /\ away[h] \in AwayFrom
        /\ Accounted(todo[h][p], p, TakenZones, GivenZones)
    BY <1>2 DEF RestoreInPlace, TypeOK, CopiesAccountedFor
  <2>2. restoredZone(away[h]) \in GivenZones
    BY <1>2 DEF RestoreInPlace, Step, Started, GivenZones
  <2>3. todo[h][p].req
    <3>1. wanted(h, p, todo[h][p]) /\ kind[h] = "restore" /\ ~deletesKss(h, p)
      BY <1>2 DEF RestoreInPlace, CopiesWanted
    <3>. QED
      BY <3>1 DEF wanted, copiesBuiltin, needsRestore
  <2>4. pools[p] # Absent =>
          Accounted(restoredPool(pools[p], todo[h][p], away[h]), p, TakenZones, GivenZones)
    BY <2>1, <2>2, <2>3, AccountedRestore DEF TypeOK
  <2>. QED
    BY <1>2, <2>4, PatchAccounted DEF RestoreInPlace
<1>3. ASSUME NEW h \in Handler, PatchAnnotation(h)
      PROVE  Accounted(pools'[q], q, TakenZones, GivenZones)
  <2>1. PICK p \in cur[h] : Patch(p, annotatedPool(pools[p], markOf(h)))
    BY <1>3 DEF PatchAnnotation
  <2>2. p \in Pool
    BY DEF TypeOK
  <2>3. pools[p] # Absent =>
          Accounted(annotatedPool(pools[p], markOf(h)), p, TakenZones, GivenZones)
    BY <2>2, AccountedSame DEF TypeOK, PoolsAccountedFor
  <2>. QED
    BY <2>1, <2>2, <2>3, PatchAccounted
<1>4. ASSUME NEW h \in Handler, NEW p \in Pool, CreateNodePool(h, p)
      PROVE  Accounted(pools'[q], q, TakenZones, GivenZones)
  <2>1. /\ todo[h][p] \in NodePool /\ away[h] \in AwayFrom /\ p \in Builtin
        /\ Accounted(todo[h][p], p, TakenZones, GivenZones)
    BY <1>4 DEF CreateNodePool, copiesBuiltin, TypeOK, CopiesAccountedFor
  <2>2. getZoneNameFromZoneId(away[h]) \in TakenZones
    BY <1>4 DEF CreateNodePool, copiesBuiltin, Step, Started, TakenZones
  <2>3. Accounted(copiedPool(todo[h][p], away[h]), Kss[p], TakenZones, GivenZones)
    BY <2>1, <2>2, AccountedCopy
  <2>4. \/ pools' = pools
        \/ pools' = [pools EXCEPT ![Kss[p]] = copiedPool(todo[h][p], away[h])]
    BY <1>4 DEF CreateNodePool
  <2>. QED
    BY <2>3, <2>4 DEF TypeOK, PoolsAccountedFor
<1>5. ASSUME NEW h \in Handler, NEW p \in Pool, DeleteNodePool(h, p)
      PROVE  Accounted(pools'[q], q, TakenZones, GivenZones)
  BY <1>5 DEF DeleteNodePool, TypeOK, PoolsAccountedFor
<1>6. ASSUME NEW p \in Pool, EditDisruption(p)
      PROVE  Accounted(pools'[q], q, TakenZones, GivenZones)
  <2>1. Accounted(editedPool(pools[p]), p, TakenZones, GivenZones)
    BY <1>6, AccountedSame DEF EditDisruption, TypeOK, PoolsAccountedFor
  <2>2. pools' = [pools EXCEPT ![p] = editedPool(pools[p])]
    BY <1>6 DEF EditDisruption
  <2>. QED
    BY <2>1, <2>2 DEF TypeOK, PoolsAccountedFor
<1>7. ASSUME pools' = pools
      PROVE  Accounted(pools'[q], q, TakenZones, GivenZones)
  BY <1>7 DEF PoolsAccountedFor
<1>. QED
  BY <1>1, <1>2, <1>3, <1>4, <1>5, <1>6, <1>7
  DEF Next, HandlerStep, AllHandled, vars, Begin, ListNodePools, ListFails, Return, Crash

\* And so is every copy.
LEMMA CopyAccounted ==
  ASSUME AllAccountedFor, [Next]_vars, NEW h \in Handler, NEW p \in Pool,
         todo'[h][p] # Absent
  PROVE  Accounted(todo'[h][p], p, TakenZones, GivenZones)
<1>1. todo'[h][p] = todo[h][p] \/ todo'[h][p] = pools[p]
  BY BeginCopies, StepCopies, ListCopies DEF AllAccountedFor, Next, HandlerStep, AllHandled
<1>. QED
  BY <1>1 DEF AllAccountedFor, PoolsAccountedFor, CopiesAccountedFor

LEMMA NextAccounted == AllAccountedFor /\ [Next]_vars => AllAccountedFor'
<1>. SUFFICES ASSUME AllAccountedFor, [Next]_vars PROVE AllAccountedFor'
  OBVIOUS
<1>1. TypeOK' /\ CopiesWanted'
  BY NextTypes, NextCopiesWanted DEF AllAccountedFor
<1>2. TakenZones \subseteq TakenZones' /\ GivenZones \subseteq GivenZones'
  BY NamedZonesGrow DEF AllAccountedFor
<1>3. PoolsAccountedFor'
  BY <1>2, StepAccounted, AccountedMore DEF PoolsAccountedFor
<1>4. CopiesAccountedFor'
  BY <1>2, CopyAccounted, AccountedMore DEF CopiesAccountedFor
<1>. QED
  BY <1>1, <1>3, <1>4 DEF AllAccountedFor

-----------------------------------------------------------------------------
(***************************************************************************)
(* How often a zone stands in a list.  A restore appends its zone once, to *)
(* a copy of its own; so a pool owes its zones to the restores that have   *)
(* listed the pools, and the copy of a restore to others than itself.      *)
(***************************************************************************)
Listed(z) == {h \in RestoresOf(z) : pc[h] # "list"}

Appends         == [z \in AnyZone |-> Cardinality(Listed(z))]
OtherAppends(h) == [z \in AnyZone |-> Cardinality(Listed(z) \ {h})]

FewStarted == IsFiniteSet(Started)
PoolsWithin ==
  \A p \in Pool : pools[p] # Absent => Within(pools[p], p, Appends)
CopiesWithin ==
  \A h \in Handler, p \in Pool :
     todo[h][p] # Absent => Within(todo[h][p], p, OtherAppends(h))

AllWithin == AllAccountedFor /\ FewStarted /\ PoolsWithin /\ CopiesWithin

\* How often each operation lets a zone occur.
LEMMA Occurrences ==
  ASSUME NEW l \in ZoneList, NEW y \in AnyZone, NEW z \in AnyZone, NEW S, NEW T
  PROVE  /\ Without(l, y)[z] <= l[z]
         /\ z # y => Appended(l, y)[z] = l[z]
         /\ Appended(l, z)[z] = l[z] + 1
         /\ S \subseteq T => ListOf(S)[z] <= ListOf(T)[z]
         /\ ListOf(S)[z] \in Nat
<1>1. Without(l, y)[z] = IF z = y THEN 0 ELSE l[z]
  BY DEF Without, ZoneList
<1>2. l[z] \in Nat
  BY DEF ZoneList
<1>3. ListOf(S)[z] = (IF z \in S THEN 1 ELSE 0) /\ ListOf(T)[z] = (IF z \in T THEN 1 ELSE 0)
  BY DEF ListOf
<1>4. /\ z # y => Appended(l, y)[z] = l[z]
      /\ Appended(l, z)[z] = l[z] + 1
  BY DEF Appended, ZoneList
<1>. QED
  BY <1>1, <1>2, <1>3, <1>4

LEMMA HomeListType ==
  ASSUME NEW p \in Pool
  PROVE  HomeList(p) \in ZoneList
<1>1. CASE InitialPools[p] # Absent /\ InitialPools[p].req
  BY <1>1, PoolsAssumption DEF PoolsAssumption, HomeList, NodePool
<1>2. CASE ~(InitialPools[p] # Absent /\ InitialPools[p].req)
  BY <1>2 DEF HomeList, ListOf, ZoneList
<1>. QED
  BY <1>1, <1>2

\* Handlers are started one by one.
LEMMA NextFewStarted == TypeOK /\ FewStarted /\ [Next]_vars => FewStarted'
<1>. SUFFICES ASSUME TypeOK, FewStarted, [Next]_vars PROVE FewStarted'
  OBVIOUS
<1>1. ASSUME NEW g \in Handler, NEW k \in Kinds, NEW id \in AwayFrom, Begin(g, k, id)
      PROVE  FewStarted'
  <2>1. Started' \subseteq Started \cup {g}
    BY <1>1 DEF Begin, Step, Started, TypeOK
  <2>2. IsFiniteSet(Started \cup {g})
    BY FS_AddElement DEF FewStarted
  <2>. QED
    BY <2>1, <2>2, FS_Subset DEF FewStarted
<1>2. ASSUME Started' = Started
      PROVE  FewStarted'
  BY <1>2 DEF FewStarted
<1>3. ASSUME NEW g \in Handler, HandlerStep(g)
      PROVE  Started' = Started
  BY <1>3 DEF TypeOK, Started, HandlerStep, ListNodePools, ListFails, UpdateInPlace,
     RestoreInPlace, PatchAnnotation, CreateNodePool, DeleteNodePool, Return, Step
<1>4. ASSUME NEW pod \in Pod, Crash(pod)
      PROVE  Started' = Started
  BY <1>4 DEF TypeOK, Started, Crash, Running
<1>5. ASSUME (\E p \in Pool : EditDisruption(p)) \/ AllHandled \/ UNCHANGED vars
      PROVE  Started' = Started
  BY <1>5 DEF EditDisruption, AllHandled, vars, Started
<1>. QED
  BY <1>1, <1>2, <1>3, <1>4, <1>5 DEF Next

\* The restores that have listed only become more.
LEMMA ListedGrows ==
  ASSUME TypeOK, FewStarted, [Next]_vars, NEW z \in AnyZone
  PROVE  /\ Listed(z) \subseteq Listed(z)'
         /\ IsFiniteSet(Listed(z)) /\ IsFiniteSet(Listed(z)')
<1>1. ASSUME NEW h \in Listed(z)
      PROVE  h \in Listed(z)'
  <2>1. h \in Started /\ h \in Handler /\ pc[h] # "list"
        /\ kind[h] = "restore" /\ restoredZone(away[h]) = z
    BY <1>1 DEF Listed, RestoresOf, Started
  <2>2. h \in Started' /\ kind'[h] = kind[h] /\ away'[h] = away[h]
    BY <2>1, StartedStays
  <2>3. pc'[h] # "list"
    BY <2>1 DEF TypeOK, Started, Next, vars, Begin, HandlerStep, ListNodePools, ListFails,
       UpdateInPlace, RestoreInPlace, PatchAnnotation, CreateNodePool, DeleteNodePool,
       Return, Crash, EditDisruption, AllHandled, Step
  <2>. QED
    BY <2>1, <2>2, <2>3 DEF Listed, RestoresOf
<1>2. Listed(z) \subseteq Started /\ Listed(z)' \subseteq Started'
  BY DEF Listed, RestoresOf
<1>3. FewStarted'
  BY NextFewStarted
<1>. QED
  BY <1>1, <1>2, <1>3, FS_Subset DEF FewStarted

\* So what was within the bounds stays so.
LEMMA AppendsGrow ==
  ASSUME TypeOK, FewStarted, [Next]_vars
  PROVE  /\ Appends \in [AnyZone -> Nat] /\ Appends' \in [AnyZone -> Nat]
         /\ \A z \in AnyZone : Appends[z] <= Appends'[z]
         /\ \A h \in Handler :
              /\ OtherAppends(h) \in [AnyZone -> Nat] /\ OtherAppends(h)' \in [AnyZone -> Nat]
              /\ \A z \in AnyZone : OtherAppends(h)[z] <= OtherAppends(h)'[z]
              /\ \A z \in AnyZone : OtherAppends(h)[z] <= Appends[z]
<1>1. ASSUME NEW z \in AnyZone
      PROVE  /\ Cardinality(Listed(z)) \in Nat /\ Cardinality(Listed(z)') \in Nat
             /\ Cardinality(Listed(z)) <= Cardinality(Listed(z)')
  BY ListedGrows, FS_Subset, FS_CardinalityType
<1>2. ASSUME NEW z \in AnyZone, NEW h \in Handler
      PROVE  /\ Cardinality(Listed(z) \ {h}) \in Nat /\ Cardinality(Listed(z)' \ {h}) \in Nat
             /\ Cardinality(Listed(z) \ {h}) <= Cardinality(Listed(z)' \ {h})
             /\ Cardinality(Listed(z) \ {h}) <= Cardinality(Listed(z))
  <2>1. IsFiniteSet(Listed(z) \ {h}) /\ IsFiniteSet(Listed(z)' \ {h})
    BY ListedGrows, FS_Subset
  <2>2. /\ Listed(z) \ {h} \in SUBSET (Listed(z)' \ {h})
        /\ Listed(z) \ {h} \in SUBSET Listed(z)
    BY ListedGrows
  <2>. QED
    BY <2>1, <2>2, ListedGrows, FS_Subset, FS_CardinalityType
<1>3. /\ Appends \in [AnyZone -> Nat] /\ Appends' \in [AnyZone -> Nat]
      /\ \A z \in AnyZone : Appends[z] <= Appends'[z]
  BY <1>1 DEF Appends
<1>4. ASSUME NEW h \in Handler
      PROVE  /\ OtherAppends(h) \in [AnyZone -> Nat] /\ OtherAppends(h)' \in [AnyZone -> Nat]
             /\ \A z \in AnyZone : OtherAppends(h)[z] <= OtherAppends(h)'[z]
             /\ \A z \in AnyZone : OtherAppends(h)[z] <= Appends[z]
  BY <1>2 DEF OtherAppends, Appends
<1>. QED
  BY <1>3, <1>4

LEMMA WithinMore ==
  ASSUME NEW s \in NodePool, NEW p \in Pool, NEW m \in [AnyZone -> Nat],
         NEW n \in [AnyZone -> Nat], \A z \in AnyZone : m[z] <= n[z], Within(s, p, m)
  PROVE  Within(s, p, n)
<1>. SUFFICES ASSUME s.req, NEW z \in AnyZone
              PROVE  s.values[z] <= HomeList(p)[z] + n[z]
  BY DEF Within
<1>1. s.values[z] \in Nat /\ HomeList(p)[z] \in Nat
  BY HomeListType DEF NodePool, ZoneList
<1>. QED
  BY <1>1 DEF Within

\* A pool without a zone requirement gets no more than the zones of the cluster.
LEMMA UpdatedZonesWithin ==
  ASSUME NEW id \in AwayFrom, NEW z \in AnyZone
  PROVE  ListOf(getUpdatedZones(id))[z] <= ListOf(clusterZones)[z]
  BY ZoneTypes DEF ListOf

\* An update only takes zones out of its copy, or writes each zone once.
LEMMA UpdateWithin ==
  ASSUME NEW o \in NodePool, NEW c \in NodePool, NEW p \in Pool, NEW id \in AwayFrom,
         NEW n \in [AnyZone -> Nat], Within(c, p, n), ~c.req => HomeList(p) = ListOf(clusterZones)
  PROVE  Within(updatedPool(o, c, id), p, n)
<1>. SUFFICES ASSUME NEW z \in AnyZone
              PROVE  updatedPool(o, c, id).values[z] <= HomeList(p)[z] + n[z]
  BY DEF Within
<1>1. updatedPool(o, c, id).values = shiftedValues(c, id)
  BY DEF updatedPool, NodePool
<1>2. HomeList(p)[z] \in Nat /\ c.values \in ZoneList /\ c.values[z] \in Nat
  BY HomeListType DEF NodePool, ZoneList
<1>3. CASE c.req
  <2>1. shiftedValues(c, id)[z] <= c.values[z] /\ shiftedValues(c, id)[z] \in Nat
    BY <1>2, <1>3, ZoneTypes, Occurrences, ShiftedValues DEF shiftedValues, ZoneList
  <2>2. c.values[z] <= HomeList(p)[z] + n[z]
    BY <1>3 DEF Within
  <2>. QED
    BY <1>1, <1>2, <2>1, <2>2
<1>4. CASE ~c.req
  <2>1. shiftedValues(c, id)[z] <= HomeList(p)[z] /\ shiftedValues(c, id)[z] \in Nat
    BY <1>4, UpdatedZonesWithin, ShiftedValues DEF shiftedValues, ZoneList
  <2>. QED
    BY <1>1, <1>2, <2>1
<1>. QED
  BY <1>3, <1>4

\* A restore adds one to what its copy has of its own zone.
LEMMA RestoreWithin ==
  ASSUME NEW o \in NodePool, NEW c \in NodePool, NEW p \in Pool, NEW id \in AwayFrom,
         NEW m \in [AnyZone -> Nat], NEW n \in [AnyZone -> Nat], Within(c, p, m), c.req,
         \A z \in AnyZone : m[z] <= n[z],
         m[restoredZone(id)] + 1 <= n[restoredZone(id)]
  PROVE  Within(restoredPool(o, c, id), p, n)
<1>. SUFFICES ASSUME NEW z \in AnyZone
              PROVE  restoredPool(o, c, id).values[z] <= HomeList(p)[z] + n[z]
  BY DEF Within
<1>1. restoredPool(o, c, id).values = Appended(c.values, restoredZone(id))
  BY DEF restoredPool, NodePool
<1>2. /\ HomeList(p)[z] \in Nat /\ c.values \in ZoneList /\ c.values[z] \in Nat
      /\ restoredZone(id) \in AnyZone
  BY HomeListType, ZoneTypes DEF NodePool, ZoneList
<1>3. c.values[z] <= HomeList(p)[z] + m[z]
  BY DEF Within
<1>4. CASE z = restoredZone(id)
  <2>1. Appended(c.values, restoredZone(id))[z] = c.values[z] + 1
    BY <1>2, <1>4, Occurrences
  <2>. QED
    BY <1>1, <1>2, <1>3, <1>4, <2>1
<1>5. CASE z # restoredZone(id)
  <2>1. Appended(c.values, restoredZone(id))[z] = c.values[z]
    BY <1>2, <1>5, Occurrences
  <2>. QED
    BY <1>1, <1>2, <1>3, <2>1
<1>. QED
  BY <1>4, <1>5

LEMMA CopyWithin ==
  ASSUME NEW c \in NodePool, NEW b \in Builtin, NEW id \in AwayFrom,
         NEW n \in [AnyZone -> Nat], Within(c, b, n)
  PROVE  Within(copiedPool(c, id), Kss[b], n)
<1>1. b \in Pool /\ Kss[b] \in Pool /\ Kss[b] \in KssPools
  BY PoolsAssumption DEF PoolsAssumption, KssPools
<1>2. HomeList(b) = ListOf(clusterZones) /\ HomeList(Kss[b]) = ListOf(clusterZones)
  BY <1>1, PoolsAssumption DEF PoolsAssumption, HomeList
<1>. SUFFICES ASSUME NEW z \in AnyZone
              PROVE  copiedPool(c, id).values[z] <= HomeList(Kss[b])[z] + n[z]
  BY DEF Within
<1>3. copiedPool(c, id).values = IF c.req THEN c.values ELSE ListOf(getUpdatedZones(id))
  BY DEF copiedPool
<1>4. CASE c.req
  BY <1>2, <1>3, <1>4 DEF Within
<1>5. CASE ~c.req
  <2>1. HomeList(Kss[b])[z] \in Nat /\ ListOf(getUpdatedZones(id))[z] \in Nat
    BY <1>1, HomeListType DEF ZoneList, ListOf
  <2>. QED
    BY <1>2, <1>3, <1>5, <2>1, UpdatedZonesWithin
<1>. QED
  BY <1>4, <1>5

\* A PATCH with something within the bounds keeps the pools within them.
LEMMA PatchWithin ==
  ASSUME TypeOK, PoolsWithin, NEW p \in Pool, NEW new, Patch(p, new),
         pools[p] # Absent => Within(new, p, Appends),
         NEW q \in Pool, pools'[q] # Absent
  PROVE  Within(pools'[q], q, Appends)
  BY DEF TypeOK, PoolsWithin, Patch

\* In every step what stands in a pool is within the bounds before it.
LEMMA StepWithin ==
  ASSUME AllWithin, [Next]_vars, NEW q \in Pool, pools'[q] # Absent
  PROVE  Within(pools'[q], q, Appends)
<1>. USE DEF AllWithin, AllAccountedFor
<1>1. /\ Appends \in [AnyZone -> Nat]
      /\ \A h \in Handler : /\ OtherAppends(h) \in [AnyZone -> Nat]
                           /\ \A z \in AnyZone : OtherAppends(h)[z] <= Appends[z]
  BY AppendsGrow
<1>2. ASSUME NEW h \in Handler, NEW p \in Pool, todo[h][p] # Absent
      PROVE  /\ todo[h][p] \in NodePool /\ away[h] \in AwayFrom
             /\ Within(todo[h][p], p, OtherAppends(h)) /\ Within(todo[h][p], p, Appends)
             /\ ~todo[h][p].req => HomeList(p) = ListOf(clusterZones)
  <2>1. /\ todo[h][p] \in NodePool /\ away[h] \in AwayFrom
        /\ Within(todo[h][p], p, OtherAppends(h))
    BY <1>2 DEF TypeOK, CopiesWithin
  <2>2. Within(todo[h][p], p, Appends)
    BY <1>1, <2>1, WithinMore
  <2>3. ~todo[h][p].req => HomeList(p) = ListOf(clusterZones)
    BY <1>2 DEF CopiesAccountedFor, Accounted, HomeList
  <2>. QED
    BY <2>1, <2>2, <2>3
<1>3. ASSUME NEW h \in Handler, NEW p \in Pool, UpdateInPlace(h, p)
      PROVE  Within(pools'[q], q, Appends)
  <2>1. todo[h][p] # Absent /\ Patch(p, updatedPool(pools[p], todo[h][p], away[h]))
    BY <1>3 DEF UpdateInPlace
  <2>2. pools[p] # Absent =>
          Within(updatedPool(pools[p], todo[h][p], away[h]), p, Appends)
    BY <1>1, <1>2, <2>1, UpdateWithin DEF TypeOK
  <2>. QED
    BY <2>1, <2>2, PatchWithin
<1>4. ASSUME NEW h \in Handler, NEW p \in Pool, RestoreInPlace(h, p)
      PROVE  Within(pools'[q], q, Appends)
  <2>1. /\ todo[h][p] # Absent /\ Patch(p, restoredPool(pools[p], todo[h][p], away[h]))
        /\ kind[h] = "restore" /\ pc[h] = "pools" /\ ~deletesKss(h, p)
    BY <1>4 DEF RestoreInPlace, Step
  <2>2. todo[h][p].req
    BY <2>1 DEF CopiesWanted, wanted, copiesBuiltin, needsRestore
  <2>3. OtherAppends(h)[restoredZone(away[h])] + 1 <= Appends[restoredZone(away[h])]
    <3>1. h \in Listed(restoredZone(away[h])) /\ restoredZone(away[h]) \in AnyZone
      BY <1>2, <2>1, ZoneTypes DEF Listed, RestoresOf, Started
    <3>2. IsFiniteSet(Listed(restoredZone(away[h])))
      BY <3>1, ListedGrows
    <3>3. Cardinality(Listed(restoredZone(away[h])) \ {h})
            = Cardinality(Listed(restoredZone(away[h]))) - 1
      BY <3>1, <3>2, FS_RemoveElement
    <3>4. Cardinality(Listed(restoredZone(away[h]))) \in Nat
      BY <3>2, FS_CardinalityType
    <3>. QED
      BY <3>1, <3>3, <3>4 DEF OtherAppends, Appends
  <2>4. pools[p] # Absent =>
          Within(restoredPool(pools[p], todo[h][p], away[h]), p, Appends)
    BY <1>1, <1>2, <2>1, <2>2, <2>3, RestoreWithin DEF TypeOK
  <2>. QED
    BY <2>1, <2>4, PatchWithin
<1>5. ASSUME NEW h \in Handler, PatchAnnotation(h)
      PROVE  Within(pools'[q], q, Appends)
  <2>1. PICK p \in cur[h] : Patch(p, annotatedPool(pools[p], markOf(h)))
    BY <1>5 DEF PatchAnnotation
  <2>2. p \in Pool
    BY DEF TypeOK
  <2>3. pools[p] # Absent => Within(annotatedPool(pools[p], markOf(h)), p, Appends)
    BY <2>2 DEF TypeOK, PoolsWithin, Within, annotatedPool, NodePool
  <2>. QED
    BY <2>1, <2>2, <2>3, PatchWithin
<1>6. ASSUME NEW h \in Handler, NEW p \in Pool, CreateNodePool(h, p)
      PROVE  Within(pools'[q], q, Appends)
  <2>1. /\ todo[h][p] # Absent /\ p \in Builtin
        /\ \/ pools' = pools
           \/ pools' = [pools EXCEPT ![Kss[p]] = copiedPool(todo[h][p], away[h])]
    BY <1>6 DEF CreateNodePool, copiesBuiltin
  <2>2. Within(copiedPool(todo[h][p], away[h]), Kss[p], Appends)
    BY <1>1, <1>2, <2>1, CopyWithin
  <2>. QED
    BY <2>1, <2>2 DEF TypeOK, PoolsWithin
<1>7. ASSUME NEW h \in Handler, NEW p \in Pool, DeleteNodePool(h, p)
      PROVE  Within(pools'[q], q, Appends)
  BY <1>7 DEF DeleteNodePool, TypeOK, PoolsWithin
<1>8. ASSUME NEW p \in Pool, EditDisruption(p)
      PROVE  Within(pools'[q], q, Appends)
  <2>1. pools[p] # Absent /\ pools' = [pools EXCEPT ![p] = editedPool(pools[p])]
    BY <1>8 DEF EditDisruption
  <2>2. Within(editedPool(pools[p]), p, Appends)
    BY <2>1 DEF TypeOK, PoolsWithin, Within, editedPool, NodePool
  <2>. QED
    BY <2>1, <2>2 DEF TypeOK, PoolsWithin
<1>9. ASSUME pools' = pools
      PROVE  Within(pools'[q], q, Appends)
  BY <1>9 DEF PoolsWithin
<1>. QED
  BY <1>3, <1>4, <1>5, <1>6, <1>7, <1>8, <1>9
  DEF Next, HandlerStep, AllHandled, vars, Begin, ListNodePools, ListFails, Return, Crash

\* A copy is a pool listed by a handler that has appended nothing yet.
LEMMA CopyStaysWithin ==
  ASSUME AllWithin, [Next]_vars, NEW h \in Handler, NEW p \in Pool, todo'[h][p] # Absent
  PROVE  Within(todo'[h][p], p, OtherAppends(h)')
<1>. USE DEF AllWithin, AllAccountedFor
<1>1. /\ Appends \in [AnyZone -> Nat] 
      /\ OtherAppends(h) \in [AnyZone -> Nat] /\ OtherAppends(h)' \in [AnyZone -> Nat]
      /\ \A z \in AnyZone : OtherAppends(h)[z] <= OtherAppends(h)'[z]
  BY AppendsGrow
<1>2. ASSUME todo'[h][p] = todo[h][p]
      PROVE  Within(todo'[h][p], p, OtherAppends(h)')
  <2>1. todo[h][p] \in NodePool /\ Within(todo[h][p], p, OtherAppends(h))
    BY <1>2 DEF TypeOK, CopiesWithin
  <2>. QED
    BY <1>1, <1>2, <2>1, WithinMore
<1>3. ASSUME NEW g \in Handler, ListNodePools(g), todo'[h][p] # todo[h][p]
      PROVE  Within(todo'[h][p], p, OtherAppends(h)')
  <2>1. pc[h] = "list" /\ todo'[h][p] = pools[p] /\ pools[p] # Absent
    BY <1>3 DEF TypeOK, ListNodePools, Step
  <2>2. pools[p] \in NodePool /\ Within(pools[p], p, Appends)
    BY <2>1 DEF TypeOK, PoolsWithin
  <2>3. \A z \in AnyZone : Listed(z) \ {h} = Listed(z)
    BY <2>1 DEF Listed
  <2>4. OtherAppends(h) = Appends
    BY <2>3 DEF OtherAppends, Appends
  <2>. QED
    BY <1>1, <2>1, <2>2, <2>4, WithinMore
<1>. QED
  BY <1>2, <1>3, BeginCopies, StepCopies DEF Next, HandlerStep, AllHandled

LEMMA InitWithin == Init => AllWithin
<1>. SUFFICES ASSUME Init PROVE FewStarted /\ PoolsWithin /\ CopiesWithin
  BY InitAccounted DEF AllWithin
<1>1. Started = {} /\ FewStarted
  BY FS_EmptySet DEF Init, Started, FewStarted
<1>2. \A z \in AnyZone : Listed(z) = {}
  BY <1>1 DEF Listed, RestoresOf
<1>3. \A z \in AnyZone : Appends[z] = 0
  BY <1>2, FS_EmptySet DEF Appends
<1>4. PoolsWithin
  <2>. SUFFICES ASSUME NEW p \in Pool, pools[p] # Absent, pools[p].req, NEW z \in AnyZone
                PROVE  pools[p].values[z] <= HomeList(p)[z] + Appends[z]
    BY DEF PoolsWithin, Within
  <2>1. HomeList(p) = pools[p].values /\ HomeList(p)[z] \in Nat
    BY HomeListType DEF Init, HomeList, ZoneList
  <2>. QED
    BY <1>3, <2>1
<1>5. CopiesWithin
  BY DEF Init, CopiesWithin, NoCopies
<1>. QED
  BY <1>1, <1>4, <1>5

LEMMA NextWithin == AllWithin /\ [Next]_vars => AllWithin'
<1>. SUFFICES ASSUME AllWithin, [Next]_vars PROVE AllWithin'
  OBVIOUS
<1>1. AllAccountedFor' /\ FewStarted'
  BY NextAccounted, NextFewStarted DEF AllWithin, AllAccountedFor
<1>2. PoolsWithin'
  <2>. SUFFICES ASSUME NEW q \in Pool, pools'[q] # Absent
                PROVE  Within(pools'[q], q, Appends')
    BY DEF PoolsWithin
  <2>1. Within(pools'[q], q, Appends) /\ pools'[q] \in NodePool
    BY <1>1, StepWithin DEF AllAccountedFor, TypeOK
  <2>. QED
    BY <2>1, AppendsGrow, WithinMore DEF AllWithin, AllAccountedFor
<1>3. CopiesWithin'
  BY CopyStaysWithin DEF CopiesWithin
<1>. QED
  BY <1>1, <1>2, <1>3 DEF AllWithin

\* In the end the restores that have listed are among all that were started.
LEMMA WithinAccounted == AllWithin => ZonesAccountedFor
<1>. SUFFICES ASSUME AllWithin, NEW p \in Pool, pools[p] # Absent
              PROVE  Within(pools[p], p, [z \in AnyZone |-> Cardinality(RestoresOf(z))])
  BY DEF ZonesAccountedFor, AllWithin, AllAccountedFor
<1>1. ASSUME NEW z \in AnyZone
      PROVE  /\ Cardinality(Listed(z)) \in Nat /\ Cardinality(RestoresOf(z)) \in Nat
             /\ Cardinality(Listed(z)) <= Cardinality(RestoresOf(z))
  <2>1. RestoresOf(z) \in SUBSET Started /\ Listed(z) \in SUBSET RestoresOf(z)
    BY DEF RestoresOf, Listed
  <2>2. IsFiniteSet(RestoresOf(z))
    BY <2>1, FS_Subset DEF AllWithin, FewStarted
  <2>. QED
    BY <2>1, <2>2, FS_Subset, FS_CardinalityType
<1>2. pools[p] \in NodePool /\ Within(pools[p], p, Appends)
  BY DEF AllWithin, AllAccountedFor, TypeOK, PoolsWithin
<1>3. /\ Appends \in [AnyZone -> Nat]
      /\ [z \in AnyZone |-> Cardinality(RestoresOf(z))] \in [AnyZone -> Nat]
      /\ \A z \in AnyZone :
           Appends[z] <= [y \in AnyZone |-> Cardinality(RestoresOf(y))][z]
  BY <1>1 DEF Appends
<1>. QED
  BY <1>2, <1>3, WithinMore

\* Whatever the queue delivers and whatever calls fail, no pool loses a zone
\* that no update named, gains one that no restore named or one more often than
\* restores named it, or loses its zone requirement.
THEOREM ZonesAreAccountedFor == Spec => []ZonesAccountedFor
  BY InitWithin, NextWithin, WithinAccounted, PTL DEF Spec

-----------------------------------------------------------------------------
(***************************************************************************)
(* Pools that are not to be written.                                       *)
(***************************************************************************)

\* An edit of the owner, and nothing else, is what SameButEdits allows for.
LEMMA SameEdited ==
  ASSUME NEW s \in NodePool \cup {Absent}, NEW t \in NodePool \cup {Absent},
         SameButEdits(s, t)
  PROVE  /\ t # Absent => SameButEdits(s, editedPool(t))
         /\ t # Absent => s # Absent /\ t.mark = s.mark
<1>1. CASE s = Absent
  BY <1>1 DEF SameButEdits
<1>2. CASE s # Absent
  <2>1. s \in NodePool /\ t \in NodePool /\ t = [s EXCEPT !.rev = t.rev]
    BY <1>2, PoolsAssumption DEF SameButEdits, PoolsAssumption
  <2>2. t.mark = s.mark
    BY <2>1 DEF NodePool
  <2>3. editedPool(t) \in NodePool
    BY <2>1 DEF NodePool, editedPool
  <2>4. editedPool(t) = [s EXCEPT !.rev = editedPool(t).rev]
    BY <2>1 DEF NodePool, editedPool
  <2>. QED
    BY <1>2, <2>2, <2>3, <2>4, PoolsAssumption DEF SameButEdits, PoolsAssumption
<1>. QED
  BY <1>1, <1>2

AllRestores == \A h \in Started : kind[h] = "restore"

\* With restores alone nothing is ever listed for writing.
NothingToWrite ==
  /\ TypeOK /\ CopiesWanted
  /\ AllRestores => /\ \A p \in Pool : SameButEdits(InitialPools[p], pools[p])
                    /\ \A h \in Handler, p \in Pool : todo[h][p] = Absent
                    /\ \A h \in Handler : cur[h] = {}

LEMMA InitSame == Init => \A p \in Pool : SameButEdits(InitialPools[p], pools[p])
  BY PoolsAssumption DEF PoolsAssumption, Init, SameButEdits, NodePool

LEMMA InitNothing == Init => NothingToWrite
<1>1. Init => /\ \A h \in Handler, p \in Pool : todo[h][p] = Absent
              /\ \A h \in Handler : cur[h] = {}
  BY DEF Init, NoCopies
<1>. QED
  BY <1>1, InitTypes, InitCopiesWanted, InitSame DEF NothingToWrite

\* Neither a pool without annotation nor a temporary copy that is not there
\* can be wanted by a restore.
LEMMA RestoreWantsNothing ==
  ASSUME TypeOK, NEW h \in Handler, kind[h] = "restore", NEW p \in Pool, pools[p] # Absent,
         SameButEdits(InitialPools[p], pools[p])
  PROVE  ~wanted(h, p, pools[p])
<1>1. /\ InitialPools[p] \in NodePool \cup {Absent} /\ pools[p] \in NodePool \cup {Absent}
      /\ InitialPools[p] # Absent => InitialPools[p].mark = {}
  BY PoolsAssumption DEF PoolsAssumption, TypeOK
<1>2. InitialPools[p] # Absent /\ pools[p].mark = {}
  BY <1>1, SameEdited
<1>3. ~deletesKss(h, p)
  BY <1>2, PoolsAssumption DEF PoolsAssumption, deletesKss
<1>. QED
  BY <1>2, <1>3 DEF wanted, copiesBuiltin, needsRestore

LEMMA NextNothing == NothingToWrite /\ [Next]_vars => NothingToWrite'
<1>. SUFFICES ASSUME NothingToWrite, [Next]_vars, AllRestores'
              PROVE  /\ (\A p \in Pool : SameButEdits(InitialPools[p], pools[p]))'
                     /\ (\A h \in Handler, p \in Pool : todo[h][p] = Absent)'
                     /\ (\A h \in Handler : cur[h] = {})'
  BY NextTypes, NextCopiesWanted DEF NothingToWrite
<1>. USE DEF NothingToWrite
<1>1. AllRestores
  BY StartedStays DEF AllRestores
<1>2. ASSUME NEW h \in Handler, NEW p \in Pool, todo'[h][p] # Absent
      PROVE  FALSE
  <2>1. ASSUME NEW g \in Handler, ListNodePools(g)
        PROVE  FALSE
    <3>1. pools[p] # Absent /\ wanted(h, p, pools[p]) /\ g = h
      BY <1>1, <1>2, <2>1 DEF TypeOK, ListNodePools
    <3>2. kind[h] = "restore"
      BY <1>1, <2>1, <3>1 DEF AllRestores, Started, ListNodePools, Step
    <3>. QED
      BY <1>1, <3>1, <3>2, RestoreWantsNothing
  <2>. QED
    BY <1>1, <1>2, <2>1, BeginCopies, StepCopies DEF Next, HandlerStep, AllHandled
<1>3. ASSUME NEW p \in Pool, EditDisruption(p)
      PROVE  /\ \A q \in Pool : SameButEdits(InitialPools[q], pools'[q])
             /\ cur' = cur
  <2>1. /\ InitialPools[p] \in NodePool \cup {Absent} /\ pools[p] \in NodePool \cup {Absent}
        /\ pools[p] # Absent /\ pools' = [pools EXCEPT ![p] = editedPool(pools[p])]
    BY <1>3, PoolsAssumption DEF EditDisruption, TypeOK, PoolsAssumption
  <2>2. SameButEdits(InitialPools[p], editedPool(pools[p]))
    BY <1>1, <2>1, SameEdited
  <2>. QED
    BY <1>1, <1>3, <2>1, <2>2 DEF EditDisruption, TypeOK
<1>4. ASSUME pools' = pools
      PROVE  \A p \in Pool : SameButEdits(InitialPools[p], pools'[p])
  BY <1>1, <1>4
<1>5. \/ pools' = pools /\ \A h \in Handler : cur'[h] = {}
      \/ \E p \in Pool : EditDisruption(p)
  BY <1>1
  DEF Next, HandlerStep, AllHandled, vars, Begin, ListNodePools, ListFails, UpdateInPlace,
      RestoreInPlace, PatchAnnotation, CreateNodePool, DeleteNodePool, Return, Crash
<1>. QED
  BY <1>1, <1>2, <1>3, <1>4, <1>5

\* Without any update a restore, however often it is delivered, writes no pool.
THEOREM RestoresAloneAreHarmless == Spec => []RestoreAloneChangesNothing
<1>1. NothingToWrite => RestoreAloneChangesNothing
  BY DEF NothingToWrite, AllRestores, RestoreAloneChangesNothing
<1>. QED
  BY <1>1, InitNothing, NextNothing, PTL DEF Spec

-----------------------------------------------------------------------------
\* Every handler so far knows that the cluster runs in Auto Mode.
ModeKnown == AutoCluster /\ \A h \in Started : auto[h]

\* Then built-in pools are listed only to be copied, and never annotated.
OnlyCopied ==
  /\ TypeOK /\ CopiesWanted
  /\ ModeKnown => \A b \in Builtin :
       /\ SameButEdits(InitialPools[b], pools[b])
       /\ \A h \in Handler : todo[h][b] # Absent => kind[h] = "shift"
       /\ \A h \in Handler : b \notin cur[h]

LEMMA BuiltinNames ==
  ASSUME NEW b \in Builtin
  PROVE  b \in Pool /\ b \notin KssPools
  BY PoolsAssumption DEF PoolsAssumption, KssPools

LEMMA InitOnlyCopied == Init => OnlyCopied
<1>1. Init => \A b \in Builtin, h \in Handler : todo[h][b] = Absent /\ b \notin cur[h]
  BY BuiltinNames DEF Init, NoCopies
<1>. QED
  BY <1>1, InitTypes, InitCopiesWanted, InitSame, BuiltinNames DEF OnlyCopied

LEMMA NextOnlyCopied == OnlyCopied /\ [Next]_vars => OnlyCopied'
<1>. SUFFICES ASSUME OnlyCopied, [Next]_vars, ModeKnown', NEW b \in Builtin
              PROVE  /\ SameButEdits(InitialPools[b], pools[b])'
                     /\ \A h \in Handler : todo'[h][b] # Absent => kind'[h] = "shift"
                     /\ \A h \in Handler : b \notin cur'[h]
  BY NextTypes, NextCopiesWanted DEF OnlyCopied
<1>. USE DEF OnlyCopied
<1>1. ModeKnown
  BY StartedStays DEF ModeKnown
<1>2. /\ SameButEdits(InitialPools[b], pools[b])
      /\ \A h \in Handler : todo[h][b] # Absent => kind[h] = "shift"
      /\ \A h \in Handler : b \notin cur[h]
      /\ b \in Pool /\ b \notin KssPools
  BY <1>1, BuiltinNames
<1>3. ASSUME NEW h \in Handler, todo'[h][b] # Absent
      PROVE  kind'[h] = "shift"
  <2>1. ASSUME NEW g \in Handler, ListNodePools(g)
        PROVE  kind'[h] = "shift"
    <3>1. /\ kind' = kind
          /\ \/ todo'[h][b] = todo[h][b]
             \/ g = h /\ pools[b] # Absent /\ wanted(h, b, pools[b])
      <4>1. CASE g = h
        BY <1>2, <1>3, <2>1, <4>1 DEF TypeOK, ListNodePools
      <4>2. CASE g # h
        BY <2>1, <4>2 DEF TypeOK, ListNodePools
      <4>. QED
        BY <4>1, <4>2
    <3>2. wanted(h, b, pools[b]) => kind[h] \in Kinds
      BY DEF wanted, copiesBuiltin, deletesKss, Kinds
    <3>3. ~(kind[h] = "restore" /\ pools[b] # Absent /\ wanted(h, b, pools[b]))
      BY <1>2, RestoreWantsNothing
    <3>. QED
      BY <1>2, <1>3, <3>1, <3>2, <3>3 DEF Kinds
  <2>. QED
    BY <1>2, <1>3, <2>1, BeginCopies, StepCopies DEF Next, HandlerStep, AllHandled
<1>4. ASSUME NEW h \in Handler, NEW p \in Pool, UpdateInPlace(h, p) \/ RestoreInPlace(h, p)
      PROVE  pools'[b] = pools[b] /\ \A g \in Handler : b \notin cur'[g]
  <2>1. p # b
    BY <1>1, <1>2, <1>4 DEF UpdateInPlace, RestoreInPlace, copiesBuiltin, ModeKnown, Started, Step
  <2>2. pools'[b] = pools[b]
    BY <1>2, <1>4, <2>1 DEF UpdateInPlace, RestoreInPlace, Patch, TypeOK
  <2>3. cur' = [cur EXCEPT ![h] = {p}]
    BY <1>4 DEF UpdateInPlace, RestoreInPlace
  <2>. QED
    BY <1>2, <2>1, <2>2, <2>3 DEF TypeOK
<1>5. ASSUME NEW h \in Handler, PatchAnnotation(h)
      PROVE  pools'[b] = pools[b] /\ \A g \in Handler : b \notin cur'[g]
  <2>1. pools'[b] = pools[b]
    BY <1>2, <1>5 DEF PatchAnnotation, Patch, TypeOK
  <2>2. cur' = [cur EXCEPT ![h] = {}]
    BY <1>5 DEF PatchAnnotation
  <2>. QED
    BY <1>2, <2>1, <2>2 DEF TypeOK
<1>6. ASSUME NEW h \in Handler, NEW p \in Pool, CreateNodePool(h, p) \/ DeleteNodePool(h, p)
      PROVE  pools'[b] = pools[b] /\ cur' = cur
  <2>1. /\ cur' = cur
        /\ \/ pools' = pools
           \/ \E q \in KssPools, new \in NodePool \cup {Absent} : pools' = [pools EXCEPT ![q] = new]
    <3>1. CASE CreateNodePool(h, p)
      <4>1. p \in Builtin /\ todo[h][p] \in NodePool /\ away[h] \in AwayFrom
        BY <3>1 DEF CreateNodePool, copiesBuiltin, TypeOK
      <4>2. p \in Builtin /\ copiedPool(todo[h][p], away[h]) \in NodePool
        BY <4>1, WrittenPools
      <4>3. Kss[p] \in KssPools
        BY <4>2 DEF KssPools
      <4>. QED
        BY <3>1, <4>2, <4>3 DEF CreateNodePool
    <3>2. CASE DeleteNodePool(h, p)
      BY <3>2 DEF DeleteNodePool, deletesKss
    <3>. QED
      BY <1>6, <3>1, <3>2
  <2>. QED
    BY <1>2, <2>1 DEF TypeOK
<1>7. ASSUME NEW p \in Pool, EditDisruption(p)
      PROVE  SameButEdits(InitialPools[b], pools'[b]) /\ cur' = cur
  <2>1. /\ InitialPools[b] \in NodePool \cup {Absent} /\ pools[b] \in NodePool \cup {Absent}
        /\ pools[p] # Absent /\ pools' = [pools EXCEPT ![p] = editedPool(pools[p])]
    BY <1>2, <1>7, PoolsAssumption DEF EditDisruption, TypeOK, PoolsAssumption
  <2>2. pools[b] # Absent => SameButEdits(InitialPools[b], editedPool(pools[b]))
    BY <1>2, <2>1, SameEdited
  <2>. QED
    BY <1>2, <1>7, <2>1, <2>2 DEF EditDisruption, TypeOK
<1>8. ASSUME \/ UNCHANGED vars \/ \E pod \in Pod : Crash(pod)
             \/ \E h \in Handler : ListNodePools(h) \/ ListFails(h) \/ Return(h)
             \/ \E h \in Handler, k \in Kinds, id \in AwayFrom : Begin(h, k, id)
      PROVE  pools' = pools /\ \A g \in Handler : b \notin cur'[g]
  BY <1>2, <1>8 DEF vars, Crash, ListNodePools, ListFails, Return, Begin
<1>9. SameButEdits(InitialPools[b], pools'[b]) /\ \A g \in Handler : b \notin cur'[g]
  BY <1>2, <1>4, <1>5, <1>6, <1>7, <1>8 DEF Next, HandlerStep, AllHandled
<1>. QED
  BY <1>3, <1>9

\* Where Auto Mode is recognised, no event ever writes a pool that EKS manages.
THEOREM BuiltinPoolsAreUntouched == Spec => []BuiltinPoolsUntouched
<1>1. OnlyCopied => BuiltinPoolsUntouched
  BY DEF OnlyCopied, ModeKnown, BuiltinPoolsUntouched
<1>. QED
  BY <1>1, InitOnlyCopied, NextOnlyCopied, PTL DEF Spec

-----------------------------------------------------------------------------
\* An owner's edit is undone only by an update that listed the pool before it.
THEOREM EditsAreLostOnlyToStaleShifts == Spec => EditLostOnlyToStaleShift
<1>1. ASSUME TypeOK, [Next]_vars, NEW p \in Pool, EditLost(p)
      PROVE  StaleShift(p)
  <2>1. pools[p] \in NodePool /\ pools[p].rev \in Nat
    BY <1>1 DEF TypeOK, NodePool, EditLost
  <2>2. ASSUME NEW h \in Handler, NEW q \in Pool, UpdateInPlace(h, q)
        PROVE  StaleShift(p)
    <3>1. todo[h][q] \in NodePool
      BY <1>1, <2>2 DEF UpdateInPlace, TypeOK
    <3>2. q = p /\ pools'[p] = updatedPool(pools[p], todo[h][p], away[h])
      BY <1>1, <2>1, <2>2 DEF UpdateInPlace, Patch, TypeOK, EditLost
    <3>3. pools'[p].rev = todo[h][p].rev
      BY <2>1, <3>2 DEF updatedPool, NodePool
    <3>. QED
      BY <2>2, <3>2, <3>3 DEF UpdateInPlace, StaleShift
  <2>3. ASSUME NEW q \in Pool, NEW new, Patch(q, new),
               pools[q] # Absent => new.rev = pools[q].rev
        PROVE  FALSE
    BY <1>1, <2>1, <2>3 DEF Patch, TypeOK, EditLost
  <2>4. ASSUME NEW h \in Handler, NEW q \in Pool, RestoreInPlace(h, q)
        PROVE  FALSE
    <3>1. pools[q] # Absent =>
            restoredPool(pools[q], todo[h][q], away[h]).rev = pools[q].rev
      BY <1>1 DEF TypeOK, NodePool, restoredPool
    <3>. QED
      BY <2>3, <2>4, <3>1 DEF RestoreInPlace
  <2>5. ASSUME NEW h \in Handler, PatchAnnotation(h)
        PROVE  FALSE
    <3>1. PICK q \in cur[h] : Patch(q, annotatedPool(pools[q], markOf(h)))
      BY <2>5 DEF PatchAnnotation
    <3>2. q \in Pool
      BY <1>1 DEF TypeOK
    <3>3. pools[q] # Absent => annotatedPool(pools[q], markOf(h)).rev = pools[q].rev
      BY <1>1, <3>2 DEF TypeOK, NodePool, annotatedPool
    <3>. QED
      BY <2>3, <3>1, <3>2, <3>3
  <2>6. ASSUME NEW h \in Handler, NEW q \in Pool, CreateNodePool(h, q) \/ DeleteNodePool(h, q)
        PROVE  FALSE
    BY <1>1, <2>1, <2>6 DEF CreateNodePool, DeleteNodePool, TypeOK, EditLost
  <2>7. ASSUME NEW q \in Pool, EditDisruption(q)
        PROVE  FALSE
    <3>1. pools[q] \in NodePool /\ pools' = [pools EXCEPT ![q] = editedPool(pools[q])]
      BY <1>1, <2>7 DEF EditDisruption, TypeOK
    <3>2. editedPool(pools[q]).rev = pools[q].rev + 1
      BY <3>1 DEF editedPool, NodePool
    <3>. QED
      BY <1>1, <2>1, <3>1, <3>2 DEF TypeOK, EditLost
  <2>8. pools' # pools
    BY <1>1, <2>1 DEF EditLost
  <2>. QED
    BY <1>1, <2>2, <2>4, <2>5, <2>6, <2>7, <2>8
    DEF Next, HandlerStep, AllHandled, vars, Begin, ListNodePools, ListFails, Return, Crash
<1>2. TypeOK /\ [Next]_vars => [\A p \in Pool : EditLost(p) => StaleShift(p)]_vars
  BY <1>1
<1>. QED
  BY <1>2, TypeCorrect, PTL DEF Spec, EditLostOnlyToStaleShift
-----------------------------------------------------------------------------
(***************************************************************************)
(* One shift, delivered any number of times.                               *)
(***************************************************************************)
OneShift == OnlyUpdates /\ \A g, h \in Started : away[g] = away[h]

\* While no call has failed, every handler knows whether the cluster runs in Auto
\* Mode; and the copies of built-in pools have no zone requirement.
ModeAnswered == faults = 0 => \A h \in Started : auto[h] = AutoCluster
CopiesPlain  ==
  ModeKnown => \A b \in Builtin, h \in Handler : todo[h][b] # Absent => ~todo[h][b].req

\* Once a handler has listed the pools, each one is without the zone or is still to be
\* written by this handler, whatever the others do.
Shifted(o, z) == o.req /\ z \notin InList(o.values)
Pledged(h, p) ==
  LET z == getZoneNameFromZoneId(away[h])
  IN  /\ pc[h] \in {"pools", "annotate", "done"} /\ z # NoZone
      /\ ~copiesBuiltin(h, p) /\ pools[p] # Absent /\ HasOtherZone(p, z)
      => Shifted(pools[p], z) \/ todo[h][p] # Absent

ShiftInv ==
  /\ AllAccountedFor /\ OnlyCopied /\ ModeAnswered /\ CopiesPlain
  /\ OneShift => \A h \in Handler, p \in Pool : Pledged(h, p)

LEMMA InitShift == Init => ShiftInv
<1>. SUFFICES ASSUME Init PROVE ShiftInv
  OBVIOUS
<1>1. AllAccountedFor /\ OnlyCopied
  BY InitAccounted, InitOnlyCopied
<1>2. ModeAnswered /\ \A h \in Handler, p \in Pool : Pledged(h, p)
  BY DEF Init, ModeAnswered, Started, Pledged
<1>3. CopiesPlain
  BY BuiltinNames DEF Init, CopiesPlain, NoCopies
<1>. QED  BY <1>1, <1>2, <1>3 DEF ShiftInv

LEMMA NextModeAnswered ==
  TypeOK /\ ModeAnswered /\ [Next]_vars => ModeAnswered'
<1>. SUFFICES ASSUME TypeOK, ModeAnswered, [Next]_vars, faults' = 0, NEW h \in Started'
              PROVE  auto'[h] = AutoCluster
  BY DEF ModeAnswered
<1>1. faults = 0
  BY HandlerAssumption DEF HandlerAssumption, TypeOK, Next, vars, Begin, HandlerStep,
     ListNodePools, ListFails, UpdateInPlace, RestoreInPlace, PatchAnnotation, Patch,
     CreateNodePool, DeleteNodePool, Return, Crash, EditDisruption, AllHandled, ApiFault
<1>2. CASE h \in Started
  BY <1>1, <1>2, StartedStays DEF ModeAnswered
<1>3. CASE h \notin Started
  <2>1. h \in Handler /\ pc[h] = "idle" /\ pc'[h] # "idle"
    BY <1>3 DEF Started
  <2>2. PICK k \in Kinds, id \in AwayFrom : Begin(h, k, id)
    BY <2>1 DEF TypeOK, Next, vars, Begin, HandlerStep, ListNodePools, ListFails,
       UpdateInPlace, RestoreInPlace, PatchAnnotation, CreateNodePool, DeleteNodePool,
       Return, Crash, EditDisruption, AllHandled, Step, Running
  <2>. QED
    BY <1>1, <2>1, <2>2 DEF TypeOK, Begin, ApiFault
<1>. QED  BY <1>2, <1>3

\* A built-in pool that nobody has written has no zone requirement.
LEMMA BuiltinPlain ==
  ASSUME OnlyCopied, ModeKnown, NEW b \in Builtin, pools[b] # Absent
  PROVE  ~pools[b].req
<1>1. /\ SameButEdits(InitialPools[b], pools[b]) /\ b \in Pool
      /\ InitialPools[b] \in NodePool \cup {Absent}
      /\ InitialPools[b] # Absent => ~InitialPools[b].req
  BY BuiltinNames, PoolsAssumption DEF OnlyCopied, PoolsAssumption
<1>2. InitialPools[b] \in NodePool /\ pools[b] = [InitialPools[b] EXCEPT !.rev = pools[b].rev]
  BY <1>1 DEF SameButEdits
<1>3. pools[b].req = InitialPools[b].req
  BY <1>2 DEF NodePool
<1>. QED  BY <1>1, <1>2, <1>3, PoolsAssumption DEF PoolsAssumption

LEMMA NextCopiesPlain ==
  AllAccountedFor /\ OnlyCopied /\ CopiesPlain /\ [Next]_vars => CopiesPlain'
<1>. SUFFICES ASSUME AllAccountedFor, OnlyCopied, CopiesPlain, [Next]_vars, ModeKnown',
                     NEW b \in Builtin, NEW h \in Handler, todo'[h][b] # Absent
              PROVE  ~todo'[h][b].req
  BY DEF CopiesPlain
<1>1. ModeKnown
  BY StartedStays DEF ModeKnown, OnlyCopied
<1>2. b \in Pool
  BY BuiltinNames
<1>3. todo'[h][b] = todo[h][b] \/ todo'[h][b] = pools[b]
  BY <1>2, BeginCopies, StepCopies, ListCopies
  DEF AllAccountedFor, Next, HandlerStep, AllHandled
<1>. QED  BY <1>1, <1>3, BuiltinPlain DEF CopiesPlain

\* What an update writes is without the zone, and has another one to offer, so it is
\* not refused.
LEMMA UpdateShifts ==
  ASSUME NEW o \in NodePool, NEW s \in NodePool, NEW p \in Pool, NEW id \in AwayFrom,
         NEW T, NEW G, Accounted(s, p, T, G), T \subseteq {getZoneNameFromZoneId(id)},
         getZoneNameFromZoneId(id) # NoZone, HasOtherZone(p, getZoneNameFromZoneId(id))
  PROVE  /\ Shifted(updatedPool(o, s, id), getZoneNameFromZoneId(id))
         /\ ~refused(updatedPool(o, s, id))
<1>. DEFINE u == updatedPool(o, s, id)
            z == getZoneNameFromZoneId(id)
<1>1. u.req = TRUE /\ u.values = shiftedValues(s, id)
  BY DEF updatedPool, NodePool
<1>2. PICK y \in Home(p) : y # z
  BY DEF HasOtherZone
<1>3. CASE s.req
  <2>1. InList(u.values) = InList(s.values) \ {z}
    BY <1>1, <1>3, ShiftedValues
  <2>2. y \in InList(s.values)
    BY <1>2, <1>3 DEF Accounted
  <2>. QED  BY <1>1, <1>2, <2>1, <2>2 DEF Shifted, refused
<1>4. CASE ~s.req
  <2>1. InList(u.values) = getUpdatedZones(id)
    BY <1>1, <1>4, ShiftedValues
  <2>2. Home(p) = clusterZones
    BY <1>4 DEF Accounted, Home
  <2>3. y \in getUpdatedZones(id) /\ z \notin getUpdatedZones(id)
    BY <1>2, <2>2 DEF getUpdatedZones
  <2>. QED  BY <1>1, <2>1, <2>3 DEF Shifted, refused
<1>. QED  BY <1>3, <1>4

\* So is the temporary copy of a built-in pool.
LEMMA CopyShifts ==
  ASSUME NEW s \in NodePool, ~s.req, NEW b \in Builtin, NEW id \in AwayFrom,
         getZoneNameFromZoneId(id) # NoZone,
         HasOtherZone(Kss[b], getZoneNameFromZoneId(id))
  PROVE  Shifted(copiedPool(s, id), getZoneNameFromZoneId(id))
<1>. DEFINE u == copiedPool(s, id)
<1>1. Kss[b] \in KssPools /\ Kss[b] \in Pool
  BY PoolsAssumption DEF PoolsAssumption, KssPools
<1>2. Home(Kss[b]) = clusterZones
  BY <1>1, PoolsAssumption DEF PoolsAssumption, Home
<1>3. u.req = TRUE /\ u.values = ListOf(getUpdatedZones(id))
  BY DEF copiedPool
<1>4. InList(u.values) = getUpdatedZones(id)
  BY <1>3, ZoneTypes DEF ListOf, InList
<1>5. getZoneNameFromZoneId(id) \notin getUpdatedZones(id)
  BY <1>2 DEF HasOtherZone, getUpdatedZones
<1>. QED  BY <1>3, <1>4, <1>5 DEF Shifted

\* One event only has been handled so far if that will still be so after the step.
LEMMA OneShiftBefore ==
  ASSUME TypeOK, [Next]_vars, OneShift'
  PROVE  OneShift /\ faults = 0
<1>1. faults = 0
  BY HandlerAssumption DEF HandlerAssumption, TypeOK, Next, vars, Begin, HandlerStep,
     ListNodePools, ListFails, UpdateInPlace, RestoreInPlace, PatchAnnotation, Patch,
     CreateNodePool, DeleteNodePool, Return, Crash, EditDisruption, AllHandled, ApiFault,
     OneShift, OnlyUpdates
<1>2. \A h \in Started : h \in Started' /\ kind'[h] = kind[h] /\ away'[h] = away[h]
  BY StartedStays
<1>. QED  BY <1>1, <1>2 DEF OneShift, OnlyUpdates
\* A step that changes the zones of a pool which is not to be copied takes the zone out.
LEMMA StepShifts ==
  ASSUME ShiftInv, [Next]_vars, OneShift', NEW h \in Started, NEW p \in Pool,
         getZoneNameFromZoneId(away[h]) # NoZone, pools'[p] # Absent,
         HasOtherZone(p, getZoneNameFromZoneId(away[h]))
  PROVE  \/ Shifted(pools'[p], getZoneNameFromZoneId(away[h]))
         \/ /\ pools[p] # Absent /\ pools'[p].req = pools[p].req
            /\ pools'[p].values = pools[p].values
<1>. USE DEF ShiftInv, AllAccountedFor
<1>. DEFINE z == getZoneNameFromZoneId(away[h])
            Zoned == /\ pools[p] # Absent /\ pools'[p].req = pools[p].req
                     /\ pools'[p].values = pools[p].values
<1>1. OneShift /\ faults = 0
  BY OneShiftBefore
<1>2. /\ \A g \in Started : away[g] = away[h] /\ kind[g] = "shift" /\ auto[g] = AutoCluster
      /\ h \in Handler /\ away[h] \in AwayFrom
      /\ TakenZones \subseteq {z}
  BY <1>1 DEF OneShift, OnlyUpdates, ModeAnswered, TypeOK, Started, TakenZones
<1>3. ASSUME NEW g \in Handler, NEW q \in Pool, UpdateInPlace(g, q)
      PROVE  Shifted(pools'[p], z) \/ Zoned
  <2>1. CASE pools'[p] = pools[p]
    BY <2>1
  <2>2. CASE pools'[p] # pools[p]
    <3>1. /\ q = p /\ pools[p] # Absent /\ away[g] = away[h]
          /\ pools'[p] = updatedPool(pools[p], todo[g][p], away[h])
      BY <1>2, <1>3, <2>2 DEF UpdateInPlace, Patch, TypeOK, Step, Started
    <3>2. todo[g][p] \in NodePool /\ Accounted(todo[g][p], p, TakenZones, GivenZones)
      BY <1>3, <3>1 DEF UpdateInPlace, TypeOK, CopiesAccountedFor
    <3>. QED
      BY <1>2, <3>1, <3>2, UpdateShifts DEF TypeOK
  <2>. QED  BY <2>1, <2>2
<1>4. ASSUME NEW g \in Handler, PatchAnnotation(g)
      PROVE  Zoned
  <2>1. PICK q \in cur[g] : Patch(q, annotatedPool(pools[q], markOf(g)))
    BY <1>4 DEF PatchAnnotation
  <2>2. q \in Pool
    BY DEF TypeOK
  <2>3. /\ pools[p] # Absent
        /\ pools'[p] = pools[p] \/ pools'[p] = annotatedPool(pools[p], markOf(g))
    BY <2>1, <2>2 DEF Patch, TypeOK
  <2>. QED
    BY <2>3 DEF TypeOK, annotatedPool, NodePool
<1>5. ASSUME NEW g \in Handler, NEW q \in Pool, CreateNodePool(g, q)
      PROVE  Shifted(pools'[p], z) \/ Zoned
  <2>1. CASE pools'[p] = pools[p]
    BY <2>1
  <2>2. CASE pools'[p] # pools[p]
    <3>1. q \in Builtin /\ Kss[q] = p /\ away[g] = away[h] /\ todo[g][q] \in NodePool
      BY <1>2, <1>5, <2>2
      DEF CreateNodePool, copiesBuiltin, TypeOK, Step, Started
    <3>2. pools'[p] = copiedPool(todo[g][q], away[h])
      BY <1>5, <2>2, <3>1 DEF CreateNodePool, TypeOK
    <3>3. ModeKnown
      BY <1>2, <1>5 DEF CreateNodePool, copiesBuiltin, Step, Started, ModeKnown
    <3>4. ~todo[g][q].req
      BY <1>5, <3>1, <3>3 DEF CreateNodePool, CopiesPlain
    <3>. QED
      BY <1>2, <3>1, <3>2, <3>4, CopyShifts
  <2>. QED  BY <2>1, <2>2
<1>6. ASSUME NEW q \in Pool, EditDisruption(q)
      PROVE  Zoned
  <2>1. /\ pools[p] # Absent
        /\ pools'[p] = pools[p] \/ pools'[p] = editedPool(pools[p])
    BY <1>6 DEF EditDisruption, TypeOK
  <2>. QED
    BY <2>1 DEF TypeOK, editedPool, NodePool
<1>7. ASSUME NEW g \in Handler, NEW q \in Pool, RestoreInPlace(g, q) \/ DeleteNodePool(g, q)
      PROVE  FALSE
  BY <1>2, <1>7 DEF RestoreInPlace, DeleteNodePool, deletesKss, Step, Started
<1>8. ASSUME pools' = pools
      PROVE  Zoned
  BY <1>8
<1>. QED
  BY <1>3, <1>4, <1>5, <1>6, <1>7, <1>8
  DEF Next, HandlerStep, AllHandled, vars, Begin, ListNodePools, ListFails, Return, Crash

\* A handler drops a copy when it sends the request for it, or dies.
LEMMA DroppedCopies ==
  ASSUME TypeOK, CopiesWanted, [Next]_vars, NEW h \in Handler, NEW p \in Pool,
         todo[h][p] # Absent, todo'[h][p] = Absent, pc'[h] # "dead"
  PROVE  \/ UpdateInPlace(h, p) \/ RestoreInPlace(h, p)
         \/ CreateNodePool(h, p) \/ DeleteNodePool(h, p)
<1>1. ASSUME NEW g \in Handler, NEW q \in Pool,
             \/ UpdateInPlace(g, q) \/ RestoreInPlace(g, q)
             \/ CreateNodePool(g, q) \/ DeleteNodePool(g, q)
      PROVE  g = h /\ q = p
  <2>1. todo' = [todo EXCEPT ![g][q] = Absent]
    BY <1>1 DEF UpdateInPlace, RestoreInPlace, CreateNodePool, DeleteNodePool, Reached
  <2>. QED  BY <2>1 DEF TypeOK
<1>2. ASSUME NEW g \in Handler, ListNodePools(g)
      PROVE  FALSE
  BY <1>2 DEF ListNodePools, Step, TypeOK, CopiesWanted
<1>3. ASSUME NEW pod \in Pod, Crash(pod)
      PROVE  FALSE
  BY <1>3 DEF Crash, TypeOK
<1>4. todo' # todo
  OBVIOUS
<1>. QED
  BY <1>1, <1>2, <1>3, <1>4
  DEF Next, HandlerStep, AllHandled, vars, Begin, ListFails, PatchAnnotation, Return,
      EditDisruption

\* A listed copy is dropped only once the pool has been written without the zone.
LEMMA StepPledge ==
  ASSUME clusterZones # {}, ShiftInv, [Next]_vars, OneShift',
         NEW h \in Handler, NEW p \in Pool
  PROVE  Pledged(h, p)'
<1>. USE DEF ShiftInv, AllAccountedFor
<1>. DEFINE z == getZoneNameFromZoneId(away[h])
<1>. SUFFICES ASSUME pc'[h] \in {"pools", "annotate", "done"},
                     getZoneNameFromZoneId(away'[h]) # NoZone,
                     ~copiesBuiltin(h, p)', pools'[p] # Absent,
                     HasOtherZone(p, getZoneNameFromZoneId(away'[h])), todo'[h][p] = Absent
              PROVE  Shifted(pools'[p], getZoneNameFromZoneId(away'[h]))
  BY DEF Pledged, HasOtherZone, Home, Shifted
<1>1. OneShift /\ faults = 0 /\ faults' = 0
  BY OneShiftBefore DEF OneShift, OnlyUpdates
<1>2. h \in Started
  BY DEF TypeOK, Started, Next, vars, Begin, HandlerStep, ListNodePools, ListFails,
     UpdateInPlace, RestoreInPlace, PatchAnnotation, CreateNodePool, DeleteNodePool,
     Return, Crash, EditDisruption, AllHandled, Step, Running
<1>3. /\ kind'[h] = kind[h] /\ away'[h] = away[h] /\ auto'[h] = auto[h]
      /\ kind[h] = "shift" /\ ~copiesBuiltin(h, p)
  BY <1>1, <1>2, StartedStays DEF copiesBuiltin, OneShift, OnlyUpdates
<1>4. \/ Shifted(pools'[p], z)
      \/ /\ pools[p] # Absent /\ pools'[p].req = pools[p].req
         /\ pools'[p].values = pools[p].values
  BY <1>2, <1>3, StepShifts
<1>5. ASSUME Shifted(pools[p], z), pools[p] # Absent
      PROVE  Shifted(pools'[p], z)
  BY <1>4, <1>5 DEF Shifted, InList
<1>6. CASE pc[h] = "list"
  <2>1. ListNodePools(h)
    BY <1>1, <1>6 DEF TypeOK, Next, vars, Begin, HandlerStep, ListNodePools, ListFails,
       UpdateInPlace, RestoreInPlace, PatchAnnotation, CreateNodePool, DeleteNodePool,
       Return, Crash, EditDisruption, AllHandled, Step, Running, ApiFault
  <2>2. pools[p] # Absent /\ ~wanted(h, p, pools[p]) /\ pools' = pools
    BY <2>1 DEF ListNodePools, TypeOK
  <2>3. pools[p].req /\ ~(pools[p].values[z] > 0)
    BY <1>3, <2>2 DEF wanted, needsUpdate
  <2>. QED
    BY <1>3, <2>2, <2>3 DEF Shifted, InList
<1>7. CASE pc[h] # "list"
  <2>1. pc[h] \in {"pools", "annotate", "done"}
    BY <1>2, <1>7 DEF TypeOK, Started, Next, vars, Begin, HandlerStep, ListNodePools,
       ListFails, UpdateInPlace, RestoreInPlace, PatchAnnotation, CreateNodePool,
       DeleteNodePool, Return, Crash, EditDisruption, AllHandled, Step, Running
  <2>2. CASE pools[p] = Absent
    BY <1>3, <1>4, <2>2
  <2>3. CASE pools[p] # Absent /\ todo[h][p] = Absent
    BY <1>1, <1>3, <1>5, <2>1, <2>3 DEF Pledged
  <2>4. CASE pools[p] # Absent /\ todo[h][p] # Absent
    <3>1. UpdateInPlace(h, p)
      BY <1>3, <1>7, <2>4, DroppedCopies DEF RestoreInPlace, CreateNodePool, DeleteNodePool,
         deletesKss
    <3>2. /\ todo[h][p] \in NodePool /\ away[h] \in AwayFrom
          /\ Accounted(todo[h][p], p, TakenZones, GivenZones)
      BY <2>4 DEF TypeOK, CopiesAccountedFor
    <3>3. TakenZones \subseteq {z}
      BY <1>1, <1>2 DEF OneShift, OnlyUpdates, TakenZones
    <3>4. /\ Shifted(updatedPool(pools[p], todo[h][p], away[h]), z)
          /\ ~refused(updatedPool(pools[p], todo[h][p], away[h]))
      BY <1>3, <2>4, <3>2, <3>3, UpdateShifts DEF TypeOK
    <3>5. pools'[p] = updatedPool(pools[p], todo[h][p], away[h])
      BY <1>1, <2>4, <3>1, <3>4 DEF UpdateInPlace, Patch, ApiFault, TypeOK
    <3>. QED  BY <1>3, <3>4, <3>5
  <2>. QED  BY <2>2, <2>3, <2>4
<1>. QED  BY <1>6, <1>7

\* While one event, delivered any number of times and to any number of handlers, is all
\* there is, and no call fails, a finished update has taken the zone out of every pool,
\* whoever wrote the pools and from whichever copies, in a cluster that has zones.
THEOREM RepeatedShiftsHold ==
  ASSUME clusterZones # {}
  PROVE  Spec => []RepeatedShiftHolds
<1>1. ShiftInv /\ [Next]_vars => ShiftInv'
  BY NextAccounted, NextOnlyCopied, NextModeAnswered, NextCopiesPlain, StepPledge
  DEF ShiftInv, AllAccountedFor
<1>2. ShiftInv => RepeatedShiftHolds
  <2>. SUFFICES ASSUME ShiftInv, OneShift, NEW h \in Started, NEW p \in Pool,
                       pc[h] = "done"
                PROVE  StillAway(h, p)
    BY DEF RepeatedShiftHolds, OneShift
  <2>1. h \in Handler /\ Pledged(h, p) /\ todo[h][p] = Absent
    BY DEF ShiftInv, AllAccountedFor, CopiesWanted, Started
  <2>. QED
    BY <2>1 DEF Pledged, StillAway, UpdatedInPlace, Shifted
<1>. QED  BY <1>1, <1>2, InitShift, PTL DEF Spec
=============================================================================
