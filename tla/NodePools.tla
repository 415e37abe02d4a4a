------------------------------ MODULE NodePools ------------------------------
(***************************************************************************)
(* The two event handlers of src/app/main.go, updateKarpenterNodePool and  *)
(* restoreKarpenterNodePool, against the NodePool objects of the           *)
(* Kubernetes API.  A handler is a goroutine: it lists the NodePools once  *)
(* and then works through the copies it got, one API call at a time, while *)
(* other handlers do the same.                                             *)
(*                                                                         *)
(* Any handler may be started with any event at any time: what the         *)
(* properties of this module say holds whatever the queue delivers.        *)
(***************************************************************************)
EXTENDS Zones, FiniteSets

CONSTANTS
  Pool,          \* names a NodePool may have
  Builtin,       \* the pools of EKS Auto Mode: general-purpose, system
  Kss,           \* built-in pool -> name of its temporary copy (name + "-kss")
  Absent,        \* "there is no such object"
  InitialPools,  \* the NodePools before the first event
  EmptyRefused,  \* does the API refuse an In requirement without values, as
                 \* Karpenter's validation rules do?
  AutoCluster,   \* is the nodeclasses.eks.amazonaws.com CRD installed?
  Handler,       \* goroutines started by "go handleEvent(event)", one per event
  Pod, PodOf,    \* the pod each of them runs in
  MaxFaults,     \* bound: API calls that fail
  MaxEdits       \* bound: edits of a pool's disruption settings by its owner

KssPools == {Kss[b] : b \in Builtin}

\* req:    is there a topology.kubernetes.io/zone requirement?
\* op:     the operator of the first one; values: its list of zones
\* mark:   the away-zones annotation: {} when absent, else {its value}
\* rev:    how many edits of its owner the disruption settings contain
\* intact: the settings still have the fields that the structs of main.go do
\*         not declare (minValues; schedule, duration and reasons of a budget)
NodePool == [req : BOOLEAN, op : {"In", "NotIn"}, values : ZoneList,
             mark : {{}} \cup {{id} : id \in AwayFrom},
             rev : Nat, intact : BOOLEAN]

\* No pool is marked and no temporary copy exists before the first event;
\* the pools EKS manages come without a zone requirement.
ASSUME PoolsAssumption ==
  /\ Absent \notin NodePool
  /\ Builtin \subseteq Pool
  /\ Kss \in [Builtin -> Pool \ Builtin]
  /\ \A a, b \in Builtin : Kss[a] = Kss[b] => a = b
  /\ InitialPools \in [Pool -> NodePool \cup {Absent}]
  /\ \A p \in Pool : InitialPools[p] # Absent => InitialPools[p].mark = {}
  /\ \A p \in Builtin : InitialPools[p] # Absent => ~InitialPools[p].req
  /\ \A p \in KssPools : InitialPools[p] = Absent

ASSUME HandlerAssumption ==
  /\ PodOf \in [Handler -> Pod]
  /\ AutoCluster \in BOOLEAN /\ EmptyRefused \in BOOLEAN
  /\ MaxFaults \in Nat /\ MaxEdits \in Nat

VARIABLES
  pools,   \* the NodePool objects in the API server
  pc,      \* where each handler is
  kind,    \* update ("shift") or restore ("restore"), once it is started
  away,    \* awayFrom of its event
  auto,    \* its local isAutoMode
  todo,    \* the listed copies its loop has not reached yet
  cur,     \* the pool it has patched and not annotated yet, as a set
  faults   \* API calls that have failed

vars == <<pools, pc, kind, away, auto, todo, cur, faults>>

Kinds   == {"shift", "restore"}
Started == {h \in Handler : pc[h] # "idle"}
Running == {h \in Handler : pc[h] \in {"list", "pools", "annotate"}}
NoCopies == [p \in Pool |-> Absent]

TypeOK ==
  /\ pools \in [Pool -> NodePool \cup {Absent}]
  /\ pc \in [Handler -> {"idle", "list", "pools", "annotate", "done", "dead"}]
  /\ kind \in [Handler -> Kinds \cup {"none"}]
  /\ away \in [Handler -> AwayFrom]
  /\ auto \in [Handler -> BOOLEAN]
  /\ todo \in [Handler -> [Pool -> NodePool \cup {Absent}]]
  /\ cur \in [Handler -> SUBSET Pool]
  /\ faults \in 0 .. MaxFaults

-----------------------------------------------------------------------------
(***************************************************************************)
(* What the loops do with one listed pool.                                 *)
(***************************************************************************)

\* The away-zone filter of an existing zone requirement, inverted.
shiftedValues_KeepsAway(s, id) ==
  IF s.req THEN ListOf(InList(s.values) \cap {getZoneNameFromZoneId(id)})
           ELSE ListOf(getUpdatedZones(id))

\* The cluster's zones instead of the pool's own.
shiftedValues_ClusterZones(s, id) == ListOf(getUpdatedZones(id))

\* The zone list the update writes: the old one without the away zone, or a
\* new one when the pool had no zone requirement.
shiftedValues(s, id) ==
  IF s.req THEN Without(s.values, getZoneNameFromZoneId(id))
           ELSE ListOf(getUpdatedZones(id))

\* Does the update write pool s at all?  An existing requirement is written
\* only when the filter made it shorter; nothing is when there are no zones.
needsUpdate(s, id) ==
  /\ clusterZones # {}
  /\ s.req => s.values[getZoneNameFromZoneId(id)] > 0

\* The test for the annotation forgotten, and the same test negated.
needsRestore_AnyPool(s)  == s.req
needsRestore_Unmarked(s) == s.mark = {} /\ s.req

\* Does the restore write pool s at all?
needsRestore(s) == s.mark # {} /\ s.req

\* What a request leaves in the object o when it was computed from the listed
\* copy s.  The update sends the whole requirements list and the disruption
\* settings, and the restore the list alone, with the event's zone appended.
updatedPool(o, s, id) ==
  [o EXCEPT !.req = TRUE, !.op = IF s.req THEN s.op ELSE "In",
            !.values = shiftedValues(s, id), !.rev = s.rev, !.intact = FALSE]

\* The restore sending the disruption settings back as well.
restoredPool_Disruption(o, s, id) ==
  [o EXCEPT !.req = TRUE, !.op = s.op,
            !.values = Appended(s.values, restoredZone(id)),
            !.rev = s.rev, !.intact = FALSE]

\* The zone appended in the branch of Auto Mode, and once more after it.
restoredPool_AppendsTwice(o, s, id) ==
  [o EXCEPT !.req = TRUE, !.op = s.op,
            !.values = Appended(Appended(s.values, restoredZone(id)), restoredZone(id)),
            !.intact = FALSE]

restoredPool(o, s, id) ==
  [o EXCEPT !.req = TRUE, !.op = s.op,
            !.values = Appended(s.values, restoredZone(id)), !.intact = FALSE]

\* The new annotation joined to the one that was there.
annotatedPool_Joins(o, m) == [o EXCEPT !.mark = @ \cup m]

annotatedPool(o, m) == [o EXCEPT !.mark = m]

\* The temporary copy of a built-in pool: marked at once, and restricted to the
\* other zones.
copiedPool(s, id) ==
  [req |-> TRUE, op |-> IF s.req THEN s.op ELSE "In",
   values |-> IF s.req THEN s.values ELSE ListOf(getUpdatedZones(id)),
   mark |-> {id}, rev |-> s.rev, intact |-> FALSE]

\* An edit of the owner, which the next listing will contain.
editedPool(o) == [o EXCEPT !.rev = @ + 1]

\* The update's annotation left out.
markOf_NeverSet(h) == {}

\* The annotation a handler writes: the update sets it, the restore removes it.
markOf(h) == IF kind[h] = "shift" THEN {away[h]} ELSE {}

\* The name test of the update left out: built-in pools are updated in place.
copiesBuiltin_Never(h, p) == FALSE

\* The name test of the restore left out.
deletesKss_Never(h, p) == FALSE

copiesBuiltin(h, p) == kind[h] = "shift"   /\ auto[h] /\ p \in Builtin
deletesKss(h, p)    == kind[h] = "restore" /\ auto[h] /\ p \in KssPools

\* Will the loop of h send a request for pool p, listed as s?
wanted(h, p, s) ==
  \/ copiesBuiltin(h, p) /\ clusterZones # {}
  \/ deletesKss(h, p)
  \/ kind[h] = "shift"   /\ ~copiesBuiltin(h, p) /\ needsUpdate(s, away[h])
  \/ kind[h] = "restore" /\ ~deletesKss(h, p)    /\ needsRestore(s)

-----------------------------------------------------------------------------
(***************************************************************************)
(* API calls.  Any of them may fail without effect, at most MaxFaults do.  *)
(* The handlers log an error and go on as after a success, so a call that  *)
(* took effect but whose answer was lost is a success here.                *)
(***************************************************************************)
ApiFault == faults < MaxFaults /\ faults' = faults + 1

refused(s) == EmptyRefused /\ s.req /\ s.op = "In" /\ InList(s.values) = {}

\* A merge PATCH that turns the object into new, if the object is there.
Patch(p, new) ==
  \/ /\ pools[p] # Absent /\ ~refused(new)
     /\ pools' = [pools EXCEPT ![p] = new]
     /\ UNCHANGED faults
  \/ /\ pools[p] # Absent => refused(new)
     /\ UNCHANGED <<pools, faults>>
  \/ ApiFault /\ UNCHANGED pools

Step(h, from, to) == pc[h] = from /\ pc' = [pc EXCEPT ![h] = to]
Reached(h, p)     == todo' = [todo EXCEPT ![h][p] = Absent]

-----------------------------------------------------------------------------
Init ==
  /\ pools = InitialPools
  /\ pc   = [h \in Handler |-> "idle"]
  /\ kind = [h \in Handler |-> "none"]
  /\ away = [h \in Handler |-> NoZone]
  /\ auto = [h \in Handler |-> FALSE]
  /\ todo = [h \in Handler |-> NoCopies]
  /\ cur  = [h \in Handler |-> {}]
  /\ faults = 0

\* A handler starts: it takes the zone from its event and asks for the CRDs.
\* listInstalledCRDs answers FALSE when the listing fails.
Begin(h, k, id) ==
  /\ Step(h, "idle", "list")
  /\ kind' = [kind EXCEPT ![h] = k]
  /\ away' = [away EXCEPT ![h] = id]
  /\ \/ auto' = [auto EXCEPT ![h] = AutoCluster] /\ UNCHANGED faults
     \/ AutoCluster /\ ApiFault /\ UNCHANGED auto
  /\ UNCHANGED <<pools, todo, cur>>

\* GET /apis/karpenter.sh/v1/nodepools.
ListNodePools(h) ==
  /\ Step(h, "list", "pools")
  /\ todo' = [todo EXCEPT ![h] =
                [p \in Pool |-> IF pools[p] # Absent /\ wanted(h, p, pools[p])
                                THEN pools[p] ELSE Absent]]
  /\ UNCHANGED <<pools, kind, away, auto, cur, faults>>

\* It fails, or building the client did: the handler returns.
ListFails(h) ==
  /\ Step(h, "list", "done")
  /\ ApiFault
  /\ UNCHANGED <<pools, kind, away, auto, todo, cur>>

\* The first PATCH of the update.
UpdateInPlace(h, p) ==
  /\ kind[h] = "shift" /\ ~copiesBuiltin(h, p)
  /\ todo[h][p] # Absent
  /\ Step(h, "pools", "annotate")
  /\ Patch(p, updatedPool(pools[p], todo[h][p], away[h]))
  /\ Reached(h, p)
  /\ cur' = [cur EXCEPT ![h] = {p}]
  /\ UNCHANGED <<kind, away, auto>>

\* The first PATCH of the restore.
RestoreInPlace(h, p) ==
  /\ kind[h] = "restore" /\ ~deletesKss(h, p)
  /\ todo[h][p] # Absent
  /\ Step(h, "pools", "annotate")
  /\ Patch(p, restoredPool(pools[p], todo[h][p], away[h]))
  /\ Reached(h, p)
  /\ cur' = [cur EXCEPT ![h] = {p}]
  /\ UNCHANGED <<kind, away, auto>>

\* The second PATCH sent again and again while the object is not found.
PatchAnnotation_RetriesNotFound(h) ==
  /\ \E p \in cur[h] :
       /\ pools[p] # Absent
       /\ Patch(p, annotatedPool(pools[p], markOf(h)))
  /\ Step(h, "annotate", "pools")
  /\ cur' = [cur EXCEPT ![h] = {}]
  /\ UNCHANGED <<kind, away, auto, todo>>

\* The second PATCH, of the annotation.  It is sent whether or not the first
\* one succeeded.
PatchAnnotation(h) ==
  /\ Step(h, "annotate", "pools")
  /\ \E p \in cur[h] : Patch(p, annotatedPool(pools[p], markOf(h)))
  /\ cur' = [cur EXCEPT ![h] = {}]
  /\ UNCHANGED <<kind, away, auto, todo>>

\* Auto Mode, update: POST a copy of a built-in pool.  It fails when the copy
\* is there already.
CreateNodePool(h, p) ==
  /\ copiesBuiltin(h, p)
  /\ todo[h][p] # Absent
  /\ Step(h, "pools", "pools")
  /\ \/ /\ pools[Kss[p]] = Absent
        /\ pools' = [pools EXCEPT ![Kss[p]] = copiedPool(todo[h][p], away[h])]
        /\ UNCHANGED faults
     \/ pools[Kss[p]] # Absent /\ UNCHANGED <<pools, faults>>
     \/ ApiFault /\ UNCHANGED pools
  /\ Reached(h, p)
  /\ UNCHANGED <<kind, away, auto, cur>>

\* Auto Mode, restore: DELETE a temporary copy.
DeleteNodePool(h, p) ==
  /\ deletesKss(h, p)
  /\ todo[h][p] # Absent
  /\ Step(h, "pools", "pools")
  /\ \/ pools' = [pools EXCEPT ![p] = Absent] /\ UNCHANGED faults
     \/ ApiFault /\ UNCHANGED pools
  /\ Reached(h, p)
  /\ UNCHANGED <<kind, away, auto, cur>>

\* The loop is through; the goroutine ends.
Return(h) ==
  /\ todo[h] = NoCopies
  /\ Step(h, "pools", "done")
  /\ UNCHANGED <<pools, kind, away, auto, todo, cur, faults>>

\* The process dies (a crash, or main returning after the lease is lost), and
\* every handler in it.
Crash(pod) ==
  LET killed == {h \in Running : PodOf[h] = pod}
  IN  /\ killed # {}
      /\ pc'   = [h \in Handler |-> IF h \in killed THEN "dead" ELSE pc[h]]
      /\ todo' = [h \in Handler |-> IF h \in killed THEN NoCopies ELSE todo[h]]
      /\ cur'  = [h \in Handler |-> IF h \in killed THEN {} ELSE cur[h]]
      /\ UNCHANGED <<pools, kind, away, auto, faults>>

\* The owner of a pool edits its disruption settings.
EditDisruption(p) ==
  /\ pools[p] # Absent
  /\ pools[p].rev < MaxEdits
  /\ pools' = [pools EXCEPT ![p] = editedPool(pools[p])]
  /\ UNCHANGED <<pc, kind, away, auto, todo, cur, faults>>

HandlerStep(h) ==
  \/ ListNodePools(h)
  \/ ListFails(h)
  \/ \E p \in Pool : \/ UpdateInPlace(h, p)
                     \/ RestoreInPlace(h, p)
                     \/ CreateNodePool(h, p)
                     \/ DeleteNodePool(h, p)
  \/ PatchAnnotation(h)
  \/ Return(h)

\* Every event has been handled: this instance of the model stops here.
AllHandled == Running = {} /\ Started = Handler /\ UNCHANGED vars

Next ==
  \/ \E h \in Handler, k \in Kinds, id \in AwayFrom : Begin(h, k, id)
  \/ \E h \in Handler : HandlerStep(h)
  \/ \E pod \in Pod : Crash(pod)
  \/ \E p \in Pool : EditDisruption(p)
  \/ AllHandled

\* The Go scheduler runs every goroutine, and every API call returns.
Spec == Init /\ [][Next]_vars /\ \A h \in Handler : WF_vars(HandlerStep(h))

-----------------------------------------------------------------------------
(***************************************************************************)
(* Properties.                                                             *)
(***************************************************************************)

\* The zones a pool listed, or could use, before the first event.
Home(p) == IF InitialPools[p] # Absent /\ InitialPools[p].req
           THEN InList(InitialPools[p].values) ELSE clusterZones

\* The zones that updates have taken away and that restores have given back.
TakenZones ==
  {getZoneNameFromZoneId(away[h]) : h \in {g \in Started : kind[g] = "shift"}}
GivenZones ==
  {restoredZone(away[h]) : h \in {g \in Started : kind[g] = "restore"}}

Accounted(s, p, taken, given) ==
  /\ s.req => /\ Home(p) \ taken \subseteq InList(s.values)
              /\ InList(s.values) \subseteq Home(p) \cup given
  /\ InitialPools[p] # Absent /\ InitialPools[p].req => s.req

PoolsAccountedFor ==
  \A p \in Pool :
     pools[p] # Absent => Accounted(pools[p], p, TakenZones, GivenZones)

\* Home as a list, and how many restores give zone z back.
HomeList(p) == IF InitialPools[p] # Absent /\ InitialPools[p].req
               THEN InitialPools[p].values ELSE ListOf(clusterZones)
RestoresOf(z) == {h \in Started : kind[h] = "restore" /\ restoredZone(away[h]) = z}

\* No zone stands in the list more often than at first and n[z] times more.
Within(s, p, n) ==
  s.req => \A z \in AnyZone : s.values[z] <= HomeList(p)[z] + n[z]

\* Whatever events arrive, in whatever order, with whatever failures: a zone
\* is missing from a pool only if some update named it, a zone is listed that
\* was not only if some restore named it, and more often than it was only by
\* one for each restore that named it; a zone requirement is never lost.
\* Stale copies written back, refused and repeated patches, copies of built-in
\* pools and misdetected modes neither take other zones along nor append twice.
ZonesAccountedFor ==
  /\ PoolsAccountedFor
  /\ \A p \in Pool : pools[p] # Absent =>
        Within(pools[p], p, [z \in AnyZone |-> Cardinality(RestoresOf(z))])

\* A handler keeps copies only between its listing and its end, and only of
\* the pools that it has a request for.
CopiesWanted ==
  \A h \in Handler, p \in Pool :
     todo[h][p] # Absent =>
       pc[h] \in {"pools", "annotate"} /\ wanted(h, p, todo[h][p])

\* PoolsAccountedFor of the copies that are still to be written back.
CopiesAccountedFor ==
  \A h \in Handler, p \in Pool :
     todo[h][p] # Absent => Accounted(todo[h][p], p, TakenZones, GivenZones)

SameButEdits(s, t) ==
  IF s = Absent THEN t = Absent ELSE t # Absent /\ t = [s EXCEPT !.rev = t.rev]

\* A restore event without any update before it (the update was lost, or
\* there was nothing to do) changes no pool: the annotation guards the append.
RestoreAloneChangesNothing ==
  (\A h \in Started : kind[h] = "restore") =>
     \A p \in Pool : SameButEdits(InitialPools[p], pools[p])

\* In a cluster whose Auto Mode every handler has recognised, the pools that
\* EKS manages are never written, by updates or by restores: only copies are.
BuiltinPoolsUntouched ==
  (AutoCluster /\ \A h \in Started : auto[h]) =>
     \A b \in Builtin : SameButEdits(InitialPools[b], pools[b])

\* The update must find somewhere else to run: pools whose only zone is the
\* impaired one are refused by Karpenter, or fall back to all zones.
HasOtherZone(p, z) == Home(p) \ {z} # {}

\* The pools a handler updates in place.
UpdatedInPlace(h, p) ==
  pools[p] # Absent /\ ~copiesBuiltin(h, p) /\ (pools[p].req => pools[p].op = "In")

\* What update h removed from pool p, or left out of it, is still out of it.
StillAway(h, p) ==
  LET z == getZoneNameFromZoneId(away[h])
  IN  z # NoZone /\ UpdatedInPlace(h, p) /\ HasOtherZone(p, z)
      => pools[p].req /\ z \notin InList(pools[p].values)

OnlyUpdates == faults = 0 /\ \A g \in Started : kind[g] = "shift"

\* README.md:4, "the controller will remove the impaired zone from the list of
\* zones": while there are only updates and no call fails, the zone of a
\* finished update is out of every pool.
FinishedShiftHolds ==
  OnlyUpdates => \A h \in Started, p \in Pool : pc[h] = "done" => StillAway(h, p)

\* The same when all the updates name one zone: an update event that comes
\* several times may be handled concurrently, from copies listed before and
\* after each other's patches, and half done by a handler that died.
RepeatedShiftHolds ==
  (OnlyUpdates /\ \A g, h \in Started : away[g] = away[h]) =>
     \A h \in Started, p \in Pool : pc[h] = "done" => StillAway(h, p)

\* An edit of p's owner is gone, and some update had listed p without it.
EditLost(p) ==
  pools[p] # Absent /\ pools'[p] # Absent /\ pools'[p].rev < pools[p].rev
StaleShift(p) ==
  \E h \in Handler : /\ kind[h] = "shift" /\ todo[h][p] # Absent
                    /\ todo[h][p].rev = pools'[p].rev

\* An owner's edit of the disruption settings can be undone only by an update
\* that listed the pool before the edit; restores leave those settings alone.
EditLostOnlyToStaleShift ==
  [][\A p \in Pool : EditLost(p) => StaleShift(p)]_vars

\* Every handler ends, however its calls fail and whatever objects disappear
\* under it: no API call is retried.
HandlersFinish ==
  \A h \in Handler : pc[h] = "list" ~> pc[h] \in {"done", "dead"}
=============================================================================
