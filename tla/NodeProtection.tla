---------------------------- MODULE NodeProtection ----------------------------
(***************************************************************************)
(* What the two event handlers do to Node objects, through the             *)
(* NodeClaimController of src/app/pkg/controller/controller.go:            *)
(* AnnotateAndCordonNodes and RemoveProtectionFromNodes when               *)
(* do-not-disrupt is enabled, TaintNodesInAZ and RemoveTaintFromNodes in   *)
(* Auto Mode when it is not.                                               *)
(*                                                                         *)
(* A handler looks up the nodes of a zone once and then changes each with  *)
(* GETs and PUTs.  A PUT carries the resourceVersion of its GET, so it     *)
(* conflicts with every change in between; no call is repeated, and after  *)
(* an error the node is left as it is.                                     *)
(***************************************************************************)
EXTENDS NodeStore, Naturals, FiniteSets

CONSTANTS
  Handler,     \* goroutines started by "go handleEvent(event)"
  zoneOf,      \* the zone of each node
  NoTaint,     \* no taint of the key zonalShiftTaintKey
  Missing,     \* "there is no such object", "nothing has been read"
  MaxTrouble   \* bound: API calls that fail, kubelets' updates that conflict,
               \* changes of nodes by others, restarts of the pod

Kinds == {"protect", "unprotect", "taint", "untaint"}

\* annotated: karpenter.sh/do-not-disrupt; cordoned: spec.unschedulable;
\* taint: the value of the away-zone taint
NodeObject == [annotated : BOOLEAN, cordoned : BOOLEAN,
               taint : NodeZone \cup {NoTaint}]

ASSUME ProtectionAssumption ==
  /\ zoneOf \in [Node -> NodeZone]
  /\ NoTaint \notin NodeZone /\ Missing \notin NodeObject
  /\ MaxTrouble \in Nat

VARIABLES
  api,        \* the Node objects in the API server
  nodes,      \* the NodeStore
  pc,         \* where each handler is
  kind, zone, \* its work, and the zone it looked up
  scope,      \* the nodes it found
  stage,      \* for each: the first or second thing still to be done, or none
  copy,       \* for each: what has been read and not written yet
  trouble,    \* calls that failed and changes from outside
  doNotDisruptEnabled,  \* the command-line flag of the running pods
  byOperator, \* history: nodes that somebody else has cordoned
  alike       \* history: handlers that have met only handlers of their kind, which
              \* had met no others either

handlers == <<pc, kind, zone, scope, stage, copy>>
vars     == <<api, nodes, handlers, trouble, doNotDisruptEnabled, byOperator, alike>>

Started == {h \in Handler : pc[h] # "idle"}
Running == {h \in Handler : pc[h] = "work"}

TypeOK ==
  /\ api \in [Node -> NodeObject \cup {Missing}]
  /\ nodes \in Store
  /\ pc \in [Handler -> {"idle", "work", "done", "dead"}]
  /\ kind \in [Handler -> Kinds \cup {"none"}]
  /\ zone \in [Handler -> NodeZone]
  /\ scope \in [Handler -> SUBSET Node]
  /\ stage \in [Handler -> [Node -> {"none", "first", "second"}]]
  /\ copy \in [Handler -> [Node -> NodeObject \cup {Missing}]]
  /\ trouble \in 0 .. MaxTrouble
  /\ doNotDisruptEnabled \in BOOLEAN
  /\ byOperator \subseteq Node
  /\ alike \subseteq Handler

-----------------------------------------------------------------------------
(***************************************************************************)
(* One change of one node, computed from the object o that was read.       *)
(***************************************************************************)
annotateNode(o)     == [o EXCEPT !.annotated = TRUE]
cordonNode(o)       == [o EXCEPT !.cordoned = TRUE]
removeAnnotation(o) == [o EXCEPT !.annotated = FALSE]
uncordonNode(o)     == [o EXCEPT !.cordoned = FALSE]
untaintNode(o)      == [o EXCEPT !.taint = NoTaint]

\* The whole taint written where its value belongs.
taintNode_KeyAndValue(o, az) == [o EXCEPT !.taint = <<"away-zone", az>>]

taintNode(o, az) == [o EXCEPT !.taint = az]

\* What the stage s of work k on zone z makes of o.
changed(k, s, z, o) ==
  CASE k = "protect"   /\ s = "first"  -> annotateNode(o)
    [] k = "protect"   /\ s # "first"  -> cordonNode(o)
    [] k = "unprotect" /\ s = "first"  -> removeAnnotation(o)
    [] k = "unprotect" /\ s # "first"  -> uncordonNode(o)
    [] k = "taint"     -> taintNode(o, z)
    [] OTHER           -> untaintNode(o)

\* Is a PUT sent at all?  annotateNode and cordonNode send one in any case.
needsWrite(k, s, o) ==
  CASE k = "protect"   -> TRUE
    [] k = "unprotect" -> IF s = "first" THEN o.annotated ELSE o.cordoned
    [] k = "taint"     -> o.taint = NoTaint
    [] OTHER           -> o.taint # NoTaint

\* An annotation that is not there taken for a node that is not protected.
following_NothingToDo(k, s, o) ==
  IF k \in {"protect", "unprotect"} /\ s = "first" /\ needsWrite(k, s, o)
  THEN "second" ELSE "none"

\* What is left to do for a node once a stage went well.
following(k, s, o) ==
  IF k \in {"protect", "unprotect"} /\ s = "first" THEN "second" ELSE "none"

-----------------------------------------------------------------------------
Init ==
  /\ api \in [Node -> {Missing, [annotated |-> FALSE, cordoned |-> FALSE,
                                 taint |-> NoTaint]}]
  /\ nodes = [n \in Node |-> IF api[n] = Missing THEN NotStored ELSE zoneOf[n]]
  /\ pc    = [h \in Handler |-> "idle"]
  /\ kind  = [h \in Handler |-> "none"]
  /\ zone  = [h \in Handler |-> NoZone]
  /\ scope = [h \in Handler |-> {}]
  /\ stage = [h \in Handler |-> [n \in Node |-> "none"]]
  /\ copy  = [h \in Handler |-> [n \in Node |-> Missing]]
  /\ trouble = 0
  /\ doNotDisruptEnabled \in BOOLEAN
  /\ byOperator = {} /\ alike = {}

Work(h) == pc[h] = "work"

\* The work ahead on node n of handler h.
Proceed(h, n, to) == stage' = [stage EXCEPT ![h][n] = to]
Forget(h, n)      == copy'  = [copy  EXCEPT ![h][n] = Missing]

Trouble == trouble < MaxTrouble /\ trouble' = trouble + 1

\* GetAllNodes called.
lookedUp_AllNodes(z) == Tracked(nodes)

\* The nodes a handler takes from the store: those of its zone.
lookedUp(z) == GetNodesByAZ(nodes, z)

\* What updateKarpenterNodePool and restoreKarpenterNodePool ask for.  The zone is
\* the empty string for an event that names none; only the taints look at that.
\* (Taints are added once for each built-in pool copied, each time a call anew.)
updateCalls(z) ==
  IF doNotDisruptEnabled THEN {"protect"} ELSE IF z # NoZone THEN {"taint"} ELSE {}
restoreCalls == IF doNotDisruptEnabled THEN {"unprotect"} ELSE {"untaint"}

\* AnnotateAndCordonNodes, RemoveProtectionFromNodes, TaintNodesInAZ or
\* RemoveTaintFromNodes is called.
Begin(h, k, z) ==
  /\ pc[h] = "idle"
  /\ k \in updateCalls(z) \cup restoreCalls
  /\ pc'    = [pc EXCEPT ![h] = "work"]
  /\ kind'  = [kind EXCEPT ![h] = k]
  /\ zone'  = [zone EXCEPT ![h] = z]
  /\ scope' = [scope EXCEPT ![h] = lookedUp(z)]
  /\ stage' = [stage EXCEPT ![h] =
                 [n \in Node |-> IF n \in lookedUp(z) THEN "first" ELSE "none"]]
  /\ alike' = {g \in alike : kind[g] = k}
                 \cup (IF \A g \in Running : g \in alike /\ kind[g] = k THEN {h} ELSE {})
  /\ UNCHANGED <<api, nodes, copy, trouble, doNotDisruptEnabled, byOperator>>

\* The GET of a stage.  Where nothing has to be written the stage is over.
Get(h, n) ==
  /\ Work(h) /\ stage[h][n] # "none" /\ copy[h][n] = Missing
  /\ \/ /\ api[n] # Missing /\ needsWrite(kind[h], stage[h][n], api[n])
        /\ copy' = [copy EXCEPT ![h][n] = api[n]]
        /\ UNCHANGED <<stage, trouble>>
     \/ /\ api[n] # Missing /\ ~needsWrite(kind[h], stage[h][n], api[n])
        /\ Proceed(h, n, following(kind[h], stage[h][n], api[n]))
        /\ UNCHANGED <<copy, trouble>>
     \/ /\ api[n] = Missing
        /\ Proceed(h, n, "none")
        /\ UNCHANGED <<copy, trouble>>
     \/ /\ Trouble
        /\ Proceed(h, n, "none")
        /\ UNCHANGED copy
  /\ UNCHANGED <<api, nodes, pc, kind, zone, scope, doNotDisruptEnabled, byOperator, alike>>

\* A PUT without a resourceVersion.
conflicts_Never(o, seen) == o = Missing

\* The object has changed since it was read, or is gone.
conflicts(o, seen) == o # seen

\* The PUT of a stage.
Update(h, n) ==
  /\ Work(h) /\ copy[h][n] # Missing
  /\ Forget(h, n)
  /\ \/ /\ ~conflicts(api[n], copy[h][n])
        /\ api' = [api EXCEPT ![n] =
                     changed(kind[h], stage[h][n], zone[h], copy[h][n])]
        /\ Proceed(h, n, following(kind[h], stage[h][n], copy[h][n]))
        /\ UNCHANGED trouble
     \/ /\ conflicts(api[n], copy[h][n])
        /\ Proceed(h, n, "none")
        /\ UNCHANGED <<api, trouble>>
     \/ /\ Trouble
        /\ Proceed(h, n, "none")
        /\ UNCHANGED api
  /\ UNCHANGED <<nodes, pc, kind, zone, scope, doNotDisruptEnabled, byOperator, alike>>

\* All nodes have been gone through (at once, when there are none).
Return(h) ==
  /\ Work(h) /\ \A n \in Node : stage[h][n] = "none"
  /\ pc' = [pc EXCEPT ![h] = "done"]
  /\ UNCHANGED <<api, nodes, kind, zone, scope, stage, copy, trouble,
                 doNotDisruptEnabled, byOperator, alike>>

-----------------------------------------------------------------------------
(***************************************************************************)
(* Others: Karpenter, the informer, operators, the pod's fate.             *)
(***************************************************************************)
NewNode == [annotated |-> FALSE, cordoned |-> FALSE, taint |-> NoTaint]

Join(n) ==
  /\ Trouble /\ api[n] = Missing
  /\ api' = [api EXCEPT ![n] = NewNode]
  /\ byOperator' = byOperator \ {n}
  /\ UNCHANGED <<nodes, handlers, doNotDisruptEnabled, alike>>

Leave(n) ==
  /\ Trouble /\ api[n] # Missing
  /\ api' = [api EXCEPT ![n] = Missing]
  /\ byOperator' = byOperator \ {n}
  /\ UNCHANGED <<nodes, handlers, doNotDisruptEnabled, alike>>

\* The store follows, in its own time.
Track(n) ==
  /\ nodes[n] = NotStored /\ api[n] # Missing
  /\ nodes' = AddNode(nodes, n, zoneOf[n])
  /\ UNCHANGED <<api, handlers, trouble, doNotDisruptEnabled, byOperator, alike>>

Untrack(n) ==
  /\ nodes[n] # NotStored /\ api[n] = Missing
  /\ nodes' = RemoveNode(nodes, n)
  /\ UNCHANGED <<api, handlers, trouble, doNotDisruptEnabled, byOperator, alike>>

\* kubectl cordon, kubectl uncordon
OperatorCordons(n) ==
  /\ Trouble /\ api[n] # Missing
  /\ api' = [api EXCEPT ![n] = cordonNode(api[n])]
  /\ byOperator' = byOperator \cup {n}
  /\ UNCHANGED <<nodes, handlers, doNotDisruptEnabled, alike>>

OperatorUncordons(n) ==
  /\ Trouble /\ api[n] # Missing
  /\ api' = [api EXCEPT ![n] = uncordonNode(api[n])]
  /\ byOperator' = byOperator \ {n}
  /\ UNCHANGED <<nodes, handlers, doNotDisruptEnabled, alike>>

\* The pod dies, or another one takes over, perhaps with another setting of the
\* flag: its handlers are gone, and the store is filled anew.
Restart ==
  /\ Trouble
  /\ doNotDisruptEnabled' \in BOOLEAN
  /\ nodes' = NewNodeStore
  /\ pc'    = [h \in Handler |-> IF Work(h) THEN "dead" ELSE pc[h]]
  /\ stage' = [h \in Handler |-> [n \in Node |-> "none"]]
  /\ copy'  = [h \in Handler |-> [n \in Node |-> Missing]]
  /\ UNCHANGED <<api, kind, zone, scope, byOperator, alike>>

Others ==
  \/ \E n \in Node : \/ Join(n) \/ Leave(n) \/ Track(n) \/ Untrack(n)
                     \/ OperatorCordons(n) \/ OperatorUncordons(n)
  \/ Restart

HandlerStep(h) == (\E n \in Node : Get(h, n) \/ Update(h, n)) \/ Return(h)

\* Every event has been handled: this instance of the model stops here.
AllHandled == Running = {} /\ Started = Handler /\ UNCHANGED vars

Next ==
  \/ \E h \in Handler, k \in Kinds, z \in NodeZone : Begin(h, k, z)
  \/ \E h \in Handler : HandlerStep(h)
  \/ Others
  \/ AllHandled

\* The Go scheduler runs every goroutine, and every API call returns.
Spec == Init /\ [][Next]_vars /\ \A h \in Handler : WF_vars(HandlerStep(h))

-----------------------------------------------------------------------------
(***************************************************************************)
(* Properties.                                                             *)
(***************************************************************************)
\* Has work k been started on the zone of n, or on all zones?
Asked(k, n) ==
  \E h \in Started : kind[h] = k /\ zone[h] \in {zoneOf[n], NoZone}

\* README.md:81-85, the nodes "in the impaired AZ" are labelled and cordoned: a node
\* is annotated only if some shift named its zone or no zone at all, cordoned only if
\* that or an operator did, and carries the away-zone taint only of its own zone, and
\* only after a shift of that zone.  No other node is touched, however look-ups,
\* stale copies, restarts and returning names mix.
OnlyImpairedZone ==
  \A n \in Node : api[n] # Missing =>
    /\ api[n].annotated => Asked("protect", n)
    /\ api[n].cordoned => Asked("protect", n) \/ n \in byOperator
    /\ api[n].taint # NoTaint => Asked("taint", n) /\ api[n].taint = zoneOf[n]

\* An operator's cordon is undone only by a restore: a shift that read the node
\* before it was cordoned does not write it back as it was.
CordonSurvivesShift ==
  (\A h \in Started : kind[h] # "unprotect") =>
    \A n \in byOperator : api[n] # Missing => api[n].cordoned

\* What work k is for.
achieved(k, n) ==
  CASE k = "protect"   -> api[n].annotated /\ api[n].cordoned
    [] k = "unprotect" -> ~api[n].annotated /\ ~api[n].cordoned
    [] k = "taint"     -> api[n].taint # NoTaint
    [] OTHER           -> api[n].taint = NoTaint

\* controller.go:219 and 299, "adds the do-not-disrupt annotation and cordons the
\* specified nodes", "removes ... and uncordons".  An event that is delivered several
\* times is handled several times at once; the handlers' writes conflict, and one that
\* meets a conflict leaves its node half done.  Still, when all of them are through
\* and nothing but they themselves made a call fail, every node they found is done.
RepeatsSettle ==
  (Running = {} /\ trouble = 0) =>
    \A h \in alike : \A n \in scope[h] : api[n] # Missing /\ achieved(kind[h], n)

\* The work that events have asked for, with its zones.
requested == {<<kind[h], zone[h]>> : h \in Started}

Atomic == INSTANCE AtomicNodes WITH object <- api, asked <- requested

\* Nobody's change of a node is lost: handlers read, compute and write in separate
\* calls, and still each write makes the one change its work is about to the node as it
\* is at that moment, for an event of the node's own zone or of none.  The
\* resourceVersion of a GET makes the two calls one step of AtomicNodes.
NoChangeLost == Atomic!Spec

\* README.md:88-90, "Find all nodes with the karpenter.sh/do-not-disrupt=true label in
\* the restored AZ", "Uncordon the nodes": a node that an operator has cordoned and no
\* shift has labelled stays cordoned.
OperatorCordonKept ==
  \A n \in byOperator :
    api[n] # Missing /\ ~Asked("protect", n) => api[n].cordoned

=============================================================================
