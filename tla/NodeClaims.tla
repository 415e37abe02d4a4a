------------------------------ MODULE NodeClaims ------------------------------
(***************************************************************************)
(* How the NodeStore is filled: NodeClaimController of                     *)
(* src/app/pkg/controller/controller.go.  Two goroutines write it, neither *)
(* knowing of the other: the informer's, which calls processNodeClaim for  *)
(* one notification after the other, and initializeStore, which lists the  *)
(* NodeClaims once and adds their nodes one by one.                        *)
(*                                                                         *)
(* The informer (client-go) sees every change of a NodeClaim while its     *)
(* watch is up.  When the watch broke it lists anew and compares: it finds *)
(* what is there, and of what is gone only that it is gone.                *)
(***************************************************************************)
EXTENDS NodeStore, Naturals, Sequences, FiniteSets

CONSTANTS
  Claim,       \* NodeClaims; Karpenter never uses a name twice
  labels,      \* the labels of each that name a zone: kind of label -> zone
  nodeOf,      \* the node that registers for it; names may be used again
  Steps,       \* calls that wait.ExponentialBackoff makes, 5 in the code
  MaxBreaks    \* bound: times the watch breaks

LabelKind == {"topology", "legacy", "other"}

ASSUME ClaimsAssumption ==
  /\ nodeOf \in [Claim -> Node]
  /\ DOMAIN labels = Claim
  /\ \A c \in Claim : /\ DOMAIN labels[c] \subseteq LabelKind
                      /\ \A k \in DOMAIN labels[c] : labels[c][k] \in NodeZone \ {NoZone}
  /\ Steps \in Nat /\ MaxBreaks \in Nat

VARIABLES
  claims,   \* API server: how far each NodeClaim has come
  seen,     \* the informer's cache
  watching, \* is its watch up?
  events,   \* notifications the event handler has not processed yet
  nodes,    \* the NodeStore
  pc,       \* where Run and then initializeStore are
  tries,    \* listings that initializeStore has asked for
  todo,     \* what it listed and has not added yet
  breaks,   \* how often the watch broke
  lost      \* history: claims whose deletion left their node in the store, because
            \* the watch was down or initializeStore added the node afterwards

cluster  == <<claims, seen, watching, events, breaks>>
vars     == <<cluster, nodes, pc, tries, todo, lost>>

Object   == {"created", "registered"}   \* without and with status.nodeName
Stage    == Object \cup {"unborn", "gone"}
Notice   == [type : {"add", "update", "delete", "unknown"}, claim : Claim, stage : Object]

TypeOK ==
  /\ claims \in [Claim -> Stage]
  /\ seen \in [Claim -> Object \cup {"absent"}]
  /\ watching \in BOOLEAN
  /\ events \in Seq(Notice)
  /\ nodes \in Store
  /\ pc \in {"starting", "list", "add", "done", "failed"}
  /\ tries \in 0 .. Steps
  /\ todo \subseteq Claim
  /\ breaks \in 0 .. MaxBreaks
  /\ lost \subseteq Claim

Registered == {c \in Claim : claims[c] = "registered"}

-----------------------------------------------------------------------------
(***************************************************************************)
(* The zone of a NodeClaim, looked up in two places.                       *)
(***************************************************************************)
zoneLabel(c) ==
  IF "topology" \in DOMAIN labels[c] THEN labels[c]["topology"]
  ELSE IF "legacy" \in DOMAIN labels[c] THEN labels[c]["legacy"]
  ELSE NoZone

\* A node is named after its address, which belongs to a subnet and so to one zone.
ASSUME NameAssumption ==
  \A c, d \in Claim :
    nodeOf[c] = nodeOf[d] /\ DOMAIN labels[c] # {} /\ DOMAIN labels[d] # {}
      => zoneLabel(c) = zoneLabel(d)

\* The object of a notification is used only when its status names a node and
\* its metadata has labels.
hasNode(e) == e.stage = "registered" /\ DOMAIN labels[e.claim] # {}

Added(s, e)   == AddNode(s, nodeOf[e.claim], zoneLabel(e.claim))
Removed(s, e) == RemoveNode(s, nodeOf[e.claim])

\* UpdateFunc left out: the node name comes only with an update.
processNodeClaim_OnlyAdds(s, e) ==
  IF e.type \in {"update", "unknown"} \/ ~hasNode(e) THEN s
  ELSE IF e.type = "delete" THEN Removed(s, e) ELSE Added(s, e)

\* DeleteFunc passing FALSE for isDelete.
processNodeClaim_NeverDeletes(s, e) ==
  IF e.type = "unknown" \/ ~hasNode(e) THEN s ELSE Added(s, e)

\* The object inside a tombstone, the last state the informer knew, taken for
\* the state of the claim when it was deleted.
processNodeClaim_Tombstones(s, e) ==
  IF ~hasNode(e) THEN s
  ELSE IF e.type \in {"delete", "unknown"} THEN Removed(s, e) ELSE Added(s, e)

\* AddFunc, UpdateFunc, DeleteFunc.  A tombstone (DeletedFinalStateUnknown) is
\* not an *unstructured.Unstructured, and is dropped.
processNodeClaim(s, e) ==
  IF e.type = "unknown" \/ ~hasNode(e) THEN s
  ELSE IF e.type = "delete" THEN Removed(s, e) ELSE Added(s, e)

-----------------------------------------------------------------------------
Init ==
  /\ claims \in [Claim -> {"unborn", "created", "registered"}]
  /\ \A c, d \in Registered : nodeOf[c] = nodeOf[d] => c = d
  /\ \A c \in Registered : DOMAIN labels[c] # {}
  /\ seen = [c \in Claim |-> "absent"]
  /\ watching = FALSE
  /\ events = <<>>
  /\ nodes = NewNodeStore
  /\ pc = "starting" /\ tries = 0 /\ todo = {} /\ breaks = 0
  /\ lost = {}

(***************************************************************************)
(* Karpenter, the kubelets and the API server.                             *)
(***************************************************************************)
Pending(type, c) ==
  \E i \in DOMAIN events : events[i].type = type /\ events[i].claim = c

Notify(type, c, stage) ==
  events' = Append(events, [type |-> type, claim |-> c, stage |-> stage])

\* The claim changes to an object of another stage, and the informer sees it.
Changes(c, from, to, type) ==
  /\ claims[c] = from
  /\ claims' = [claims EXCEPT ![c] = to]
  /\ IF watching
     THEN Notify(type, c, to) /\ seen' = [seen EXCEPT ![c] = to]
     ELSE UNCHANGED <<events, seen>>
  /\ UNCHANGED <<watching, breaks, nodes, pc, tries, todo, lost>>

CreateClaim(c) == Changes(c, "unborn", "created", "add")

\* A node joins; no other claim has one of that name.
RegisterNode(c) ==
  /\ DOMAIN labels[c] # {}
  /\ \A d \in Registered : nodeOf[d] # nodeOf[c]
  /\ Changes(c, "created", "registered", "update")

\* The last finalizer is gone: the claim, its node and its instance are.
DeleteClaim(c) ==
  /\ claims[c] \in Object
  /\ claims' = [claims EXCEPT ![c] = "gone"]
  /\ IF watching
     THEN /\ Notify("delete", c, claims[c])
          /\ seen' = [seen EXCEPT ![c] = "absent"]
          /\ UNCHANGED lost
     ELSE /\ lost' = lost \cup {c}
          /\ UNCHANGED <<events, seen>>
  /\ UNCHANGED <<watching, breaks, nodes, pc, tries, todo>>

(***************************************************************************)
(* The informer.                                                           *)
(***************************************************************************)
Visible(c) == IF claims[c] \in Object THEN claims[c] ELSE "absent"

\* A listing, at the start and after each break, compared with the cache claim
\* by claim.
Relist(c) ==
  /\ ~watching
  /\ seen[c] # Visible(c)
  /\ seen' = [seen EXCEPT ![c] = Visible(c)]
  /\ IF Visible(c) = "absent"
     THEN Notify("unknown", c, seen[c])
     ELSE Notify(IF seen[c] = "absent" THEN "add" ELSE "update", c, Visible(c))
  /\ UNCHANGED <<claims, watching, breaks, nodes, pc, tries, todo, lost>>

WatchBreaks ==
  /\ watching /\ breaks < MaxBreaks
  /\ watching' = FALSE
  /\ breaks' = breaks + 1
  /\ UNCHANGED <<claims, seen, events, nodes, pc, tries, todo, lost>>

\* The cache agrees with the API server: the watch goes on from there.
WatchResumes ==
  /\ ~watching /\ \A c \in Claim : seen[c] = Visible(c)
  /\ watching' = TRUE
  /\ UNCHANGED <<claims, seen, events, breaks, nodes, pc, tries, todo, lost>>

\* The event handler is called for one notification at a time, in their order.
HandleEvent ==
  /\ events # <<>>
  /\ nodes' = processNodeClaim(nodes, Head(events))
  /\ events' = Tail(events)
  /\ UNCHANGED <<claims, seen, watching, breaks, pc, tries, todo, lost>>

(***************************************************************************)
(* Run, and initializeStore.                                               *)
(***************************************************************************)
\* WaitForCacheSync returns, notifications may still be waiting.
CacheSynced ==
  /\ pc = "starting" /\ (watching \/ breaks > 0)
  /\ pc' = "list"
  /\ UNCHANGED <<cluster, nodes, tries, todo, lost>>

\* One attempt too many.
triesLeft_OneMore == tries <= Steps

triesLeft == tries < Steps

\* A listing, which may fail.
ListNodeClaims ==
  /\ pc = "list" /\ triesLeft
  /\ tries' = tries + 1
  /\ \/ /\ pc' = "add"
        /\ todo' = Registered
     \/ UNCHANGED <<pc, todo>>
  /\ UNCHANGED <<cluster, nodes, lost>>

GiveUp ==
  /\ pc = "list" /\ ~triesLeft
  /\ pc' = "failed"
  /\ UNCHANGED <<cluster, nodes, tries, todo, lost>>

\* AddNode for one listed claim, whatever became of it since.
AddListed(c) ==
  /\ pc = "add" /\ c \in todo
  /\ nodes' = AddNode(nodes, nodeOf[c], zoneLabel(c))
  /\ todo' = todo \ {c}
  /\ lost' = IF claims[c] = "gone" /\ ~Pending("delete", c) THEN lost \cup {c} ELSE lost
  /\ UNCHANGED <<cluster, pc, tries>>

Initialized ==
  /\ pc = "add" /\ todo = {}
  /\ pc' = "done"
  /\ UNCHANGED <<cluster, nodes, tries, todo, lost>>

Informer == (\E c \in Claim : Relist(c)) \/ WatchResumes
initializeStore ==
  CacheSynced \/ ListNodeClaims \/ GiveUp \/ (\E c \in Claim : AddListed(c)) \/ Initialized

\* No more claims in this instance, and nothing is left to do.
AtRest == events = <<>> /\ watching /\ pc \in {"done", "failed"}
Finished == AtRest /\ UNCHANGED vars

Next ==
  \/ \E c \in Claim : CreateClaim(c) \/ RegisterNode(c) \/ DeleteClaim(c)
  \/ Informer
  \/ WatchBreaks
  \/ HandleEvent
  \/ initializeStore
  \/ Finished

\* The informer lists and watches again until it is stopped, its goroutine and
\* initializeStore's run; claims come and go as they like.
Spec ==
  /\ Init /\ [][Next]_vars
  /\ WF_vars(Informer) /\ WF_vars(HandleEvent) /\ WF_vars(initializeStore)

-----------------------------------------------------------------------------
(***************************************************************************)
(* Properties.                                                             *)
(***************************************************************************)
Idle == events = <<>> /\ watching

\* README.md:82, "Get all nodes in the impaired AZ": when the informer has caught
\* up, a look-up finds the node of every registered NodeClaim, in its own zone,
\* whatever broken watches, names used again, dropped tombstones and listings
\* that failed or came late have done to the store.
NodesKnown ==
  Idle => \A c \in Registered : nodeOf[c] \in GetNodesByAZ(nodes, zoneLabel(c))

\* node.go:13, the store holds "the Kubernetes nodes being tracked".  When the
\* informer has caught up, a node that no NodeClaim has any more is in the store
\* only for one of two reasons: its deletion happened while the watch was down, or
\* initializeStore added it from a listing older than its deletion.
GhostsExplained ==
  Idle => \A n \in Tracked(nodes) : \E c \in Registered \cup lost : nodeOf[c] = n

\* A node that joins gets into the store of its zone, or leaves the cluster.
NodeAppears ==
  \A c \in Claim : claims[c] = "registered" ~>
    claims[c] = "gone" \/ nodeOf[c] \in GetNodesByAZ(nodes, zoneLabel(c))
=============================================================================
