------------------------------ MODULE NodeStore ------------------------------
(***************************************************************************)
(* The NodeStore of src/app/pkg/models/node.go: a map, under a lock, from  *)
(* the names of the nodes that Karpenter has launched to their zones.      *)
(* Every method holds the lock for its whole body, so it is one step.      *)
(***************************************************************************)
CONSTANTS
  Node,       \* node names
  NodeZone,   \* what NodeInfo.AvailabilityZone may hold
  NoZone,     \* the empty string: a node whose zone is not known
  NotStored   \* "the map has no such key"

ASSUME StoreAssumption == NoZone \in NodeZone /\ NotStored \notin NodeZone

Store == [Node -> NodeZone \cup {NotStored}]

NewNodeStore == [n \in Node |-> NotStored]

Tracked(s) == {n \in Node : s[n] # NotStored}

AddNode(s, n, az) == [s EXCEPT ![n] = az]

RemoveNode(s, n) == [s EXCEPT ![n] = NotStored]

\* The names of the nodes of zone az, or of all when az is empty.
GetNodesByAZ(s, az) ==
  IF az = NoZone THEN Tracked(s) ELSE {n \in Tracked(s) : s[n] = az}
=============================================================================
