---------------------------- MODULE AtomicNodes -----------------------------
(***************************************************************************)
(* Node objects as they would be if each change that a handler makes to a  *)
(* node were one step: only what has been asked for the node's zone, or    *)
(* for all, is done to a node, and nobody's change is lost.                *)
(***************************************************************************)
CONSTANTS
  Node,
  zoneOf,     \* the zone of each node
  NodeZone,
  NoZone,     \* all zones
  NoTaint,
  Missing     \* there is no such node

VARIABLES
  object,  \* the Node objects
  asked    \* the work that has been asked for, with its zones

\* Taints are asked for of a zone, everything else of all zones too.
Request == {"protect", "unprotect", "untaint"} \X NodeZone
             \cup {"taint"} \X (NodeZone \ {NoZone})

NewNode == [annotated |-> FALSE, cordoned |-> FALSE, taint |-> NoTaint]

Init == object \in [Node -> {NewNode, Missing}] /\ asked = {}

Becomes(n, o) == object' = [object EXCEPT ![n] = o] /\ UNCHANGED asked

\* More is asked for.
Ask ==
  /\ UNCHANGED object
  /\ asked \subseteq asked' /\ asked' \subseteq Request

Due(k, n) == \E z \in {zoneOf[n], NoZone} : <<k, z>> \in asked

Protect(n) ==
  /\ Due("protect", n)
  /\ \/ Becomes(n, [object[n] EXCEPT !.annotated = TRUE])
     \/ Becomes(n, [object[n] EXCEPT !.cordoned = TRUE])

Unprotect(n) ==
  /\ Due("unprotect", n)
  /\ \/ Becomes(n, [object[n] EXCEPT !.annotated = FALSE])
     \/ Becomes(n, [object[n] EXCEPT !.cordoned = FALSE])

Taint(n)   == Due("taint", n) /\ Becomes(n, [object[n] EXCEPT !.taint = zoneOf[n]])
Untaint(n) == Due("untaint", n) /\ Becomes(n, [object[n] EXCEPT !.taint = NoTaint])

Join(n)  == object[n] = Missing /\ Becomes(n, NewNode)
Leave(n) == Becomes(n, Missing)

Operate(n) == \E b \in BOOLEAN : Becomes(n, [object[n] EXCEPT !.cordoned = b])

Change(n) ==
  /\ object[n] # Missing
  /\ Protect(n) \/ Unprotect(n) \/ Taint(n) \/ Untaint(n) \/ Operate(n) \/ Leave(n)

Next ==
  \/ Ask
  \/ \E n \in Node : Change(n) \/ Join(n)

Spec == Init /\ [][Next]_<<object, asked>>
=============================================================================
