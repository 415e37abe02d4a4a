\* Claims come and go while the controller starts, the second under the node name of
\* the first; the watch breaks twice, and a listing may fail.
SPECIFICATION Spec
CONSTANTS
  c1 = c1
  c2 = c2
  Claim = {c1, c2}
  labels <- Labels
  nodeOf <- OneName
  Node = {"n1", "n2"}
  NodeZone = {"a", "b", ""}
  NoZone = ""
  NotStored = NotStored
  Steps = 2
  MaxBreaks = 2
INVARIANTS
  TypeOK
  NodesKnown
  GhostsExplained
PROPERTIES
  NodeAppears
