\* One restore, and an operator who has cordoned a node.
SPECIFICATION Spec
CONSTANTS
  h1 = h1
  h2 = h2
  h3 = h3
  Handler = {h1}
  Node = {"n1", "n2"}
  NodeZone = {"a", "b", ""}
  zoneOf <- TwoZones
  NoZone = ""
  NotStored = NotStored
  NoTaint = NoTaint
  Missing = Missing
  MaxTrouble = 1
INVARIANTS
  OperatorCordonKept
