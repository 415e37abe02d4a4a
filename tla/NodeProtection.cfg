\* Three handlers with any work on either zone or on none; a call fails, and
\* somebody else changes a node or the pod is restarted.
SPECIFICATION Spec
CONSTANTS
  h1 = h1
  h2 = h2
  h3 = h3
  Handler = {h1, h2, h3}
  Node = {"n1", "n2"}
  NodeZone = {"a", "b", ""}
  zoneOf <- TwoZones
  NoZone = ""
  NotStored = NotStored
  NoTaint = NoTaint
  Missing = Missing
  MaxTrouble = 1
INVARIANTS
  TypeOK
  OnlyImpairedZone
  CordonSurvivesShift
  RepeatsSettle
PROPERTIES
  NoChangeLost
SYMMETRY HandlerSymmetry
