\* Every handler recognises Auto Mode or fails to: a built-in pool and its
\* copy; two pods, so that one can die while the other goes on.
SPECIFICATION Spec
CONSTANTS
  h1 = h1
  h2 = h2
  h3 = h3
  NoZone = ""
  Absent = Absent
  ZoneId = {"az1"}
  ZoneName = {"a", "b"}
  zoneMapping <- Mapping1
  clusterZones = {"a", "b"}
  Pool = {"system", "system-kss"}
  Builtin = {"system"}
  Kss <- KssOfSystem
  InitialPools <- AutoPools
  EmptyRefused = TRUE
  AutoCluster = TRUE
  Handler = {h1, h2, h3}
  Pod = {"pod1", "pod2"}
  PodOf <- TwoPods
  MaxFaults = 1
  MaxEdits = 0
INVARIANTS
  ZonesAccountedFor
  BuiltinPoolsUntouched
PROPERTIES
  HandlersFinish
