\* Two handlers, any events, custom pools of a standard cluster, one of which
\* excludes a zone; two pods, so that one handler can die while the other goes on.
SPECIFICATION Spec
CONSTANTS
  h1 = h1
  h2 = h2
  h3 = h3
  ZoneId = {"az1", "az2", "az9"}
  ZoneName = {"a", "b"}
  NoZone = ""
  zoneMapping <- Mapping2
  clusterZones = {"a", "b"}
  Pool = {"in", "free", "not"}
  Builtin = {}
  Kss <- NoKss
  Absent = Absent
  InitialPools <- OddPools
  EmptyRefused = TRUE
  AutoCluster = FALSE
  Handler = {h1, h2}
  Pod = {"pod1", "pod2"}
  PodOf <- TwoPods
  MaxFaults = 1
  MaxEdits = 1
INVARIANTS
  TypeOK
  ZonesAccountedFor
  RepeatedShiftHolds
  RestoreAloneChangesNothing
PROPERTIES
  EditLostOnlyToStaleShift
