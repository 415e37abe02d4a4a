\* Two zones are impaired at the same time.
SPECIFICATION Spec
CONSTANTS
  h1 = h1
  h2 = h2
  h3 = h3
  NoZone = ""
  Absent = Absent
  ZoneId = {"az1", "az2"}
  ZoneName = {"a", "b", "c"}
  zoneMapping <- Mapping2
  clusterZones = {"a", "b", "c"}
  Pool = {"in"}
  Builtin = {}
  Kss <- NoKss
  InitialPools <- WidePool
  EmptyRefused = TRUE
  AutoCluster = FALSE
  Handler = {h1, h2}
  Pod = {"pod1"}
  PodOf <- OnePod
  MaxFaults = 0
  MaxEdits = 0
INVARIANTS
  FinishedShiftHolds
