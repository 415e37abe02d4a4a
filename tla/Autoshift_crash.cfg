\* The pod dies while an event is handled.
SPECIFICATION SystemSpec
CONSTANTS
  h1 = h1
  h2 = h2
  h3 = h3
  h4 = h4
  h5 = h5
  NoZone = ""
  Absent = Absent
  ZoneId = {"az1", "az2"}
  ZoneName = {"a", "b"}
  zoneMapping <- Mapping2
  clusterZones = {"a", "b"}
  Pool = {"in"}
  Builtin = {}
  Kss <- NoKss
  InitialPools <- OnePool
  EmptyRefused = TRUE
  AutoCluster = FALSE
  Handler = {h1, h2, h3, h4}
  Pod = {"pod1"}
  PodOf <- OnePod
  MaxFaults = 0
  MaxEdits = 0
  ShiftZone = {"az1"}
  MaxEvents = 2
  MaxRedeliveries = 0
  Serial = TRUE
  Overlap = FALSE
  Crashes = TRUE
INVARIANTS
  RestoredWhenQuiet
