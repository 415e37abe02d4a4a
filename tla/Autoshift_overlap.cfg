\* A second zone is shifted while the first still is; events in order, no failures.
SPECIFICATION SystemSpec
CONSTANTS
  h1 = h1
  h2 = h2
  h3 = h3
  h4 = h4
  h5 = h5
  NoZone = ""
  Absent = Absent
  ZoneId = {"az1", "az2"}
  ZoneName = {"a", "b", "c"}
  zoneMapping <- Mapping2
  clusterZones = {"a", "b", "c"}
  Pool = {"in"}
  Builtin = {}
  Kss <- NoKss
  InitialPools <- OnePool3
  EmptyRefused = TRUE
  AutoCluster = FALSE
  Handler = {h1, h2, h3, h4}
  Pod = {"pod1"}
  PodOf <- OnePod
  MaxFaults = 0
  MaxEdits = 0
  ShiftZone = {"az1", "az2"}
  MaxEvents = 4
  MaxRedeliveries = 0
  Serial = TRUE
  Overlap = TRUE
  Crashes = FALSE
INVARIANTS
  RestoredWhenQuiet
