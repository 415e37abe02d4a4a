\* One zone, shifted twice; the pod dies at any point, and dead deliveries come back.
SPECIFICATION SystemSpec
CONSTANTS
  h1 = h1
  h2 = h2
  h3 = h3
  h4 = h4
  h5 = h5
  NoZone = ""
  Absent = Absent
  ZoneId = {"az1", "az2"}
  ZoneName = {"a", "b"}
  zoneMapping <- Mapping2
  clusterZones = {"a", "b"}
  Pool = {"in", "free"}
  Builtin = {}
  Kss <- NoKss
  InitialPools <- TwoPools
  EmptyRefused = TRUE
  AutoCluster = FALSE
  Handler = {h1, h2, h3, h4, h5}
  Pod = {"pod1"}
  PodOf <- OnePod
  MaxFaults = 0
  MaxEdits = 0
  ShiftZone = {"az1"}
  MaxEvents = 4
  MaxRedeliveries = 1
  Serial = TRUE
  Overlap = FALSE
  Crashes = TRUE
INVARIANTS
  OnlyDyingShiftForgets
PROPERTIES
  NeverAstray
