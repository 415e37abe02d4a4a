\* Two shifts one after the other in a cluster in Auto Mode, one event delivered
\* twice, nothing fails.
SPECIFICATION SystemSpec
CONSTANTS
  h1 = h1
  h2 = h2
  h3 = h3
  h4 = h4
  h5 = h5
  NoZone = ""
  Absent = Absent
  ZoneId = {"az1", "az2"}
  ZoneName = {"a", "b"}
  zoneMapping <- Mapping2
  clusterZones = {"a", "b"}
  Pool = {"system", "system-kss", "in", "free", "one"}
  Builtin = {"system"}
  Kss <- KssOfSystem
  InitialPools <- AutoPools
  EmptyRefused = TRUE
  AutoCluster = TRUE
  Handler = {h1, h2, h3, h4, h5}
  Pod = {"pod1"}
  PodOf <- OnePod
  MaxFaults = 0
  MaxEdits = 0
  ShiftZone = {"az1", "az2"}
  MaxEvents = 4
  MaxRedeliveries = 1
  Serial = TRUE
  Overlap = FALSE
  Crashes = FALSE
INVARIANTS
  SystemTypeOK
  MissingZoneIsMarked
  RestoredWhenQuiet
  KssFollowsShift
PROPERTIES
  KeepsPromise
  EventuallyRestored
