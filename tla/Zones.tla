-------------------------------- MODULE Zones --------------------------------
(***************************************************************************)
(* The zone arithmetic of src/app/main.go: the zone-ID to zone-name cache, *)
(* the list of cluster zones, and the lists of zone names that NodePool    *)
(* requirements carry.                                                     *)
(*                                                                         *)
(* zoneMapping and clusterZones are package variables that                 *)
(* initializeZoneMapping writes once, before any goroutine that reads them *)
(* is started, so they are constants here.                                 *)
(***************************************************************************)
EXTENDS Naturals

CONSTANTS
  ZoneId,        \* availability-zone IDs that events name, such as "usw2-az1"
  ZoneName,      \* availability-zone names that requirements name
  NoZone,        \* the empty string: an absent awayFrom, a failed look-up
  zoneMapping,   \* zone ID -> zone name, for the IDs the cache knows
  clusterZones   \* zone names in which the cluster has subnets

ASSUME ZonesAssumption ==
  /\ NoZone \notin ZoneId \cup ZoneName
  /\ DOMAIN zoneMapping \subseteq ZoneId
  /\ \A id \in DOMAIN zoneMapping : zoneMapping[id] \in ZoneName
  /\ clusterZones \subseteq ZoneName

\* What an event may carry as the impaired zone, and what may stand in a list.
AwayFrom == ZoneId \cup {NoZone}
AnyZone  == ZoneName \cup AwayFrom

-----------------------------------------------------------------------------
(***************************************************************************)
(* The values of a zone requirement, up to their order: how often each     *)
(* string occurs.  The order is never looked at, the length is.            *)
(***************************************************************************)
ZoneList == [AnyZone -> Nat]

ListOf(S)      == [z \in AnyZone |-> IF z \in S THEN 1 ELSE 0]
InList(l)      == {z \in AnyZone : l[z] > 0}
Without(l, z)  == [l EXCEPT ![z] = 0]        \* the filter loop
Appended(l, z) == [l EXCEPT ![z] = @ + 1]    \* append(req.Values, z)

-----------------------------------------------------------------------------
getZoneNameFromZoneId(id) ==
  IF id \in DOMAIN zoneMapping THEN zoneMapping[id] ELSE NoZone

\* getUpdatedZones with the comparison turned round.
getUpdatedZones_OnlyAway(id) == {getZoneNameFromZoneId(id)} \cap clusterZones

\* The cluster zones a pool may keep using during a shift away from zone id:
\* all of them when the zone is unknown or is the only one.
getUpdatedZones(id) ==
  LET away == getZoneNameFromZoneId(id)
      rest == clusterZones \ {away}
  IN  IF away = NoZone \/ rest = {} THEN clusterZones ELSE rest

\* The ID given back without looking its name up.
restoredZone_RawId(id) == id

\* The string restoreKarpenterNodePool gives back: the zone's name, or the
\* event's ID itself when the cache does not know it.
restoredZone(id) ==
  LET name == getZoneNameFromZoneId(id)
  IN  IF name = NoZone THEN id ELSE name
=============================================================================
