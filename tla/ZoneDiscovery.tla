---------------------------- MODULE ZoneDiscovery ----------------------------
(***************************************************************************)
(* How a pod finds the zones of the cluster when it starts:                *)
(* initializeZoneMapping, listInstalledCRDs and getEKSClusterZones of      *)
(* src/app/main.go.  They run once, one call after the other, and nothing  *)
(* they read changes meanwhile, so all of it is a function of the calls    *)
(* that fail.                                                              *)
(***************************************************************************)
EXTENDS FiniteSets

CONSTANTS
  ZoneName,
  Subnets,      \* the subnets of the cluster's VPC
  AutoCluster   \* is the nodeclasses.eks.amazonaws.com CRD installed?

\* tags: those that name this cluster, by kind.
Subnet == [zone : ZoneName, tags : SUBSET {"cluster", "eks", "karpenter"},
           available : BOOLEAN]

ASSUME DiscoveryAssumption == Subnets \subseteq Subnet /\ AutoCluster \in BOOLEAN

\* DescribeAvailabilityZones, the listing of the CRDs, DescribeCluster, and
\* DescribeSubnets: the first one in Auto Mode, the main one, the fallback.
Call == {"zones", "crds", "cluster", "probe", "tagged", "all"}

Tagged(tag)  == {s \in Subnets : tag \in s.tags}
Available    == {s \in Subnets : s.available}
zonesOf(S)   == {s.zone : s \in S}

\* A failed listing reads as "not Auto Mode".
isAutoMode(fails) == AutoCluster /\ "crds" \notin fails

\* The second kind of tag not tried.
taggedSubnets_FirstTagOnly(fails) ==
  IF isAutoMode(fails) THEN Tagged("cluster") ELSE Tagged("karpenter")

\* The subnets that the main DescribeSubnets finds.
\* A first call that fails is taken for one that found something.
taggedSubnets(fails) ==
  IF ~isAutoMode(fails) THEN Tagged("karpenter")
  ELSE IF "probe" \notin fails /\ Tagged("cluster") = {} THEN Tagged("eks")
  ELSE Tagged("cluster")

fallsBack(fails) == isAutoMode(fails) /\ taggedSubnets(fails) = {}

\* An error makes main call log.Fatalf.
fatal(fails) ==
  \/ fails \cap {"zones", "cluster", "tagged"} # {}
  \/ fallsBack(fails) /\ "all" \in fails

\* The slice of zone names made with a length where a capacity was meant: the names
\* are appended to empty ones.
getEKSClusterZones_MadeWithLength(fails) ==
  zonesOf(IF fallsBack(fails) THEN Available ELSE taggedSubnets(fails)) \cup {""}

getEKSClusterZones(fails) ==
  zonesOf(IF fallsBack(fails) THEN Available ELSE taggedSubnets(fails))

-----------------------------------------------------------------------------
\* What an operator who has tagged the subnets expects: in Auto Mode the first
\* kind of tag that is used at all, or every subnet; else the discovery tag.
FirstTagged ==
  IF Tagged("cluster") # {} THEN Tagged("cluster")
  ELSE IF Tagged("eks") # {} THEN Tagged("eks") ELSE Available

ExpectedZones == zonesOf(IF AutoCluster THEN FirstTagged ELSE Tagged("karpenter"))
=============================================================================
