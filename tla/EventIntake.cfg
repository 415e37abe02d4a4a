\* Two pods and two messages; two things go wrong: a call, an answer, a renewal, a pod,
\* a loop that is too slow.  The times are the smallest that meet LeaseAssumption, as
\* those of main.go do.
SPECIFICATION Spec
CONSTANTS
  Pod = {"pod1", "pod2"}
  NoPod = NoPod
  LeaseDuration = 3
  RenewDeadline = 1
  RetryPeriod = 1
  MaxTrouble = 2
  ZoneName = {"a", "b", "c"}
  Subnets <- MCSubnets
  AutoCluster = TRUE
  Message = {"event", "garbage"}
  Malformed = {"garbage"}
  NoMessage = NoMessage
  MaxReceives = 2
INVARIANTS
  TypeOK
  OneLeader
  HandledOnceUnlessTrouble
  LostOnlyAfterTrouble
  ZonesExplained
PROPERTIES
  DeliveredAsPromised
  EventsHandled
