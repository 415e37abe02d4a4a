------------------------------ MODULE Autoshift ------------------------------
(***************************************************************************)
(* Zonal shifts from end to end: ARC announces that a shift begins and     *)
(* ends, an SQS queue carries the events, pollSQS of src/app/main.go hands *)
(* each to a goroutine and deletes it, and the handlers of NodePools do    *)
(* the work.                                                               *)
(*                                                                         *)
(* The constants Serial, Overlap, Crashes, MaxFaults and MaxRedeliveries   *)
(* say how well the environment behaves: the runs show under which         *)
(* behaviour the promise is kept and under which it is not.                *)
(***************************************************************************)
EXTENDS NodePools, Sequences

CONSTANTS
  ShiftZone,        \* the zone IDs that are shifted away from
  MaxEvents,        \* bound: events ARC sends
  MaxRedeliveries,  \* bound: failed deletions, after which SQS delivers again
  Serial,           \* does ARC's next event come only after the last is handled?
  Overlap,          \* may a second zone be shifted while the first one is?
  Crashes           \* may the pod die?

ASSUME EnvironmentAssumption ==
  /\ ShiftZone \subseteq ZoneId
  /\ MaxEvents \in Nat /\ MaxRedeliveries \in Nat
  /\ Serial \in BOOLEAN /\ Overlap \in BOOLEAN /\ Crashes \in BOOLEAN

VARIABLES
  active,        \* zone IDs that are shifted away from
  sent,          \* the events ARC has sent; a message is its index
  queue,         \* messages that can be received
  held,          \* pod -> the message whose goroutine its loop has started and
                 \* that it has not deleted yet, or 0
  redeliveries,
  told           \* history: zone names of shifts that handlers were started for

environment == <<active, sent>>
intake      == <<queue, held, redeliveries, told>>
allVars     == <<vars, environment, intake>>

EventType == [kind : Kinds, id : ZoneId]

SystemTypeOK ==
  /\ TypeOK
  /\ active \subseteq ShiftZone
  /\ sent \in Seq(EventType) /\ Len(sent) <= MaxEvents
  /\ queue \subseteq DOMAIN sent
  /\ held \in [Pod -> {0} \cup DOMAIN sent]
  /\ redeliveries \in 0 .. MaxRedeliveries
  /\ told \subseteq ZoneName

\* Every event that was sent has been handled.
Settled == queue = {} /\ (\A pod \in Pod : held[pod] = 0) /\ Running = {}

-----------------------------------------------------------------------------
(***************************************************************************)
(* ARC and EventBridge.                                                    *)
(***************************************************************************)
Send(k, id) ==
  /\ Len(sent) < MaxEvents
  /\ Serial => Settled
  /\ sent'  = Append(sent, [kind |-> k, id |-> id])
  /\ queue' = queue \cup {Len(sent) + 1}
  /\ UNCHANGED <<vars, held, redeliveries, told>>

\* "Autoshift In Progress", "FIS Experiment Autoshift In Progress",
\* "Practice Run Started".
StartShift(id) ==
  /\ id \notin active
  /\ active = {} \/ Overlap
  /\ active' = active \cup {id}
  /\ Send("shift", id)

\* "... Completed", "... Canceled", "Practice Run Succeeded / Interrupted /
\* Failed".
EndShift(id) ==
  /\ id \in active
  /\ active' = active \ {id}
  /\ Send("restore", id)

-----------------------------------------------------------------------------
(***************************************************************************)
(* pollSQS.  The queue is a standard one, so any message in it may be the  *)
(* next.  The handlers of a pod are alike: the first idle one is taken.    *)
(***************************************************************************)
Unused(pod) == {h \in Handler : PodOf[h] = pod /\ pc[h] = "idle"}

\* go handleEvent(event)
handleEvent(pod, n) ==
  LET h    == CHOOSE h \in Unused(pod) : TRUE
      name == getZoneNameFromZoneId(sent[n].id)
  IN  /\ n \in queue /\ held[pod] = 0 /\ Unused(pod) # {}
      /\ Begin(h, sent[n].kind, sent[n].id)
      /\ queue' = queue \ {n}
      /\ held' = [held EXCEPT ![pod] = n]
      /\ told' = IF name = NoZone THEN told
                 ELSE IF sent[n].kind = "shift" THEN told \cup {name}
                 ELSE told \ {name}
      /\ UNCHANGED <<environment, redeliveries>>

\* The deletion that pollSQS asks for next, without waiting for the goroutine.
\* If it fails the message comes back when its visibility timeout is over.
DeleteMessage(pod) ==
  /\ held[pod] # 0
  /\ held' = [held EXCEPT ![pod] = 0]
  /\ \/ UNCHANGED <<queue, redeliveries>>
     \/ /\ redeliveries < MaxRedeliveries
        /\ redeliveries' = redeliveries + 1
        /\ queue' = queue \cup {held[pod]}
  /\ UNCHANGED <<vars, environment, told>>

\* The pod dies and is started again: a message that was not deleted comes
\* back, the goroutines do not.
PodDies(pod) ==
  /\ Crashes
  /\ redeliveries < MaxRedeliveries \/ held[pod] = 0
  /\ Crash(pod)
  /\ held' = [held EXCEPT ![pod] = 0]
  /\ IF held[pod] = 0
     THEN UNCHANGED <<queue, redeliveries>>
     ELSE /\ queue' = queue \cup {held[pod]}
          /\ redeliveries' = redeliveries + 1
  /\ UNCHANGED <<environment, told>>

-----------------------------------------------------------------------------
SystemInit ==
  /\ Init
  /\ active = {} /\ sent = <<>>
  /\ queue = {} /\ redeliveries = 0 /\ told = {}
  /\ held = [pod \in Pod |-> 0]

Handling(h) == HandlerStep(h) /\ UNCHANGED <<environment, intake>>
Polling(pod) == DeleteMessage(pod) \/ \E n \in queue : handleEvent(pod, n)

\* ARC has no more to say in this instance, and everything is handled.
Finished == Settled /\ Len(sent) = MaxEvents /\ UNCHANGED allVars

SystemNext ==
  \/ \E id \in ShiftZone : StartShift(id) \/ EndShift(id)
  \/ \E pod \in Pod : Polling(pod)
  \/ \E pod \in Pod : PodDies(pod)
  \/ \E h \in Handler : Handling(h)
  \/ Finished

\* The poll loop and the goroutines keep running; ARC does what it likes.
SystemSpec ==
  /\ SystemInit /\ [][SystemNext]_allVars
  /\ \A pod \in Pod : WF_allVars(Polling(pod))
  /\ \A h \in Handler : WF_allVars(Handling(h))

-----------------------------------------------------------------------------
(***************************************************************************)
(* Properties.                                                             *)
(***************************************************************************)

\* The zones pool p may launch nodes in.  (For pools with an In requirement.)
usableZones(p) == IF pools[p].req THEN InList(pools[p].values) ELSE clusterZones

\* The pools that are updated in place and whose requirement lists zones.
InPools ==
  {p \in Pool \ Builtin : InitialPools[p] # Absent /\ InitialPools[p].op = "In"}

\* README.md:4, "remove the impaired zone from the list of zones and temporarily
\* store it in an annotation".  A zone is missing from a pool only while the
\* annotation that a restore will look for is there, or a handler is about to
\* write it: no zone is forgotten.
MissingZoneIsMarked ==
  \A p \in InPools :
     Home(p) \subseteq usableZones(p) \/ pools[p].mark # {}
       \/ \E h \in Running : kind[h] = "shift" /\ p \in cur[h]

\* As long as only one zone is ever shifted, a pod that dies makes a pool forget
\* it only if it dies in an update: a restore that is cut off, at any point, is
\* made good by its redelivery or by the restore of a later shift.
OnlyDyingShiftForgets ==
  MissingZoneIsMarked \/ \E h \in Handler : kind[h] = "shift" /\ pc[h] = "dead"

\* README.md:10, when a zonal autoshift is "completed" or "cancelled", "the
\* changes are reverted": when no shift is active and all events are handled, every
\* pool can use the zones it could use at first, and no others.
RestoredWhenQuiet ==
  Settled /\ active = {} => \A p \in InPools : usableZones(p) = Home(p)

\* Auto Mode: between events the temporary copies exist exactly while a zone is
\* shifted away from, and leave that zone out.
KssFollowsShift ==
  Settled => \A b \in Builtin :
    /\ InitialPools[b] # Absent /\ active # {} <=> pools[Kss[b]] # Absent
    /\ pools[Kss[b]] # Absent =>
         InList(pools[Kss[b]].values) = clusterZones \ {zoneMapping[id] : id \in active}

\* Once no shift is active, all zones come back, unless a new shift begins.
EventuallyRestored ==
  active = {} ~> active # {} \/ \A p \in InPools : usableZones(p) = Home(p)

-----------------------------------------------------------------------------
(***************************************************************************)
(* The controller keeps the promise of ZonalShift.                         *)
(***************************************************************************)
Promise == INSTANCE ZonalShift
             WITH Pool <- InPools, Zone <- ZoneName,
                  Original <- [p \in InPools |-> Home(p)],
                  usable <- [p \in InPools |-> usableZones(p)]

\* As long as only one zone is ever shifted, or no pod dies, no handler ever leaves a
\* pool with other zones than it had or than its event asks for, wherever handlers were
\* cut off.
NeverAstray == Promise!Moves

\* While shifts come one at a time, each event is handled before ARC's next,
\* possibly several times over, and nothing fails, each pool goes straight from
\* the zones of one shift to the zones of the next, and always gets there.
KeepsPromise == Promise!Spec
=============================================================================
