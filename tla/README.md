# Verification of zonal-autoshift-karpenter

The controller in `src/app` listens for zonal-shift events and takes the
impaired availability zone out of every Karpenter NodePool, and puts it back when
the shift ends. It is small, but it works on shared objects without
preconditions, in a goroutine per event, from a queue that may repeat and reorder,
in a pod that may die. This directory holds TLA+ models of that behaviour, the
configurations that TLC checks, and proofs that TLAPS checks. `PROJECT.json`
lists components, runs, mutants, source lines, findings, hazards and theorems.

## 1. Inventory

| component | source | state | operations |
|---|---|---|---|
| update handler | `main.go` 770-1345 | NodePool objects (API server); its own listed copies | detect mode, protect nodes, list, PATCH spec, PATCH annotation, create copy, taint nodes |
| restore handler | `main.go` 1348-1571 | the same | detect mode, unprotect nodes, list, untaint, PATCH spec, PATCH annotation, delete copy |
| event intake | `main.go` 369-469 | SQS queue, messages in flight | receive, parse, `go handleEvent`, delete |
| zone look-ups | `main.go` 500-512, 684-730 | `zoneMapping`, `clusterZones` | ID to name, cluster zones without one |
| zone discovery | `main.go` 153-204, 539-681 | writes those two, once | DescribeAvailabilityZones, DescribeSubnets with fallbacks |
| leader election | `main.go` 291-336 | the lease, `isLeader` | acquire, renew, lose; poll only as leader |
| NodeClaim controller | `pkg/controller`, `pkg/client` | informer, node store | add, update, delete events; initial listing with backoff |
| node store | `pkg/models/node.go` | node name -> zone | add, remove, nodes of a zone (of all, for "") |
| node protection | `controller.go` 220-486 | Node objects | annotate and cordon, undo both, taint, untaint |
| batch processor | `pkg/utils/batch.go` | wait group, semaphore, error channel | process a slice in concurrent batches |
| infrastructure | `*_stack.py`, manifests | - | queue with DLQ (3 receives), two replicas |

Interaction. ARC's events reach a standard SQS queue through EventBridge. The
leader's `pollSQS` receives up to ten, starts `go handleEvent(event)` for each and
deletes the message at once. The handler reads the zone look-ups, lists NodePools
through the API server, works on the copies, and asks the NodeClaim controller to
protect or taint nodes; that one looks them up in its store, which an informer
fills, and goes through them with the batch processor. Handlers share nothing in
memory but read-only caches: they meet in the API server.

Hard behaviours, and the property each component owes:

- *NodePool handlers*: list-then-write without preconditions (zones and edits may
  be lost, but only as far as updates and restores account for them); two PATCHes
  per pool (a missing zone must be marked); any call may fail (handlers end, and
  fall back to nothing worse); mode detection (built-in pools are not written).
- *Event intake*: repeated, reordered, concurrent, lost events. When all shifts are
  over the pools must be as they were, and come to be so; an event must be handled in
  the end, and more than once only when something went wrong.
- *Node store and NodeClaim controller*: the initial listing races with the informer's
  deletions, the watch breaks, node names are used again; the store should follow the
  NodeClaims.
- *Node protection*: conflicts, half-done nodes, nodes that come and go; no other
  zone's node may be touched, no operator's change undone, and repeated events must
  leave every node done.
- *Leader election*: two pods polling at once; a loop that goes on when the lease is lost.
- *Zone discovery*: failing calls that nobody notices leave a pod with the wrong zones.
- *Batch processor*: limit of concurrency, no lost error, no item twice, it returns.

## 2. Modules

| module | role |
|---|---|
| `Zones` | the look-ups, zone lists as bags of strings, the constants they depend on |
| `NodePools` | both handlers against the API server, any events at any time (EXTENDS `Zones`) |
| `NodePoolsProofs` | theorems about `NodePools` |
| `ZonalShift` | abstract: what the controller promises, pool by pool |
| `Autoshift`, `AutoshiftProofs` | ARC, queue, poll loop, dying pods, and the handlers of `NodePools`; instantiates `ZonalShift` |
| `ForEach` | abstract: a loop over items, some at a time, as the callers of the batch processor see it |
| `BatchProcessor`, `BatchProcessorProofs` | `batch.go`; instantiates `ForEach` |
| `NodeStore` | the methods of `node.go`, as operators on a function from names to zones |
| `NodeClaims`, `NodeClaimsProofs` | how the informer and `initializeStore` fill the store (EXTENDS `NodeStore`) |
| `AtomicNodes` | abstract: each change of a node is one step |
| `NodeProtection`, `NodeProtectionProofs` | what handlers do to Node objects (EXTENDS `NodeStore`); instantiates `AtomicNodes` |
| `ZoneDiscovery` | the zones a pod finds when it starts, given the calls that fail |
| `LeaderElection` | the life of the pods and the lease (EXTENDS `ZoneDiscovery`) |
| `Delivery` | abstract: when an event is handled, repeated, deleted, lost |
| `EventIntake`, `EventIntakeProofs` | queue and poll loops of those pods (EXTENDS `LeaderElection`); instantiates `Delivery` |
| `MC...` | small instances for TLC |

`Autoshift` and `EventIntake` are two views of the same loop. `EventIntake` has all of
it and stops at `go handleEvent`; it shows what may become of a message. `Autoshift`
goes on to the handlers and pools with that result: any message may be handled twice,
and is gone when the pod dies with a handler.

### Zones

A zone requirement's `values` are a function from strings to how often they occur:
the code never looks at their order, but `len(filteredZones) != len(req.Values)`
and the blind `append` of the restore make multiplicity matter. Events carry zone
IDs, requirements zone names, and the empty string (a missing `awayFrom`, a failed
look-up) is `NoZone`: the types are kept apart because the code mixes them.
`zoneMapping` and `clusterZones` are constants: `main` fills them before it starts
any goroutine that reads them.

### NodePools

`pools` is the API server's content. A NodePool is abstracted to: whether it has a
zone requirement, the operator and values of the first one (both loops stop at the
first), the away-zones annotation, how many of its owner's edits the disruption
settings contain, and whether fields the code's structs do not declare are still
there. A handler goroutine is `pc`, `kind`, `away`, `auto` (the local
`isAutoMode`), `todo` (the listed copies its `range` loop has still to reach; pools
for which the loop sends nothing are left out when listed) and `cur` (the pool
between the two PATCHes).

| action | code |
|---|---|
| `Begin` | start of either handler to `listInstalledCRDs`, which answers false on failure |
| `ListNodePools`, `ListFails` | the GET; its error returns |
| `UpdateInPlace` | spec PATCH of the update: requirements and disruption of the stale copy |
| `RestoreInPlace` | spec PATCH of the restore: requirements of the stale copy, zone appended |
| `PatchAnnotation` | second PATCH of either, sent also when the first one failed |
| `CreateNodePool`, `DeleteNodePool` | the `-kss` copy of a built-in pool |
| `Return`, `Crash`, `EditDisruption` | loop through; pod dies; the pool's owner edits |

One API call is one step; between any two, other handlers, the owner and crashes
step in. The order of the pools in a listing is left open. A call that took
effect but whose answer was lost is a success, because the code only logs.
The standard and the Auto Mode branches of the code are written twice there and
differ only in the built-in pools, so they are one action here. In Auto Mode with
no cluster zones the update returns before its loop, in standard mode it skips
each pool: `clusterZones # {}` in `wanted` and `needsUpdate` is both.

Assumptions, all in `ASSUME`s: before the first event no pool is annotated and no
`-kss` pool exists; built-in pools, which EKS manages, come without a zone
requirement; two of them have different copies, for the copy's name is theirs with
`-kss` (main.go:891). An empty `In` list is refused by Karpenter's validation when
`EmptyRefused` (external; `FALSE` is also run).

### Autoshift and ZonalShift

`ZonalShift` knows neither events nor handlers: a set of zones the controller has
been told to leave, and for each pool the zones it may use, which go *in one step*
to the target. `Autoshift` adds the environment to `NodePools`. ARC begins and ends
shifts (`StartShift`, `EndShift`), SQS delivers any message, `handleEvent` starts a
handler, `DeleteMessage` deletes without waiting and may fail (the message comes
back), `PodDies` kills handlers and returns what was not deleted. The history
variable `told` is the set of zones whose last started handler was an update. The
refinement maps `usable` to the values of the requirement, or to all cluster zones
where there is none. `ZonalShift` has two specifications: `Moves` says where pools may
go, `Spec` also that they get there. The property `KeepsPromise` is `Spec`, `NeverAstray`
is `Moves`; they differ where a pod may die for good in the middle of an event.

How well the environment behaves is a parameter (`Serial`, `Overlap`, `Crashes`,
`MaxFaults`, `MaxRedeliveries`): the promise is kept under some and not others, and
each run names its own. `Serial` is ARC's usual pace, an hour of shift against
seconds of handling; `Overlap` happens when an autoshift interrupts a practice run
in another zone, and then the end of one and the begin of the other are sent together.

### BatchProcessor

One process per batch goroutine, with the context checks, the select on the
semaphore, the send on the buffered channel and the deferred calls as steps. The
main goroutine is `launched`, `wg`, `closed` and `result`. It counts each goroutine in
before its `go`, and each counts itself out at its end; `Close` looks at that count and
at nothing else. Items are numbers; `processFn` succeeds
or fails. Which error is returned when there are several depends on the channel's
order, which is left open.

`ForEach` is what the calls at controller.go:233 and 313 rely on: groups of items are
taken, a few at a time, finish or fail, and an answer comes when none is worked on. The
mapping: `left` are the items not yet given to `processFn`, `working` the batches in
`processFn`, `errors` what has been put into the channel so far. Launching, the semaphore,
the context checks and the wait group are stutters.

### NodeStore and NodeClaims

The store is a function from node names to zones; each method holds the lock for its
whole body, so each is one step. The empty zone stands for all, in `GetNodesByAZ` as in
the code. `NodeClaims` has the cluster's NodeClaims (`claims`), the informer's cache and
queue of notifications (`seen`, `watching`, `events`), and the two goroutines that write
the store: the event handler (`HandleEvent`, one `processNodeClaim` per notification) and
`Run` with `initializeStore` (`CacheSynced`, `ListNodeClaims`, `GiveUp`, `AddListed`,
`Initialized`; `pc`, `tries`, `todo` are its place, the calls of `ExponentialBackoff` and
what it listed). The informer is client-go's: while its watch is up each change is
notified in order; after a break `Relist` compares a new listing with the cache and sends
adds, updates and, for what is gone, a tombstone, which `processNodeClaim` drops.

`NameAssumption`, that claims whose nodes have the same name are in the same zone, is a
fact about node names: they are made from the address of the instance, and an address
belongs to a subnet and so to one zone. `RegisterNode` asks for labels, which Karpenter
sets before it registers a node, and for a name that is free.

### NodeProtection

`api` are the Node objects as far as the code changes them: annotation, `unschedulable`,
away-zone taint. A handler is `kind` (which of the four functions), `zone`, `scope` (the
one look-up at its beginning), and per node the stage still to be done and the copy that
was read. `Get` and `Update` are one API call each. A PUT conflicts when the object is
not the one that was read; nothing is repeated, and a node that met an error is left as it
is, whatever the reason. The code goes through nodes in batches or one by one; here their
order is left open, which contains both. Node objects are compared by content where the
API server compares versions: a PUT after two changes that cancel out would conflict
there and not here, which only adds behaviours that end in the same objects.

Calls of the four functions come in any number and order, as the queue allows. The store
follows the cluster in its own time (`Track`, `Untrack`: what `NodeClaims` shows, without
its ghosts, whose nodes are missing and fail the GET). `trouble` counts, and bounds,
everything that comes from outside: failing calls, nodes that join and leave, operators
who cordon and uncordon, restarts, after which the store is empty and the flag may be
another.

`AtomicNodes` knows no copies: a change that has been asked for is made to the node as it
is. The mapping takes `api` as it is and, for what is asked, the kinds and zones of the
handlers that were started. A GET, a conflict and a failing call are stutters.

### ZoneDiscovery, LeaderElection, EventIntake

What a pod finds at its start is a function of the subnets and of the calls that fail
(`Call`), since nothing else changes meanwhile: `getEKSClusterZones(fails)`, and
`fatal(fails)` where `main` ends. `LeaderElection` is the life of a pod: `Start` (at most
one call fails), then candidate, leader, releasing, exiting, and down again. A leader that
cannot renew goes in three steps, as client-go does: `GiveUp` ends the renewals, `Release`
(`ReleaseOnCancel`, main.go:312) gives the lease back or fails, and only then
`StopLeading` calls `OnStoppedLeading`, which clears `isLeader`. The lease has a holder;
instead of clocks each pod has an `age`, the time since it saw the lease written, or, for
the leader, since it renewed it. That is how client-go does it: no absolute time is
compared. `Tick` lets time pass and waits for whoever is late by the program's own
standards: a leader at `lastMoment` must renew or give up, and `main` returns at once after
`RunOrDie`; the call that releases the lease may take any time.

`EventIntake` adds the queue and `pollSQS`: `CheckLeader` reads `isLeader`;
`ReceiveMessage` may return much later, whether the pod still leads or not, and its answer
may be lost when the queue has already hidden the messages and counted the receive
(main.go:388), which is a trouble like a failed call; `TakeMessage`
parses and starts the goroutine (`handled` counts those); `DeleteMessage` may fail, or come
too late for its receipt. A message in flight is with the pod that received it.
`BecomesVisible` and `DeadLetter` are the queue's doing. A receipt of an earlier delivery
may still delete, but never from the dead-letter queue, which is another queue.

`Delivery` is the same without pods: a message is open from being sent to being deleted or
lost, wherever its deliveries are. The mapping forgets who received it (`placeOf`) and
keeps `handled` and `trouble`; receives, leases, ticks and timeouts are stutters.

## 3. Runs

| run | bounds | result |
|---|---|---|
| `NodePools_custom` | 2 handlers in 2 pods, pools with, without and with an excluding (`NotIn`) requirement, IDs known and unknown, 1 fault, 1 edit | pass |
| `NodePools_auto` | built-in pool and copy, 3 handlers in 2 pods, 1 fault | pass |
| `Autoshift_drill` | Auto Mode, 2 zones in turn, 4 events, 1 redelivery, no faults | pass |
| `Autoshift_cut_off` | one zone twice, the pod dies at any point | pass |
| `EventIntake` | 2 pods, 2 messages, 2 troubles, a queue that gives up after 2 receives | pass |
| `NodeClaims` | 2 claims with one node name, 2 broken watches, 2 listings | pass |
| `NodeProtection` | 2 nodes in 2 zones, 3 handlers, 1 trouble, the flag on and off | pass |
| `BatchProcessor` | up to 7 items, batches of 2, 2 at a time, cancellation | pass |
| `NodePools_two_zones` | one custom pool, 2 handlers | violation, see below |
| `Autoshift_overlap`, `Autoshift_crash` | one custom pool, up to 4 events | violations, see below |
| `NodeProtection_operator` | one handler | violation, see below |

What the passing runs say:

- `ZonesAccountedFor`: in any execution a zone is missing from a pool only if some
  update named it, added only if some restore did, and a requirement never gets lost. A
  zone is listed more often than at first by no more than the restores that named it: each
  appends its zone at most once to a pool, whatever was redelivered or failed.
- `RestoreAloneChangesNothing`: the annotation guards the append.
- `EditLostOnlyToStaleShift`: an owner's edit is undone only by an update that
  listed before it; restores do not touch those settings.
- `RepeatedShiftHolds`: redelivered updates of one zone do not undo each other, though
  each may write back a list that is older than the other's PATCHes. Proved for any number
  of handlers (`RepeatedShiftsHold`).
- `BuiltinPoolsUntouched`: as long as the mode is recognised.
- `HandlersFinish`: no failing call or vanishing object keeps a handler.
- `MissingZoneIsMarked`, `RestoredWhenQuiet`, `KeepsPromise`,
  `EventuallyRestored`: shifts that come one at a time, each event handled
  before the next and possibly twice, and no failure: the pools follow.
- `KssFollowsShift`: the same for the copies of built-in pools.
- `OnlyDyingShiftForgets`: for one zone, a pod may die in a restore without harm,
  before or between its PATCHes.
- `NeverAstray`: wherever a handler was cut off, a pool has the zones it had, or those
  its event asks for; no handler that comes after a dead one writes anything else.
- `OneLeader`: a pod that leads and has not given up holds the lease, so that there is one
  at a time; others have messages only from giving up until their process ends. That they
  no longer *ask* for messages is not claimed, see the divergences below.
- `HandledOnceUnlessTrouble`, `LostOnlyAfterTrouble`: every repetition of an event costs
  a failure, and to lose one takes as many as the queue allows receives; a malformed
  neighbour in the batch is not among them.
- `ZonesExplained`: the zones a pod works with are those that the tags name, unless the
  CRDs could not be listed or the first listing of subnets failed, which the code does
  not notice.
- `DeliveredAsPromised`: the loops implement `Delivery`. A message is deleted only when a
  handler was started for it, does not come back once it is deleted or lost, and is
  handled again or lost only for trouble; copies that are underway may still be handled.
- `EventsHandled`: an event that parses is handled in the end, or in the dead-letter queue.
- `NodesKnown`: when the informer has caught up, no registered node is missing from its
  zone, in spite of broken watches, dropped tombstones and names used again. Dropping
  tombstones is right: their last known object may name a node of which another claim
  has taken the name.
- `GhostsExplained`: the price is nodes that stay in the store when they are gone; that
  happens for two reasons and no third: a deletion during a break of the watch, and
  `initializeStore` adding what it listed before the deletion.
- `NodeAppears`: a node that joins gets into the store.
- `OnlyImpairedZone`: only nodes of the zone an event named are touched (of all zones,
  for an event that names none), however old the look-up is.
- `CordonSurvivesShift`: stale copies do not undo an operator's cordon.
- `RepeatsSettle`: an event delivered several times is handled several times at once, and
  its handlers' writes conflict; when all are through, every node is done, though each
  handler gave up at its first conflict.
- `NoChangeLost`: handlers read, compute and write in separate calls, while others change
  the node in between; each write still makes its one change to the node as it is, and
  takes nobody's back. That is what the `resourceVersion` is for, which the PATCHes of
  NodePools do without.
- `WorksAsForEach`: to its caller the batch processor is a loop over the items, some at a
  time, in which one that fails keeps no other back and is not forgotten.
- `EachItemAtMostOnce`, `NilMeansAll`, `NeverOverloaded`, `ErrorsFit`,
  `NoSendAfterClose`, `Returns`: the batch processor is right, down to its wait group: one
  `Done` too many would close the channel under a goroutine, one too few would wait for ever.

Why the bounds are enough. Everything the handlers do is per pool; handlers meet
pairwise at one pool, in the window between a listing and two PATCHes, so two
handlers show every overlap and a third one every state that two can leave behind.
The pools of a run are one for each kind the code tells apart (requirement or not,
`In` or `NotIn`, one zone or several, built-in, copy). Two zones known to the cache
and one that is not are all that `away` can be, relative to a pool. One fault
separates every pair of consecutive calls. Redelivery is bounded by one, crashes
by the handlers left. Seven items make four batches, one of them short, with two
slots: both sides of every select are taken.

Two pods are every role of an election: the one that leads and the one that waits. The
times 3, 1 and 1 keep what matters of 15, 10 and 2 seconds: `RetryPeriod` +
`RenewDeadline` < `LeaseDuration`, and a leader that has renewed late. Two troubles let a
deletion fail and the pod die before the redelivery, and two receives are then the end
of a message. Claims meet only in a node name, so two with one name show every overlap;
two breaks leave a claim unseen twice. Handlers on Node objects meet at one node; a
second node in another zone shows what must not be touched, and with a third handler two
conflict while the next begins.

What the violations show (each is in `findings` with the quoted line):

- `NodePools_two_zones`: concurrent updates of two zones, and one zone is put back
  by the other's stale list.
- `Autoshift_overlap`: two zones away, one annotation: after the first end the
  other zone is never given back. No concurrency and no failure is needed.
- `Autoshift_crash`: a handler dies whose message is already deleted, or between
  its two PATCHes, and the pool is never restored.
- `NodeProtection_operator`: the restore uncordons a node that an operator has cordoned
  and no shift has marked, though it finds no annotation to remove.

Smaller divergences are in the models and have no run of their own. A pool that had no zone
requirement keeps the one the update added (main.go:1517), where README.md:10 says
"original settings". README.md:83 and 88 speak of a label where the code sets an
annotation. The annotation holds the zone ID, where README.md:4 says the zone name; the
comment at main.go:421 says "after processing", and the message is deleted while the
goroutine runs.

Larger ones lie outside what the passing runs claim. The models do them, and TLC finds each
when the constants named here are changed:

- A failed listing of the CRDs reads as "not Auto Mode" (main.go:354), and the update
  patches a built-in pool in place, where README.md:6 says that it is copied.
  `NodePools_auto` has these handlers; `BuiltinPoolsUntouched` excepts them.
- The end of one shift and the begin of the next may be handled together, and the restore
  removes the annotation that the update has just set (main.go:1556): `Autoshift_overlap`
  with `Serial` and `Overlap` FALSE violates `MissingZoneIsMarked`.
- The end of a shift may be handled before its update has set the annotation (main.go:381);
  the update then takes the zone out for good: the same with one zone in `ShiftZone`
  violates `RestoredWhenQuiet`.
- Two goroutines that restore one event, both from a listing with the annotation, list the
  zone twice (main.go:427). `ZonesAccountedFor` allows that much, and no more.
- An ID the cache does not know is listed among zone names when it is given back
  (main.go:1372): `Autoshift_cut_off` without crashes, with an ID in `ZoneId` and `ShiftZone`
  that `zoneMapping` lacks, violates `RestoredWhenQuiet`.
- The lease is released before `isLeader` is cleared (main.go:312). In between another pod
  leads while the old one's loop finds `isLeader` set and asks for messages, where the
  comment at main.go:371 says that only the leader processes them. What `OneLeader` and
  `HandledOnceUnlessTrouble` say holds with that: messages the old pod gets are hidden from
  the new one.

Fairness. `Spec` of `NodePools`: weak fairness of each handler, for the Go scheduler
runs every goroutine and each API call returns. `SystemSpec` adds weak fairness of
each poll loop, which never ends while the pod lives. Nothing is assumed of ARC, of
crashes or of owners. `BatchProcessor`: weak fairness of the main goroutine's steps and of each
goroutine; the semaphore needs no more, since each batch takes its slot once.
`NodeClaims`: weak fairness of the informer (the reflector lists and watches until it is
stopped), of its event handler and of `initializeStore`; claims come and go as they like.
`NodeProtection`: of each handler. `EventIntake`: of each pod's life (it is restarted and
campaigns), of its loop, of the exit of `main`, of the queue's own timers, and of time;
not of crashes, lost leases or failing calls, whose number `MaxTrouble` bounds, so that
`EventsHandled` says: once the trouble is over, events get through.

## 4. Proofs

`NodePoolsProofs` proves for all constants that meet the `ASSUME`s (any number of
pools, zones, handlers, pods, faults and edits): `TypeOK`, `ZonesAccountedFor`,
`RestoreAloneChangesNothing`, `BuiltinPoolsUntouched`, `EditLostOnlyToStaleShift` and,
for clusters that have zones, `RepeatedShiftHolds`. None of them but the first
is inductive: a handler may write what it listed long ago. The strengthening says the same of the copies still
to be written (`CopiesAccountedFor`), and that a handler holds copies only between
its listing and its end, and only of pools that it has a request for
(`CopiesWanted`); for the other invariants, that copies of built-in pools, or of
pools without a mark, are not among them. How often a zone is listed is a count of
handlers: a pool has no zone more often than at first and once for each restore that has
listed the pools (`PoolsWithin`), and the copy of a restore not even for that one, which
has still to append (`CopiesWithin`). `RepeatedShiftHolds` is a pledge
(`ShiftInv`): from the moment a handler has listed the pools, each of them is without the
zone or is still to be written by this handler; what any handler writes is without the
zone, and is not refused, because the copy it was made from is accounted for. Without
cluster zones `getUpdatedZones` is empty and the code updates nothing, hence the
hypothesis. Each step lemma has one case per action,
and `Patch` is treated once for the three that use it.

`BatchProcessorProofs` proves for every slice, batch size and limit: `TypeOK`,
`EachItemAtMostOnce`, `NilMeansAll`, `NeverOverloaded`, `ErrorsFit`, `NoSendAfterClose`.
The inductive invariant (`Bookkeeping`) ties goroutines to shared state: batches start
in order, those past the semaphore hold a slot, an error is put last, and the items
of a batch are untouched until it is processed. The wait group counts the goroutines
that are launched and not through (`Counted`); so when it counts zero all are
through, and `NoSendAfterClose` follows. `BatchesDisjoint` carries
`EachItemAtMostOnce`; `NeverOverloaded` and `ErrorsFit` are counting arguments: the
working batches are among the holders of a slot, and the batches that have sent an
error are among the *other* batches, so there is always room. For `NilMeansAll` every
item lies in a batch that is launched (what the rounding of the division gives,
`BatchesCover`), and a batch that is through without an error was processed whole.

`EventIntakeProofs`: `TypeOK`, `OneLeader`, `ZonesExplained`, `HandledOnceUnlessTrouble`
and `LostOnlyAfterTrouble` for any pods, messages, subnets, receive counts and times with
`RetryPeriod + RenewDeadline < LeaseDuration`, `RetryPeriod` not zero. `OneLeader` rests on
`LeaseInv`: whoever leads holds the lease, and a candidate that has seen the lease as it is
has not seen it for longer than the leader has not renewed it; so it cannot find it
expired before the leader is at its `lastMoment`, where time waits for it to give up.
`BusyInv` adds that only a living pod's loop has messages. The last two count deliveries
against troubles (`PaidInv`): every delivery but one that is underway or succeeded has met
a trouble of its own. The hard case is a pod that asks for messages after it has given the
lease up and exits with them: the trouble is the loss, which came *before* the delivery. So
each pod that has given up reserves its trouble for a message it may still get
(`Reserves`), and `Paid` counts the pods that do; there may be several, since a release may
take longer than the next leader's term. A message is then handled no more often than it
was received less the batches that still contain it (`HandledInv`).

`NodeClaimsProofs`: `TypeOK`, `GhostsExplained`, `NodesKnown` for any claims, names, labels
and numbers of breaks. Three invariants carry them. `Cluster` and `Notices` relate the
API server, the cache and the queue: a notification of a node comes after its
registration, and a deletion that the informer saw is the last thing it hears of a claim.
`Ghosts`: a node in the store, or still to be added by a notification, belongs to a claim
that is registered or accounted for, or a removal is further back in the queue.
`AllKnown`: for each registered claim that the informer has seen there is a point, the
store or a notification, from which its node is known, and no removal of a node of that
name comes after it. `NameAssumption` is needed exactly where an older claim's
notification writes the same name.

`NodeProtectionProofs`: `TypeOK`, `OnlyImpairedZone`, `CordonSurvivesShift`,
`RepeatsSettle` for any nodes, zones, handlers and amount of trouble. `Placed` says that
handlers hold copies only of nodes they looked up, whose zone is theirs; since a PUT that
succeeds starts from the object as it is, that makes `OnlyImpairedZone` inductive. For
`CordonSurvivesShift` a copy that could be written over a cordon must differ from the
object, and then it conflicts. `RepeatsSettle` is the hard one: a handler that gives a
node up at a conflict must be able to count on somebody. The invariant (`SettleInv`) is a
pledge: while a node is not done, some handler of that kind is still at work on it, in a
stage that the node's state asks for; a write that conflicts was overtaken by one of
another handler, which takes the pledge over.

Three refinements are proved with those invariants, step by step: every step is one of
the abstract specification, or changes nothing it can see.

- `NoChangeIsLost` (`NodeProtection` implements `AtomicNodes`). Only a PUT that does not
  conflict needs an argument. It starts from a copy that equals the object, so that what it
  writes is one change of the object (`UpdateIsAtomic`), and by `Placed` the node is in the
  zone that was asked for, or all were.
- `ItIsForEach` (`BatchProcessor` implements `ForEach`). `processFn` is called with items
  that are still left, since batches are disjoint, and with room, since there is a group
  for every batch in process (`FewGroups`; two batches are two groups because none is
  empty, `BatchesFilled`). The answer needs that items are left only when a batch said
  `ctx.Err()`: `ProcessedWhole`, proved for any batch that is through, failed or not, unless
  it met the cancelled context.
- `EventsAreDelivered` (`EventIntake` implements `Delivery`). `InHand` says that what a loop
  has in its hands was sent, and was given to a handler before it comes to be deleted; the
  bounds on repeats and losses are those of `PaidInv`. Trying to prove it showed an error
  of the model: a stale receipt could delete a message from the dead-letter queue.

`AutoshiftProofs` is about the whole system for any pools, zones, pods, handlers, events and
redeliveries. `SystemIsNodePools` carries over everything that is proved of `NodePools`,
whatever the environment does. The rest is about an orderly environment, `Orderly`: shifts
come one at a time, each event handled before the next is sent, no call fails, and the
zones that are shifted are zones of the cluster that the cache knows. Where shifts
overlap, `Autoshift_overlap` shows the properties false; where calls fail,
`ZonesAccountedFor` is what holds. Handlers may still run concurrently, for one
event any number of times, with copies of any age. The constants of `Autoshift_drill`, and
for one zone those of `Autoshift_cut_off`, meet the hypotheses.

| theorem | hypotheses besides `Orderly` |
|---|---|
| `PoolsAreRestored`, `MissingZonesAreMarked` | no pod dies |
| `OnlyDyingShiftsForget` | one zone; pods die at any point |
| `PoolsNeverGoAstray` | no pod dies, or one zone; an empty list is refused |
| `KssFollowsShifts` | Auto Mode, no pod dies, the cluster has a second zone |

The argument goes up in layers. `OneEventAtATime`: all that is anywhere in queue, loops and
handlers is the last event. `PoolKept`: every pool, and every copy that is still to be
written, is what it was at first, but for the last event's zone (`Kept`); this is kept by
each write whatever the age of the copy it was made from (`KeptUpdate`, `KeptRestore`,
`KeptAnnotation`), also when handlers die. `Marked`: a zone that is missing has its
annotation, or a handler that is just about to write it, or an update died. With
`ToRest` (once a restore has listed, each pool is as it was at first, or is still to be
written by it) that gives `RestInv` and `PoolsAreRestored`. `KssKept` is the same pledge for
the creation and deletion of copies, on top of the mode having been answered rightly.
`ToldInv` ties `told` to the last event; with it each write is `Apply` for its pool, or
changes no zones (`HandlingApplies`), which makes `PoolsNeverGoAstray` the step simulation
of `ZonalShift`. `EmptyRefused` is needed because a pool whose only zone is shifted is
promised to keep it, and it is Karpenter's refusal that keeps it, not the code. With several
zones *and* deaths the theorem would be false in a cluster of three zones: a pool whose
restore died would be taken from one shift straight into the next, and miss two zones.

Only model-checked, because liveness is beyond the prover: `EventuallyRestored`, the
fairness of `ZonalShift` in `KeepsPromise` (its safety is `NeverAstray`), `HandlersFinish`,
`EventsHandled`, `NodeAppears` and `Returns`. Every invariant of a passing run is a theorem.

## 5. Not modelled

The owner's edits of a pool's requirements (only of the disruption settings), additional
zone requirements after the first, operators other than `In` and `NotIn`. Events of an
unknown type change nothing. `NotIn` pools lose the exclusion of the impaired zone when it
is shifted: a hazard without a document to hold against. The two phases of a handler,
nodes and pools, are in two modules and not composed: they share no state but the flag
and the zone look-up, and no property relates a node to a pool. In Auto Mode taints are
added only when a copy is made and removed after the listing of pools; `NodeProtection`
lets both happen at any time. Labels of a NodeClaim are fixed, and each has a node of its
own name only once. The mistakes of other clients of the lease, and clocks that run at
different speeds, are left out. CDK stacks, manifests and client construction hold no
state.

## 6. Plan

Done: every component of `src/app` that has state, with proofs about six modules, four of
them shown to implement an abstract specification.

Left, in this order:

1. The whole of an update and of a restore in one handler, nodes and pools, with nodes
   that leave because of the taint.
2. An abstract specification of the store that `NodeClaims` implements.
3. `Autoshift`'s queue as an implementation of `Delivery`, which would replace the remark
   in section 2 that the two modules are views of one loop.
