---------------------------- MODULE LeaderElection ----------------------------
(***************************************************************************)
(* The life of the pods: main of src/app/main.go.  A pod finds its zones,  *)
(* then campaigns for the lease with the elector of client-go (external),  *)
(* polls as long as it leads, and exits when it has lost the lease; its    *)
(* container is started again under the same name.                         *)
(*                                                                         *)
(* Time passes in ticks.  An age is a time since an event, which each pod  *)
(* measures with its own clock; no absolute time is compared.              *)
(***************************************************************************)
EXTENDS ZoneDiscovery, Naturals

CONSTANTS
  Pod,
  NoPod,          \* the lease is free
  LeaseDuration,  \* 15 s in main.go: a candidate waits that long for a renewal
  RenewDeadline,  \* 10 s: the leader tries that long to renew
  RetryPeriod,    \* 2 s between renewals
  MaxTrouble      \* bound: crashes, lost leases, failing calls

ASSUME LeaseAssumption ==
  /\ NoPod \notin Pod
  /\ LeaseDuration \in Nat /\ RenewDeadline \in Nat /\ RetryPeriod \in Nat \ {0}
  /\ RetryPeriod + RenewDeadline < LeaseDuration
  /\ MaxTrouble \in Nat

VARIABLES
  state,         \* of each pod
  clusterZones,  \* what each has found when it started
  missed,        \* the calls that failed then
  holder,        \* holderIdentity of the lease
  fresh,         \* has the pod seen the lease as it is now?
  age,           \* of a candidate: since it saw the lease; of the leader: since it
                 \* renewed it
  trouble

pods  == <<state, clusterZones, missed>>
lease == <<holder, fresh, age>>

\* "releasing": RunOrDie has given the lease up, OnStoppedLeading is not called yet.
State == {"down", "candidate", "leading", "releasing", "exiting"}

\* The variable of main.go: set by OnStartedLeading, cleared by OnStoppedLeading.
isLeader(p) == state[p] \in {"leading", "releasing"}

LifeTypeOK ==
  /\ state \in [Pod -> State]
  /\ clusterZones \in [Pod -> SUBSET ZoneName]
  /\ missed \in [Pod -> SUBSET Call]
  /\ holder \in Pod \cup {NoPod}
  /\ fresh \in [Pod -> BOOLEAN]
  /\ age \in [Pod -> 0 .. LeaseDuration]
  /\ trouble \in 0 .. MaxTrouble

LifeInit ==
  /\ state = [p \in Pod |-> "down"]
  /\ clusterZones = [p \in Pod |-> {}]
  /\ missed = [p \in Pod |-> {}]
  /\ holder = NoPod
  /\ fresh = [p \in Pod |-> FALSE]
  /\ age = [p \in Pod |-> 0]
  /\ trouble = 0

Trouble == trouble < MaxTrouble /\ trouble' = trouble + 1

Becomes(p, s) == state' = [state EXCEPT ![p] = s]

\* The process of p ends: what it knew is gone, the lease is not.
Stops(p) ==
  /\ Becomes(p, "down")
  /\ clusterZones' = [clusterZones EXCEPT ![p] = {}]
  /\ missed' = [missed EXCEPT ![p] = {}]
  /\ fresh' = [fresh EXCEPT ![p] = FALSE]
  /\ age' = [age EXCEPT ![p] = 0]
  /\ UNCHANGED holder

\* The lease is written by p: nobody has seen it as it is now.
Written(p) ==
  /\ fresh' = [q \in Pod |-> FALSE]
  /\ age' = [age EXCEPT ![p] = 0]

-----------------------------------------------------------------------------
\* initializeZoneMapping, and the call of RunOrDie.  At most one call fails.
Start(p) ==
  /\ state[p] = "down"
  /\ \E fails \in {{}} \cup {{c} : c \in Call} :
       /\ IF fails = {} THEN UNCHANGED trouble ELSE Trouble
       /\ IF fatal(fails)
          THEN UNCHANGED <<state, clusterZones, missed>>
          ELSE /\ Becomes(p, "candidate")
               /\ clusterZones' = [clusterZones EXCEPT ![p] = getEKSClusterZones(fails)]
               /\ missed' = [missed EXCEPT ![p] = fails]
  /\ UNCHANGED lease

\* A candidate reads the lease and finds that it has been written.
Observe(p) ==
  /\ state[p] = "candidate" /\ ~fresh[p]
  /\ fresh' = [fresh EXCEPT ![p] = TRUE]
  /\ age' = [age EXCEPT ![p] = 0]
  /\ UNCHANGED <<pods, holder, trouble>>

\* The lease taken over after the time in which the leader tries to renew it.
mayAcquire_AtDeadline(p) ==
  \/ holder \in {NoPod, p}
  \/ fresh[p] /\ age[p] >= RenewDeadline

\* The lease is free, or it is the pod's own from before it was restarted, or it
\* has not been written for long enough.
mayAcquire(p) ==
  \/ holder \in {NoPod, p}
  \/ fresh[p] /\ age[p] >= LeaseDuration

\* OnStartedLeading: isLeader is set, pollSQS begins.
Acquire(p) ==
  /\ state[p] = "candidate" /\ mayAcquire(p)
  /\ Becomes(p, "leading")
  /\ holder' = p
  /\ Written(p)
  /\ UNCHANGED <<clusterZones, missed, trouble>>

Renew(p) ==
  /\ state[p] = "leading" /\ holder = p
  /\ age[p] >= RetryPeriod
  /\ Written(p)
  /\ UNCHANGED <<pods, holder, trouble>>

lastMoment == RetryPeriod + RenewDeadline

\* The leader could not renew in time: the elector tries no more.
GiveUp(p) ==
  /\ state[p] = "leading" /\ age[p] >= lastMoment
  /\ Trouble
  /\ Becomes(p, "releasing")
  /\ UNCHANGED <<clusterZones, missed, lease>>

\* ReleaseOnCancel: the lease is given back, if it is still the pod's own.  The call may
\* fail as well; then StopLeading comes without it.
Release(p) ==
  /\ state[p] = "releasing" /\ holder = p
  /\ holder' = NoPod
  /\ Written(p)
  /\ UNCHANGED <<pods, trouble>>

\* Only then OnStoppedLeading clears isLeader, and RunOrDie returns.
StopLeading(p) ==
  /\ state[p] = "releasing"
  /\ Becomes(p, "exiting")
  /\ UNCHANGED <<clusterZones, missed, lease, trouble>>

\* main returns: the process ends with all its goroutines.
Exit(p) ==
  /\ state[p] = "exiting"
  /\ Stops(p)
  /\ UNCHANGED trouble

Crash(p) ==
  /\ state[p] \in {"candidate", "leading", "releasing"}
  /\ Trouble
  /\ Stops(p)

\* The time in which main returns, or a leader notices that it is late, is too short
\* to be a tick; the call that releases the lease may take long.
Tick ==
  /\ \A p \in Pod : /\ state[p] # "exiting"
                    /\ state[p] = "leading" => age[p] < lastMoment
  /\ age' = [p \in Pod |-> IF state[p] # "down" /\ age[p] < LeaseDuration
                           THEN age[p] + 1 ELSE age[p]]
  /\ UNCHANGED <<pods, holder, fresh, trouble>>

Elect(p) == Observe(p) \/ Acquire(p) \/ Renew(p) \/ GiveUp(p) \/ Release(p) \/ StopLeading(p)
=============================================================================
