----------------------------- MODULE ZonalShift ------------------------------
(***************************************************************************)
(* What the controller promises, without handlers, requests or queues: the *)
(* zones a pool may use follow the zones that are shifted away from, pool  *)
(* by pool and in the end always.                                          *)
(***************************************************************************)
CONSTANTS
  Pool,
  Zone,   \* zone names
  Original    \* pool -> the zones it uses when there is no shift

VARIABLES
  told,    \* zones the controller has been told to leave
  usable   \* pool -> the zones it may launch nodes in

\* A pool leaves the shifted zones unless it would be left without any.
Target(p) == IF Original[p] \subseteq told THEN Original[p] ELSE Original[p] \ told

Init == told = {} /\ usable = Original

Tell(z)  == z \notin told /\ told' = told \cup {z} /\ UNCHANGED usable
Clear(z) == z \in told /\ told' = told \ {z} /\ UNCHANGED usable

\* A pool goes to its target in one step, never through another set of zones.
Apply(p) ==
  /\ usable[p] # Target(p)
  /\ usable' = [usable EXCEPT ![p] = Target(p)]
  /\ UNCHANGED told

Next == \/ \E z \in Zone : Tell(z) \/ Clear(z)
        \/ \E p \in Pool : Apply(p)

\* Pools move to their targets only, in their own time, and get there always.
Moves == Init /\ [][Next]_<<told, usable>>
Spec  == Moves /\ \A p \in Pool : WF_<<told, usable>>(Apply(p))
=============================================================================
