------------------------------ MODULE ForEach -------------------------------
(***************************************************************************)
(* What a caller of BatchProcessor relies on: the items are taken in       *)
(* groups, each once, a few groups at a time; the answer comes when        *)
(* nothing is worked on any more, and is nil only when no item is left and *)
(* nothing failed.                                                         *)
(***************************************************************************)
EXTENDS Naturals, FiniteSets

CONSTANTS
  Item,
  GroupSize,  \* items in a group, at most
  AtOnce      \* groups worked on at a time, at most

VARIABLES
  left,       \* items that nobody has taken
  working,    \* the groups that are worked on
  errors,     \* what went wrong
  stop,       \* the caller has no more use for the answer
  answer      \* the error that was returned, "nil", or "none" yet

Init ==
  /\ left \subseteq Item
  /\ working = {} /\ errors = {}
  /\ stop = FALSE /\ answer = "none"

Take(group) ==
  /\ group # {} /\ Cardinality(group) <= GroupSize
  /\ Cardinality(working) < AtOnce
  /\ left' = left \ group
  /\ working' = working \cup {group}
  /\ UNCHANGED <<errors, stop, answer>>

Finish(group) ==
  /\ working' = working \ {group}
  /\ errors' \in {errors, errors \cup {"fn"}}
  /\ UNCHANGED <<left, stop, answer>>

GiveUp ==
  /\ stop
  /\ errors' = errors \cup {"ctx"}
  /\ UNCHANGED <<left, working, stop, answer>>

\* Items are left only when the caller has cancelled: one that fails keeps no other
\* from being worked on.
Answer ==
  /\ answer = "none" /\ working = {}
  /\ left = {} \/ "ctx" \in errors
  /\ answer' \in IF errors = {} THEN {"nil"} ELSE errors
  /\ UNCHANGED <<left, working, errors, stop>>

Cancel ==
  /\ stop' = TRUE
  /\ UNCHANGED <<left, working, errors, answer>>

Open ==
  /\ answer = "none"
  /\ \/ \E group \in SUBSET left : Take(group)
     \/ \E group \in working : Finish(group)
     \/ GiveUp

Next == Open \/ Answer \/ Cancel

Spec == Init /\ [][Next]_<<left, working, errors, stop, answer>>
=============================================================================
