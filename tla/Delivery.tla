------------------------------ MODULE Delivery ------------------------------
(***************************************************************************)
(* What the handlers may expect of queue and poll loops, without pods,     *)
(* receipts or leases: when an event is handled once more, when it is      *)
(* deleted and when it is lost.                                            *)
(***************************************************************************)
EXTENDS Naturals

CONSTANTS
  Message,
  Malformed,    \* those that no handler can be started for
  MaxReceives

VARIABLES
  place,    \* where a message is: "unsent", "open", "deleted" or "lost"
  handled,  \* how often a handler has been started for it
  trouble   \* how often something went wrong

Init ==
  /\ place = [m \in Message |-> "unsent"]
  /\ handled = [m \in Message |-> 0]
  /\ trouble = 0

Goes(m, from, to) ==
  /\ place[m] = from
  /\ place' = [place EXCEPT ![m] = to]
  /\ UNCHANGED <<handled, trouble>>

Send(m) == Goes(m, "unsent", "open")

\* Once, and once more for each trouble; copies that are underway may still be handled
\* when the message is deleted or lost.
Handle(m) ==
  /\ place[m] # "unsent" /\ m \notin Malformed
  /\ handled[m] <= trouble
  /\ handled' = [handled EXCEPT ![m] = @ + 1]
  /\ UNCHANGED <<place, trouble>>

\* Never before a handler was started for it.
Delete(m) == handled[m] > 0 /\ Goes(m, "open", "deleted")

\* Only when each of its deliveries met trouble, or nothing can be done with it.
Lose(m) == (m \in Malformed \/ trouble >= MaxReceives) /\ Goes(m, "open", "lost")

Trouble == trouble' = trouble + 1 /\ UNCHANGED <<place, handled>>

Next ==
  \/ \E m \in Message : Send(m) \/ Handle(m) \/ Delete(m) \/ Lose(m)
  \/ Trouble

Spec == Init /\ [][Next]_<<place, handled, trouble>>
=============================================================================
