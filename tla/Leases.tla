------------------------------- MODULE Leases -------------------------------
(***************************************************************************)
(* What the task list of an agent team promises, whatever its tools, its   *)
(* scheduler and its restarts do: an unfinished task in work is on lease   *)
(* to one holder; every lease has a number of its own; a lease changes     *)
(* hands only after it was given back or taken away; and an exclusive      *)
(* holder has one at a time. Several leases may end in one step.           *)
(***************************************************************************)
EXTENDS Naturals

CONSTANTS
  Task,       \* what can be leased
  Holder,     \* who can hold a lease
  Exclusive,  \* holders that may hold one lease only
  Nobody      \* not a holder

VARIABLES
  held,   \* who holds a task
  grants  \* how many leases of a task were granted, the number of the last

Init ==
  /\ held = [t \in Task |-> Nobody]
  /\ grants = [t \in Task |-> 0]

Keep(t) == held'[t] = held[t] /\ grants'[t] = grants[t]

\* A new lease, of a free task or to the holder it had.
Grant(t, who) ==
  /\ held[t] \in {Nobody, who}
  /\ held'[t] = who
  /\ grants'[t] = grants[t] + 1
  /\ who \in Exclusive => \A u \in Task \ {t} : held'[u] # who

Release(t) ==
  /\ held[t] # Nobody
  /\ held'[t] = Nobody
  /\ grants'[t] = grants[t]

Next ==
  \A t \in Task : Keep(t) \/ Release(t) \/ \E who \in Holder : Grant(t, who)

Spec == Init /\ [][Next]_<<held, grants>>
=============================================================================
