------------------------------ MODULE TaskBoard ------------------------------
(***************************************************************************)
(* What the file loop promises, whoever works and whoever dies: a board of *)
(* tasks. A task is put up as the root, or as a part of one that somebody  *)
(* has claimed; it is claimed once; what its card shows of work, and what  *)
(* the log tells of it, comes after the claim; and a task the log calls    *)
(* split has a part on the board. Cards are rewritten, and may be          *)
(* unreadable in between.                                                  *)
(***************************************************************************)
EXTENDS Naturals

CONSTANTS
  Task,   \* what can be on the board
  Top,    \* the task that is put up first
  Parts,  \* the parts a task can be split into
  Line    \* what the log can tell of a task

VARIABLES
  listed, \* tasks on the board
  claims, \* how often a task was claimed
  worked, \* tasks whose card shows work
  told    \* what the log tells of each task

BoardInit ==
  /\ listed = {} /\ worked = {}
  /\ claims = [t \in Task |-> 0]
  /\ told = [t \in Task |-> {}]

Claimed == {t \in Task : claims[t] = 1}

PutUp(t) ==
  /\ t \notin listed
  /\ t = Top \/ \E whole \in Claimed : t \in Parts[whole]
  /\ listed' = listed \cup {t}
  /\ UNCHANGED <<claims, worked, told>>

Claim(t) ==
  /\ t \in listed /\ claims[t] = 0
  /\ claims' = [claims EXCEPT ![t] = 1]
  /\ UNCHANGED <<listed, worked, told>>

Rewrite ==
  /\ worked' \subseteq Claimed
  /\ UNCHANGED <<listed, claims, told>>

Tell(t, line) ==
  /\ t \in Claimed
  /\ line = "split" => Parts[t] \cap listed # {}
  /\ told' = [told EXCEPT ![t] = @ \cup {line}]
  /\ UNCHANGED <<listed, claims, worked>>

BoardNext ==
  \/ \E t \in Task : PutUp(t) \/ Claim(t) \/ \E line \in Line : Tell(t, line)
  \/ Rewrite

BoardSpec == BoardInit /\ [][BoardNext]_<<listed, claims, worked, told>>
=============================================================================
