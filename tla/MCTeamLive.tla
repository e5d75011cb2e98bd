----------------------------- MODULE MCTeamLive -----------------------------
(***************************************************************************)
(* TeamTasks for liveness, in two settings of one run of TLC: two members, *)
(* no handoff, and no removal of a member at work ("pair"), or one member  *)
(* and a captain that reassigns ("handoff"). The settings restrict calls   *)
(* of tools only, of which none is assumed to be made.                     *)
(***************************************************************************)
EXTENDS TeamTasks

VARIABLE setting

First == CHOOSE m \in Member : TRUE
Settled ==
  /\ setting = "pair" =>
       /\ handoffs' = handoffs
       /\ \A m \in Member : Owned(m) # {} => members'[m] # "removed"
  /\ setting = "handoff" => \A m \in Member \ {First} : members'[m] = "absent"

LiveSpec ==
  /\ Init /\ setting \in {"pair", "handoff"}
  /\ [][Next /\ Settled /\ setting' = setting]_<<vars, setting>>
  /\ Fairness
=============================================================================
