--------------------------- MODULE MCFileProtocols ---------------------------
(***************************************************************************)
(* The protocols over plain files side by side, for one run of TLC: a      *)
(* behaviour is one of a mailbox (Mailbox), of the directories of teams    *)
(* (TeamFiles) or of the file loop's queue (TaskLoop), and the variables   *)
(* of the others keep their initial values.                                *)
(***************************************************************************)
EXTENDS Mailbox, TaskLoop, TeamFiles

VARIABLE system

FilesInit ==
  /\ system \in {"mail", "queue", "teams"}
  /\ Init /\ LoopInit /\ LifeInit
  /\ system # "mail" => recipient = "member"
  /\ system # "teams" => ~overlap

FilesNext ==
  \/ system = "mail" /\ Next /\ UNCHANGED <<loopVars, lifeVars, system>>
  \/ system = "queue" /\ LoopNext /\ UNCHANGED <<vars, lifeVars, system>>
  \/ system = "teams" /\ LifeNext /\ UNCHANGED <<vars, loopVars, system>>

FilesSpec ==
  /\ FilesInit
  /\ [][FilesNext]_<<vars, loopVars, lifeVars, system>>
  /\ \A m \in Message : WF_vars(SendStep(m)) /\ WF_vars(LeaseLapses(m))
  /\ WF_vars(KickStep) /\ SF_vars(KickAccepted)
  /\ \A p \in Poll :
       /\ WF_vars(PollRereads(p) \/ PollReturns(p))
       /\ WF_vars(system = "mail" /\ recipient = "captain" /\ PollReads(p))
=============================================================================
