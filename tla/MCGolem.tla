------------------------------ MODULE MCGolem -------------------------------
(***************************************************************************)
(* The parts of dsh-lite-cpp side by side, for one run of TLC: a behaviour *)
(* is one of the part that "system" names, and the variables of the others *)
(* keep the same initial values. A part appears in another one as the step *)
(* or the outcome that the other sees of it.                               *)
(***************************************************************************)
EXTENDS GatedTask, MCRouter, LlmCall, AbiCall, JudgeGate, BrainHistory

VARIABLE system

\* What a judge may print: an action or none, and the word "fallback".
Texts == [action : {"", "do_direct", "spiral_stop", "other"}, fallback : BOOLEAN]

GolemInit ==
  /\ system \in {"task", "router", "llm", "abi", "judge", "history"}
  /\ Init /\ LlmInit /\ AbiInit /\ JudgeInit /\ HistoryInit
  /\ RouterInit /\ (system # "router" => config = TwoLanes)

GolemNext ==
  \/ /\ system = "task" /\ Next
     /\ UNCHANGED <<routerVars, llmVars, abiVars, judgeVars, historyVars, system>>
  \/ /\ system = "router" /\ RouterNext
     /\ UNCHANGED <<vars, llmVars, abiVars, judgeVars, historyVars, system>>
  \/ /\ system = "llm" /\ LlmNext
     /\ UNCHANGED <<vars, routerVars, abiVars, judgeVars, historyVars, system>>
  \/ /\ system = "abi" /\ AbiNext
     /\ UNCHANGED <<vars, routerVars, llmVars, judgeVars, historyVars, system>>
  \/ /\ system = "judge" /\ JudgeNext
     /\ UNCHANGED <<vars, routerVars, llmVars, abiVars, historyVars, system>>
  \/ /\ system = "history" /\ HistoryNext
     /\ UNCHANGED <<vars, routerVars, llmVars, abiVars, judgeVars, system>>

GolemSpec ==
  /\ GolemInit
  /\ [][GolemNext]_<<vars, routerVars, llmVars, abiVars, judgeVars, historyVars, system>>
  /\ WF_vars(RunStep)
  /\ JudgeFairness
=============================================================================
