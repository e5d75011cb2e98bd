------------------------------ MODULE JudgeGate ------------------------------
(***************************************************************************)
(* The gate before a delegation in dsh-lite-cpp (brain.cpp): the judge is  *)
(* a worker of its own whose output is parsed into a verdict, or a hook of *)
(* the host; whatever goes wrong, the verdict is to escalate to the user.  *)
(***************************************************************************)
EXTENDS Spawner

CONSTANT MaxGates  \* bound: delegations gated

VARIABLES
  gate,    \* "idle", "judging"
  gates,   \* delegations gated so far
  verdict  \* of the last gate: its action, and whether it is a fallback

gateVars == <<gate, gates, verdict>>
judgeVars == <<workerVars, gateVars>>

Judged == {"do_direct", "split_once", "strict_verify", "spiral_stop"}
JudgeAction == Judged \cup {"escalate"}

Verdict == [action : JudgeAction, fallback : BOOLEAN]
Fallback == [action |-> "escalate", fallback |-> TRUE]

JudgeInit ==
  /\ SpawnerInit
  /\ gate = "idle" /\ gates = 0
  /\ verdict = Fallback

\* What a judge that exited with 0 said: one of the four actions, and the
\* word "fallback" nowhere in its output.
Parse(text) ==
  IF text.fallback \/ text.action \notin Judged THEN Fallback
  ELSE [action |-> text.action, fallback |-> FALSE]

\* gateDelegation: a verdict marked as a fallback escalates, whoever made it.
Gated(v) == IF v.fallback THEN Fallback ELSE v

EnterGate ==
  /\ gate = "idle" /\ gates < MaxGates
  /\ gates' = gates + 1

\* A hook of the host returns any verdict, or throws.
HostHook(v) ==
  /\ EnterGate
  /\ verdict' = Gated(v)
  /\ UNCHANGED <<gate, workerVars>>

HookThrows ==
  /\ EnterGate
  /\ verdict' = Fallback
  /\ UNCHANGED <<gate, workerVars>>

\* The hook that runs the judge of loop.ts, for a criterion that says something.
NodeHook(empty, fails) ==
  /\ EnterGate
  /\ IF empty
     THEN verdict' = Fallback /\ UNCHANGED <<gate, workerVars>>
     ELSE gate' = "judging" /\ BeginSpawn(fails) /\ UNCHANGED verdict

NodeAnswers_anyExit ==
  /\ gate = "judging" /\ result.done
  /\ gate' = "idle"
  /\ verdict' = Gated(IF result.timedOut THEN Fallback ELSE Parse(wrote))
  /\ Cleanup
  /\ UNCHANGED <<gates, result, proc, status, wrote, clock, held>>

NodeAnswers ==
  /\ gate = "judging" /\ result.done
  /\ gate' = "idle"
  /\ verdict' = Gated(IF result.timedOut \/ result.code # 0 THEN Fallback ELSE Parse(wrote))
  /\ Cleanup
  /\ UNCHANGED <<gates, result, proc, status, wrote, clock, held>>

JudgeNext ==
  \/ \E v \in Verdict : HostHook(v)
  \/ HookThrows
  \/ \E empty \in BOOLEAN, fails \in SpawnFaults : NodeHook(empty, fails)
  \/ WorkerStep /\ UNCHANGED gateVars
  \/ NodeAnswers

\* The parent polls, and time passes.
JudgeFairness ==
  /\ WF_judgeVars((SpawnTick \/ WatchTimedOut \/ WatchReaps \/ Drain) /\ UNCHANGED gateVars)
  /\ WF_judgeVars(NodeAnswers)

JudgeSpec == JudgeInit /\ [][JudgeNext]_judgeVars /\ JudgeFairness

(***************************************************************************)
(* Properties.                                                             *)
(***************************************************************************)

\* When the judge's gate closes with anything but an escalation, its worker
\* exited with 0 before the deadline and said so in its output; and however it
\* closes, no process and no workspace of the worker is left.
DelegationWasJudged ==
  [][gate = "judging" /\ gate' = "idle" =>
       /\ verdict'.action # "escalate" =>
            proc = "reaped" /\ status = 0 /\ ~result.timedOut /\ wrote.action = verdict'.action
       /\ proc' \in {"none", "reaped"} /\ workdir' = "none"]_judgeVars

\* The gate answers, even if the judge hangs, and even if a process that the
\* judge started outlives it with its pipes open (spawner.cpp:182-222, 226-229).
GateAnswers == gate = "judging" ~> gate = "idle"

=============================================================================
