------------------------------ MODULE GatedTask ------------------------------
(***************************************************************************)
(* Golem's host loop (dsh-lite-cpp): BrainLoop::runGatedTask takes a tool  *)
(* payload through the gate, the sandbox and the two layers of             *)
(* verification, and retries it within the caps of nudge.cpp. The caps are *)
(* kept per task id (a lineage) and outlive a call; a call is synchronous, *)
(* so user turns and the host's own nudges come between calls.             *)
(***************************************************************************)
EXTENDS Naturals

CONSTANTS
  Task,      \* task ids
  Payload,   \* tool payloads
  Allowed,   \* payloads checkPayload lets pass
  AutoRun,   \* those that are autoExecutable: not propose-only
  Host,      \* kinds of host that call runGatedTask, a subset of HostKind
  MaxCalls,  \* bound: calls of runGatedTask
  MaxTurns,  \* bound: user turns
  None       \* JSON null, std::nullopt

(***************************************************************************)
(* What a host passes as the postcondition hook, and what the hook returns *)
(* once the command exited with 0:                                         *)
(* "none"      no hook                                                     *)
(* "declared"  checkPostcondition of a declared ground truth               *)
(* "cli"       main.cpp, when the task states nothing to check: a default  *)
(*             PostconditionResult, neither evaluated nor passed           *)
(***************************************************************************)
HostKind == {"none", "declared", "cli"}

ASSUME GolemAssumption ==
  /\ AutoRun \subseteq Allowed /\ Allowed \subseteq Payload
  /\ None \notin Task \cup Payload
  /\ Host \subseteq HostKind
  /\ MaxCalls \in Nat /\ MaxTurns \in Nat

VARIABLES
  lineages, \* nudgeStates_: the NudgeState of each task id
  run,      \* the call of runGatedTask in progress, its local variables
  report,   \* the TaskReport of the last call
  calls,    \* calls so far, per task id
  turns,    \* user turns so far
  granted,  \* auxiliary: retries granted, per task id and declared scope
  chained,  \* auxiliary: nudges since the last user turn, per task id
  spawned   \* auxiliary: commands executed, per task id

aux  == <<granted, chained, spawned>>
vars == <<lineages, run, report, calls, turns, aux>>

-----------------------------------------------------------------------------
kMaxNudgeDepth    == 3
kMaxRoundsPerTask == 2

\* The auxiliary counters stop here, above all they are compared with.
Many    == MaxCalls + 5
Bump(n) == IF n < Many THEN n + 1 ELSE n

RetryScope  == {"full", "narrow"}
NudgeState  == [nudgeDepth : Nat, rounds : Nat, stopped : BOOLEAN]
Disposition == {"none", "verified", "verified-exit-only",
                "verify-failed-stop", "gate-refused", "propose-only",
                "stop-report", "spawn-error"}
Step        == {"idle", "bind", "gate", "spawn", "verify", "resolicit"}

\* current is the payload to run next, replay the planner's version of it,
\* argv the payload the command line in SpawnOptions was made from; approved,
\* exitOk and right are of the attempt in progress: the payload the gate let
\* pass, the exit status, and whether the artifact is what the task asked for.
Run == [step : Step, task : Task \cup {None}, host : HostKind,
        binder : BOOLEAN, limit : 0 .. 1, resolicits : 0 .. 1,
        current : Payload \cup {None}, replay : Payload \cup {None},
        argv : Payload \cup {None}, approved : Payload \cup {None},
        exitOk : BOOLEAN, right : BOOLEAN]

NoRun == [step |-> "idle", task |-> None, host |-> "none", binder |-> FALSE,
          limit |-> 0, resolicits |-> 0, current |-> None, replay |-> None,
          argv |-> None, approved |-> None, exitOk |-> FALSE,
          right |-> FALSE]

Report   == [disposition : Disposition, host : HostKind, exitOk : BOOLEAN,
             right : BOOLEAN]
NoReport == [disposition |-> "none", host |-> "none", exitOk |-> FALSE,
             right |-> FALSE]

-----------------------------------------------------------------------------
(* nudge.cpp                                                               *)

nudgeAllowed(s) == ~s.stopped /\ s.nudgeDepth < kMaxNudgeDepth

recordNudge(s) == [s EXCEPT !.nudgeDepth = @ + 1]

recordUserTurn_resetsRounds(s) == [s EXCEPT !.nudgeDepth = 0, !.rounds = 0]

recordUserTurn(s) == [s EXCEPT !.nudgeDepth = 0]

\* recordRetry, the verdict Allow ...
retryAllowed(s, scope) ==
  /\ ~s.stopped
  /\ \/ s.rounds < kMaxRoundsPerTask
     \/ s.rounds = kMaxRoundsPerTask /\ scope = "narrow"

\* ... and what it does to the rounds. Of the other verdicts, StopAndReport
\* latches the lineage here and MustNarrowOrReroute in runGatedTask.
recordRetry(s, scope) ==
  IF retryAllowed(s, scope) THEN [s EXCEPT !.rounds = @ + 1]
                            ELSE [s EXCEPT !.stopped = TRUE]

-----------------------------------------------------------------------------
Init ==
  /\ lineages = [t \in Task |->
                   [nudgeDepth |-> 0, rounds |-> 0, stopped |-> FALSE]]
  /\ run = NoRun
  /\ report = NoReport
  /\ calls = [t \in Task |-> 0]
  /\ turns = 0
  /\ granted = [t \in Task |-> [scope \in RetryScope |-> 0]]
  /\ chained = [t \in Task |-> 0]
  /\ spawned = [t \in Task |-> 0]

-----------------------------------------------------------------------------
(* runGatedTask                                                            *)

\* The call returns.
Return(disposition) ==
  /\ report' = [disposition |-> disposition, host |-> run.host,
                exitOk |-> run.exitOk, right |-> run.right]
  /\ run' = NoRun

Continue(r) == run' = r /\ UNCHANGED report

\* A host calls, with an argv made from the payload it passes.
Call(t, p, host, binder, limit) ==
  /\ run = NoRun
  /\ calls[t] < MaxCalls
  /\ calls' = [calls EXCEPT ![t] = @ + 1]
  /\ run' = [NoRun EXCEPT !.step = "bind", !.task = t, !.host = host,
                          !.binder = binder, !.limit = limit,
                          !.current = p, !.argv = p]
  /\ report' = NoReport
  /\ UNCHANGED <<lineages, turns, aux>>

Bound_firstOnly(r) == r.argv

\* The payload the command line stands for after bindExec.
Bound(r) == IF r.binder THEN r.current ELSE r.argv

\* bindExec may throw.
Bind ==
  /\ run.step = "bind"
  /\ \/ Continue([run EXCEPT !.step = "gate", !.argv = Bound(run)])
     \/ run.binder /\ Return("gate-refused")
  /\ UNCHANGED <<lineages, calls, turns, aux>>

\* autoExecutable(checkPayload(p))
Executable(p) == p \in AutoRun

\* checkPayload may throw.
Gate ==
  /\ run.step = "gate"
  /\ \/ /\ Executable(run.current)
        /\ Continue([run EXCEPT !.step = "spawn", !.approved = run.current])
     \/ run.current \in Allowed \ AutoRun /\ Return("propose-only")
     \/ Return("gate-refused")
  /\ UNCHANGED <<lineages, calls, turns, aux>>

\* SwarmSpawner::spawn, bounded by its watchdog; the worker did what was
\* asked, or not, and exits with 0, or not.
Spawn ==
  /\ run.step = "spawn"
  /\ \/ \E exitOk, right \in BOOLEAN :
          /\ Continue([run EXCEPT !.step = "verify", !.exitOk = exitOk,
                                  !.right = right])
          /\ spawned' = [spawned EXCEPT ![run.task] = Bump(@)]
     \/ Return("spawn-error") /\ UNCHANGED spawned
  /\ UNCHANGED <<lineages, calls, turns, granted, chained>>

\* Layer 2, asked only after layer 1 passed: the hook finds a right artifact
\* right, and may throw.
Content(r) ==
  CASE r.host = "declared" -> {r.right, FALSE}
    [] r.host = "cli"      -> {FALSE}
    [] OTHER               -> {TRUE}

Passes_exitOnly(r) == {r.exitOk}

\* The verdicts of both layers.
Passes(r) == IF r.exitOk THEN Content(r) ELSE {FALSE}

\* Verification, and after a failure the planner, the retry budget and the
\* nudge of the next attempt.
Verified ==
  /\ run.step = "verify"
  /\ TRUE \in Passes(run)
  /\ Return(IF run.host = "none" THEN "verified-exit-only" ELSE "verified")
  /\ UNCHANGED <<lineages, calls, turns, aux>>

Retry_uncapped(scope, replay) ==
  /\ run.step = "verify"
  /\ FALSE \in Passes(run)
  /\ Continue([run EXCEPT !.step = "resolicit", !.replay = replay])
  /\ UNCHANGED <<lineages, calls, turns, aux>>

Retry(scope, replay) ==
  LET t == run.task
      s == recordRetry(lineages[t], scope)
  IN
  /\ run.step = "verify"
  /\ FALSE \in Passes(run)
  /\ IF ~retryAllowed(lineages[t], scope)
       THEN /\ lineages' = [lineages EXCEPT ![t] = s]
            /\ Return(IF /\ lineages[t].stopped
                         /\ lineages[t].rounds <= kMaxRoundsPerTask
                        THEN "stop-report" ELSE "verify-failed-stop")
            /\ UNCHANGED aux
     ELSE IF ~nudgeAllowed(s)
       THEN /\ lineages' = [lineages EXCEPT ![t] = s]
            /\ Return("stop-report")
            /\ UNCHANGED aux
     ELSE /\ lineages' = [lineages EXCEPT ![t] = recordNudge(s)]
          /\ Continue([run EXCEPT !.step = "resolicit", !.replay = replay])
          /\ granted' = [granted EXCEPT ![t][scope] = Bump(@)]
          /\ chained' = [chained EXCEPT ![t] = Bump(@)]
          /\ UNCHANGED spawned
  /\ UNCHANGED <<calls, turns>>

Fresh(r) == r.resolicits < r.limit

\* The host may be asked for a fresh payload; it may have none, and throw.
ReSolicit ==
  /\ run.step = "resolicit"
  /\ \/ Continue([run EXCEPT !.step = "bind", !.current = run.replay,
                             !.replay = None])
     \/ /\ Fresh(run)
        /\ \E p \in Payload :
             Continue([run EXCEPT !.step = "bind", !.current = p,
                                  !.replay = None, !.resolicits = @ + 1])
  /\ UNCHANGED <<lineages, calls, turns, aux>>

-----------------------------------------------------------------------------
\* BrainLoop::turn: every lineage gets recordUserTurn.
Turn ==
  /\ run = NoRun
  /\ turns < MaxTurns
  /\ turns' = turns + 1
  /\ lineages' = [t \in Task |-> recordUserTurn(lineages[t])]
  /\ chained' = [t \in Task |-> 0]
  /\ UNCHANGED <<run, report, calls, granted, spawned>>

\* The host continues a lineage by itself, after a stall for one; main.cpp
\* does not.
HostNudge(t) ==
  /\ Host # {"cli"}
  /\ run = NoRun
  /\ nudgeAllowed(lineages[t])
  /\ lineages' = [lineages EXCEPT ![t] = recordNudge(@)]
  /\ chained' = [chained EXCEPT ![t] = Bump(@)]
  /\ UNCHANGED <<run, report, calls, turns, granted, spawned>>

RunStep ==
  \/ Bind \/ Gate \/ Spawn \/ Verified \/ ReSolicit
  \/ \E scope \in RetryScope, replay \in Payload : Retry(scope, replay)

Next ==
  \/ \E t \in Task, p \in Payload, host \in Host, binder \in BOOLEAN,
        limit \in 0 .. 1 : Call(t, p, host, binder, limit)
  \/ RunStep
  \/ Turn
  \/ \E t \in Task : HostNudge(t)

Spec == Init /\ [][Next]_vars

\* A call is one synchronous loop; hooks return and the watchdog ends a
\* worker.
FairSpec == Spec /\ WF_vars(RunStep)

-----------------------------------------------------------------------------
(* Properties                                                              *)

\* Every variable has its type.
TypeOK ==
  /\ lineages \in [Task -> NudgeState]
  /\ run \in Run
  /\ run.step # "idle" => run.task \in Task /\ run.current \in Payload
  /\ run.step = "resolicit" => run.replay \in Payload
  /\ report \in Report
  /\ calls \in [Task -> Nat] /\ turns \in Nat
  /\ granted \in [Task -> [RetryScope -> Nat]]
  /\ chained \in [Task -> Nat]
  /\ spawned \in [Task -> Nat]

\* What runs in the sandbox was approved by the gate for execution in this
\* call; with a binder it is the very payload approved last, re-solicited or
\* rewritten by the planner as it may be (F99).
SpawnedWasApproved ==
  run.step = "verify" =>
    /\ run.argv \in AutoRun
    /\ run.binder => run.argv = run.approved

\* Over all calls and user turns of a task id, three retries are granted at
\* most, and two with the full scope ("a user turn must not launder exhausted
\* verification retries").
RetriesCapped ==
  \A t \in Task :
    /\ granted[t]["full"] <= kMaxRoundsPerTask
    /\ granted[t]["full"] + granted[t]["narrow"] <= kMaxRoundsPerTask + 1

\* The fourth continuation without a user turn is refused, whoever of the
\* host and the retry loop asked for the first three.
ChainsCapped ==
  \A t \in Task : chained[t] <= kMaxNudgeDepth

\* Nothing is executed for a task id but once per call and once per retry
\* granted.
SpawnsAccounted ==
  \A t \in Task :
    spawned[t] <= calls[t] + granted[t]["full"] + granted[t]["narrow"]

\* A report never claims more than was checked: "verified" means that a
\* declared postcondition held after the last command exited with 0,
\* "verified-exit-only" that nothing was declared.
LabelsAreHonest ==
  /\ report.disposition = "verified" =>
       report.host = "declared" /\ report.exitOk /\ report.right
  /\ report.disposition = "verified-exit-only" =>
       report.host = "none" /\ report.exitOk

\* "The lineage is terminal": a stopped lineage stays stopped, and neither a
\* call nor the host gets another retry or nudge out of it.
StoppedIsTerminal ==
  [][\A t \in Task : lineages[t].stopped =>
       /\ lineages'[t].stopped
       /\ lineages'[t].rounds = lineages[t].rounds
       /\ lineages'[t].nudgeDepth \in {0, lineages[t].nudgeDepth}
       /\ granted'[t] = granted[t]]_vars

\* A call of runGatedTask returns, whatever the planner and the hooks say.
CallsReturn == run # NoRun ~> run = NoRun

-----------------------------------------------------------------------------
(* The invariants above, made inductive                                    *)

\* The rounds of a lineage are the retries granted, or more when the nudge of
\* a granted one was refused; its depth is the chain since the user's turn.
BudgetKept ==
  \A t \in Task :
    /\ lineages[t].rounds <= kMaxRoundsPerTask + 1
    /\ granted[t]["full"] + granted[t]["narrow"] <= lineages[t].rounds
    /\ granted[t]["full"] <= kMaxRoundsPerTask
    /\ chained[t] = lineages[t].nudgeDepth
    /\ lineages[t].nudgeDepth <= kMaxNudgeDepth

\* The attempt a call has not executed yet is paid for.
SpawnsPaid ==
  \A t \in Task :
    spawned[t] + (IF run.task = t /\ run.step \notin {"idle", "verify"}
                    THEN 1 ELSE 0)
      <= calls[t] + granted[t]["full"] + granted[t]["narrow"]

\* A command line that was approved once stays approved.
ArgvApproved ==
  /\ run.step \in {"bind", "gate"} =>
       run.argv \in AutoRun \/ run.argv = run.current
  /\ run.step = "gate" /\ run.binder => run.argv = run.current
  /\ run.step \in {"spawn", "verify", "resolicit"} => run.argv \in AutoRun
  /\ run.step \in {"spawn", "verify"} /\ run.binder =>
       run.argv = run.approved

Inductive == TypeOK /\ BudgetKept /\ SpawnsPaid /\ ArgvApproved
=============================================================================
