-------------------------- MODULE GatedTask_proofs --------------------------
(* Theorems about GatedTask, for any task ids, payloads, hosts and bounds. *)
EXTENDS GatedTask, TLAPS

-----------------------------------------------------------------------------
(* What the operators of nudge.cpp return                                  *)

\* A user turn resets the depth only.
LEMMA UserTurnIs ==
  ASSUME NEW s \in NudgeState
  PROVE  /\ recordUserTurn(s) \in NudgeState
         /\ recordUserTurn(s).nudgeDepth = 0
         /\ recordUserTurn(s).rounds = s.rounds
         /\ recordUserTurn(s).stopped = s.stopped
  BY DEF recordUserTurn, NudgeState

\* A nudge raises the depth only.
LEMMA NudgeIs ==
  ASSUME NEW s \in NudgeState
  PROVE  /\ recordNudge(s) \in NudgeState
         /\ recordNudge(s).nudgeDepth = s.nudgeDepth + 1
         /\ recordNudge(s).rounds = s.rounds
         /\ recordNudge(s).stopped = s.stopped
  BY DEF recordNudge, NudgeState

\* An allowed retry uses up a round of a lineage that has some left; any
\* other latches the lineage.
LEMMA RetryIs ==
  ASSUME NEW s \in NudgeState, NEW scope \in RetryScope
  PROVE  /\ recordRetry(s, scope) \in NudgeState
         /\ recordRetry(s, scope).nudgeDepth = s.nudgeDepth
         /\ retryAllowed(s, scope) =>
              /\ ~s.stopped /\ ~recordRetry(s, scope).stopped
              /\ s.rounds <= kMaxRoundsPerTask
              /\ scope = "full" => s.rounds < kMaxRoundsPerTask
              /\ recordRetry(s, scope).rounds = s.rounds + 1
         /\ ~retryAllowed(s, scope) =>
              /\ recordRetry(s, scope).stopped
              /\ recordRetry(s, scope).rounds = s.rounds
  <1>1. CASE retryAllowed(s, scope)
    <2>1. recordRetry(s, scope) = [s EXCEPT !.rounds = @ + 1]
      BY <1>1 DEF recordRetry
    <2> QED
      BY <1>1, <2>1 DEF retryAllowed, NudgeState, kMaxRoundsPerTask, RetryScope
  <1>2. CASE ~retryAllowed(s, scope)
    <2>1. recordRetry(s, scope) = [s EXCEPT !.stopped = TRUE]
      BY <1>2 DEF recordRetry
    <2> QED
      BY <1>2, <2>1 DEF NudgeState
  <1> QED
    BY <1>1, <1>2

\* A counter that is bumped stays a number and grows by one at most.
LEMMA BumpIs ==
  ASSUME NEW n \in Nat
  PROVE  Bump(n) \in Nat /\ Bump(n) <= n + 1 /\ n <= Bump(n)
  BY GolemAssumption DEF Bump, Many

\* ... exactly by one while it is small.
LEMMA SmallBumpIs ==
  ASSUME NEW n \in Nat, n <= 4
  PROVE  Bump(n) = n + 1
  BY GolemAssumption DEF Bump, Many

-----------------------------------------------------------------------------
(* The state of a call                                                     *)

\* The idle call and the empty report have their types.
LEMMA NoRunIs ==
  /\ NoRun \in Run /\ NoRun.step = "idle" /\ NoRun.task = None
  /\ NoReport \in Report
  BY DEF NoRun, Run, Step, HostKind, NoReport, Report, Disposition

\* A call that returns leaves a report.
LEMMA ReturnIs ==
  ASSUME TypeOK, NEW d \in Disposition, Return(d)
  PROVE  run' = NoRun /\ report' \in Report
  BY DEF TypeOK, Return, Report, Run

\* A call that starts is at its binder.
LEMMA CallIs ==
  ASSUME TypeOK, NEW t \in Task, NEW p \in Payload, NEW host \in Host,
         NEW binder \in BOOLEAN, NEW limit \in 0 .. 1,
         Call(t, p, host, binder, limit)
  PROVE  /\ run' \in Run /\ run'.step = "bind" /\ run'.task = t
         /\ run'.current = p /\ run'.argv = p
  <1>1. run' = [NoRun EXCEPT !.step = "bind", !.task = t, !.host = host,
                             !.binder = binder, !.limit = limit,
                             !.current = p, !.argv = p]
    BY DEF Call
  <1>2. host \in HostKind /\ "bind" \in Step
    BY GolemAssumption DEF Step
  <1> QED
    BY <1>1, <1>2, NoRunIs DEF Run

\* Each step of a call that goes on: the step it reaches, and what it keeps.
LEMMA BindIs ==
  ASSUME TypeOK, Bind
  PROVE  \/ /\ run' = NoRun /\ report' \in Report
         \/ /\ run' \in Run /\ run'.step = "gate" /\ run'.task = run.task
            /\ run'.current = run.current /\ run'.binder = run.binder
            /\ run'.argv = IF run.binder THEN run.current ELSE run.argv
            /\ report' = report
  <1>1. CASE Return("gate-refused")
    BY <1>1, ReturnIs DEF Disposition
  <1>2. CASE Continue([run EXCEPT !.step = "gate", !.argv = Bound(run)])
    BY <1>2 DEF Continue, Bound, TypeOK, Run, Step, Bind
  <1> QED
    BY <1>1, <1>2 DEF Bind

LEMMA GateIs ==
  ASSUME TypeOK, Gate
  PROVE  \/ /\ run' = NoRun /\ report' \in Report
         \/ /\ run.current \in AutoRun
            /\ run' \in Run /\ run'.step = "spawn" /\ run'.task = run.task
            /\ run'.current = run.current /\ run'.binder = run.binder
            /\ run'.argv = run.argv /\ run'.approved = run.current
            /\ report' = report
  <1>1. CASE Return("gate-refused") \/ Return("propose-only")
    BY <1>1, ReturnIs DEF Disposition
  <1>2. CASE /\ Executable(run.current)
             /\ Continue([run EXCEPT !.step = "spawn",
                                     !.approved = run.current])
    <2>1. run.current \in AutoRun /\ run.current \in Payload
      BY <1>2, GolemAssumption DEF Executable
    <2> QED
      BY <1>2, <2>1 DEF Continue, TypeOK, Run, Step
  <1> QED
    BY <1>1, <1>2 DEF Gate

LEMMA SpawnIs ==
  ASSUME TypeOK, Spawn
  PROVE  \/ /\ run' = NoRun /\ report' \in Report /\ spawned' = spawned
         \/ /\ run' \in Run /\ run'.step = "verify" /\ run'.task = run.task
            /\ run'.current = run.current /\ run'.binder = run.binder
            /\ run'.argv = run.argv /\ run'.approved = run.approved
            /\ report' = report
            /\ spawned' = [spawned EXCEPT ![run.task] = Bump(@)]
  <1>1. CASE Return("spawn-error") /\ UNCHANGED spawned
    BY <1>1, ReturnIs DEF Disposition
  <1>2. ASSUME NEW exitOk \in BOOLEAN, NEW right \in BOOLEAN,
               Continue([run EXCEPT !.step = "verify", !.exitOk = exitOk,
                                    !.right = right]),
               spawned' = [spawned EXCEPT ![run.task] = Bump(@)]
        PROVE  /\ run' \in Run /\ run'.step = "verify"
               /\ run'.task = run.task /\ run'.current = run.current
               /\ run'.binder = run.binder /\ run'.argv = run.argv
               /\ run'.approved = run.approved /\ report' = report
    BY <1>2 DEF Continue, TypeOK, Run, Step
  <1> QED
    BY <1>1, <1>2 DEF Spawn

LEMMA ReSolicitIs ==
  ASSUME TypeOK, ReSolicit
  PROVE  /\ run' \in Run /\ run'.step = "bind" /\ run'.task = run.task
         /\ run'.current \in Payload /\ run'.binder = run.binder
         /\ run'.argv = run.argv /\ report' = report
  <1>1. CASE Continue([run EXCEPT !.step = "bind", !.current = run.replay,
                                  !.replay = None])
    BY <1>1 DEF Continue, TypeOK, Run, Step, ReSolicit
  <1>2. ASSUME Fresh(run), NEW p \in Payload,
               Continue([run EXCEPT !.step = "bind", !.current = p,
                                    !.replay = None, !.resolicits = @ + 1])
        PROVE  /\ run' \in Run /\ run'.step = "bind" /\ run'.task = run.task
               /\ run'.current \in Payload /\ run'.binder = run.binder
               /\ run'.argv = run.argv /\ report' = report
    <2>1. run.resolicits + 1 \in 0 .. 1
      BY <1>2 DEF Fresh, TypeOK, Run
    <2> QED
      BY <1>2, <2>1 DEF Continue, TypeOK, Run, Step
  <1> QED
    BY <1>1, <1>2 DEF ReSolicit

\* A failed verification: the lineage is latched, or a retry is allowed but
\* its nudge refused, or both are granted and the host is asked.
LEMMA RetryStepIs ==
  ASSUME TypeOK, NEW scope \in RetryScope, NEW replay \in Payload,
         Retry(scope, replay)
  PROVE  LET t == run.task
             s == recordRetry(lineages[t], scope)
         IN
         \/ /\ ~retryAllowed(lineages[t], scope)
            /\ lineages' = [lineages EXCEPT ![t] = s]
            /\ run' = NoRun /\ report' \in Report /\ UNCHANGED aux
         \/ /\ retryAllowed(lineages[t], scope) /\ ~nudgeAllowed(s)
            /\ lineages' = [lineages EXCEPT ![t] = s]
            /\ run' = NoRun /\ report' \in Report /\ UNCHANGED aux
         \/ /\ retryAllowed(lineages[t], scope) /\ nudgeAllowed(s)
            /\ lineages' = [lineages EXCEPT ![t] = recordNudge(s)]
            /\ run' \in Run /\ run'.step = "resolicit" /\ run'.task = t
            /\ run'.current = run.current /\ run'.binder = run.binder
            /\ run'.replay = replay
            /\ run'.argv = run.argv /\ report' = report
            /\ granted' = [granted EXCEPT ![t][scope] = Bump(@)]
            /\ chained' = [chained EXCEPT ![t] = Bump(@)]
            /\ spawned' = spawned
  <1> DEFINE t == run.task
             s == recordRetry(lineages[t], scope)
  <1>1. ASSUME NEW d \in Disposition, Return(d)
        PROVE  run' = NoRun /\ report' \in Report
    BY <1>1, ReturnIs
  <1>2. "stop-report" \in Disposition /\ "verify-failed-stop" \in Disposition
    BY DEF Disposition
  <1>3. CASE ~retryAllowed(lineages[t], scope)
    BY <1>1, <1>2, <1>3 DEF Retry
  <1>4. CASE retryAllowed(lineages[t], scope) /\ ~nudgeAllowed(s)
    BY <1>1, <1>2, <1>4 DEF Retry
  <1>5. CASE retryAllowed(lineages[t], scope) /\ nudgeAllowed(s)
    <2>1. Continue([run EXCEPT !.step = "resolicit", !.replay = replay])
      BY <1>5 DEF Retry
    <2>2. /\ run' \in Run /\ run'.step = "resolicit" /\ run'.task = t
          /\ run'.current = run.current /\ run'.binder = run.binder
          /\ run'.replay = replay
          /\ run'.argv = run.argv /\ report' = report
      BY <2>1 DEF Continue, TypeOK, Run, Step
    <2> QED
      BY <1>5, <2>2 DEF Retry
  <1> QED
    BY <1>3, <1>4, <1>5

-----------------------------------------------------------------------------
(* The inductive invariant                                                 *)

\* The steps of a call but a failed verification leave the budgets alone.
LEMMA BudgetUntouched ==
  ASSUME Bind \/ Gate \/ Verified \/ ReSolicit
  PROVE  UNCHANGED <<lineages, calls, turns, aux>>
  BY DEF Bind, Gate, Verified, ReSolicit

\* A verified call returns.
LEMMA VerifiedIs ==
  ASSUME TypeOK, Verified
  PROVE  run' = NoRun /\ report' \in Report
  BY ReturnIs DEF Verified, Disposition

\* Every step keeps the types.
LEMMA StepTypeOK ==
  ASSUME TypeOK, Next
  PROVE  TypeOK'
  <1> USE NoRunIs
  <1>1. ASSUME NEW t \in Task, NEW p \in Payload, NEW host \in Host,
               NEW binder \in BOOLEAN, NEW limit \in 0 .. 1,
               Call(t, p, host, binder, limit)
        PROVE  TypeOK'
    <2>1. calls' \in [Task -> Nat]
      BY <1>1 DEF Call, TypeOK
    <2>2. report' \in Report /\ UNCHANGED <<lineages, turns, aux>>
      BY <1>1 DEF Call
    <2>3. run' \in Run /\ run'.step = "bind" /\ run'.task \in Task
            /\ run'.current \in Payload
      BY <1>1, CallIs
    <2> QED
      BY <2>1, <2>2, <2>3 DEF TypeOK, aux
  <1>2. CASE Bind
    BY <1>2, BindIs, BudgetUntouched DEF TypeOK, aux, Bind
  <1>3. CASE Gate
    BY <1>3, GateIs, BudgetUntouched DEF TypeOK, aux, Gate
  <1>4. CASE Spawn
    <2>1. spawned' \in [Task -> Nat]
      BY <1>4, SpawnIs, BumpIs DEF TypeOK
    <2> QED
      BY <1>4, <2>1, SpawnIs DEF TypeOK, Spawn
  <1>5. CASE Verified
    BY <1>5, VerifiedIs, BudgetUntouched DEF TypeOK, aux
  <1>6. CASE ReSolicit
    BY <1>6, ReSolicitIs, BudgetUntouched DEF TypeOK, aux, ReSolicit
  <1>7. ASSUME NEW scope \in RetryScope, NEW replay \in Payload,
               Retry(scope, replay)
        PROVE  TypeOK'
    <2> DEFINE t == run.task
               s == recordRetry(lineages[t], scope)
    <2>1. t \in Task /\ lineages[t] \in NudgeState
      BY <1>7 DEF Retry, TypeOK
    <2>2. s \in NudgeState /\ recordNudge(s) \in NudgeState
      BY <2>1, RetryIs, NudgeIs
    <2>3. lineages' \in [Task -> NudgeState]
      BY <1>7, <2>1, <2>2, RetryStepIs DEF TypeOK
    <2>4. /\ granted[t][scope] \in Nat /\ Bump(granted[t][scope]) \in Nat
          /\ chained[t] \in Nat /\ Bump(chained[t]) \in Nat
      BY <1>7, <2>1, BumpIs DEF TypeOK
    <2>5. /\ granted' \in [Task -> [RetryScope -> Nat]]
          /\ chained' \in [Task -> Nat] /\ spawned' \in [Task -> Nat]
      <3>1. \/ UNCHANGED aux
            \/ /\ granted' = [granted EXCEPT ![t][scope] = Bump(@)]
               /\ chained' = [chained EXCEPT ![t] = Bump(@)]
               /\ spawned' = spawned
        BY <1>7, RetryStepIs
      <3>2. /\ granted \in [Task -> [RetryScope -> Nat]]
            /\ chained \in [Task -> Nat] /\ spawned \in [Task -> Nat]
        BY DEF TypeOK
      <3> HIDE DEF t, s
      <3>3. [granted[t] EXCEPT ![scope] = Bump(granted[t][scope])]
              \in [RetryScope -> Nat]
        BY <2>1, <2>4, <3>2
      <3>4. [granted EXCEPT ![t][scope] = Bump(@)]
              \in [Task -> [RetryScope -> Nat]]
        BY <2>1, <3>2, <3>3
      <3> QED
        BY <2>1, <2>4, <3>1, <3>2, <3>4 DEF aux
    <2>6. run' \in Run /\ report' \in Report
      BY <1>7, RetryStepIs DEF TypeOK
    <2>7. /\ run'.step # "idle" =>
               run'.task \in Task /\ run'.current \in Payload
          /\ run'.step = "resolicit" => run'.replay \in Payload
      BY <1>7, <2>1, RetryStepIs DEF TypeOK, Retry
    <2> QED
      BY <1>7, <2>3, <2>5, <2>6, <2>7 DEF TypeOK, Retry
  <1>8. CASE Turn
    <2>1. lineages' \in [Task -> NudgeState]
      BY <1>8, UserTurnIs DEF Turn, TypeOK
    <2> QED
      BY <1>8, <2>1 DEF Turn, TypeOK
  <1>9. ASSUME NEW t \in Task, HostNudge(t)
        PROVE  TypeOK'
    <2>1. lineages' \in [Task -> NudgeState]
      BY <1>9, NudgeIs DEF HostNudge, TypeOK
    <2>2. chained' \in [Task -> Nat]
      BY <1>9, BumpIs DEF HostNudge, TypeOK
    <2> QED
      BY <1>9, <2>1, <2>2 DEF HostNudge, TypeOK
  <1> QED
    BY <1>1, <1>2, <1>3, <1>4, <1>5, <1>6, <1>7, <1>8, <1>9
    DEF Next, RunStep

\* Every step keeps the budgets of all lineages.
LEMMA StepBudget ==
  ASSUME TypeOK, BudgetKept, Next
  PROVE  BudgetKept'
  <1> DEFINE Kept(u) ==
        /\ lineages[u].rounds <= kMaxRoundsPerTask + 1
        /\ granted[u]["full"] + granted[u]["narrow"] <= lineages[u].rounds
        /\ granted[u]["full"] <= kMaxRoundsPerTask
        /\ chained[u] = lineages[u].nudgeDepth
        /\ lineages[u].nudgeDepth <= kMaxNudgeDepth
  <1>a. \A u \in Task : Kept(u)
    BY DEF BudgetKept
  <1>b. ASSUME \A u \in Task : Kept(u)'
        PROVE  BudgetKept'
    BY <1>b DEF BudgetKept
  <1>c. "full" \in RetryScope /\ "narrow" \in RetryScope
    BY DEF RetryScope
  <1> HIDE DEF Kept
  <1>1. CASE UNCHANGED <<lineages, granted, chained>>
    BY <1>1, <1>a, <1>b DEF Kept
  <1>2. ASSUME NEW scope \in RetryScope, NEW replay \in Payload,
               Retry(scope, replay)
        PROVE  BudgetKept'
    <2>0. PICK t \in Task : t = run.task
      BY <1>2 DEF Retry, TypeOK
    <2> DEFINE l == lineages[t]
               s == recordRetry(l, scope)
    <2>1. t \in Task /\ l \in NudgeState
      BY <2>0 DEF TypeOK
    <2>2. /\ s \in NudgeState /\ s.nudgeDepth = l.nudgeDepth
          /\ retryAllowed(l, scope) =>
               /\ l.rounds <= kMaxRoundsPerTask
               /\ scope = "full" => l.rounds < kMaxRoundsPerTask
               /\ s.rounds = l.rounds + 1
          /\ ~retryAllowed(l, scope) => s.rounds = l.rounds
      BY <2>1, RetryIs
    <2>3. /\ recordNudge(s) \in NudgeState
          /\ recordNudge(s).nudgeDepth = s.nudgeDepth + 1
          /\ recordNudge(s).rounds = s.rounds
      BY <2>2, NudgeIs
    <2>4. /\ granted[t] \in [RetryScope -> Nat] /\ chained[t] \in Nat
          /\ Kept(t)
      BY <2>1, <1>a DEF TypeOK
    <2>5. \/ /\ lineages' = [lineages EXCEPT ![t] = s] /\ UNCHANGED aux
          \/ /\ retryAllowed(l, scope) /\ nudgeAllowed(s)
             /\ lineages' = [lineages EXCEPT ![t] = recordNudge(s)]
             /\ granted' = [granted EXCEPT ![t][scope] = Bump(@)]
             /\ chained' = [chained EXCEPT ![t] = Bump(@)]
      BY <1>2, <2>0, RetryStepIs
    <2>6. ASSUME NEW u \in Task, u # t
          PROVE  Kept(u)'
      <3>1. /\ lineages'[u] = lineages[u] /\ granted'[u] = granted[u]
            /\ chained'[u] = chained[u]
        BY <2>1, <2>5, <2>6 DEF TypeOK, aux
      <3> QED
        BY <3>1, <1>a DEF Kept
    <2>7. Kept(t)'
      <3>1. CASE lineages' = [lineages EXCEPT ![t] = s] /\ UNCHANGED aux
        <4>1. lineages'[t] = s /\ granted'[t] = granted[t]
                /\ chained'[t] = chained[t]
          BY <2>1, <3>1 DEF TypeOK, aux
        <4>2. granted[t]["full"] \in Nat /\ granted[t]["narrow"] \in Nat
                /\ l.rounds \in Nat /\ s.rounds \in Nat
          BY <2>1, <2>2, <2>4, <1>c DEF NudgeState
        <4> HIDE DEF s
        <4>3. s.rounds \in {l.rounds, l.rounds + 1}
                /\ s.rounds <= kMaxRoundsPerTask + 1
          BY <2>2, <2>4, <4>2 DEF Kept, kMaxRoundsPerTask
        <4> QED
          BY <2>2, <2>4, <4>1, <4>2, <4>3 DEF Kept, kMaxRoundsPerTask
      <3>2. CASE /\ retryAllowed(l, scope) /\ nudgeAllowed(s)
                 /\ lineages' = [lineages EXCEPT ![t] = recordNudge(s)]
                 /\ granted' = [granted EXCEPT ![t][scope] = Bump(@)]
                 /\ chained' = [chained EXCEPT ![t] = Bump(@)]
        <4>1. /\ lineages'[t] = recordNudge(s)
              /\ granted'[t] = [granted[t] EXCEPT ![scope] =
                                  Bump(granted[t][scope])]
              /\ chained'[t] = Bump(chained[t])
          BY <2>1, <3>2 DEF TypeOK
        <4>2. /\ granted[t]["full"] \in Nat /\ granted[t]["narrow"] \in Nat
              /\ l.rounds \in Nat /\ l.nudgeDepth \in Nat
          BY <2>1, <2>4, <1>c DEF NudgeState
        <4>3. s.nudgeDepth < kMaxNudgeDepth
          BY <3>2 DEF nudgeAllowed
        <4>4. Bump(chained[t]) = chained[t] + 1
          BY <2>2, <2>4, <4>2, <4>3, SmallBumpIs DEF Kept, kMaxNudgeDepth
        <4>5. /\ Bump(granted[t][scope]) \in Nat
              /\ Bump(granted[t][scope]) <= granted[t][scope] + 1
          BY <2>4, BumpIs
        <4> HIDE DEF s
        <4>6. \/ /\ scope = "full"
                 /\ granted'[t]["full"] = Bump(granted[t]["full"])
                 /\ granted'[t]["narrow"] = granted[t]["narrow"]
              \/ /\ scope = "narrow"
                 /\ granted'[t]["narrow"] = Bump(granted[t]["narrow"])
                 /\ granted'[t]["full"] = granted[t]["full"]
          BY <2>4, <4>1, <1>c DEF RetryScope
        <4>7. /\ lineages'[t].rounds = l.rounds + 1
              /\ l.rounds <= kMaxRoundsPerTask
              /\ scope = "full" => l.rounds < kMaxRoundsPerTask
              /\ lineages'[t].nudgeDepth = l.nudgeDepth + 1
              /\ l.nudgeDepth < kMaxNudgeDepth
              /\ chained'[t] = chained[t] + 1
          BY <3>2, <4>1, <4>3, <4>4, <2>2, <2>3
        <4>8. /\ granted[t]["full"] + granted[t]["narrow"] <= l.rounds
              /\ granted[t]["full"] <= kMaxRoundsPerTask
              /\ chained[t] = l.nudgeDepth
          BY <2>4 DEF Kept
        <4> HIDE DEF l
        <4>9. /\ granted'[t]["full"] + granted'[t]["narrow"]
                   <= lineages'[t].rounds
              /\ granted'[t]["full"] <= kMaxRoundsPerTask
          BY <4>2, <4>5, <4>6, <4>7, <4>8 DEF kMaxRoundsPerTask
        <4> QED
          BY <4>2, <4>7, <4>8, <4>9 DEF Kept, kMaxRoundsPerTask,
             kMaxNudgeDepth
      <3> QED
        BY <2>5, <3>1, <3>2
    <2> QED
      BY <2>6, <2>7, <1>b
  <1>3. CASE Turn
    <2>1. ASSUME NEW u \in Task
          PROVE  Kept(u)'
      <3>1. lineages[u] \in NudgeState /\ Kept(u)
        BY <1>a DEF TypeOK
      <3>2. /\ lineages'[u] = recordUserTurn(lineages[u])
            /\ chained'[u] = 0 /\ granted'[u] = granted[u]
        BY <1>3 DEF Turn
      <3> QED
        BY <3>1, <3>2, UserTurnIs DEF Kept, kMaxNudgeDepth
    <2> QED
      BY <2>1, <1>b
  <1>4. ASSUME NEW t \in Task, HostNudge(t)
        PROVE  BudgetKept'
    <2>1. /\ lineages[t] \in NudgeState /\ chained[t] \in Nat
          /\ Kept(t) /\ lineages[t].nudgeDepth < kMaxNudgeDepth
          /\ lineages' = [lineages EXCEPT ![t] = recordNudge(@)]
          /\ chained' = [chained EXCEPT ![t] = Bump(@)]
          /\ granted' = granted
      BY <1>4, <1>a DEF HostNudge, nudgeAllowed, TypeOK
    <2>2. /\ lineages'[t] = recordNudge(lineages[t])
          /\ chained'[t] = Bump(chained[t])
      BY <2>1 DEF TypeOK
    <2>3. Bump(chained[t]) = chained[t] + 1
      BY <2>1, SmallBumpIs DEF Kept, kMaxNudgeDepth
    <2>4. lineages[t].nudgeDepth \in Nat
      BY <2>1 DEF NudgeState
    <2>5. Kept(t)'
      BY <2>1, <2>2, <2>3, <2>4, NudgeIs DEF Kept, kMaxNudgeDepth
    <2>6. ASSUME NEW u \in Task, u # t
          PROVE  Kept(u)'
      <3>1. lineages'[u] = lineages[u] /\ chained'[u] = chained[u]
        BY <2>1, <2>6 DEF TypeOK
      <3> QED
        BY <2>1, <3>1, <1>a DEF Kept
    <2> QED
      BY <2>5, <2>6, <1>b
  <1> QED
    BY <1>1, <1>2, <1>3, <1>4 DEF Next, RunStep, Call, Bind, Gate, Spawn,
       Verified, ReSolicit, aux

\* Whatever a granted retry adds, it adds one to the retries of its task.
LEMMA GrantIs ==
  ASSUME TypeOK, BudgetKept, NEW t \in Task, NEW scope \in RetryScope,
         granted' = [granted EXCEPT ![t][scope] = Bump(@)]
  PROVE  /\ granted'[t]["full"] + granted'[t]["narrow"] =
              granted[t]["full"] + granted[t]["narrow"] + 1
         /\ \A u \in Task \ {t} : granted'[u] = granted[u]
  <1>1. "full" \in RetryScope /\ "narrow" \in RetryScope
    BY DEF RetryScope
  <1>2. /\ granted[t] \in [RetryScope -> Nat]
        /\ lineages[t].rounds \in Nat
        /\ granted[t]["full"] \in Nat /\ granted[t]["narrow"] \in Nat
    BY <1>1 DEF TypeOK, NudgeState
  <1>3. granted[t]["full"] <= 3 /\ granted[t]["narrow"] <= 3
    BY <1>2 DEF BudgetKept, kMaxRoundsPerTask
  <1>4. granted[t][scope] \in Nat /\ granted[t][scope] <= 3
    BY <1>2, <1>3 DEF RetryScope
  <1>5. Bump(granted[t][scope]) = granted[t][scope] + 1
    BY <1>4, SmallBumpIs
  <1>6. granted'[t] = [granted[t] EXCEPT ![scope] = granted[t][scope] + 1]
    BY <1>5 DEF TypeOK
  <1>7. \A u \in Task \ {t} : granted'[u] = granted[u]
    BY DEF TypeOK
  <1>8. \/ /\ scope = "full"
           /\ granted'[t]["full"] = granted[t]["full"] + 1
           /\ granted'[t]["narrow"] = granted[t]["narrow"]
        \/ /\ scope = "narrow"
           /\ granted'[t]["narrow"] = granted[t]["narrow"] + 1
           /\ granted'[t]["full"] = granted[t]["full"]
    BY <1>1, <1>2, <1>6 DEF RetryScope
  <1> QED
    BY <1>2, <1>7, <1>8

\* No step executes what is not paid for.
LEMMA StepPaid ==
  ASSUME TypeOK, BudgetKept, SpawnsPaid, Next
  PROVE  SpawnsPaid'
  <1> DEFINE Due(u) == IF run.task = u /\ run.step \notin {"idle", "verify"}
                         THEN 1 ELSE 0
             Paid(u) == calls[u] + (granted[u]["full"] + granted[u]["narrow"])
  <1>a. \A u \in Task : /\ spawned[u] \in Nat /\ calls[u] \in Nat
                        /\ granted[u]["full"] \in Nat
                        /\ granted[u]["narrow"] \in Nat
                        /\ Paid(u) \in Nat
                        /\ spawned[u] + Due(u) <= Paid(u)
    BY DEF SpawnsPaid, TypeOK, RetryScope
  <1>b. ASSUME TypeOK',
               \A u \in Task : spawned'[u] + Due(u)' <= Paid(u)'
        PROVE  SpawnsPaid'
    <2>1. \A u \in Task :
            calls'[u] \in Nat /\ granted'[u]["full"] \in Nat
              /\ granted'[u]["narrow"] \in Nat
      BY <1>b DEF TypeOK, RetryScope
    <2> QED
      BY <1>b, <2>1 DEF SpawnsPaid
  <1>c. TypeOK'
    BY StepTypeOK
  <1> USE NoRunIs
  <1>d. ASSUME UNCHANGED <<calls, granted, spawned>>,
               \A u \in Task : Due(u)' <= Due(u)
        PROVE  SpawnsPaid'
    BY <1>a, <1>b, <1>c, <1>d
  <1>1. ASSUME NEW t \in Task, NEW p \in Payload, NEW host \in Host,
               NEW binder \in BOOLEAN, NEW limit \in 0 .. 1,
               Call(t, p, host, binder, limit)
        PROVE  SpawnsPaid'
    <2>1. /\ run'.task = t /\ calls' = [calls EXCEPT ![t] = @ + 1]
          /\ UNCHANGED <<granted, spawned>>
      BY <1>1, CallIs DEF Call, aux
    <2>2. ASSUME NEW u \in Task
          PROVE  spawned'[u] + Due(u)' <= Paid(u)'
      <3>1. CASE u = t
        <4>1. calls'[t] = calls[t] + 1
          BY <2>1 DEF TypeOK
        <4>2. spawned[t] <= Paid(t)
          BY <1>a
        <4> QED
          BY <1>a, <2>1, <3>1, <4>1, <4>2
      <3>2. CASE u # t
        <4>1. calls'[u] = calls[u] /\ run'.task # u
          BY <2>1, <3>2 DEF TypeOK
        <4>2. spawned[u] <= Paid(u)
          BY <1>a
        <4> QED
          BY <1>a, <2>1, <4>1, <4>2
      <3> QED
        BY <3>1, <3>2
    <2> QED
      BY <2>2, <1>b, <1>c
  <1>2. CASE Bind
    <2>1. /\ run.step = "bind"
          /\ run' = NoRun \/ run'.task = run.task
      BY <1>2, BindIs DEF Bind
    <2> QED
      BY <1>2, <2>1, <1>d, BudgetUntouched, GolemAssumption DEF aux
  <1>3. CASE Gate
    <2>1. /\ run.step = "gate"
          /\ run' = NoRun \/ run'.task = run.task
      BY <1>3, GateIs DEF Gate
    <2> QED
      BY <1>3, <2>1, <1>d, BudgetUntouched, GolemAssumption DEF aux
  <1>4. CASE Spawn
    <2>0. UNCHANGED <<calls, granted>> /\ run.step = "spawn"
      BY <1>4 DEF Spawn
    <2>1. CASE run' = NoRun /\ spawned' = spawned
      BY <2>0, <2>1, <1>d, GolemAssumption
    <2>2. CASE /\ run'.step = "verify"
               /\ spawned' = [spawned EXCEPT ![run.task] = Bump(@)]
      <3>1. run.task \in Task
        BY <2>0 DEF TypeOK
      <3>2. ASSUME NEW u \in Task
            PROVE  spawned'[u] + Due(u)' <= Paid(u)'
        <4>1. Due(u)' = 0 /\ Paid(u)' = Paid(u)
          BY <2>0, <2>2
        <4>2. CASE u = run.task
          <5>1. spawned'[u] = Bump(spawned[u]) /\ Due(u) = 1
            BY <2>0, <2>2, <4>2 DEF TypeOK
          <5>2. Bump(spawned[u]) \in Nat /\ Bump(spawned[u]) <= spawned[u] + 1
            BY <1>a, BumpIs
          <5> QED
            BY <1>a, <4>1, <5>1, <5>2
        <4>3. CASE u # run.task
          <5>1. spawned'[u] = spawned[u] /\ Due(u) = 0
            BY <2>2, <3>1, <4>3 DEF TypeOK
          <5> QED
            BY <1>a, <4>1, <5>1
        <4> QED
          BY <4>2, <4>3
      <3> QED
        BY <3>2, <1>b, <1>c
    <2> QED
      BY <1>4, SpawnIs, <2>1, <2>2
  <1>5. CASE Verified
    BY <1>5, <1>d, VerifiedIs, BudgetUntouched, GolemAssumption
    DEF aux
  <1>6. CASE ReSolicit
    <2>1. run.step = "resolicit" /\ run'.task = run.task
      BY <1>6, ReSolicitIs DEF ReSolicit
    <2> QED
      BY <1>6, <2>1, <1>d, BudgetUntouched DEF aux
  <1>7. ASSUME NEW scope \in RetryScope, NEW replay \in Payload,
               Retry(scope, replay)
        PROVE  SpawnsPaid'
    <2>0. calls' = calls /\ run.step = "verify"
      BY <1>7 DEF Retry
    <2>1. CASE run' = NoRun /\ UNCHANGED aux
      BY <2>0, <2>1, <1>d, GolemAssumption DEF aux
    <2>2. CASE /\ run'.task = run.task
               /\ granted' = [granted EXCEPT ![run.task][scope] = Bump(@)]
               /\ spawned' = spawned
      <3>1. PICK t \in Task : t = run.task
        BY <2>0 DEF TypeOK
      <3>2. /\ granted'[t]["full"] + granted'[t]["narrow"] =
                 granted[t]["full"] + granted[t]["narrow"] + 1
            /\ \A u \in Task \ {t} : granted'[u] = granted[u]
        BY <2>2, <3>1, GrantIs
      <3>3. ASSUME NEW u \in Task
            PROVE  spawned'[u] + Due(u)' <= Paid(u)'
        <4>1. spawned'[u] = spawned[u] /\ Due(u) = 0 /\ calls'[u] = calls[u]
          BY <2>0, <2>2
        <4>2. CASE u = t
          <5>1. Paid(u)' = Paid(u) + 1
            BY <1>a, <2>0, <3>2, <4>2
          <5>2. Due(u)' \in {0, 1}
            OBVIOUS
          <5> QED
            BY <1>a, <4>1, <5>1, <5>2
        <4>3. CASE u # t
          <5>1. Paid(u)' = Paid(u) /\ Due(u)' = 0
            BY <2>0, <2>2, <3>1, <3>2, <4>3
          <5> QED
            BY <1>a, <4>1, <5>1
        <4> QED
          BY <4>2, <4>3
      <3> QED
        BY <3>3, <1>b, <1>c
    <2> QED
      BY <1>7, RetryStepIs, <2>1, <2>2
  <1>8. CASE Turn
    BY <1>8, <1>d DEF Turn
  <1>9. ASSUME NEW t \in Task, HostNudge(t)
        PROVE  SpawnsPaid'
    BY <1>9, <1>d DEF HostNudge
  <1> QED
    BY <1>1, <1>2, <1>3, <1>4, <1>5, <1>6, <1>7, <1>8, <1>9
    DEF Next, RunStep

\* No step forgets what the gate approved.
LEMMA StepApproved ==
  ASSUME TypeOK, ArgvApproved, Next
  PROVE  ArgvApproved'
  <1> USE NoRunIs
  <1>a. CASE run' = NoRun
    BY <1>a DEF ArgvApproved
  <1>b. CASE UNCHANGED run
    BY <1>b DEF ArgvApproved
  <1>1. ASSUME NEW t \in Task, NEW p \in Payload, NEW host \in Host,
               NEW binder \in BOOLEAN, NEW limit \in 0 .. 1,
               Call(t, p, host, binder, limit)
        PROVE  ArgvApproved'
    BY <1>1, CallIs DEF ArgvApproved
  <1>2. CASE Bind
    <2>1. run.step = "bind"
      BY <1>2 DEF Bind
    <2> QED
      BY <1>2, <2>1, <1>a, BindIs DEF ArgvApproved
  <1>3. CASE Gate
    <2>1. run.step = "gate"
      BY <1>3 DEF Gate
    <2> QED
      BY <1>3, <2>1, <1>a, GateIs DEF ArgvApproved
  <1>4. CASE Spawn
    <2>1. run.step = "spawn"
      BY <1>4 DEF Spawn
    <2> QED
      BY <1>4, <2>1, <1>a, SpawnIs DEF ArgvApproved
  <1>5. CASE Verified
    BY <1>5, <1>a, VerifiedIs
  <1>6. CASE ReSolicit
    <2>1. run.step = "resolicit"
      BY <1>6 DEF ReSolicit
    <2> QED
      BY <1>6, <2>1, ReSolicitIs DEF ArgvApproved
  <1>7. ASSUME NEW scope \in RetryScope, NEW replay \in Payload,
               Retry(scope, replay)
        PROVE  ArgvApproved'
    <2>1. run.step = "verify"
      BY <1>7 DEF Retry
    <2>2. \/ run' = NoRun
          \/ run'.step = "resolicit" /\ run'.argv = run.argv
      BY <1>7, RetryStepIs
    <2> QED
      BY <2>1, <2>2, <1>a DEF ArgvApproved
  <1>8. CASE Turn \/ \E t \in Task : HostNudge(t)
    BY <1>8, <1>b DEF Turn, HostNudge
  <1> QED
    BY <1>1, <1>2, <1>3, <1>4, <1>5, <1>6, <1>7, <1>8 DEF Next, RunStep

\* The invariant holds of the initial states and is kept by every step.
LEMMA InitInductive ==
  ASSUME Init
  PROVE  Inductive
  <1>1. TypeOK
    BY NoRunIs DEF Init, TypeOK, NudgeState, RetryScope
  <1>2. /\ \A t \in Task : /\ lineages[t].rounds = 0
                            /\ lineages[t].nudgeDepth = 0
                            /\ chained[t] = 0 /\ spawned[t] = 0
                            /\ calls[t] = 0
                            /\ granted[t]["full"] = 0
                            /\ granted[t]["narrow"] = 0
        /\ run.step = "idle"
    BY NoRunIs DEF Init, RetryScope
  <1> QED
    BY <1>1, <1>2 DEF Inductive, BudgetKept, SpawnsPaid, ArgvApproved,
       kMaxRoundsPerTask, kMaxNudgeDepth

LEMMA StepInductive ==
  ASSUME Inductive, [Next]_vars
  PROVE  Inductive'
  <1>1. CASE Next
    BY <1>1, StepTypeOK, StepBudget, StepPaid, StepApproved DEF Inductive
  <1>2. CASE UNCHANGED vars
    BY <1>2 DEF Inductive, TypeOK, BudgetKept, SpawnsPaid, ArgvApproved,
       vars, aux
  <1> QED
    BY <1>1, <1>2

-----------------------------------------------------------------------------
(* Theorems                                                                *)

\* The inductive invariant of runGatedTask and the caps of nudge.cpp.
THEOREM InductiveHolds == Spec => []Inductive
  BY InitInductive, StepInductive, PTL DEF Spec

\* For any planner, hooks, hosts and user turns, a task id is granted three
\* retries at most, two of them with the full scope.
THEOREM RetriesAreCapped == Spec => []RetriesCapped
  <1>1. ASSUME Inductive
        PROVE  RetriesCapped
    <2>1. \A t \in Task : /\ granted[t]["full"] \in Nat
                          /\ granted[t]["narrow"] \in Nat
                          /\ lineages[t].rounds \in Nat
      BY <1>1 DEF Inductive, TypeOK, RetryScope, NudgeState
    <2>2. ASSUME NEW t \in Task
          PROVE  /\ granted[t]["full"] <= kMaxRoundsPerTask
                 /\ granted[t]["full"] + granted[t]["narrow"]
                      <= kMaxRoundsPerTask + 1
      <3>1. /\ lineages[t].rounds <= kMaxRoundsPerTask + 1
            /\ granted[t]["full"] + granted[t]["narrow"] <= lineages[t].rounds
            /\ granted[t]["full"] <= kMaxRoundsPerTask
        BY <1>1 DEF Inductive, BudgetKept
      <3> QED
        BY <2>1, <3>1 DEF kMaxRoundsPerTask
    <2> QED
      BY <2>2 DEF RetriesCapped
  <1> QED
    BY <1>1, InductiveHolds, PTL

\* No lineage is continued a fourth time without a user turn.
THEOREM ChainsAreCapped == Spec => []ChainsCapped
  <1>1. ASSUME Inductive
        PROVE  ChainsCapped
    BY <1>1 DEF Inductive, BudgetKept, ChainsCapped
  <1> QED
    BY <1>1, InductiveHolds, PTL

\* A command is executed only for a call or for a granted retry.
THEOREM SpawnsAreAccounted == Spec => []SpawnsAccounted
  <1>1. ASSUME Inductive
        PROVE  SpawnsAccounted
    <2>1. \A t \in Task : /\ spawned[t] \in Nat /\ calls[t] \in Nat
                          /\ granted[t]["full"] \in Nat
                          /\ granted[t]["narrow"] \in Nat
      BY <1>1 DEF Inductive, TypeOK, RetryScope
    <2>2. ASSUME NEW t \in Task
          PROVE  spawned[t] <=
                   calls[t] + granted[t]["full"] + granted[t]["narrow"]
      <3>1. \/ spawned[t] + 0 <=
                 calls[t] + granted[t]["full"] + granted[t]["narrow"]
            \/ spawned[t] + 1 <=
                 calls[t] + granted[t]["full"] + granted[t]["narrow"]
        BY <1>1 DEF Inductive, SpawnsPaid
      <3> QED
        BY <2>1, <3>1
    <2> QED
      BY <2>2 DEF SpawnsAccounted
  <1> QED
    BY <1>1, InductiveHolds, PTL

\* The sandbox runs what the gate approved for execution.
THEOREM CommandsAreApproved == Spec => []SpawnedWasApproved
  <1>1. ASSUME Inductive
        PROVE  SpawnedWasApproved
    BY <1>1 DEF Inductive, ArgvApproved, SpawnedWasApproved
  <1> QED
    BY <1>1, InductiveHolds, PTL

\* Nothing gets a stopped lineage going again.
THEOREM StoppedLineagesStay == Spec => StoppedIsTerminal
  <1> DEFINE Stays(t) == lineages[t].stopped =>
        /\ lineages'[t].stopped
        /\ lineages'[t].rounds = lineages[t].rounds
        /\ lineages'[t].nudgeDepth \in {0, lineages[t].nudgeDepth}
        /\ granted'[t] = granted[t]
  <1>1. ASSUME Inductive, [Next]_vars, NEW t \in Task
        PROVE  Stays(t)
    <2>0. TypeOK /\ lineages[t] \in NudgeState
      BY <1>1 DEF Inductive, TypeOK
    <2>1. CASE UNCHANGED <<lineages, granted>>
      BY <2>1
    <2>2. ASSUME NEW scope \in RetryScope, NEW replay \in Payload,
                 Retry(scope, replay)
          PROVE  Stays(t)
      <3>0. PICK u \in Task : u = run.task
        BY <2>0, <2>2 DEF Retry, TypeOK
      <3> DEFINE s == recordRetry(lineages[u], scope)
      <3>1. lineages[u] \in NudgeState
        BY <2>0 DEF TypeOK
      <3>2. \/ /\ lineages' = [lineages EXCEPT ![u] = s] /\ UNCHANGED aux
               /\ ~retryAllowed(lineages[u], scope) \/ ~lineages[u].stopped
            \/ /\ ~lineages[u].stopped
               /\ \E l : lineages' = [lineages EXCEPT ![u] = l]
               /\ granted' = [granted EXCEPT ![u][scope] = Bump(@)]
        BY <2>0, <2>2, <3>0, RetryStepIs DEF retryAllowed
      <3>3. CASE u = t
        BY <2>0, <3>1, <3>2, <3>3, RetryIs DEF TypeOK, aux
      <3>4. CASE u # t
        BY <2>0, <3>2, <3>4 DEF TypeOK, aux
      <3> QED
        BY <3>3, <3>4
    <2>3. CASE Turn
      <3>1. lineages'[t] = recordUserTurn(lineages[t]) /\ granted' = granted
        BY <2>3 DEF Turn
      <3> QED
        BY <2>0, <3>1, UserTurnIs
    <2>4. ASSUME NEW u \in Task, HostNudge(u)
          PROVE  Stays(t)
      BY <2>0, <2>4 DEF HostNudge, nudgeAllowed, TypeOK
    <2> QED
      BY <1>1, <2>1, <2>2, <2>3, <2>4 DEF Next, RunStep, Call, Bind, Gate,
         Spawn, Verified, ReSolicit, vars, aux
  <1>2. ASSUME Inductive, [Next]_vars
        PROVE  [\A t \in Task : Stays(t)]_vars
    BY <1>1, <1>2
  <1> QED
    BY <1>2, InductiveHolds, PTL DEF Spec, StoppedIsTerminal

\* No report claims more than the two layers of verification showed.
THEOREM ReportsAreHonest == Spec => []LabelsAreHonest
  <1>1. ASSUME Init
        PROVE  LabelsAreHonest
    BY <1>1 DEF Init, NoReport, LabelsAreHonest
  <1>2. ASSUME Inductive, LabelsAreHonest, [Next]_vars
        PROVE  LabelsAreHonest'
    <2>0. TypeOK
      BY <1>2 DEF Inductive
    <2>1. CASE UNCHANGED report
      BY <1>2, <2>1 DEF LabelsAreHonest
    <2>2. ASSUME NEW d \in Disposition \ {"verified", "verified-exit-only"},
                 Return(d)
          PROVE  LabelsAreHonest'
      BY <2>2 DEF Return, LabelsAreHonest
    <2>3. ASSUME NEW t \in Task, NEW p \in Payload, NEW host \in Host,
                 NEW binder \in BOOLEAN, NEW limit \in 0 .. 1,
                 Call(t, p, host, binder, limit)
          PROVE  LabelsAreHonest'
      BY <2>3 DEF Call, NoReport, LabelsAreHonest
    <2>4. CASE Verified
      <3>1. /\ run.exitOk
            /\ \/ run.host = "none"
               \/ run.host = "declared" /\ run.right
        <4>1. run.exitOk /\ TRUE \in Content(run)
          BY <2>4 DEF Verified, Passes
        <4>2. run.host \in HostKind
          BY <2>0 DEF TypeOK, Run
        <4> QED
          BY <4>1, <4>2 DEF Content, HostKind
      <3>2. Return(IF run.host = "none" THEN "verified-exit-only"
                                        ELSE "verified")
        BY <2>4 DEF Verified
      <3> QED
        BY <3>1, <3>2 DEF Return, LabelsAreHonest
    <2>5. ASSUME NEW scope \in RetryScope, NEW replay \in Payload,
                 Retry(scope, replay)
          PROVE  LabelsAreHonest'
      <3>1. \/ Return("stop-report") \/ Return("verify-failed-stop")
            \/ UNCHANGED report
        BY <2>5 DEF Retry, Continue
      <3> QED
        BY <2>1, <2>2, <3>1 DEF Disposition
    <2>6. CASE Bind \/ Gate \/ Spawn
      <3>1. \/ Return("gate-refused") \/ Return("propose-only")
            \/ Return("spawn-error") \/ UNCHANGED report
        BY <2>6 DEF Bind, Gate, Spawn, Continue
      <3> QED
        BY <2>1, <2>2, <3>1 DEF Disposition
    <2> QED
      BY <1>2, <2>1, <2>3, <2>4, <2>5, <2>6 DEF Next, RunStep, ReSolicit,
         Continue, Turn, HostNudge, vars
  <1> QED
    BY <1>1, <1>2, InductiveHolds, PTL DEF Spec
=============================================================================
