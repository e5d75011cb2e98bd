---------------------------- MODULE ForwardNudge -----------------------------
(***************************************************************************)
(* The nudge loop of cpp-harness (middleware.cpp): a host tells it of every*)
(* sign of life of a task, polls it, and does what the poll says. The      *)
(* counters that a poll looks at are kept by the host, which is external.  *)
(***************************************************************************)
EXTENDS Naturals

CONSTANTS
  MaxNudgeDepth,   \* maxNudgeDepth
  MaxRounds,       \* maxRoundsPerTask
  StallAfter,      \* stallAfterMs, in ticks
  HasFallback,     \* a fallback model is configured
  MaxNudgeClock,   \* bound: ticks
  MaxPolls         \* bound: polls

ASSUME NudgeConstants ==
  /\ {MaxNudgeDepth, MaxRounds, StallAfter, MaxNudgeClock, MaxPolls} \subseteq Nat
  /\ HasFallback \in BOOLEAN

VARIABLES
  now,     \* the clock
  beat,    \* last_ of the task; none when it never gave a sign
  ctx,     \* the host's counters: nudgeDepth, reason, stalls in a row, failed checks
  action,  \* what the last poll said
  polls,   \* polls so far
  nudged   \* history: re-prompts since the user last spoke

nudgeVars == <<now, beat, ctx, action, polls, nudged>>

NudgeReason == {"stall", "yield"}
NudgeAction == {"reprompt", "narrower", "model", "stop", "interrupted"}
Never == [seen |-> FALSE, at |-> 0]

NudgeInit ==
  /\ now = 0 /\ beat = Never
  /\ ctx = [depth |-> 0, reason |-> "stall", stalls |-> 0, failures |-> 0]
  /\ action = "stop" /\ polls = 0 /\ nudged = 0

NudgeTick ==
  /\ now < MaxNudgeClock
  /\ now' = now + 1
  /\ UNCHANGED <<beat, ctx, action, polls, nudged>>

Heartbeat ==
  /\ beat' = [seen |-> TRUE, at |-> now]
  /\ ctx' = [ctx EXCEPT !.stalls = 0, !.reason = "stall"]
  /\ UNCHANGED <<now, action, polls, nudged>>

\* The task yields short of its goal, with a failed check or without.
Yields(failed) ==
  /\ ctx.reason # "yield" /\ ctx.failures <= MaxRounds
  /\ ctx' = [ctx EXCEPT !.reason = "yield", !.failures = IF failed THEN @ + 1 ELSE @]
  /\ UNCHANGED <<now, beat, action, polls, nudged>>

UserSpeaks ==
  /\ ctx' = [ctx EXCEPT !.depth = 0]
  /\ nudged' = 0
  /\ UNCHANGED <<now, beat, action, polls>>

Stalled == now - (IF beat.seen THEN beat.at ELSE now) > StallAfter

Poll_stallFirst(interrupted) ==
  IF interrupted THEN "interrupted"
  ELSE IF Stalled THEN (IF ctx.stalls < 2 THEN "reprompt" ELSE "narrower")
  ELSE IF ctx.depth >= MaxNudgeDepth THEN "stop" ELSE "reprompt"

\* poll. A task that was heard of in time is re-prompted as well.
Poll(interrupted) ==
  IF interrupted THEN "interrupted"
  ELSE IF ctx.failures >= MaxRounds THEN "narrower"
  ELSE IF ctx.depth >= MaxNudgeDepth THEN "stop"
  ELSE IF Stalled /\ ctx.stalls >= 2 THEN (IF HasFallback THEN "model" ELSE "narrower")
  ELSE "reprompt"

PollTask(interrupted) ==
  /\ polls < MaxPolls
  /\ polls' = polls + 1
  /\ action' = Poll(interrupted)
  /\ ctx' = [ctx EXCEPT !.depth = IF action' = "reprompt" THEN @ + 1 ELSE @,
                        !.stalls = IF Stalled THEN @ + 1 ELSE 0]
  /\ nudged' = IF action' = "reprompt" THEN nudged + 1 ELSE nudged
  /\ UNCHANGED <<now, beat>>

NudgeNext ==
  \/ NudgeTick \/ Heartbeat \/ UserSpeaks
  \/ \E failed \in BOOLEAN : Yields(failed)
  \/ \E interrupted \in BOOLEAN : PollTask(interrupted)

NudgeSpec == NudgeInit /\ [][NudgeNext]_nudgeVars

(***************************************************************************)
(* Properties.                                                             *)
(***************************************************************************)

\* Between two turns of the user a task is re-prompted no more often than the
\* shared budget allows, and never at full scope after its last failed check
\* or its third stall in a row.
NudgesWithinBudget ==
  [][polls' # polls /\ action' = "reprompt" =>
       /\ nudged < MaxNudgeDepth /\ ctx.failures < MaxRounds
       /\ ~(Stalled /\ ctx.stalls >= 2)]_nudgeVars

=============================================================================
