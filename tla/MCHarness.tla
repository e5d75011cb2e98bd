----------------------------- MODULE MCHarness ------------------------------
(***************************************************************************)
(* The parts of cpp-harness side by side, for one run of TLC: a behaviour  *)
(* is one of the part that "system" names, and the variables of the others *)
(* keep the same initial values. The parts share no state in the code.     *)
(***************************************************************************)
EXTENDS Arena, SisterBus, Worktrees, SandboxRun, Daemon, ForwardNudge

VARIABLE system

\* A dotted id that a host enqueues before a split would create it.
EarlyIds == {<<r, 0>> : r \in Root}

\* A vector that is accepted, a success without its patch, and a large one.
SomeVectors ==
  {[status |-> "success", lines |-> 1, hash |-> TRUE, exported |-> "small"],
   [status |-> "success", lines |-> 1, hash |-> FALSE, exported |-> "small"],
   [status |-> "failed", lines |-> 5, hash |-> FALSE, exported |-> "large"]}

\* The token and two Jev calls: one whose product is refused one level deeper,
\* and one that fits, since its breadth is 2 as an int.
SomeLines ==
  {[token |-> "token"],
   [op |-> "jev_route", breadth |-> 3, parent_depth |-> 1],
   [op |-> "jev_route", breadth |-> 18, parent_depth |-> 1]}

HarnessInit ==
  /\ system \in {"arena", "bus", "work", "sandbox", "daemon", "nudge"}
  /\ ArenaInit /\ BusInit /\ DaemonInit /\ NudgeInit
  /\ WorkInit /\ (system # "work" => native = CHOOSE b \in Builds : TRUE)
  /\ SandboxInit /\ (system # "sandbox" => sandboxCase = <<FALSE, FALSE, FALSE, 0>>)

HarnessNext ==
  \/ /\ system = "arena" /\ ArenaNext
     /\ UNCHANGED <<busVars, workVars, sandboxVars, daemonVars, nudgeVars, system>>
  \/ /\ system = "bus" /\ BusNext
     /\ UNCHANGED <<arenaVars, workVars, sandboxVars, daemonVars, nudgeVars, system>>
  \/ /\ system = "work" /\ WorkNext
     /\ UNCHANGED <<arenaVars, busVars, sandboxVars, daemonVars, nudgeVars, system>>
  \/ /\ system = "sandbox" /\ SandboxNext
     /\ UNCHANGED <<arenaVars, busVars, workVars, daemonVars, nudgeVars, system>>
  \/ /\ system = "daemon" /\ DaemonNext
     /\ UNCHANGED <<arenaVars, busVars, workVars, sandboxVars, nudgeVars, system>>
  \/ /\ system = "nudge" /\ NudgeNext
     /\ UNCHANGED <<arenaVars, busVars, workVars, sandboxVars, daemonVars, system>>

HarnessSpec ==
  /\ HarnessInit
  /\ [][HarnessNext]_<<arenaVars, busVars, workVars, sandboxVars, daemonVars, nudgeVars, system>>
  /\ DaemonFairness
  /\ WF_sandboxVars(system = "sandbox" /\ SandboxStep)
  /\ WF_sandboxVars(system = "sandbox" /\ Tick)
=============================================================================
