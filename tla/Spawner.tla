------------------------------- MODULE Spawner -------------------------------
(***************************************************************************)
(* The worker spawner of dsh-lite-cpp (spawner.cpp): a workspace, a child  *)
(* process in it, and the parent's loop that reads the child's pipes, looks*)
(* whether it ended, and kills it at the deadline. Only the child itself is*)
(* killed: processes it started live on, and may write to its pipes. The   *)
(* parent's ends of the pipes do not block, so that it reads what is there *)
(* and never waits for what may come.                                      *)
(***************************************************************************)
EXTENDS Naturals

CONSTANTS
  SpawnLimit,  \* timeout of a spawn, in ticks
  Output       \* bound: what a child may write

ASSUME SpawnConstants == SpawnLimit \in Nat

TIMEOUT_SENTINEL == 124

\* A child may exit with any status; 128 stands for the end by a signal.
ExitCodes == {0, 1, TIMEOUT_SENTINEL, 128}

VARIABLES
  result,  \* what spawn returned; not done while it runs or was not called
  proc,    \* the child: "none", "alive", "zombie", "reaped"
  status,  \* the child's exit status
  wrote,   \* what the child wrote to stdout; none: nothing
  clock,   \* ticks since the spawn began
  workdir, \* the workspace: "none" or "made"
  held     \* a process that the child started has the child's pipes open

workerVars == <<result, proc, status, wrote, clock, workdir, held>>

NothingWritten == [action |-> "", fallback |-> FALSE]
NotReturned == [done |-> FALSE, code |-> 127, timedOut |-> FALSE]

SpawnerInit ==
  /\ result = NotReturned
  /\ proc = "none" /\ status = 0
  /\ wrote = NothingWritten
  /\ clock = 0
  /\ workdir = "none"
  /\ held = FALSE

Returned(code) == result' = [done |-> TRUE, code |-> code, timedOut |-> FALSE]

\* makeWorkspace to fork: a failure of the setup looks like a program that
\* was not found, and may leave the workspace behind for the caller.
BeginSpawn(fails) ==
  /\ clock' = 0 /\ status' = 0 /\ wrote' = NothingWritten /\ held' = FALSE
  /\ IF fails = "none"
     THEN proc' = "alive" /\ result' = NotReturned
     ELSE proc' = "none" /\ Returned(127)
  /\ workdir' = IF fails = "workspace" THEN "none" ELSE "made"

SpawnFaults == {"none", "workspace", "pipe", "fork"}

(***************************************************************************)
(* The child and those it started write. The child ends by itself; its     *)
(* program may be missing (127).                                           *)
(***************************************************************************)
ChildWrites(text) ==
  /\ proc = "alive" \/ (held /\ ~result.done)
  /\ wrote = NothingWritten
  /\ wrote' = text
  /\ UNCHANGED <<result, proc, status, clock, workdir, held>>

ChildForks ==
  /\ proc = "alive" /\ ~held
  /\ held' = TRUE
  /\ UNCHANGED <<result, proc, status, wrote, clock, workdir>>

HolderEnds ==
  /\ held
  /\ held' = FALSE
  /\ UNCHANGED <<result, proc, status, wrote, clock, workdir>>

ChildExits(code) ==
  /\ proc = "alive"
  /\ proc' = "zombie"
  /\ status' = code
  /\ UNCHANGED <<result, wrote, clock, workdir, held>>

SpawnTick ==
  /\ proc \in {"alive", "zombie"} /\ clock < SpawnLimit
  /\ clock' = clock + 1
  /\ UNCHANGED <<result, proc, status, wrote, workdir, held>>

WatchTimedOut_endedOnly ==
  /\ proc = "zombie" /\ clock >= SpawnLimit
  /\ result' = [done |-> TRUE, code |-> TIMEOUT_SENTINEL, timedOut |-> TRUE]
  /\ proc' = "reaped"
  /\ UNCHANGED <<status, wrote, clock, workdir, held>>

\* The loop of the parent looks at the deadline before anything else: a child
\* that ended since it looked last, at the deadline, is reported as killed.
WatchTimedOut ==
  /\ proc \in {"alive", "zombie"} /\ clock >= SpawnLimit
  /\ result' = [done |-> TRUE, code |-> TIMEOUT_SENTINEL, timedOut |-> TRUE]
  /\ proc' = "reaped"
  /\ UNCHANGED <<status, wrote, clock, workdir, held>>

\* A round that began before the deadline may find the child ended after it.
WatchReaps ==
  /\ proc = "zombie"
  /\ proc' = "reaped"
  /\ UNCHANGED <<result, status, wrote, clock, workdir, held>>

\* After a child that ended the pipes are read until they are empty, whoever
\* holds their other ends.
Drain ==
  /\ proc = "reaped" /\ ~result.done
  /\ Returned(status)
  /\ UNCHANGED <<proc, status, wrote, clock, workdir, held>>

\* cleanup of the workspace, by the caller.
Cleanup == workdir' = "none"

WorkerStep ==
  \/ \E text \in Output : ChildWrites(text)
  \/ \E code \in ExitCodes \cup {127} : ChildExits(code)
  \/ ChildForks \/ HolderEnds
  \/ SpawnTick \/ WatchTimedOut \/ WatchReaps \/ Drain

=============================================================================
