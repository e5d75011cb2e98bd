-------------------------------- MODULE Arena --------------------------------
(***************************************************************************)
(* The task arena of cpp-harness (middleware.cpp): a tree of tasks behind  *)
(* one mutex, split once per task through the gates of the token firewall, *)
(* and reported with result vectors. Every method of TaskArenaImpl holds   *)
(* the mutex from its first line to its last, so a method is one step. The *)
(* firewall's count of the day's requests is shared without the mutex: a   *)
(* host checks it, spawns, and records the request in a later step.        *)
(***************************************************************************)
EXTENDS Firewall, Sequences, FiniteSets

CONSTANTS
  Root,        \* ids without a dot
  Early,       \* bound: dotted ids that a host enqueues itself
  MaxDepth,    \* bound: dots in an id
  MaxTasks,    \* bound: tasks in the arena
  Reporting,   \* bound: tasks that report
  Vector,      \* bound: the vectors they report, a subset of Vectors
  Width,       \* bound: criteria of one split
  Caller       \* hosts that spawn workers at the same time

\* The id of a task is the path to it: "demo.0.1" is <<demo, 0, 1>>.
TaskId == Seq(Root \cup Nat)
DepthOf(id) == Len(id) - 1
Child(id, i) == Append(id, i)
ParentOf(id) == SubSeq(id, 1, Len(id) - 1)

TaskStates == {"queued", "active", "proposed", "spiral"}

\* resplits counts the splits of the lineage; failures the refused reports.
Tasks == [state: TaskStates, resplits: Nat, failures: Nat,
          atomic: BOOLEAN, split: BOOLEAN]

VARIABLES
  nodes,     \* the arena's map: a function of the ids it knows
  born,      \* history: the tasks that a split created
  treeUsed,  \* sum of the estimates of the allowed splits
  dayUsed,   \* requests recorded today
  cleared    \* callers whose check passed and who have not recorded yet

arenaVars == <<nodes, born, treeUsed, dayUsed, cleared>>

Known == DOMAIN nodes

(***************************************************************************)
(* ResultVector::validate. A vector has a number of summary lines (none    *)
(* when the summary is empty), a patch hash or not, and exported state     *)
(* that is "small", "multiline" or "large"; a success binds a patch.       *)
(***************************************************************************)
TaskStatus == {"success", "failed", "discarded"}
Vectors == [status: TaskStatus, lines: {0, 1, 5, 6}, hash: BOOLEAN,
            exported: {"small", "multiline", "large"}]
Validate(v, patchExists) ==
  IF v.lines = 0 \/ v.lines > 5 \/ (patchExists /\ ~v.hash) THEN "VerifyFail"
  ELSE IF v.exported # "small" THEN "BusValueTooLarge"
  ELSE "Ok"

ASSUME ArenaCaps ==
  /\ {MaxDepth, Width} \subseteq Nat
  /\ IsFiniteSet(Caller)
  /\ Early \cup Reporting \subseteq TaskId
  /\ Vector \subseteq Vectors

-----------------------------------------------------------------------------
ArenaInit ==
  /\ nodes = <<>>
  /\ born = {}
  /\ treeUsed = 0
  /\ dayUsed = 0
  /\ cleared = {}

NewTask(resplits, atomic) ==
  [state |-> "queued", resplits |-> resplits, failures |-> 0,
   atomic |-> atomic, split |-> FALSE]

\* enqueue: idempotent, and whatever count the caller gave is reset.
Enqueue(id, atomic) ==
  /\ id \notin Known /\ Cardinality(Known) < MaxTasks
  /\ nodes' = [c \in Known \cup {id} |-> IF c = id THEN NewTask(0, atomic) ELSE nodes[c]]
  /\ UNCHANGED <<born, treeUsed, dayUsed, cleared>>

\* splitOnce of a lineage at its limit stops it, whatever it was doing.
StopSpiral(id) ==
  /\ id \in Known /\ nodes[id].resplits >= MAX_RESPLITS
  /\ nodes' = [nodes EXCEPT ![id].state = "spiral"]
  /\ UNCHANGED <<born, treeUsed, dayUsed, cleared>>

(***************************************************************************)
(* splitOnce that passes. Of the criteria, the destructive ones are only   *)
(* proposed; the others get the models in turn and become children,        *)
(* numbered by their place among the safe ones. A child that was enqueued  *)
(* before under that id stays what it is.                                  *)
(***************************************************************************)
Safe(criteria) == {i \in DOMAIN criteria : criteria[i] = "safe"}
SafeModels(criteria, models) ==
  Cardinality({IF models = 0 THEN 0 ELSE i % models : i \in Safe(criteria)})

SplitOnce(id, criteria, models) ==
  LET breadth == Cardinality(Safe(criteria))
      task    == nodes[id]
      code    == CheckSplit(DepthOf(id), breadth, task.resplits, task.atomic,
                            task.split, SafeModels(criteria, models), dayUsed)
      kids    == {Child(id, i) : i \in 0..(breadth - 1)}
  IN  /\ id \in Known /\ DepthOf(id) < MaxDepth
      /\ Cardinality(Known \cup kids) <= MaxTasks
      /\ breadth > 0
      /\ ~Denied(code)
      /\ treeUsed' = treeUsed + Estimate(breadth, DepthOf(id))
      /\ born' = born \cup (kids \ Known)
      /\ nodes' = [c \in Known \cup kids |->
           IF c = id
             THEN [task EXCEPT !.resplits = @ + 1, !.split = TRUE, !.state = "active"]
           ELSE IF c \in Known THEN nodes[c]
           ELSE NewTask(task.resplits + 1, FALSE)]
      /\ UNCHANGED <<dayUsed, cleared>>

(***************************************************************************)
(* report with a check artifact. The state of the task is not looked at:   *)
(* one that was stopped as a spiral, or whose children are at work, is     *)
(* proposed as any other. Two refused vectors lock the task.               *)
(***************************************************************************)
ReportTask(id, v) ==
  LET code == Validate(v, v.status = "success") IN
  /\ id \in Known /\ nodes[id].failures < MAX_ROUNDS_PER_TASK
  /\ nodes' = IF code = "Ok"
                THEN [nodes EXCEPT ![id].state = "proposed"]
                ELSE [nodes EXCEPT ![id].failures = @ + 1]
  /\ UNCHANGED <<born, treeUsed, dayUsed, cleared>>

\* A host asks before it spawns a worker ...
ClearSpawn(c, depth) ==
  /\ c \notin cleared
  /\ CheckSpawn(depth, dayUsed) = "Ok"
  /\ cleared' = cleared \cup {c}
  /\ UNCHANGED <<nodes, born, treeUsed, dayUsed>>

\* ... and records the request once it is made.
RecordRequest(c) ==
  /\ c \in cleared
  /\ cleared' = cleared \ {c}
  /\ dayUsed' = dayUsed + 1
  /\ UNCHANGED <<nodes, born, treeUsed>>

\* Criteria of a split: each one safe, or with a destructive verb.
Criteria == UNION {[0..(n - 1) -> {"safe", "destructive"}] : n \in 1..Width}

ArenaNext ==
  \/ \E id \in {<<r>> : r \in Root} \cup Early, atomic \in BOOLEAN : Enqueue(id, atomic)
  \/ \E id \in Known :
       \/ StopSpiral(id)
       \/ \E criteria \in Criteria, models \in 0..2 : SplitOnce(id, criteria, models)
  \/ \E id \in Reporting, v \in Vector : ReportTask(id, v)
  \/ \E c \in Caller :
       \/ \E depth \in 0..2 : ClearSpawn(c, depth)
       \/ RecordRequest(c)

ArenaSpec == ArenaInit /\ [][ArenaNext]_arenaVars

-----------------------------------------------------------------------------
ArenaTypeOK ==
  /\ nodes \in [Known -> Tasks]
  /\ Known \subseteq TaskId
  /\ born \subseteq Known
  /\ treeUsed \in Nat
  /\ dayUsed \in Nat
  /\ cleared \in SUBSET Caller

(***************************************************************************)
(* The spiral breaker (middleware.cpp:338, 553) compares one number per    *)
(* task. Whatever was enqueued, split or reported in between, a task that  *)
(* a split created carries its parent's count and its own split, any other *)
(* task its own split alone, and no count passes the limit. Hence a chain  *)
(* of tasks that were each created by the split of the one before has no   *)
(* more than MAX_RESPLITS splits. A child that a host enqueued before its  *)
(* parent's split stays as it was (middleware.cpp:631), with a count that  *)
(* begins anew: a chain of splits through such a child may be longer.      *)
(***************************************************************************)
LineageIsCounted ==
  \A id \in Known :
    LET own == IF nodes[id].split THEN 1 ELSE 0 IN
    /\ nodes[id].resplits <= MAX_RESPLITS
    /\ nodes[id].state = "spiral" => nodes[id].resplits = MAX_RESPLITS
    /\ id \in born =>
         /\ ParentOf(id) \in Known /\ nodes[ParentOf(id)].split
         /\ nodes[id].resplits = nodes[ParentOf(id)].resplits + own
    /\ id \notin born => nodes[id].resplits = own

(***************************************************************************)
(* The check of the daily cap and the record are two steps                 *)
(* (middleware.cpp:318, 412): callers in between may exceed the cap, by    *)
(* one request for every caller but one.                                   *)
(***************************************************************************)
DayOvershootBounded ==
  Caller # {} => dayUsed + Cardinality(cleared) <= DayCap + Cardinality(Caller) - 1
=============================================================================
