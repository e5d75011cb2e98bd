------------------------------- MODULE TaskLoop -------------------------------
(***************************************************************************)
(* The file loop (harness/loop.ts): task files, claim locks, queue markers *)
(* and the ledger. Workers claim and report, the loop enqueues, verifies   *)
(* and splits; each is a process of its own and shares nothing but the     *)
(* files. A command reads its task once and then only writes: what it has  *)
(* yet to write is a list of file operations, taken one at a time, and the *)
(* process may die before any of them.                                     *)
(***************************************************************************)
EXTENDS Naturals, Sequences

CONSTANTS
  Worker,     \* processes that claim and report
  Loop,       \* the process that enqueues, verifies and splits
  MaxSplits,  \* MAX_RESPLITS (3)
  MaxBreadth, \* bound: children of one split
  Budget,     \* budgetMax (64)
  MaxCommands, \* bound: commands of the loop
  MaxDeaths   \* bound: processes that die in the middle of a command

ASSUME LoopAssumption ==
  /\ MaxSplits \in Nat /\ MaxBreadth \in Nat /\ Budget \in Nat
  /\ Loop \notin Worker /\ "absent" \notin Worker \cup {Loop}
  /\ MaxCommands \in Nat /\ MaxDeaths \in Nat

VARIABLES
  files,   \* tasks/<id>.json
  locks,   \* tasks/<id>.lock: no file, or who created it
  markers, \* queue/<id>
  ledger,  \* ledger.jsonl: the types of the lines about a task
  todo,    \* what the command of each process has yet to do
  commands, \* commands of the loop so far
  deaths,  \* processes that died so far
  wins     \* auxiliary: claims that succeeded, up to two

disk     == <<files, locks, markers, ledger>>
loopVars == <<disk, todo, commands, deaths, wins>>

-----------------------------------------------------------------------------
(***************************************************************************)
(* A task id is a dotted lineage: <<>> is the root t1, <<2>> is t1.2. The  *)
(* trees of two roots share no file but the ledger: there is one here.     *)
(***************************************************************************)
Lineage == UNION {[1 .. n -> 1 .. MaxBreadth] : n \in 0 .. MaxSplits}
Root    == <<>>

Depth(id)    == Len(id)
Child(id, i) == Append(id, i)

TaskStatus == {"queued", "claimed", "done", "verified", "failed"}

\* parts is the number of children the result names.
TaskRecord == [status : TaskStatus, resplits : Nat, parts : Nat]

\* No file, and one that is truncated and not yet written.
Absent == [status |-> "absent", resplits |-> 0, parts |-> 0]
Torn   == [status |-> "torn", resplits |-> 0, parts |-> 0]

\* enqueue sets the state
Queued(resplits) == [status |-> "queued", resplits |-> resplits, parts |-> 0]

LineType == {"split", "report", "verify"}

Process == Worker \cup {Loop}

(***************************************************************************)
(* A pending operation: what to do next for the file or the lock of id.    *)
(* "load" is claim's look at the task after it has the lock; "save" goes   *)
(* by way of "write" (writeFileSync truncates first), "enqueue" by way of  *)
(* "fill" and "mark".                                                      *)
(***************************************************************************)
OpKind == {"load", "save", "write", "enqueue", "fill", "mark", "unmark",
           "append"}

Op(kind, id, task, line) ==
  [do |-> kind, id |-> id, task |-> task, line |-> line]

Save(id, task)    == Op("save", id, task, "none")
Enqueue(id, task) == Op("enqueue", id, task, "none")
Log(id, line)     == Op("append", id, Absent, line)
Claiming(kind, id) == Op(kind, id, Absent, "none")

\* saveTask, then ledgerAppend
SaveAndLog(id, task, line) == <<Save(id, task), Log(id, line)>>

-----------------------------------------------------------------------------
LoopInit ==
  /\ files = [id \in Lineage |-> Absent]
  /\ locks = [id \in Lineage |-> "absent"]
  /\ markers = {}
  /\ ledger = [id \in Lineage |-> {}]
  /\ todo = [p \in Process |-> <<>>]
  /\ commands = 0
  /\ deaths = 0
  /\ wins = [id \in Lineage |-> 0]

-----------------------------------------------------------------------------
(* Commands                                                                *)

Begin(p, ops) ==
  /\ todo[p] = <<>>
  /\ todo' = [todo EXCEPT ![p] = ops]

Command(ops) ==
  /\ commands < MaxCommands
  /\ commands' = commands + 1
  /\ Begin(Loop, ops)

\* The user enqueues a root task, or enqueues it again.
EnqueueRoot ==
  /\ Command(<<Enqueue(Root, Queued(0))>>)
  /\ UNCHANGED <<disk, deaths, wins>>

Unlocked_ignored(id) == TRUE

\* The exclusive creation of the lock file succeeds.
Unlocked(id) == locks[id] = "absent"

\* claim, of an id that pollQueue listed. The one that finds the lock there
\* changes nothing; who owns it matters to its message only.
ClaimTask(w, id) ==
  /\ id \in markers
  /\ Unlocked(id)
  /\ locks' = [locks EXCEPT ![id] = w]
  /\ Begin(w, <<Claiming("load", id)>>)
  /\ UNCHANGED <<files, markers, ledger, commands, deaths, wins>>

\* report, by the worker that claimed the task
ReportTask(w, id) ==
  /\ locks[id] = w
  /\ files[id].status = "claimed"
  /\ Begin(w, SaveAndLog(id,
                [files[id] EXCEPT !.status = "done", !.parts = 0], "report"))
  /\ UNCHANGED <<disk, commands, deaths, wins>>

\* verify; a call with the wrong models is refused and changes nothing
VerifyTask(id, verdict) ==
  /\ files[id].status = "done"
  /\ Command(SaveAndLog(id,
                   [files[id] EXCEPT !.status = verdict], "verify"))
  /\ UNCHANGED <<disk, deaths, wins>>

Splittable(id) == files[id].status \in {"claimed", "done", "failed"}

Spiralled(task) == task.resplits >= MaxSplits

\* breadth^depth, the depth being the children's
WithinBudget(id, n) == n ^ (Depth(id) + 1) <= Budget

Children(id, n) ==
  [i \in 1 .. n |-> Enqueue(Child(id, i), Queued(files[id].resplits + 1))]

SplitOps_parentFirst(id, n) ==
  SaveAndLog(id, [status |-> "done", resplits |-> files[id].resplits + 1,
                  parts |-> n], "split") \o Children(id, n)

\* The children are enqueued, then the parent is saved as done.
SplitOps(id, n) ==
  Children(id, n) \o
  SaveAndLog(id, [status |-> "done", resplits |-> files[id].resplits + 1,
                  parts |-> n], "split")

\* splitOnce: the spiral guard comes first. A split over budget, or denied
\* by the daemon splitOnceAsync consults, is refused and changes nothing.
SplitTask(id, n) ==
  /\ Splittable(id)
  /\ IF Spiralled(files[id])
       THEN Command(SaveAndLog(id,
              [files[id] EXCEPT !.status = "failed", !.parts = 0], "report"))
       ELSE /\ WithinBudget(id, n)
            /\ Command(SplitOps(id, n))
  /\ UNCHANGED <<disk, deaths, wins>>

-----------------------------------------------------------------------------
(* File operations                                                         *)

Pending(p) == todo[p] # <<>>
Now(p)     == Head(todo[p])

Finish(p) == todo' = [todo EXCEPT ![p] = Tail(@)]

\* The same operation goes on with its next file.
Proceed(p, kind) ==
  todo' = [todo EXCEPT ![p] = <<[Now(p) EXCEPT !.do = kind]>> \o Tail(@)]

\* claim's look at the task: one that is not queued, or not readable, ends
\* the call, and leaves the lock where it is.
LoadClaimed(p) ==
  LET id == Now(p).id IN
  /\ Pending(p) /\ Now(p).do = "load"
  /\ IF files[id].status = "queued"
       THEN /\ todo' = [todo EXCEPT ![p] =
                 <<Save(id, [files[id] EXCEPT !.status = "claimed"]),
                   Claiming("unmark", id)>>]
            /\ wins' = [wins EXCEPT ![id] = IF @ < 2 THEN @ + 1 ELSE @]
       ELSE /\ todo' = [todo EXCEPT ![p] = <<>>]
            /\ UNCHANGED wins
  /\ UNCHANGED <<disk, commands, deaths>>

Truncate(p) ==
  /\ Pending(p) /\ Now(p).do \in {"save", "enqueue"}
  /\ files' = [files EXCEPT ![Now(p).id] = Torn]
  /\ Proceed(p, IF Now(p).do = "save" THEN "write" ELSE "fill")
  /\ UNCHANGED <<locks, markers, ledger, commands, deaths, wins>>

WriteTask(p) ==
  LET op == Now(p) IN
  /\ Pending(p) /\ op.do \in {"write", "fill"}
  /\ files' = [files EXCEPT ![op.id] = op.task]
  /\ IF op.do = "write" THEN Finish(p) ELSE Proceed(p, "mark")
  /\ UNCHANGED <<locks, markers, ledger, commands, deaths, wins>>

Mark(p) ==
  /\ Pending(p) /\ Now(p).do \in {"mark", "unmark"}
  /\ markers' = IF Now(p).do = "mark" THEN markers \cup {Now(p).id}
                                      ELSE markers \ {Now(p).id}
  /\ Finish(p)
  /\ UNCHANGED <<files, locks, ledger, commands, deaths, wins>>

AppendLine(p) ==
  /\ Pending(p) /\ Now(p).do = "append"
  /\ ledger' = [ledger EXCEPT ![Now(p).id] = @ \cup {Now(p).line}]
  /\ Finish(p)
  /\ UNCHANGED <<files, locks, markers, commands, deaths, wins>>

\* A process dies, in the middle of a command, and is started again.
Die(p) ==
  /\ Pending(p)
  /\ deaths < MaxDeaths
  /\ deaths' = deaths + 1
  /\ todo' = [todo EXCEPT ![p] = <<>>]
  /\ UNCHANGED <<disk, commands, wins>>

-----------------------------------------------------------------------------
LoopNext ==
  \/ EnqueueRoot
  \/ \E id \in Lineage :
       \/ \E w \in Worker : ClaimTask(w, id) \/ ReportTask(w, id)
       \/ \E verdict \in {"verified", "failed"} : VerifyTask(id, verdict)
       \/ \E n \in 1 .. MaxBreadth : SplitTask(id, n)
  \/ \E p \in Process :
       \/ LoadClaimed(p) \/ Truncate(p) \/ WriteTask(p)
       \/ Mark(p) \/ AppendLine(p) \/ Die(p)

LoopSpec == LoopInit /\ [][LoopNext]_loopVars

-----------------------------------------------------------------------------
(* Properties                                                              *)

Operation == [do : OpKind, id : Lineage, task : TaskRecord \cup {Absent},
              line : LineType \cup {"none"}]

\* Every variable has its type.
LoopTypeOK ==
  /\ files \in [Lineage -> TaskRecord \cup {Absent, Torn}]
  /\ locks \in [Lineage -> {"absent"} \cup Worker]
  /\ markers \subseteq Lineage
  /\ ledger \in [Lineage -> SUBSET LineType]
  /\ todo \in [Process -> Seq(Operation)]
  /\ commands \in 0 .. MaxCommands /\ deaths \in 0 .. MaxDeaths
  /\ wins \in [Lineage -> 0 .. 2]

OnDisk(id) == files[id] \notin {Absent, Torn}

\* Within the spiral guard, and split at least once for each level above it.
Bounded(id, task) ==
  Depth(id) <= task.resplits /\ task.resplits <= MaxSplits

\* The spiral guard holds along every lineage ("doctrine rule 7", "at 3 the
\* next split stops"): no task is deeper than its split count, and no count
\* is above the maximum, although a count is carried over in copies of task
\* files that other processes write at the same time, or die while writing.
LineageBounded == \A id \in Lineage : OnDisk(id) => Bounded(id, files[id])

\* "Exactly one claimant wins", for good and a task that is enqueued again
\* included; and nobody works on, verifies or splits a task nobody claimed.
ClaimedOnce ==
  \A id \in Lineage :
    /\ wins[id] <= 1
    /\ OnDisk(id) /\ files[id].status # "queued" => wins[id] = 1

\* There is a file of the task, be it torn.
Exists(id) == id \in Lineage /\ files[id] # Absent

\* A task that was split, by its own result or by the ledger, has its
\* children on disk, wherever the splitter died.
SplitHasChildren ==
  \A id \in Lineage :
    /\ \A k \in 1 .. files[id].parts : Exists(Child(id, k))
    /\ "split" \in ledger[id] => Exists(Child(id, 1))

\* What is on its way to the files keeps those promises: the counts it
\* carries are bounded, a claim that looks at its task holds the lock of a
\* task never claimed before, only a claimed task is saved, ...
InOrderAt(p, i) ==
  LET op == todo[p][i] IN
    /\ op.do \in {"save", "write"} =>
         /\ op.task \in TaskRecord /\ Bounded(op.id, op.task)
         /\ op.task.status # "queued" /\ wins[op.id] = 1
    /\ op.do \in {"enqueue", "fill"} =>
         /\ op.task \in TaskRecord /\ Bounded(op.id, op.task)
         /\ op.task.status = "queued" /\ op.task.parts = 0
    /\ op.do = "load" =>
         i = 1 /\ Len(todo[p]) = 1 /\ locks[op.id] = p /\ wins[op.id] = 0
    /\ op.do = "append" => op.line \in LineType

WritesInOrder ==
  /\ \A id \in Lineage : wins[id] > 0 => locks[id] # "absent"
  /\ \A p \in Process : \A i \in 1 .. Len(todo[p]) : InOrderAt(p, i)

\* ... and the children come before the parent and the parent's ledger line.
ChildComes(p, i, id) ==
  \/ Exists(id)
  \/ \E j \in 1 .. i - 1 : todo[p][j].do = "enqueue" /\ todo[p][j].id = id

ChildrenFirstAt(p, i) ==
  LET op == todo[p][i] IN
    /\ op.do \in {"save", "write"} =>
         \A k \in 1 .. op.task.parts : ChildComes(p, i, Child(op.id, k))
    /\ op.do = "append" /\ op.line = "split" =>
         ChildComes(p, i, Child(op.id, 1))

ChildrenFirst ==
  \A p \in Process : \A i \in 1 .. Len(todo[p]) : ChildrenFirstAt(p, i)

LoopInductive ==
  /\ LoopTypeOK /\ LineageBounded /\ ClaimedOnce /\ SplitHasChildren
  /\ WritesInOrder /\ ChildrenFirst

(***************************************************************************)
(* The locks, markers, copies of records and lists of writes amount to a   *)
(* board of tasks, each claimed once and before anything is shown or told  *)
(* of it, whose parts are put up by whoever claimed the whole (claim,      *)
(* report, verify and splitOnce of loop.ts); no other process is asked,    *)
(* and any of them may die between two files.                              *)
(***************************************************************************)
Listed == {id \in Lineage : Exists(id)}
Worked == {id \in Lineage : OnDisk(id) /\ files[id].status # "queued"}
Parts  == [id \in Lineage |-> {Child(id, k) : k \in 1 .. MaxBreadth}]

Board == INSTANCE TaskBoard
  WITH Task <- Lineage, Top <- Root, Line <- LineType,
       listed <- Listed, claims <- wins, worked <- Worked, told <- ledger

ImplementsBoard == Board!BoardSpec

\* What stands behind it: a claimed task is on disk, what is to be told of a
\* task follows its claim, and a part to be enqueued follows that of the whole.
Earned(op, claims) ==
  /\ op.do = "append" => claims[op.id] = 1
  /\ op.do \in {"enqueue", "fill"} =>
       op.id = Root \/ \E id \in Lineage : op.id \in Parts[id] /\ claims[id] = 1

WritesEarned ==
  /\ \A id \in Lineage : wins[id] > 0 => Exists(id)
  /\ \A p \in Process : \A i \in 1 .. Len(todo[p]) : Earned(todo[p][i], wins)

\* pollQueue: "Tasks awaiting a claim". A child task it lists is not locked,
\* but by a claim that is under way.
PolledAwaitsClaim ==
  \A id \in markers \ {Root} : files[id].status = "queued" =>
    \/ locks[id] = "absent"
    \/ \E w \in Worker : \E i \in DOMAIN todo[w] : todo[w][i].id = id
=============================================================================
