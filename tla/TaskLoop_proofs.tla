---------------------------- MODULE TaskLoop_proofs ----------------------------
(***************************************************************************)
(* Proofs about TaskLoop: the spiral guard bounds every lineage, a task is *)
(* claimed once, and a split task has its children, for any number of      *)
(* workers, splits, commands and deaths.                                   *)
(***************************************************************************)
EXTENDS TaskLoop, SequenceTheorems, TLAPS

-----------------------------------------------------------------------------
(* Ids and records                                                         *)

\* An id in the lineage is a short sequence.
LEMMA IdIs ==
  ASSUME NEW id \in Lineage
  PROVE  /\ id \in Seq(1 .. MaxBreadth)
         /\ Depth(id) \in 0 .. MaxSplits
<1>1. PICK n \in 0 .. MaxSplits : id \in [1 .. n -> 1 .. MaxBreadth]
  BY DEF Lineage
<1>2. n \in Nat
  BY LoopAssumption
<1>3. id \in Seq(1 .. MaxBreadth)
  BY <1>1, <1>2, SeqDef
<1>4. Len(id) = n
  BY <1>1, <1>2, <1>3, LenProperties
<1> QED BY <1>3, <1>4 DEF Depth

\* Above the last level, the children of an id are in the lineage.
LEMMA ChildIs ==
  ASSUME NEW id \in Lineage, Depth(id) < MaxSplits, NEW k \in 1 .. MaxBreadth
  PROVE  /\ Child(id, k) \in Lineage
         /\ Depth(Child(id, k)) = Depth(id) + 1
<1>1. id \in Seq(1 .. MaxBreadth) /\ Depth(id) \in 0 .. MaxSplits
  BY IdIs
<1>2. /\ Child(id, k) \in Seq(1 .. MaxBreadth)
      /\ Depth(Child(id, k)) = Depth(id) + 1
  BY <1>1, AppendProperties DEF Child, Depth
<1>3. Child(id, k) \in [1 .. Len(id) + 1 -> 1 .. MaxBreadth]
  BY <1>2, LenProperties DEF Depth
<1>4. Len(id) + 1 \in 0 .. MaxSplits
  BY <1>1, LoopAssumption DEF Depth
<1> QED BY <1>2, <1>3, <1>4 DEF Lineage

\* The root is in the lineage.
LEMMA RootIs == Root \in Lineage /\ Depth(Root) = 0
<1>1. <<>> \in [1 .. 0 -> 1 .. MaxBreadth]
  BY EmptySeq, LenProperties
<1>2. 0 \in 0 .. MaxSplits
  BY LoopAssumption
<1> QED BY <1>1, <1>2, EmptySeq DEF Root, Depth, Lineage

\* What the commands put on their lists are operations.
LEMMA OperationIs ==
  ASSUME NEW id \in Lineage
  PROVE  /\ \A task \in TaskRecord : Save(id, task) \in Operation
         /\ \A task \in TaskRecord : Enqueue(id, task) \in Operation
         /\ \A line \in LineType : Log(id, line) \in Operation
         /\ Claiming("load", id) \in Operation
         /\ Claiming("unmark", id) \in Operation
BY DEF Save, Enqueue, Log, Claiming, Op, Operation, OpKind

\* A task file that is neither missing nor torn is a record of a task.
LEMMA OnDiskIs ==
  ASSUME LoopTypeOK, NEW id \in Lineage, OnDisk(id)
  PROVE  files[id] \in TaskRecord
BY DEF LoopTypeOK, OnDisk

\* A status other than the two of no task is on disk.
LEMMA StatusIsOnDisk ==
  ASSUME LoopTypeOK, NEW id \in Lineage, files[id].status \in TaskStatus
  PROVE  OnDisk(id) /\ files[id] \in TaskRecord
BY DEF LoopTypeOK, OnDisk, Absent, Torn, TaskStatus

-----------------------------------------------------------------------------
(* Lists of operations                                                     *)

\* A process has finished the first operation of its list.
LEMMA FinishIs ==
  ASSUME LoopTypeOK, NEW p \in Process, Pending(p), Finish(p)
  PROVE  /\ todo' \in [Process -> Seq(Operation)]
         /\ \A q \in Process \ {p} : todo'[q] = todo[q]
         /\ Len(todo'[p]) = Len(todo[p]) - 1
         /\ \A i \in 1 .. Len(todo'[p]) : todo'[p][i] = todo[p][i + 1]
<1>1. todo[p] \in Seq(Operation) /\ todo[p] # <<>>
  BY DEF LoopTypeOK, Pending
<1>2. todo'[p] = Tail(todo[p]) /\ \A q \in Process \ {p} : todo'[q] = todo[q]
  BY DEF Finish, LoopTypeOK
<1>3. Tail(todo[p]) \in Seq(Operation)
  BY <1>1, HeadTailProperties
<1>4. todo' \in [Process -> Seq(Operation)]
  BY <1>3 DEF Finish, LoopTypeOK
<1> QED BY <1>1, <1>2, <1>4, HeadTailProperties

\* A process goes on with the first operation of its list.
LEMMA ProceedIs ==
  ASSUME LoopTypeOK, NEW p \in Process, NEW kind \in OpKind,
         Pending(p), Proceed(p, kind)
  PROVE  /\ todo' \in [Process -> Seq(Operation)]
         /\ \A q \in Process \ {p} : todo'[q] = todo[q]
         /\ Len(todo'[p]) = Len(todo[p])
         /\ todo'[p][1] = [todo[p][1] EXCEPT !.do = kind]
         /\ \A i \in 2 .. Len(todo'[p]) : todo'[p][i] = todo[p][i]
<1> DEFINE head == [Now(p) EXCEPT !.do = kind]
           rest == Tail(todo[p])
<1>1. todo[p] \in Seq(Operation) /\ todo[p] # <<>>
  BY DEF LoopTypeOK, Pending
<1>2. Now(p) \in Operation /\ Now(p) = todo[p][1]
  BY <1>1, HeadTailProperties DEF Now
<1>3. head \in Operation
  BY <1>2 DEF Operation
<1>4. /\ rest \in Seq(Operation) /\ Len(rest) = Len(todo[p]) - 1
      /\ \A i \in 1 .. Len(rest) : rest[i] = todo[p][i + 1]
  BY <1>1, HeadTailProperties
<1>5. /\ <<head>> \in Seq(Operation) /\ Len(<<head>>) = 1
      /\ <<head>>[1] = head
  BY <1>3
<1>6. /\ <<head>> \o rest \in Seq(Operation)
      /\ Len(<<head>> \o rest) = Len(todo[p])
      /\ (<<head>> \o rest)[1] = head
      /\ \A i \in 2 .. Len(todo[p]) : (<<head>> \o rest)[i] = todo[p][i]
  <2> HIDE DEF head, rest
  <2>1. /\ <<head>> \o rest \in Seq(Operation)
        /\ Len(<<head>> \o rest) = 1 + Len(rest)
        /\ \A i \in 1 .. 1 + Len(rest) : (<<head>> \o rest)[i] =
             IF i <= 1 THEN <<head>>[1] ELSE rest[i - 1]
    BY <1>4, <1>5, ConcatProperties
  <2>2. Len(todo[p]) \in Nat /\ Len(todo[p]) >= 1
    BY <1>1, EmptySeq
  <2> QED BY <2>1, <2>2, <1>4, <1>5
<1>7. /\ todo'[p] = <<head>> \o rest
      /\ \A q \in Process \ {p} : todo'[q] = todo[q]
  BY DEF Proceed, LoopTypeOK
<1>8. todo' \in [Process -> Seq(Operation)]
  BY <1>6, <1>7 DEF Proceed, LoopTypeOK
<1> QED BY <1>2, <1>6, <1>7, <1>8

\* A process has a new list.
LEMMA BeginIs ==
  ASSUME LoopTypeOK, NEW p \in Process, NEW ops \in Seq(Operation),
         todo' = [todo EXCEPT ![p] = ops]
  PROVE  /\ todo' \in [Process -> Seq(Operation)]
         /\ \A q \in Process \ {p} : todo'[q] = todo[q]
         /\ todo'[p] = ops
BY DEF LoopTypeOK

\* The list of a report, of a verification and of a stopped spiral.
LEMMA SaveAndLogIs ==
  ASSUME NEW id \in Lineage, NEW task \in TaskRecord, NEW line \in LineType
  PROVE  LET ops == SaveAndLog(id, task, line) IN
         /\ ops \in Seq(Operation) /\ Len(ops) = 2
         /\ ops[1] = Save(id, task) /\ ops[2] = Log(id, line)
BY OperationIs DEF SaveAndLog

\* The list of a split: the children, the parent, the ledger line.
LEMMA SplitOpsIs ==
  ASSUME LoopTypeOK, LineageBounded, NEW id \in Lineage,
         NEW n \in 1 .. MaxBreadth, Splittable(id), ~Spiralled(files[id])
  PROVE  LET ops  == SplitOps(id, n)
             up   == files[id].resplits + 1
             task == [status |-> "done", resplits |-> up, parts |-> n] IN
         /\ up \in 1 .. MaxSplits /\ Depth(id) < up
         /\ task \in TaskRecord
         /\ ops \in Seq(Operation) /\ Len(ops) = n + 2
         /\ \A k \in 1 .. n : /\ Child(id, k) \in Lineage
                              /\ Depth(Child(id, k)) <= up
                              /\ ops[k] = Enqueue(Child(id, k), Queued(up))
         /\ ops[n + 1] = Save(id, task) /\ ops[n + 2] = Log(id, "split")
<1> DEFINE up   == files[id].resplits + 1
           task == [status |-> "done", resplits |-> up, parts |-> n]
           end  == SaveAndLog(id, task, "split")
<1>1. files[id] \in TaskRecord /\ Bounded(id, files[id])
  BY StatusIsOnDisk DEF Splittable, TaskStatus, LineageBounded
<1>2. files[id].resplits \in Nat /\ files[id].resplits < MaxSplits
  BY <1>1, LoopAssumption DEF Spiralled, TaskRecord
<1>3. up \in 1 .. MaxSplits /\ up \in Nat /\ Depth(id) < up /\ Depth(id) < MaxSplits
  BY <1>1, <1>2, IdIs, LoopAssumption DEF Bounded
<1>4. n \in Nat /\ \A k \in 1 .. n : k \in 1 .. MaxBreadth
  BY LoopAssumption
<1>5. \A k \in 1 .. n :
        Child(id, k) \in Lineage /\ Depth(Child(id, k)) = Depth(id) + 1
  BY <1>3, <1>4, ChildIs
<1>6. Queued(up) \in TaskRecord /\ task \in TaskRecord
  BY <1>3, <1>4 DEF Queued, TaskRecord, TaskStatus
<1>7. \A k \in 1 .. n : Enqueue(Child(id, k), Queued(up)) \in Operation
  BY <1>5, <1>6, OperationIs
<1>8. /\ Children(id, n) \in Seq(Operation) /\ Len(Children(id, n)) = n
      /\ \A k \in 1 .. n :
           Children(id, n)[k] = Enqueue(Child(id, k), Queued(up))
  <2>1. Children(id, n) \in [1 .. n -> Operation]
    BY <1>7 DEF Children
  <2>2. Children(id, n) \in Seq(Operation)
    BY <2>1, <1>4, SeqDef
  <2>3. Len(Children(id, n)) = n
    BY <2>1, <2>2, <1>4, LenProperties
  <2> QED BY <2>2, <2>3 DEF Children
<1>9. /\ end \in Seq(Operation) /\ Len(end) = 2
      /\ end[1] = Save(id, task) /\ end[2] = Log(id, "split")
  BY <1>6, SaveAndLogIs DEF LineType
<1>10. SplitOps(id, n) = Children(id, n) \o end
  BY DEF SplitOps
<1> HIDE DEF end
<1>11. /\ SplitOps(id, n) \in Seq(Operation)
       /\ Len(SplitOps(id, n)) = n + 2
       /\ \A i \in 1 .. n + 2 : SplitOps(id, n)[i] =
            IF i <= n THEN Children(id, n)[i] ELSE end[i - n]
  <2>1. /\ Children(id, n) \o end \in Seq(Operation)
        /\ Len(Children(id, n) \o end) = n + 2
        /\ \A i \in 1 .. n + 2 : (Children(id, n) \o end)[i] =
             IF i <= n THEN Children(id, n)[i] ELSE end[i - n]
    <3> DEFINE a == Children(id, n)
    <3>1. a \in Seq(Operation) /\ Len(a) = n /\ end \in Seq(Operation)
          /\ Len(end) = 2
      BY <1>8, <1>9
    <3> HIDE DEF a
    <3>2. /\ a \o end \in Seq(Operation)
          /\ Len(a \o end) = Len(a) + Len(end)
          /\ \A i \in 1 .. Len(a) + Len(end) : (a \o end)[i] =
               IF i <= Len(a) THEN a[i] ELSE end[i - Len(a)]
      BY <3>1, ConcatProperties
    <3>3. /\ a \o end \in Seq(Operation)
          /\ Len(a \o end) = n + 2
          /\ \A i \in 1 .. n + 2 : (a \o end)[i] =
               IF i <= n THEN a[i] ELSE end[i - n]
      BY <3>1, <3>2
    <3> QED BY <3>3 DEF a
  <2> QED BY <2>1, <1>10
<1>12. \A k \in 1 .. n :
         SplitOps(id, n)[k] = Enqueue(Child(id, k), Queued(up))
  BY <1>4, <1>8, <1>11
<1>13. /\ SplitOps(id, n)[n + 1] = Save(id, task)
       /\ SplitOps(id, n)[n + 2] = Log(id, "split")
  BY <1>4, <1>9, <1>11
<1>14. \A k \in 1 .. n : Depth(Child(id, k)) <= up
  BY <1>3, <1>5, IdIs
<1> QED BY <1>3, <1>5, <1>6, <1>11, <1>12, <1>13, <1>14

-----------------------------------------------------------------------------
(* What one step does                                                      *)

\* No step takes a task file, a claim or a lock back.
Kept ==
  \A id \in Lineage :
    /\ Exists(id) => Exists(id)'
    /\ wins[id] = 1 => wins'[id] = 1
    /\ locks[id] # "absent" => locks'[id] = locks[id]

\* The list of p is typed and keeps the order of the writes, the lists of
\* the other processes stay.
NewList(p) ==
  /\ todo' \in [Process -> Seq(Operation)]
  /\ \A q \in Process \ {p} : todo'[q] = todo[q]
  /\ \A i \in 1 .. Len(todo'[p]) : InOrderAt(p, i)' /\ ChildrenFirstAt(p, i)'

\* The operation at the head of a list keeps the order, and has no other
\* before it.
LEMMA NowIs ==
  ASSUME LoopInductive, NEW p \in Process, Pending(p)
  PROVE  /\ todo[p] \in Seq(Operation) /\ 1 \in 1 .. Len(todo[p])
         /\ Now(p) = todo[p][1] /\ Now(p) \in Operation
         /\ InOrderAt(p, 1) /\ ChildrenFirstAt(p, 1)
         /\ \A id : ChildComes(p, 1, id) => Exists(id)
<1>1. todo[p] \in Seq(Operation) /\ todo[p] # <<>>
  BY DEF LoopInductive, LoopTypeOK, Pending
<1>2. 1 \in 1 .. Len(todo[p])
  BY <1>1, EmptySeq
<1>3. Now(p) = todo[p][1]
  BY DEF Now
<1>4. \A id : ChildComes(p, 1, id) => Exists(id)
  BY DEF ChildComes
<1> QED
  BY <1>1, <1>2, <1>3, <1>4, ElementOfSeq
     DEF LoopInductive, WritesInOrder, ChildrenFirst

\* A step that leaves the files, the locks and the claims alone keeps them.
LEMMA SameFilesKept ==
  ASSUME UNCHANGED <<files, locks, wins>>
  PROVE  Kept
BY DEF Kept, Exists

\* A list of a task file to save, which names no children, and a line that
\* is not that of a split.
LEMMA SaveStep ==
  ASSUME LoopInductive, UNCHANGED <<files, locks, wins>>,
         NEW p \in Process, NEW id \in Lineage, NEW task \in TaskRecord,
         NEW line \in LineType \ {"split"},
         todo' = [todo EXCEPT ![p] = SaveAndLog(id, task, line)],
         Bounded(id, task), task.status # "queued", wins[id] = 1,
         \A k \in 1 .. task.parts : Exists(Child(id, k))
  PROVE  NewList(p)
<1>1. /\ SaveAndLog(id, task, line) \in Seq(Operation)
      /\ Len(SaveAndLog(id, task, line)) = 2
      /\ SaveAndLog(id, task, line)[1] = Save(id, task)
      /\ SaveAndLog(id, task, line)[2] = Log(id, line)
  BY SaveAndLogIs
<1>2. /\ todo' \in [Process -> Seq(Operation)]
      /\ \A q \in Process \ {p} : todo'[q] = todo[q]
      /\ todo'[p] = SaveAndLog(id, task, line)
  BY <1>1, BeginIs DEF LoopInductive
<1>3. Len(todo'[p]) = 2 /\ todo'[p][1] = Save(id, task)
      /\ todo'[p][2] = Log(id, line)
  BY <1>1, <1>2
<1>4. InOrderAt(p, 1)' /\ InOrderAt(p, 2)'
  BY <1>3 DEF InOrderAt, Save, Log, Op, Bounded
<1>5. ChildrenFirstAt(p, 1)' /\ ChildrenFirstAt(p, 2)'
  BY <1>3 DEF ChildrenFirstAt, ChildComes, Exists, Save, Log, Op
<1>6. \A i \in 1 .. Len(todo'[p]) : InOrderAt(p, i)' /\ ChildrenFirstAt(p, i)'
  <2> TAKE i \in 1 .. Len(todo'[p])
  <2>1. i \in 1 .. 2
    BY <1>3
  <2>2. i = 1 \/ i = 2
    BY <2>1
  <2> QED BY <2>2, <1>4, <1>5
<1> QED BY <1>2, <1>6 DEF NewList

\* A list with nothing on it is in order.
LEMMA EmptyStep ==
  ASSUME LoopInductive, NEW p \in Process, todo' = [todo EXCEPT ![p] = <<>>]
  PROVE  NewList(p)
<1>1. <<>> \in Seq(Operation)
  BY EmptySeq
<1>2. /\ todo' \in [Process -> Seq(Operation)]
      /\ \A q \in Process \ {p} : todo'[q] = todo[q]
      /\ todo'[p] = <<>>
  BY <1>1, BeginIs DEF LoopInductive
<1>3. Len(todo'[p]) = 0
  BY <1>2, EmptySeq
<1> QED BY <1>2, <1>3 DEF NewList

\* EnqueueRoot: a root that was never split.
LEMMA EnqueueRootStep ==
  ASSUME LoopInductive, EnqueueRoot
  PROVE  NewList(Loop)
<1> DEFINE op == Enqueue(Root, Queued(0))
<1>1. Queued(0) \in TaskRecord /\ Bounded(Root, Queued(0))
  BY RootIs, LoopAssumption DEF Queued, TaskRecord, TaskStatus, Bounded
<1>2. op \in Operation
  BY <1>1, RootIs, OperationIs
<1>3. <<op>> \in Seq(Operation) /\ Len(<<op>>) = 1 /\ <<op>>[1] = op
  BY <1>2
<1>4. /\ todo' \in [Process -> Seq(Operation)]
      /\ \A q \in Process \ {Loop} : todo'[q] = todo[q]
      /\ todo'[Loop] = <<op>>
  BY <1>3, BeginIs DEF LoopInductive, EnqueueRoot, Command, Begin, Process
<1>5. Len(todo'[Loop]) = 1 /\ todo'[Loop][1] = op
  BY <1>3, <1>4
<1>6. InOrderAt(Loop, 1)' /\ ChildrenFirstAt(Loop, 1)'
  BY <1>1, <1>5
     DEF InOrderAt, ChildrenFirstAt, Enqueue, Op, Bounded, Queued
<1> QED BY <1>4, <1>5, <1>6 DEF NewList

\* ClaimTask: nobody has claimed a task without a lock.
LEMMA ClaimStep ==
  ASSUME LoopInductive, NEW w \in Worker, NEW id \in Lineage, ClaimTask(w, id)
  PROVE  NewList(w) /\ Kept
<1> DEFINE op == Claiming("load", id)
<1>1. op \in Operation
  BY OperationIs
<1>2. <<op>> \in Seq(Operation) /\ Len(<<op>>) = 1 /\ <<op>>[1] = op
  BY <1>1
<1>3. /\ todo' \in [Process -> Seq(Operation)]
      /\ \A q \in Process \ {w} : todo'[q] = todo[q]
      /\ todo'[w] = <<op>>
  BY <1>2, BeginIs DEF LoopInductive, ClaimTask, Begin, Process
<1>4. Len(todo'[w]) = 1 /\ todo'[w][1] = op
  BY <1>2, <1>3
<1>5. wins'[id] = 0 /\ locks'[id] = w /\ wins' = wins
  BY DEF ClaimTask, Unlocked, LoopInductive, LoopTypeOK, WritesInOrder
<1>6. InOrderAt(w, 1)' /\ ChildrenFirstAt(w, 1)'
  BY <1>4, <1>5 DEF InOrderAt, ChildrenFirstAt, Claiming, Op
<1>7. Kept
  BY DEF Kept, ClaimTask, Exists, Unlocked, LoopInductive, LoopTypeOK
<1> QED BY <1>3, <1>4, <1>6, <1>7 DEF NewList

\* ReportTask, VerifyTask and SplitTask save a task that was claimed.
LEMMA ReportStep ==
  ASSUME LoopInductive, NEW w \in Worker, NEW id \in Lineage, ReportTask(w, id)
  PROVE  NewList(w)
<1> DEFINE task == [files[id] EXCEPT !.status = "done", !.parts = 0]
<1>1. /\ files[id] \in TaskRecord /\ Bounded(id, files[id]) /\ wins[id] = 1
      /\ w \in Process
  BY StatusIsOnDisk DEF LoopInductive, LineageBounded, ClaimedOnce, ReportTask,
                        TaskStatus, Process
<1>2. /\ task \in TaskRecord /\ Bounded(id, task)
      /\ task.status # "queued" /\ task.parts = 0
  BY <1>1 DEF TaskRecord, TaskStatus, Bounded
<1>3. UNCHANGED <<files, locks, wins>>
      /\ todo' = [todo EXCEPT ![w] = SaveAndLog(id, task, "report")]
  BY DEF ReportTask, Begin, disk
<1>4. "report" \in LineType \ {"split"}
  BY DEF LineType
<1>5. \A k \in 1 .. task.parts : Exists(Child(id, k))
  BY <1>2
<1> HIDE DEF task
<1> QED BY <1>1, <1>2, <1>3, <1>4, <1>5, SaveStep

LEMMA VerifyStep ==
  ASSUME LoopInductive, NEW id \in Lineage,
         NEW verdict \in {"verified", "failed"}, VerifyTask(id, verdict)
  PROVE  NewList(Loop)
<1> DEFINE task == [files[id] EXCEPT !.status = verdict]
<1>1. /\ files[id] \in TaskRecord /\ Bounded(id, files[id]) /\ wins[id] = 1
      /\ Loop \in Process
  BY StatusIsOnDisk DEF LoopInductive, LineageBounded, ClaimedOnce, VerifyTask,
                        TaskStatus, Process
<1>2. /\ task \in TaskRecord /\ Bounded(id, task)
      /\ task.status # "queued" /\ task.parts = files[id].parts
  BY <1>1 DEF TaskRecord, TaskStatus, Bounded
<1>3. UNCHANGED <<files, locks, wins>>
      /\ todo' = [todo EXCEPT ![Loop] = SaveAndLog(id, task, "verify")]
  BY DEF VerifyTask, Command, Begin, disk
<1>4. "verify" \in LineType \ {"split"}
  BY DEF LineType
<1>5. \A k \in 1 .. task.parts : Exists(Child(id, k))
  BY <1>2 DEF LoopInductive, SplitHasChildren
<1> HIDE DEF task
<1> QED BY <1>1, <1>2, <1>3, <1>4, <1>5, SaveStep

LEMMA SplitStep ==
  ASSUME LoopInductive, NEW id \in Lineage, NEW n \in 1 .. MaxBreadth,
         SplitTask(id, n)
  PROVE  NewList(Loop)
<1>1. /\ files[id] \in TaskRecord /\ Bounded(id, files[id]) /\ wins[id] = 1
      /\ Loop \in Process /\ UNCHANGED <<files, locks, wins>>
  BY StatusIsOnDisk
     DEF LoopInductive, LineageBounded, ClaimedOnce, SplitTask, Splittable,
         TaskStatus, Process, disk
<1>2. CASE Spiralled(files[id])
  <2> DEFINE task == [files[id] EXCEPT !.status = "failed", !.parts = 0]
  <2>1. /\ task \in TaskRecord /\ Bounded(id, task)
        /\ task.status # "queued" /\ task.parts = 0
    BY <1>1 DEF TaskRecord, TaskStatus, Bounded
  <2>2. todo' = [todo EXCEPT ![Loop] = SaveAndLog(id, task, "report")]
    BY <1>2 DEF SplitTask, Command, Begin
  <2>3. "report" \in LineType \ {"split"}
    BY DEF LineType
  <2>4. \A k \in 1 .. task.parts : Exists(Child(id, k))
    BY <2>1
  <2> HIDE DEF task
  <2> QED BY <1>1, <2>1, <2>2, <2>3, <2>4, SaveStep
<1>3. CASE ~Spiralled(files[id])
  <2> DEFINE ops  == SplitOps(id, n)
             up   == files[id].resplits + 1
             task == [status |-> "done", resplits |-> up, parts |-> n]
  <2>1. /\ up \in 1 .. MaxSplits /\ Depth(id) < up
        /\ task \in TaskRecord
        /\ ops \in Seq(Operation) /\ Len(ops) = n + 2
        /\ \A k \in 1 .. n : /\ Child(id, k) \in Lineage
                             /\ Depth(Child(id, k)) <= up
                             /\ ops[k] = Enqueue(Child(id, k), Queued(up))
        /\ ops[n + 1] = Save(id, task) /\ ops[n + 2] = Log(id, "split")
    BY <1>3, SplitOpsIs DEF LoopInductive, SplitTask
  <2>2. todo' = [todo EXCEPT ![Loop] = ops]
    BY <1>3 DEF SplitTask, Command, Begin
  <2> HIDE DEF ops
  <2>3. /\ todo' \in [Process -> Seq(Operation)]
        /\ \A q \in Process \ {Loop} : todo'[q] = todo[q]
        /\ todo'[Loop] = ops
    BY <1>1, <2>1, <2>2, BeginIs DEF LoopInductive
  <2>4. n \in Nat /\ up \in Nat /\ Depth(id) <= up /\ up <= MaxSplits
    BY <2>1, IdIs, LoopAssumption
  <2>5. \A k \in 1 .. n : InOrderAt(Loop, k)' /\ ChildrenFirstAt(Loop, k)'
    <3> TAKE k \in 1 .. n
    <3>1. todo'[Loop][k] = Enqueue(Child(id, k), Queued(up))
      BY <2>1, <2>3
    <3>2. Queued(up) \in TaskRecord /\ Bounded(Child(id, k), Queued(up))
      BY <2>1, <2>4 DEF Queued, TaskRecord, TaskStatus, Bounded
    <3> QED
      BY <3>1, <3>2 DEF InOrderAt, ChildrenFirstAt, Enqueue, Op, Queued, Bounded
  <2>6. InOrderAt(Loop, n + 1)'
    BY <1>1, <2>1, <2>3, <2>4 DEF InOrderAt, Save, Op, Bounded
  <2>7. InOrderAt(Loop, n + 2)'
    BY <2>1, <2>3 DEF InOrderAt, Log, Op, LineType
  <2>8. \A i \in {n + 1, n + 2} : \A k \in 1 .. n :
          ChildComes(Loop, i, Child(id, k))'
    <3> TAKE i \in {n + 1, n + 2}
    <3> TAKE k \in 1 .. n
    <3>1. k \in 1 .. i - 1
      BY <2>4
    <3>2. todo'[Loop][k] = Enqueue(Child(id, k), Queued(up))
      BY <2>1, <2>3
    <3> QED BY <3>1, <3>2 DEF ChildComes, Enqueue, Op
  <2>9. ChildrenFirstAt(Loop, n + 1)'
    <3>1. todo'[Loop][n + 1] = Save(id, task)
      BY <2>1, <2>3
    <3> QED BY <2>8, <3>1 DEF ChildrenFirstAt, Save, Op
  <2>10. ChildrenFirstAt(Loop, n + 2)'
    <3>1. todo'[Loop][n + 2] = Log(id, "split") /\ 1 \in 1 .. n
      BY <2>1, <2>3
    <3> QED BY <2>8, <3>1 DEF ChildrenFirstAt, Log, Op
  <2>11. \A i \in 1 .. Len(todo'[Loop]) :
           InOrderAt(Loop, i)' /\ ChildrenFirstAt(Loop, i)'
    <3> TAKE i \in 1 .. Len(todo'[Loop])
    <3>1. i \in 1 .. n + 2
      BY <2>1, <2>3
    <3>2. i \in 1 .. n \/ i = n + 1 \/ i = n + 2
      BY <2>4, <3>1
    <3> QED BY <3>2, <2>5, <2>6, <2>7, <2>9, <2>10
  <2> QED BY <2>3, <2>11 DEF NewList
<1> QED BY <1>2, <1>3

\* LoadClaimed: the one who has the lock claims the task for the first time.
LEMMA LoadStep ==
  ASSUME LoopInductive, NEW p \in Process, LoadClaimed(p)
  PROVE  NewList(p) /\ Kept
<1> DEFINE id == Now(p).id
<1>1. /\ Now(p) \in Operation /\ id \in Lineage
      /\ Now(p).do = "load" /\ locks[id] = p /\ wins[id] = 0
  BY NowIs DEF LoadClaimed, InOrderAt, Operation
<1> HIDE DEF id
<1>2. CASE files[id].status = "queued"
  <2> DEFINE task == [files[id] EXCEPT !.status = "claimed"]
             ops  == <<Save(id, task), Claiming("unmark", id)>>
  <2>1. files[id] \in TaskRecord /\ Bounded(id, files[id])
    BY <1>1, <1>2, StatusIsOnDisk DEF LoopInductive, LineageBounded, TaskStatus
  <2>2. /\ task \in TaskRecord /\ Bounded(id, task)
        /\ task.status # "queued" /\ task.parts = files[id].parts
    BY <2>1 DEF TaskRecord, TaskStatus, Bounded
  <2>3. \A k \in 1 .. task.parts : Exists(Child(id, k))
    BY <1>1, <2>2 DEF LoopInductive, SplitHasChildren
  <2>4. /\ todo' = [todo EXCEPT ![p] = ops]
        /\ wins' = [wins EXCEPT ![id] = IF @ < 2 THEN @ + 1 ELSE @]
        /\ UNCHANGED <<files, locks>>
    BY <1>2 DEF LoadClaimed, disk, id
  <2>5. wins'[id] = 1 /\ \A other \in Lineage \ {id} : wins'[other] = wins[other]
    BY <1>1, <2>4 DEF LoopInductive, LoopTypeOK
  <2> HIDE DEF task
  <2>6. ops \in Seq(Operation) /\ Len(ops) = 2 /\ ops[1] = Save(id, task)
        /\ ops[2] = Claiming("unmark", id)
    BY <1>1, <2>2, OperationIs
  <2> HIDE DEF ops
  <2>7. /\ todo' \in [Process -> Seq(Operation)]
        /\ \A q \in Process \ {p} : todo'[q] = todo[q]
        /\ todo'[p] = ops
    BY <2>4, <2>6, BeginIs DEF LoopInductive
  <2>8. /\ Len(todo'[p]) = 2 /\ todo'[p][1] = Save(id, task)
        /\ todo'[p][2] = Claiming("unmark", id)
    BY <2>6, <2>7
  <2>9. InOrderAt(p, 1)' /\ InOrderAt(p, 2)'
    BY <2>2, <2>5, <2>8 DEF InOrderAt, Save, Claiming, Op, Bounded
  <2>10. ChildrenFirstAt(p, 1)' /\ ChildrenFirstAt(p, 2)'
    BY <2>3, <2>4, <2>8
       DEF ChildrenFirstAt, ChildComes, Exists, Save, Claiming, Op
  <2>11. \A i \in 1 .. Len(todo'[p]) : InOrderAt(p, i)' /\ ChildrenFirstAt(p, i)'
    <3> TAKE i \in 1 .. Len(todo'[p])
    <3>1. i \in 1 .. 2
      BY <2>8
    <3>2. i = 1 \/ i = 2
      BY <3>1
    <3> QED BY <3>2, <2>9, <2>10
  <2>12. Kept
    BY <1>1, <2>4, <2>5 DEF Kept, Exists
  <2> QED BY <2>7, <2>11, <2>12 DEF NewList
<1>3. CASE files[id].status # "queued"
  <2>1. todo' = [todo EXCEPT ![p] = <<>>] /\ UNCHANGED <<files, locks, wins>>
    BY <1>3 DEF LoadClaimed, disk, id
  <2> QED BY <2>1, EmptyStep, SameFilesKept
<1> QED BY <1>2, <1>3

\* A child that comes, in the list or on disk, still comes when the first
\* operation of the list is done.
LEMMA FinishStep ==
  ASSUME LoopInductive, NEW p \in Process, Pending(p), Finish(p), Kept,
         Now(p).do # "enqueue"
  PROVE  NewList(p)
<1>1. /\ todo' \in [Process -> Seq(Operation)]
      /\ \A q \in Process \ {p} : todo'[q] = todo[q]
      /\ Len(todo'[p]) = Len(todo[p]) - 1
      /\ \A i \in 1 .. Len(todo'[p]) : todo'[p][i] = todo[p][i + 1]
  BY FinishIs DEF LoopInductive
<1>2. todo[p] \in Seq(Operation) /\ Now(p) = todo[p][1]
  BY NowIs
<1>3. Len(todo[p]) \in Nat
  BY <1>2, LenProperties
<1>4. \A i \in 1 .. Len(todo'[p]) : InOrderAt(p, i)' /\ ChildrenFirstAt(p, i)'
  <2> TAKE i \in 1 .. Len(todo'[p])
  <2> DEFINE op == todo[p][i + 1]
  <2>1. i + 1 \in 1 .. Len(todo[p]) /\ i \in Nat /\ i >= 1 /\ todo'[p][i] = op
    BY <1>1, <1>3
  <2>2. op \in Operation
    BY <1>2, <2>1, ElementOfSeq
  <2>3. op.id \in Lineage
    BY <2>2 DEF Operation
  <2>4. InOrderAt(p, i + 1) /\ ChildrenFirstAt(p, i + 1)
    BY <2>1 DEF LoopInductive, WritesInOrder, ChildrenFirst
  <2>5. op.do # "load"
    BY <2>1, <2>4 DEF InOrderAt
  <2>6. InOrderAt(p, i)'
    BY <2>1, <2>3, <2>4, <2>5 DEF InOrderAt, Kept, Bounded
  <2>7. ASSUME NEW id, ChildComes(p, i + 1, id)
        PROVE  ChildComes(p, i, id)'
    <3>1. CASE Exists(id)
      BY <3>1 DEF Kept, Exists, ChildComes
    <3>2. CASE \E j \in 1 .. (i + 1) - 1 :
                 todo[p][j].do = "enqueue" /\ todo[p][j].id = id
      <4> PICK j \in 1 .. (i + 1) - 1 :
                 todo[p][j].do = "enqueue" /\ todo[p][j].id = id
        BY <3>2
      <4>1. j # 1
        BY <1>2
      <4>2. j - 1 \in 1 .. i - 1 /\ j - 1 \in 1 .. Len(todo'[p])
            /\ (j - 1) + 1 = j
        BY <2>1, <4>1, <1>1, <1>3
      <4>3. todo'[p][j - 1] = todo[p][j]
        BY <1>1, <4>2
      <4> QED BY <4>2, <4>3 DEF ChildComes
    <3> QED BY <2>7, <3>1, <3>2 DEF ChildComes
  <2>8. ChildrenFirstAt(p, i)'
    BY <2>1, <2>4, <2>7 DEF ChildrenFirstAt
  <2> QED BY <2>6, <2>8
<1> QED BY <1>1, <1>4 DEF NewList

\* The same when the first operation goes on, and the child it enqueues is
\* on disk by then.
LEMMA ProceedStep ==
  ASSUME LoopInductive, NEW p \in Process, NEW kind \in OpKind, Pending(p),
         Proceed(p, kind), Kept,
         \/ Now(p).do = "save" /\ kind = "write"
         \/ /\ Now(p).do = "enqueue" /\ kind = "fill"
            /\ \A id : id = Now(p).id => Exists(id)'
         \/ Now(p).do = "fill" /\ kind = "mark"
  PROVE  NewList(p)
<1>1. /\ todo' \in [Process -> Seq(Operation)]
      /\ \A q \in Process \ {p} : todo'[q] = todo[q]
      /\ Len(todo'[p]) = Len(todo[p])
      /\ todo'[p][1] = [todo[p][1] EXCEPT !.do = kind]
      /\ \A i \in 2 .. Len(todo'[p]) : todo'[p][i] = todo[p][i]
  BY ProceedIs DEF LoopInductive
<1>2. /\ todo[p] \in Seq(Operation) /\ Now(p) = todo[p][1]
      /\ 1 \in 1 .. Len(todo[p]) /\ Now(p) \in Operation
      /\ InOrderAt(p, 1) /\ ChildrenFirstAt(p, 1)
      /\ \A id : ChildComes(p, 1, id) => Exists(id)
  BY NowIs
<1>3. Len(todo[p]) \in Nat
  BY <1>2, LenProperties
<1>4. /\ todo'[p][1].do = kind /\ todo'[p][1].id = Now(p).id
      /\ todo'[p][1].task = Now(p).task /\ todo'[p][1].line = Now(p).line
      /\ Now(p).id \in Lineage
  BY <1>1, <1>2 DEF Operation
<1>5. InOrderAt(p, 1)'
  BY <1>2, <1>4 DEF InOrderAt, Kept, Bounded
<1>6. ChildrenFirstAt(p, 1)'
  BY <1>2, <1>4 DEF ChildrenFirstAt, ChildComes, Kept, Exists
<1>7. \A i \in 2 .. Len(todo'[p]) : InOrderAt(p, i)' /\ ChildrenFirstAt(p, i)'
  <2> TAKE i \in 2 .. Len(todo'[p])
  <2> DEFINE op == todo[p][i]
  <2>1. i \in 1 .. Len(todo[p]) /\ i \in Nat /\ i >= 2 /\ todo'[p][i] = op
    BY <1>1, <1>3
  <2>2. op \in Operation
    BY <1>2, <2>1, ElementOfSeq
  <2>3. op.id \in Lineage
    BY <2>2 DEF Operation
  <2>4. InOrderAt(p, i) /\ ChildrenFirstAt(p, i)
    BY <2>1 DEF LoopInductive, WritesInOrder, ChildrenFirst
  <2>5. op.do # "load"
    BY <2>1, <2>4 DEF InOrderAt
  <2>6. InOrderAt(p, i)'
    BY <2>1, <2>3, <2>4, <2>5 DEF InOrderAt, Kept, Bounded
  <2>7. ASSUME NEW id, ChildComes(p, i, id)
        PROVE  ChildComes(p, i, id)'
    <3>1. CASE Exists(id)
      BY <3>1 DEF Kept, Exists, ChildComes
    <3>2. CASE \E j \in 1 .. i - 1 :
                 todo[p][j].do = "enqueue" /\ todo[p][j].id = id
      <4> PICK j \in 1 .. i - 1 :
                 todo[p][j].do = "enqueue" /\ todo[p][j].id = id
        BY <3>2
      <4>1. CASE j = 1
        <5>1. Now(p).do = "enqueue" /\ Now(p).id = id
          BY <4>1, <1>2
        <5> QED BY <5>1 DEF ChildComes
      <4>2. CASE j # 1
        <5>1. j \in 2 .. Len(todo'[p])
          BY <4>2, <2>1, <1>1, <1>3
        <5> QED BY <5>1, <1>1 DEF ChildComes
      <4> QED BY <4>1, <4>2
    <3> QED BY <2>7, <3>1, <3>2 DEF ChildComes
  <2>8. ChildrenFirstAt(p, i)'
    BY <2>1, <2>4, <2>7 DEF ChildrenFirstAt
  <2> QED BY <2>6, <2>8
<1>8. \A i \in 1 .. Len(todo'[p]) : i = 1 \/ i \in 2 .. Len(todo'[p])
  BY <1>1, <1>3
<1> QED BY <1>1, <1>5, <1>6, <1>7, <1>8 DEF NewList

\* The file operations, and the death of a process.
LEMMA TruncateStep ==
  ASSUME LoopInductive, NEW p \in Process, Truncate(p)
  PROVE  NewList(p) /\ Kept
<1>1. Pending(p) /\ Now(p).id \in Lineage
  BY NowIs DEF Truncate, Operation
<1>2. Torn # Absent
  BY DEF Torn, Absent
<1>3. Kept /\ \A id : id = Now(p).id => Exists(id)'
  BY <1>1, <1>2 DEF Kept, Exists, Truncate, LoopInductive, LoopTypeOK
<1>4. CASE Now(p).do = "save"
  <2>1. Proceed(p, "write") /\ "write" \in OpKind
    BY <1>4 DEF Truncate, OpKind
  <2> QED BY <1>1, <1>3, <1>4, <2>1, ProceedStep
<1>5. CASE Now(p).do = "enqueue"
  <2>1. Proceed(p, "fill") /\ "fill" \in OpKind
    BY <1>5 DEF Truncate, OpKind
  <2> QED BY <1>1, <1>3, <1>5, <2>1, ProceedStep
<1> QED BY <1>4, <1>5 DEF Truncate

LEMMA WriteStep ==
  ASSUME LoopInductive, NEW p \in Process, WriteTask(p)
  PROVE  NewList(p) /\ Kept /\ Now(p).task \in TaskRecord
<1>1. /\ Pending(p) /\ Now(p).id \in Lineage
      /\ Now(p).task \in TaskRecord
  BY NowIs DEF WriteTask, Operation, InOrderAt
<1>2. Now(p).task # Absent
  BY <1>1 DEF TaskRecord, TaskStatus, Absent
<1>3. Kept
  BY <1>1, <1>2 DEF Kept, Exists, WriteTask, LoopInductive, LoopTypeOK
<1>4. CASE Now(p).do = "write"
  <2>1. Finish(p)
    BY <1>4 DEF WriteTask
  <2> QED BY <1>1, <1>3, <1>4, <2>1, FinishStep
<1>5. CASE Now(p).do = "fill"
  <2>1. Proceed(p, "mark") /\ "mark" \in OpKind
    BY <1>5 DEF WriteTask, OpKind
  <2> QED BY <1>1, <1>3, <1>5, <2>1, ProceedStep
<1> QED BY <1>4, <1>5 DEF WriteTask

LEMMA MarkStep ==
  ASSUME LoopInductive, NEW p \in Process, Mark(p) \/ AppendLine(p)
  PROVE  NewList(p) /\ Kept
<1>1. /\ Pending(p) /\ Finish(p) /\ Now(p).do # "enqueue"
      /\ UNCHANGED <<files, locks, wins>>
  BY DEF Mark, AppendLine
<1> QED BY <1>1, SameFilesKept, FinishStep

LEMMA DieStep ==
  ASSUME LoopInductive, NEW p \in Process, Die(p)
  PROVE  NewList(p) /\ Kept
<1>1. /\ todo' = [todo EXCEPT ![p] = <<>>] /\ UNCHANGED <<files, locks, wins>>
  BY DEF Die, disk
<1> QED BY <1>1, EmptyStep, SameFilesKept

\* Every step gives one process a list in order, and takes nothing back.
LEMMA StepLists ==
  ASSUME LoopInductive, LoopNext
  PROVE  (\E p \in Process : NewList(p)) /\ Kept
<1>1. Loop \in Process /\ Worker \subseteq Process
  BY DEF Process
<1>2. CASE EnqueueRoot
  <2>1. UNCHANGED <<files, locks, wins>>
    BY <1>2 DEF EnqueueRoot, disk
  <2> QED BY <1>1, <1>2, <2>1, EnqueueRootStep, SameFilesKept
<1>3. CASE \E id \in Lineage : \E w \in Worker :
             ClaimTask(w, id) \/ ReportTask(w, id)
  <2> PICK id \in Lineage, w \in Worker : ClaimTask(w, id) \/ ReportTask(w, id)
    BY <1>3
  <2>1. CASE ClaimTask(w, id)
    BY <1>1, <2>1, ClaimStep
  <2>2. CASE ReportTask(w, id)
    <3>1. UNCHANGED <<files, locks, wins>>
      BY <2>2 DEF ReportTask, disk
    <3> QED BY <1>1, <2>2, <3>1, ReportStep, SameFilesKept
  <2> QED BY <2>1, <2>2
<1>4. CASE \E id \in Lineage, verdict \in {"verified", "failed"} :
             VerifyTask(id, verdict)
  <2> PICK id \in Lineage, verdict \in {"verified", "failed"} :
             VerifyTask(id, verdict)
    BY <1>4
  <2>1. UNCHANGED <<files, locks, wins>>
    BY DEF VerifyTask, disk
  <2> QED BY <1>1, <2>1, VerifyStep, SameFilesKept
<1>5. CASE \E id \in Lineage, n \in 1 .. MaxBreadth : SplitTask(id, n)
  <2> PICK id \in Lineage, n \in 1 .. MaxBreadth : SplitTask(id, n)
    BY <1>5
  <2>1. UNCHANGED <<files, locks, wins>>
    BY DEF SplitTask, disk
  <2> QED BY <1>1, <2>1, SplitStep, SameFilesKept
<1>6. CASE \E p \in Process : \/ LoadClaimed(p) \/ Truncate(p) \/ WriteTask(p)
                             \/ Mark(p) \/ AppendLine(p) \/ Die(p)
  BY <1>6, LoadStep, TruncateStep, WriteStep, MarkStep, DieStep
<1> QED BY <1>2, <1>3, <1>4, <1>5, <1>6 DEF LoopNext

-----------------------------------------------------------------------------
(* The inductive invariant                                                 *)

\* A claim is counted by the process that holds the lock, and its list
\* changes.
LEMMA LoadEffect ==
  ASSUME LoopInductive, NEW p \in Process, LoadClaimed(p)
  PROVE  /\ locks[Now(p).id] = p /\ todo'[p] # todo[p]
         /\ \A id \in Lineage : id # Now(p).id => wins'[id] = wins[id]
<1>1. /\ todo[p] \in Seq(Operation) /\ 1 \in 1 .. Len(todo[p])
      /\ Now(p) = todo[p][1] /\ InOrderAt(p, 1)
      /\ Now(p).do = "load" /\ Pending(p) /\ p \in DOMAIN todo
      /\ Now(p).id \in Lineage
  BY NowIs DEF LoadClaimed, LoopInductive, LoopTypeOK, Operation
<1>2. locks[Now(p).id] = p
  BY <1>1 DEF InOrderAt
<1>3. CASE files[Now(p).id].status = "queued"
  <2> DEFINE head == Save(Now(p).id, [files[Now(p).id] EXCEPT !.status = "claimed"])
             ops  == <<head, Claiming("unmark", Now(p).id)>>
  <2>1. todo'[p] = ops
    BY <1>1, <1>3 DEF LoadClaimed
  <2>2. ops[1].do = "save"
    BY DEF Save, Op
  <2>3. todo'[p] # todo[p]
    BY <1>1, <2>1, <2>2
  <2>4. wins' = [wins EXCEPT ![Now(p).id] = IF @ < 2 THEN @ + 1 ELSE @]
    BY <1>3 DEF LoadClaimed
  <2>5. \A id \in Lineage : id # Now(p).id => wins'[id] = wins[id]
    BY <2>4 DEF LoopInductive, LoopTypeOK
  <2> QED BY <1>2, <2>3, <2>5
<1>4. CASE files[Now(p).id].status # "queued"
  <2>1. todo'[p] = <<>> /\ wins' = wins
    BY <1>1, <1>4 DEF LoadClaimed
  <2> QED BY <1>1, <1>2, <2>1 DEF Pending
<1> QED BY <1>3, <1>4

\* No other step counts a claim.
LEMMA WinsStep ==
  ASSUME LoopNext
  PROVE  wins' = wins \/ \E p \in Process : LoadClaimed(p)
BY DEF LoopNext, EnqueueRoot, ClaimTask, ReportTask, VerifyTask, SplitTask,
       Truncate, WriteTask, Mark, AppendLine, Die

\* The files change by a truncation or a write, the ledger by a line.
LEMMA FilesStep ==
  ASSUME LoopNext
  PROVE  files' = files \/ \E p \in Process : Truncate(p) \/ WriteTask(p)
BY DEF LoopNext, EnqueueRoot, ClaimTask, ReportTask, VerifyTask, SplitTask,
       LoadClaimed, Mark, AppendLine, Die, disk

LEMMA LedgerStep ==
  ASSUME LoopNext
  PROVE  ledger' = ledger \/ \E p \in Process : AppendLine(p)
BY DEF LoopNext, EnqueueRoot, ClaimTask, ReportTask, VerifyTask, SplitTask,
       LoadClaimed, Truncate, WriteTask, Mark, Die, disk

\* A list that did not change stays in order: a look at a claimed task is
\* about a lock that nobody else holds.
LEMMA OtherLists ==
  ASSUME LoopInductive, LoopNext, Kept, NEW q \in Process, todo'[q] = todo[q],
         NEW i \in 1 .. Len(todo[q])
  PROVE  InOrderAt(q, i)' /\ ChildrenFirstAt(q, i)'
<1> DEFINE op == todo[q][i]
<1>1. op.id \in Lineage
  <2>1. todo[q] \in Seq(Operation)
    BY DEF LoopInductive, LoopTypeOK
  <2>2. op \in Operation
    BY <2>1, ElementOfSeq
  <2> QED BY <2>2 DEF Operation
<1>2. InOrderAt(q, i) /\ ChildrenFirstAt(q, i)
  BY DEF LoopInductive, WritesInOrder, ChildrenFirst
<1>3. op.do = "load" =>
        locks'[op.id] = locks[op.id] /\ wins'[op.id] = wins[op.id]
  <2> HAVE op.do = "load"
  <2>1. i = 1 /\ Len(todo[q]) = 1 /\ locks[op.id] = q /\ wins[op.id] = 0
    BY <1>2 DEF InOrderAt
  <2>2. locks[op.id] # "absent"
    BY <2>1, LoopAssumption DEF Process
  <2>3. locks'[op.id] = locks[op.id]
    BY <1>1, <2>2 DEF Kept
  <2>4. CASE wins' = wins
    BY <2>3, <2>4
  <2>5. CASE \E p \in Process : LoadClaimed(p)
    <3> PICK p \in Process : LoadClaimed(p)
      BY <2>5
    <3>1. op.id # Now(p).id
      BY <2>1, LoadEffect
    <3> QED BY <1>1, <2>3, <3>1, LoadEffect
  <2> QED BY <2>4, <2>5, WinsStep
<1>4. InOrderAt(q, i)'
  BY <1>1, <1>2, <1>3 DEF InOrderAt, Kept, Bounded
<1>5. ChildrenFirstAt(q, i)'
  BY <1>2 DEF ChildrenFirstAt, ChildComes, Kept, Exists
<1> QED BY <1>4, <1>5

\* Every step keeps the types.
LEMMA StepLoopTypeOK ==
  ASSUME LoopInductive, LoopNext
  PROVE  LoopTypeOK'
<1>1. todo' \in [Process -> Seq(Operation)]
  BY StepLists DEF NewList
<1>2. LoopTypeOK
  BY DEF LoopInductive
<1>3. CASE EnqueueRoot
  BY <1>1, <1>2, <1>3, LoopAssumption DEF LoopTypeOK, EnqueueRoot, Command, disk
<1>4. CASE \E id \in Lineage : \E w \in Worker :
             ClaimTask(w, id) \/ ReportTask(w, id)
  <2> PICK id \in Lineage, w \in Worker : ClaimTask(w, id) \/ ReportTask(w, id)
    BY <1>4
  <2>1. CASE ClaimTask(w, id)
    BY <1>1, <1>2, <2>1 DEF LoopTypeOK, ClaimTask
  <2>2. CASE ReportTask(w, id)
    BY <1>1, <1>2, <2>2 DEF LoopTypeOK, ReportTask, disk
  <2> QED BY <2>1, <2>2
<1>5. CASE \E id \in Lineage :
             \/ \E verdict \in {"verified", "failed"} : VerifyTask(id, verdict)
             \/ \E n \in 1 .. MaxBreadth : SplitTask(id, n)
  <2>1. commands < MaxCommands /\ commands' = commands + 1
        /\ UNCHANGED <<disk, deaths, wins>>
    BY <1>5 DEF VerifyTask, SplitTask, Command
  <2> QED BY <1>1, <1>2, <2>1, LoopAssumption DEF LoopTypeOK, disk
<1>8. CASE \E p \in Process : LoadClaimed(p) \/ Die(p)
  <2> PICK p \in Process : LoadClaimed(p) \/ Die(p)
    BY <1>8
  <2>1. CASE LoadClaimed(p)
    <3>1. wins' \in [Lineage -> 0 .. 2]
      BY <1>2, <2>1 DEF LoopTypeOK, LoadClaimed
    <3> QED BY <1>1, <1>2, <2>1, <3>1 DEF LoopTypeOK, LoadClaimed, disk
  <2>2. CASE Die(p)
    BY <1>1, <1>2, <2>2, LoopAssumption DEF LoopTypeOK, Die, disk
  <2> QED BY <2>1, <2>2
<1>6. CASE \E p \in Process : Truncate(p) \/ WriteTask(p)
  BY <1>1, <1>2, <1>6, WriteStep DEF LoopTypeOK, Truncate, WriteTask
<1>7. CASE \E p \in Process : Mark(p) \/ AppendLine(p)
  <2> PICK p \in Process : Mark(p) \/ AppendLine(p)
    BY <1>7
  <2>1. Now(p) \in Operation /\ InOrderAt(p, 1)
    BY NowIs DEF Mark, AppendLine
  <2>2. Now(p).id \in Lineage
    BY <2>1 DEF Operation
  <2>3. CASE Mark(p)
    BY <1>1, <1>2, <2>2, <2>3 DEF LoopTypeOK, Mark
  <2>4. CASE AppendLine(p)
    BY <1>1, <1>2, <2>1, <2>2, <2>4, NowIs DEF LoopTypeOK, AppendLine, InOrderAt
  <2> QED BY <2>3, <2>4
<1> QED BY <1>3, <1>4, <1>5, <1>6, <1>7, <1>8 DEF LoopNext

\* Every step keeps the bounds of the lineages.
LEMMA StepLineageBounded ==
  ASSUME LoopInductive, LoopNext
  PROVE  LineageBounded'
<1>1. LoopTypeOK /\ LineageBounded
  BY DEF LoopInductive
<1>2. CASE files' = files
  BY <1>1, <1>2 DEF LineageBounded, OnDisk, Bounded
<1>3. CASE \E p \in Process : Truncate(p)
  BY <1>1, <1>3 DEF Truncate, LineageBounded, OnDisk, Bounded, LoopTypeOK
<1>4. CASE \E p \in Process : WriteTask(p)
  <2> PICK p \in Process : WriteTask(p)
    BY <1>4
  <2>1. /\ Bounded(Now(p).id, Now(p).task) /\ Now(p).id \in Lineage
        /\ files' = [files EXCEPT ![Now(p).id] = Now(p).task]
    BY NowIs DEF WriteTask, InOrderAt, Operation
  <2> QED BY <1>1, <2>1 DEF LineageBounded, OnDisk, Bounded, LoopTypeOK
<1> QED BY <1>2, <1>3, <1>4, FilesStep

\* Every step keeps it that a task is claimed once.
LEMMA StepClaimedOnce ==
  ASSUME LoopInductive, LoopNext
  PROVE  ClaimedOnce'
<1>1. LoopTypeOK /\ ClaimedOnce /\ Kept
  BY StepLists DEF LoopInductive
<1>2. \A id \in Lineage : wins'[id] <= 1
  <2>1. CASE wins' = wins
    BY <1>1, <2>1 DEF ClaimedOnce
  <2>2. CASE \E p \in Process : LoadClaimed(p)
    <3> PICK p \in Process : LoadClaimed(p)
      BY <2>2
    <3>1. wins[Now(p).id] = 0 /\ Now(p).id \in Lineage
      BY NowIs DEF LoadClaimed, InOrderAt, Operation
    <3>2. wins'[Now(p).id] \in {0, 1}
      BY <1>1, <3>1 DEF LoadClaimed, LoopTypeOK
    <3> QED BY <1>1, <3>2, LoadEffect DEF ClaimedOnce
  <2> QED BY <2>1, <2>2, WinsStep
<1>3. ASSUME NEW id \in Lineage, OnDisk(id)', files'[id].status # "queued"
      PROVE  wins'[id] = 1
  <2>1. CASE files' = files
    BY <1>1, <1>3, <2>1 DEF ClaimedOnce, Kept, OnDisk
  <2>2. CASE \E p \in Process : Truncate(p)
    BY <1>1, <1>3, <2>2 DEF Truncate, ClaimedOnce, Kept, OnDisk, LoopTypeOK
  <2>3. CASE \E p \in Process : WriteTask(p)
    <3> PICK p \in Process : WriteTask(p)
      BY <2>3
    <3>1. /\ Now(p).task.status # "queued" => wins[Now(p).id] = 1
          /\ Now(p).id \in Lineage
          /\ files' = [files EXCEPT ![Now(p).id] = Now(p).task]
      BY NowIs DEF WriteTask, InOrderAt, Operation
    <3> QED BY <1>1, <1>3, <3>1 DEF ClaimedOnce, Kept, OnDisk, LoopTypeOK
  <2> QED BY <2>1, <2>2, <2>3, FilesStep
<1> QED BY <1>2, <1>3 DEF ClaimedOnce

\* Every step keeps the children of a split task.
LEMMA StepSplitHasChildren ==
  ASSUME LoopInductive, LoopNext
  PROVE  SplitHasChildren'
<1>1. LoopTypeOK /\ SplitHasChildren /\ Kept
  BY StepLists DEF LoopInductive
<1>2. \A id : Exists(id) => Exists(id)'
  BY <1>1 DEF Kept, Exists
<1>3. ASSUME NEW id \in Lineage, NEW k \in 1 .. files'[id].parts
      PROVE  Exists(Child(id, k))'
  <2>1. CASE files' = files
    BY <1>1, <1>2, <1>3, <2>1 DEF SplitHasChildren
  <2>2. CASE \E p \in Process : Truncate(p)
    BY <1>1, <1>2, <1>3, <2>2 DEF Truncate, SplitHasChildren, LoopTypeOK, Torn
  <2>3. CASE \E p \in Process : WriteTask(p)
    <3> PICK p \in Process : WriteTask(p)
      BY <2>3
    <3>1. /\ \A j \in 1 .. Now(p).task.parts : Exists(Child(Now(p).id, j))
          /\ Now(p).id \in Lineage
          /\ files' = [files EXCEPT ![Now(p).id] = Now(p).task]
      BY NowIs DEF WriteTask, InOrderAt, ChildrenFirstAt, Operation
    <3> QED BY <1>1, <1>2, <1>3, <3>1 DEF SplitHasChildren, LoopTypeOK
  <2> QED BY <2>1, <2>2, <2>3, FilesStep
<1>4. ASSUME NEW id \in Lineage, "split" \in ledger'[id]
      PROVE  Exists(Child(id, 1))'
  <2>1. CASE ledger' = ledger
    BY <1>1, <1>2, <1>4, <2>1 DEF SplitHasChildren
  <2>2. CASE \E p \in Process : AppendLine(p)
    <3> PICK p \in Process : AppendLine(p)
      BY <2>2
    <3>1. /\ Now(p).line = "split" => Exists(Child(Now(p).id, 1))
          /\ Now(p).id \in Lineage
          /\ ledger' = [ledger EXCEPT ![Now(p).id] = @ \cup {Now(p).line}]
      BY NowIs DEF AppendLine, ChildrenFirstAt, Operation
    <3> QED BY <1>1, <1>2, <1>4, <3>1 DEF SplitHasChildren, LoopTypeOK
  <2> QED BY <2>1, <2>2, LedgerStep
<1> QED BY <1>3, <1>4 DEF SplitHasChildren

\* Every step keeps the order of the writes to come.
LEMMA StepInOrderLists ==
  ASSUME LoopInductive, LoopNext
  PROVE  WritesInOrder' /\ ChildrenFirst'
<1>1. LoopTypeOK /\ WritesInOrder /\ Kept
  BY StepLists DEF LoopInductive
<1> PICK p \in Process : NewList(p)
  BY StepLists
<1>2. \A q \in Process : \A i \in 1 .. Len(todo'[q]) :
        InOrderAt(q, i)' /\ ChildrenFirstAt(q, i)'
  BY <1>1, OtherLists DEF NewList
<1>3. \A id \in Lineage : wins'[id] > 0 => locks'[id] # "absent"
  <2>1. CASE wins' = wins
    BY <1>1, <2>1 DEF WritesInOrder, Kept
  <2>2. CASE \E r \in Process : LoadClaimed(r)
    <3> PICK r \in Process : LoadClaimed(r)
      BY <2>2
    <3>1. locks' = locks
      BY DEF LoadClaimed, disk
    <3>2. locks[Now(r).id] # "absent"
      BY LoadEffect, LoopAssumption DEF Process
    <3> QED BY <1>1, <3>1, <3>2, LoadEffect DEF WritesInOrder
  <2> QED BY <2>1, <2>2, WinsStep
<1> QED BY <1>2, <1>3 DEF WritesInOrder, ChildrenFirst

-----------------------------------------------------------------------------
(* The theorems                                                            *)

\* The inductive invariant of the file loop holds in every state.
THEOREM LoopInductiveHolds == LoopSpec => []LoopInductive
<1>1. LoopInit => LoopInductive
  <2> SUFFICES ASSUME LoopInit PROVE LoopInductive
    OBVIOUS
  <2>1. <<>> \in Seq(Operation) /\ \A p \in Process : Len(todo[p]) = 0
    BY EmptySeq DEF LoopInit
  <2>2. LoopTypeOK
    BY <2>1, LoopAssumption DEF LoopInit, LoopTypeOK
  <2>3. LineageBounded /\ ClaimedOnce
    BY DEF LoopInit, LineageBounded, ClaimedOnce, OnDisk
  <2>4. SplitHasChildren
    BY DEF LoopInit, SplitHasChildren, Absent
  <2>5. WritesInOrder /\ ChildrenFirst
    BY <2>1 DEF LoopInit, WritesInOrder, ChildrenFirst
  <2> QED BY <2>2, <2>3, <2>4, <2>5 DEF LoopInductive
<1>2. LoopInductive /\ [LoopNext]_loopVars => LoopInductive'
  <2> SUFFICES ASSUME LoopInductive, [LoopNext]_loopVars PROVE LoopInductive'
    OBVIOUS
  <2>1. CASE LoopNext
    BY <2>1, StepLoopTypeOK, StepLineageBounded, StepClaimedOnce,
       StepSplitHasChildren, StepInOrderLists DEF LoopInductive
  <2>2. CASE UNCHANGED loopVars
    BY <2>2
       DEF loopVars, disk, LoopInductive, LoopTypeOK, LineageBounded, Bounded,
           ClaimedOnce, SplitHasChildren, WritesInOrder, InOrderAt,
           ChildrenFirst, ChildrenFirstAt, ChildComes, Exists, OnDisk
  <2> QED BY <2>1, <2>2
<1> QED BY <1>1, <1>2, PTL DEF LoopSpec

\* No task is deeper than its split count, and no count above MAX_RESPLITS,
\* whatever copies of task files are written at the same time.
THEOREM LineagesAreBounded == LoopSpec => []LineageBounded
BY LoopInductiveHolds, PTL DEF LoopInductive

\* A task is claimed once, for good, and nothing else than a claimed task is
\* reported, verified or split.
THEOREM TasksAreClaimedOnce == LoopSpec => []ClaimedOnce
BY LoopInductiveHolds, PTL DEF LoopInductive

\* A task that was split has its children, wherever the splitter died.
THEOREM SplitTasksHaveChildren == LoopSpec => []SplitHasChildren
BY LoopInductiveHolds, PTL DEF LoopInductive

-----------------------------------------------------------------------------
(* The board                                                               *)

\* What was earned stays so, since no claim is taken back.
LEMMA EarnedStays ==
  ASSUME Kept, NEW op \in Operation, Earned(op, wins)
  PROVE  Earned(op, wins')
<1>1. op.id \in Lineage
  BY DEF Operation
<1> QED BY <1>1 DEF Earned, Kept

\* The list of p is earned, the lists of the other processes stay.
EarnedList(p) ==
  /\ \A q \in Process \ {p} : todo'[q] = todo[q]
  /\ \A i \in 1 .. Len(todo'[p]) : Earned(todo'[p][i], wins')

LEMMA BeginEarned ==
  ASSUME LoopInductive, NEW p \in Process, NEW ops \in Seq(Operation),
         todo' = [todo EXCEPT ![p] = ops],
         \A i \in 1 .. Len(ops) : Earned(ops[i], wins')
  PROVE  EarnedList(p)
BY BeginIs DEF LoopInductive, EarnedList

LEMMA EmptyEarned ==
  ASSUME LoopInductive, NEW p \in Process, todo' = [todo EXCEPT ![p] = <<>>]
  PROVE  EarnedList(p)
<1>1. <<>> \in Seq(Operation) /\ Len(<<>>) = 0
  BY EmptySeq
<1>2. todo'[p] = <<>> /\ \A q \in Process \ {p} : todo'[q] = todo[q]
  BY <1>1, BeginIs DEF LoopInductive
<1>3. Len(todo'[p]) = 0
  BY <1>1, <1>2
<1> QED BY <1>2, <1>3 DEF EarnedList

LEMMA FinishEarned ==
  ASSUME LoopInductive, WritesEarned, Kept, NEW p \in Process, Pending(p), Finish(p)
  PROVE  EarnedList(p)
<1>1. /\ \A q \in Process \ {p} : todo'[q] = todo[q]
      /\ Len(todo'[p]) = Len(todo[p]) - 1
      /\ \A i \in 1 .. Len(todo'[p]) : todo'[p][i] = todo[p][i + 1]
  BY FinishIs DEF LoopInductive
<1>2. todo[p] \in Seq(Operation) /\ Len(todo[p]) \in Nat
  BY LenProperties DEF LoopInductive, LoopTypeOK
<1>3. ASSUME NEW i \in 1 .. Len(todo'[p])
      PROVE  Earned(todo'[p][i], wins')
  <2>1. i + 1 \in 1 .. Len(todo[p]) /\ todo'[p][i] = todo[p][i + 1]
    BY <1>1, <1>2
  <2>2. todo[p][i + 1] \in Operation /\ Earned(todo[p][i + 1], wins)
    BY <1>2, <2>1, ElementOfSeq DEF WritesEarned
  <2> QED BY <2>1, <2>2, EarnedStays
<1> QED BY <1>1, <1>3 DEF EarnedList

LEMMA ProceedEarned ==
  ASSUME LoopInductive, WritesEarned, Kept, NEW p \in Process, NEW kind \in OpKind,
         Pending(p), Proceed(p, kind),
         \/ kind \in {"write", "mark"}
         \/ kind = "fill" /\ Now(p).do = "enqueue"
  PROVE  EarnedList(p)
<1>1. /\ \A q \in Process \ {p} : todo'[q] = todo[q]
      /\ Len(todo'[p]) = Len(todo[p])
      /\ todo'[p][1] = [todo[p][1] EXCEPT !.do = kind]
      /\ \A i \in 2 .. Len(todo'[p]) : todo'[p][i] = todo[p][i]
  BY ProceedIs DEF LoopInductive
<1>2. /\ todo[p] \in Seq(Operation) /\ Len(todo[p]) \in Nat
      /\ Now(p) = todo[p][1] /\ Now(p) \in Operation /\ 1 \in 1 .. Len(todo[p])
  BY NowIs, LenProperties
<1>3. \A i \in 1 .. Len(todo[p]) :
        todo[p][i] \in Operation /\ Earned(todo[p][i], wins')
  <2> TAKE i \in 1 .. Len(todo[p])
  <2>1. todo[p][i] \in Operation /\ Earned(todo[p][i], wins)
    BY <1>2, ElementOfSeq DEF WritesEarned
  <2> QED BY <2>1, EarnedStays
<1>4. Earned(todo'[p][1], wins')
  <2>1. todo'[p][1].do = kind /\ todo'[p][1].id = todo[p][1].id
    BY <1>1, <1>2 DEF Operation
  <2> QED BY <1>2, <1>3, <2>1 DEF Earned
<1>5. \A i \in 1 .. Len(todo'[p]) : i = 1 \/ i \in 2 .. Len(todo'[p])
  BY <1>1, <1>2
<1> QED BY <1>1, <1>3, <1>4, <1>5 DEF EarnedList

\* A record to be saved and a line about it, once its task is claimed.
LEMMA SaveEarned ==
  ASSUME LoopInductive, NEW p \in Process, NEW id \in Lineage, NEW task \in TaskRecord,
         NEW line \in LineType, wins'[id] = 1,
         todo' = [todo EXCEPT ![p] = SaveAndLog(id, task, line)]
  PROVE  EarnedList(p)
<1> DEFINE ops == SaveAndLog(id, task, line)
<1>1. /\ ops \in Seq(Operation) /\ Len(ops) = 2
      /\ ops[1] = Save(id, task) /\ ops[2] = Log(id, line)
  BY SaveAndLogIs
<1>2. Earned(Save(id, task), wins') /\ Earned(Log(id, line), wins')
  BY DEF Earned, Save, Log, Op
<1>3. todo' = [todo EXCEPT ![p] = ops]
  OBVIOUS
<1> HIDE DEF ops
<1>4. \A i \in 1 .. Len(ops) : i = 1 \/ i = 2
  BY <1>1
<1>5. \A i \in 1 .. Len(ops) : Earned(ops[i], wins')
  BY <1>1, <1>2, <1>4
<1> QED BY <1>1, <1>3, <1>5, BeginEarned

\* What is reported, verified or split was claimed.
LEMMA ClaimedIs ==
  ASSUME LoopInductive, NEW id \in Lineage,
         files[id].status \in {"claimed", "done", "failed"}
  PROVE  files[id] \in TaskRecord /\ wins[id] = 1
BY StatusIsOnDisk DEF LoopInductive, ClaimedOnce, TaskStatus

\* Each command puts earned writes on its list.
LEMMA CommandEarned ==
  ASSUME LoopInductive, NEW id \in Lineage,
         \/ EnqueueRoot
         \/ \E w \in Worker : ClaimTask(w, id) \/ ReportTask(w, id)
         \/ \E verdict \in {"verified", "failed"} : VerifyTask(id, verdict)
         \/ \E n \in 1 .. MaxBreadth : SplitTask(id, n)
  PROVE  \E p \in Process : EarnedList(p)
<1>1. Loop \in Process /\ Worker \subseteq Process
  BY DEF Process
<1>2. wins' = wins
  BY DEF EnqueueRoot, ClaimTask, ReportTask, VerifyTask, SplitTask
<1>3. CASE EnqueueRoot
  <2> DEFINE op == Enqueue(Root, Queued(0))
  <2>1. op \in Operation
    BY RootIs, OperationIs, LoopAssumption DEF Queued, TaskRecord, TaskStatus
  <2>2. <<op>> \in Seq(Operation) /\ Len(<<op>>) = 1 /\ <<op>>[1] = op
    BY <2>1
  <2>3. Earned(op, wins')
    BY DEF Earned, Enqueue, Op
  <2>4. todo' = [todo EXCEPT ![Loop] = <<op>>]
    BY <1>3 DEF EnqueueRoot, Command, Begin
  <2> HIDE DEF op
  <2>5. \A i \in 1 .. Len(<<op>>) : Earned(<<op>>[i], wins')
    BY <2>2, <2>3
  <2> QED BY <1>1, <2>2, <2>4, <2>5, BeginEarned
<1>4. ASSUME NEW w \in Worker, ClaimTask(w, id)
      PROVE  \E p \in Process : EarnedList(p)
  <2> DEFINE op == Claiming("load", id)
  <2>1. op \in Operation /\ Earned(op, wins')
    BY OperationIs DEF Earned, Claiming, Op
  <2>2. todo' = [todo EXCEPT ![w] = <<op>>]
    BY <1>4 DEF ClaimTask, Begin
  <2> HIDE DEF op
  <2>3. /\ <<op>> \in Seq(Operation)
        /\ \A i \in 1 .. Len(<<op>>) : Earned(<<op>>[i], wins')
    BY <2>1
  <2> QED BY <1>1, <2>2, <2>3, BeginEarned
<1>5. ASSUME NEW w \in Worker, ReportTask(w, id)
      PROVE  \E p \in Process : EarnedList(p)
  <2> DEFINE task == [files[id] EXCEPT !.status = "done", !.parts = 0]
  <2>1. files[id] \in TaskRecord /\ wins[id] = 1
    BY <1>5, ClaimedIs DEF ReportTask
  <2>2. task \in TaskRecord /\ "report" \in LineType
    BY <2>1 DEF TaskRecord, TaskStatus, LineType
  <2>3. todo' = [todo EXCEPT ![w] = SaveAndLog(id, task, "report")]
    BY <1>5 DEF ReportTask, Begin
  <2> HIDE DEF task
  <2> QED BY <1>1, <1>2, <2>1, <2>2, <2>3, SaveEarned
<1>6. ASSUME NEW verdict \in {"verified", "failed"}, VerifyTask(id, verdict)
      PROVE  \E p \in Process : EarnedList(p)
  <2> DEFINE task == [files[id] EXCEPT !.status = verdict]
  <2>1. files[id] \in TaskRecord /\ wins[id] = 1
    BY <1>6, ClaimedIs DEF VerifyTask
  <2>2. task \in TaskRecord /\ "verify" \in LineType
    BY <2>1 DEF TaskRecord, TaskStatus, LineType
  <2>3. todo' = [todo EXCEPT ![Loop] = SaveAndLog(id, task, "verify")]
    BY <1>6 DEF VerifyTask, Command, Begin
  <2> HIDE DEF task
  <2> QED BY <1>1, <1>2, <2>1, <2>2, <2>3, SaveEarned
<1>7. ASSUME NEW n \in 1 .. MaxBreadth, SplitTask(id, n)
      PROVE  \E p \in Process : EarnedList(p)
  <2>1. files[id] \in TaskRecord /\ wins[id] = 1
    BY <1>7, ClaimedIs DEF SplitTask, Splittable
  <2>2. CASE Spiralled(files[id])
    <3> DEFINE task == [files[id] EXCEPT !.status = "failed", !.parts = 0]
    <3>1. task \in TaskRecord /\ "report" \in LineType
      BY <2>1 DEF TaskRecord, TaskStatus, LineType
    <3>2. todo' = [todo EXCEPT ![Loop] = SaveAndLog(id, task, "report")]
      BY <1>7, <2>2 DEF SplitTask, Command, Begin
    <3> HIDE DEF task
    <3> QED BY <1>1, <1>2, <2>1, <3>1, <3>2, SaveEarned
  <2>3. CASE ~Spiralled(files[id])
    <3> DEFINE ops  == SplitOps(id, n)
               up   == files[id].resplits + 1
               task == [status |-> "done", resplits |-> up, parts |-> n]
    <3>1. /\ ops \in Seq(Operation) /\ Len(ops) = n + 2
          /\ \A k \in 1 .. n : ops[k] = Enqueue(Child(id, k), Queued(up))
          /\ ops[n + 1] = Save(id, task) /\ ops[n + 2] = Log(id, "split")
      BY <1>7, <2>3, SplitOpsIs DEF LoopInductive, SplitTask
    <3>2. todo' = [todo EXCEPT ![Loop] = ops]
      BY <1>7, <2>3 DEF SplitTask, Command, Begin
    <3>3. n \in Nat /\ \A k \in 1 .. n : k \in 1 .. MaxBreadth
      BY LoopAssumption
    <3>4. \A k \in 1 .. n : Earned(Enqueue(Child(id, k), Queued(up)), wins')
      BY <1>2, <2>1, <3>3 DEF Earned, Enqueue, Op, Parts
    <3>5. Earned(Save(id, task), wins') /\ Earned(Log(id, "split"), wins')
      BY <1>2, <2>1 DEF Earned, Save, Log, Op
    <3> HIDE DEF ops, task, up
    <3>6. \A i \in 1 .. Len(ops) : i \in 1 .. n \/ i = n + 1 \/ i = n + 2
      BY <3>1, <3>3
    <3>7. \A i \in 1 .. Len(ops) : Earned(ops[i], wins')
      BY <3>1, <3>4, <3>5, <3>6
    <3> QED BY <1>1, <3>1, <3>2, <3>7, BeginEarned
  <2> QED BY <2>2, <2>3
<1> QED BY <1>3, <1>4, <1>5, <1>6, <1>7

\* Each file operation leaves an earned list.
LEMMA OperationEarned ==
  ASSUME LoopInductive, WritesEarned, Kept, NEW p \in Process,
         \/ LoadClaimed(p) \/ Truncate(p) \/ WriteTask(p)
         \/ Mark(p) \/ AppendLine(p) \/ Die(p)
  PROVE  EarnedList(p)
<1>1. {"write", "fill", "mark"} \subseteq OpKind
  BY DEF OpKind
<1>2. CASE LoadClaimed(p) /\ files[Now(p).id].status = "queued"
  <2> DEFINE id == Now(p).id
             task == [files[id] EXCEPT !.status = "claimed"]
             ops == <<Save(id, task), Claiming("unmark", id)>>
  <2>1. id \in Lineage
    BY <1>2, NowIs DEF LoadClaimed, Operation
  <2>2. files[id] \in TaskRecord
    BY <1>2, <2>1, StatusIsOnDisk DEF LoopInductive, TaskStatus
  <2>3. task \in TaskRecord
    BY <2>2 DEF TaskRecord, TaskStatus
  <2>4. todo' = [todo EXCEPT ![p] = ops]
    BY <1>2 DEF LoadClaimed
  <2>5. Earned(Save(id, task), wins') /\ Earned(Claiming("unmark", id), wins')
    BY DEF Earned, Save, Claiming, Op
  <2> HIDE DEF task
  <2>6. /\ ops \in Seq(Operation) /\ Len(ops) = 2 /\ ops[1] = Save(id, task)
        /\ ops[2] = Claiming("unmark", id)
    BY <2>1, <2>3, OperationIs
  <2> HIDE DEF ops
  <2>7. \A i \in 1 .. Len(ops) : i = 1 \/ i = 2
    BY <2>6
  <2>8. \A i \in 1 .. Len(ops) : Earned(ops[i], wins')
    BY <2>5, <2>6, <2>7
  <2> QED BY <2>4, <2>6, <2>8, BeginEarned
<1>3. CASE \/ LoadClaimed(p) /\ files[Now(p).id].status # "queued"
           \/ Die(p)
  <2>1. todo' = [todo EXCEPT ![p] = <<>>]
    BY <1>3 DEF LoadClaimed, Die
  <2> QED BY <2>1, EmptyEarned
<1>4. CASE Truncate(p)
  BY <1>1, <1>4, ProceedEarned DEF Truncate
<1>5. CASE WriteTask(p)
  BY <1>1, <1>5, ProceedEarned, FinishEarned DEF WriteTask
<1>6. CASE Mark(p) \/ AppendLine(p)
  BY <1>6, FinishEarned DEF Mark, AppendLine
<1> QED BY <1>2, <1>3, <1>4, <1>5, <1>6

\* Every step keeps what stands behind the board.
LEMMA StepEarned ==
  ASSUME LoopInductive, WritesEarned, LoopNext
  PROVE  WritesEarned'
<1>1. Kept
  BY StepLists
<1>2. PICK p \in Process : EarnedList(p)
  <2>1. CASE \/ EnqueueRoot
             \/ \E id \in Lineage :
                  \/ \E w \in Worker : ClaimTask(w, id) \/ ReportTask(w, id)
                  \/ \E verdict \in {"verified", "failed"} : VerifyTask(id, verdict)
                  \/ \E n \in 1 .. MaxBreadth : SplitTask(id, n)
    BY <2>1, RootIs, CommandEarned
  <2>2. CASE \E q \in Process : \/ LoadClaimed(q) \/ Truncate(q) \/ WriteTask(q)
                               \/ Mark(q) \/ AppendLine(q) \/ Die(q)
    BY <1>1, <2>2, OperationEarned
  <2> QED BY <2>1, <2>2 DEF LoopNext
<1>3. ASSUME NEW q \in Process, NEW i \in 1 .. Len(todo'[q])
      PROVE  Earned(todo'[q][i], wins')
  <2>1. CASE q = p
    BY <1>2, <2>1 DEF EarnedList
  <2>2. CASE q # p
    <3>1. todo'[q] = todo[q]
      BY <1>2, <2>2 DEF EarnedList
    <3>2. todo[q] \in Seq(Operation)
      BY DEF LoopInductive, LoopTypeOK
    <3>3. todo[q][i] \in Operation /\ Earned(todo[q][i], wins)
      BY <3>1, <3>2, ElementOfSeq DEF WritesEarned
    <3> QED BY <1>1, <3>1, <3>3, EarnedStays
  <2> QED BY <2>1, <2>2
<1>4. ASSUME NEW id \in Lineage, wins'[id] > 0
      PROVE  Exists(id)'
  <2>1. CASE wins' = wins
    BY <1>1, <1>4, <2>1 DEF WritesEarned, Kept
  <2>2. CASE \E q \in Process : LoadClaimed(q)
    <3> PICK q \in Process : LoadClaimed(q)
      BY <2>2
    <3>1. wins'[id] = wins[id] \/ files[id].status = "queued"
      BY LoadEffect DEF LoadClaimed
    <3>2. Exists(id)
      BY <1>4, <3>1 DEF WritesEarned, Exists, Absent
    <3> QED BY <1>1, <3>2 DEF Kept
  <2> QED BY <2>1, <2>2, WinsStep
<1> QED BY <1>3, <1>4 DEF WritesEarned

\* How the files change what the board shows.
LEMMA FilesMoveBoard ==
  ASSUME LoopInductive, WritesEarned, NEW p \in Process,
         Truncate(p) \/ WriteTask(p)
  PROVE  Board!BoardNext \/ UNCHANGED <<Listed, wins, Worked, ledger>>
<1> PICK id \in Lineage : id = Now(p).id
  BY NowIs DEF Truncate, WriteTask, Operation
<1>1. /\ Pending(p) /\ id \in Lineage /\ id = Now(p).id 
      /\ InOrderAt(p, 1) /\ Now(p) = todo[p][1]
      /\ 1 \in 1 .. Len(todo[p])
  BY NowIs DEF Truncate, WriteTask, Operation
<1>2. Earned(Now(p), wins)
  BY <1>1 DEF WritesEarned
<1>3. PICK new \in TaskRecord \cup {Torn} :
        /\ files' = [files EXCEPT ![id] = new]
        /\ OnDisk(id)' /\ new.status # "queued" => wins[id] = 1
  <2>1. CASE Truncate(p)
    <3>1. files' = [files EXCEPT ![id] = Torn] /\ ~OnDisk(id)'
      <4>1. files' = [files EXCEPT ![id] = Torn]
        BY <1>1, <2>1 DEF Truncate
      <4>2. files'[id] = Torn
        BY <4>1 DEF LoopInductive, LoopTypeOK
      <4> QED BY <4>1, <4>2 DEF OnDisk
    <3> QED BY <3>1
  <2>2. CASE WriteTask(p)
    <3>1. /\ files' = [files EXCEPT ![id] = Now(p).task] /\ Now(p).task \in TaskRecord
          /\ Now(p).task.status # "queued" => wins[id] = 1
      BY <1>1, <2>2 DEF WriteTask, InOrderAt
    <3> QED BY <3>1
  <2> QED BY <2>1, <2>2
<1>4. UNCHANGED <<wins, ledger>>
  BY DEF Truncate, WriteTask
<1>5. /\ files'[id] = new /\ \A other \in Lineage \ {id} : files'[other] = files[other]
  BY <1>1, <1>3 DEF LoopInductive, LoopTypeOK
<1>6. new # Absent
  BY DEF TaskRecord, TaskStatus, Torn, Absent
<1>7. Listed' = Listed \cup {id}
  BY <1>1, <1>5, <1>6 DEF Listed, Exists
<1>8. CASE Exists(id)
  <2>1. Listed' = Listed
    BY <1>1, <1>7, <1>8 DEF Listed
  <2>2. Worked' \subseteq {t \in Lineage : wins[t] = 1}
    <3> SUFFICES ASSUME NEW t \in Lineage, OnDisk(t)', files'[t].status # "queued"
                 PROVE  wins[t] = 1
      BY DEF Worked
    <3>1. CASE t = id
      BY <1>3, <1>5, <3>1
    <3>2. CASE t # id
      BY <1>5, <3>2 DEF LoopInductive, ClaimedOnce, OnDisk
    <3> QED BY <3>1, <3>2
  <2>3. Board!Rewrite
    BY <1>4, <2>1, <2>2 DEF Board!Rewrite, Board!Claimed
  <2> QED BY <2>3 DEF Board!BoardNext
<1>9. CASE ~Exists(id)
  <2>1. files[id] = Absent /\ wins[id] # 1
    BY <1>1, <1>9 DEF Exists, WritesEarned
  <2>2. Worked' = Worked
    <3>1. id \notin Worked /\ id \notin Worked'
      BY <1>3, <1>5, <2>1 DEF Worked, OnDisk
    <3>2. \A t \in Lineage \ {id} : t \in Worked' <=> t \in Worked
      BY <1>5 DEF Worked, OnDisk
    <3> QED BY <3>1, <3>2 DEF Worked
  <2>3. Now(p).do \in {"enqueue", "fill"}
    BY <1>1, <2>1 DEF Truncate, WriteTask, InOrderAt
  <2>4. id = Root \/ \E whole \in Lineage : id \in Parts[whole] /\ wins[whole] = 1
    BY <1>2, <2>3 DEF Earned
  <2>5. id \notin Listed
    BY <1>9 DEF Listed
  <2>6. Board!PutUp(id)
    BY <1>4, <1>7, <2>2, <2>4, <2>5 DEF Board!PutUp, Board!Claimed
  <2> QED BY <1>1, <2>6 DEF Board!BoardNext
<1> QED BY <1>8, <1>9

\* Every step of the file loop is one of the board, or none.
LEMMA StepMovesBoard ==
  ASSUME LoopInductive, WritesEarned, LoopNext
  PROVE  Board!BoardNext \/ UNCHANGED <<Listed, wins, Worked, ledger>>
<1>1. CASE \E p \in Process : Truncate(p) \/ WriteTask(p)
  BY <1>1, FilesMoveBoard
<1>2. CASE \E p \in Process : LoadClaimed(p) /\ wins' # wins
  <2> PICK p \in Process : LoadClaimed(p) /\ wins' # wins
    BY <1>2
  <2> DEFINE id == Now(p).id
  <2>1. /\ id \in Lineage /\ wins[id] = 0 /\ files[id].status = "queued"
        /\ UNCHANGED <<files, ledger>>
    BY NowIs DEF LoadClaimed, InOrderAt, Operation, disk
  <2>2. wins' = [wins EXCEPT ![id] = 1]
    BY <2>1 DEF LoadClaimed
  <2> HIDE DEF id
  <2>3. id \in Listed /\ Listed' = Listed /\ Worked' = Worked
    BY <2>1 DEF Listed, Worked, Exists, OnDisk, Absent
  <2>4. Board!Claim(id)
    BY <2>1, <2>2, <2>3 DEF Board!Claim
  <2> QED BY <2>1, <2>4 DEF Board!BoardNext
<1>3. CASE \E p \in Process : AppendLine(p)
  <2> PICK p \in Process : AppendLine(p)
    BY <1>3
  <2> DEFINE id == Now(p).id
             line == Now(p).line
  <2>1. /\ Now(p) = todo[p][1] /\ 1 \in 1 .. Len(todo[p]) /\ id \in Lineage
        /\ line \in LineType
        /\ line = "split" => Exists(Child(id, 1))
    BY NowIs DEF AppendLine, Operation, InOrderAt, ChildrenFirstAt
  <2>2. wins[id] = 1
    BY <2>1 DEF WritesEarned, Earned, AppendLine
  <2>3. /\ ledger' = [ledger EXCEPT ![id] = @ \cup {line}]
        /\ UNCHANGED <<files, wins>>
    BY DEF AppendLine
  <2> HIDE DEF id, line
  <2>4. line = "split" => Parts[id] \cap Listed # {}
    <3> HAVE line = "split"
    <3>1. Child(id, 1) \in Lineage /\ Exists(Child(id, 1))
      BY <2>1 DEF Exists
    <3>2. 1 \in 1 .. MaxBreadth
      <4>1. Child(id, 1) \in Seq(1 .. MaxBreadth)
        BY <3>1, IdIs
      <4>2. id \in Seq(1 .. MaxBreadth)
        BY <2>1, IdIs
      <4>3. Len(id) \in Nat /\ Len(Child(id, 1)) = Len(id) + 1
        BY <4>2, LenProperties DEF Child
      <4>4. Len(Child(id, 1)) \in 1 .. Len(Child(id, 1)) /\ Child(id, 1)[Len(Child(id, 1))] = 1
        BY <4>2, <4>3, AppendProperties DEF Child
      <4> QED BY <4>1, <4>4, ElementOfSeq
    <3> QED BY <2>1, <3>1, <3>2 DEF Parts, Listed
  <2>5. Listed' = Listed /\ Worked' = Worked
    BY <2>3 DEF Listed, Worked, Exists, OnDisk
  <2>6. Board!Tell(id, line)
    BY <2>1, <2>2, <2>3, <2>4, <2>5 DEF Board!Tell, Board!Claimed
  <2> QED BY <2>1, <2>6 DEF Board!BoardNext
<1>4. CASE UNCHANGED <<files, wins, ledger>>
  BY <1>4 DEF Listed, Worked, Exists, OnDisk
<1> QED
  BY <1>1, <1>2, <1>3, <1>4
     DEF LoopNext, EnqueueRoot, ClaimTask, ReportTask, VerifyTask, SplitTask,
         LoadClaimed, Mark, Die, disk

\* The file loop implements the board (claim, report, verify and splitOnce of
\* loop.ts), for any number of workers, splits, commands and deaths.
THEOREM LoopImplementsBoard == LoopSpec => ImplementsBoard
<1>1. LoopInit => WritesEarned /\ Board!BoardInit
  <2> SUFFICES ASSUME LoopInit PROVE WritesEarned /\ Board!BoardInit
    OBVIOUS
  <2>1. /\ \A id \in Lineage : ~Exists(id) /\ ~OnDisk(id) /\ wins[id] = 0
        /\ \A p \in Process : Len(todo[p]) = 0
    BY EmptySeq DEF LoopInit, Exists, OnDisk
  <2>2. Listed = {} /\ Worked = {}
    BY <2>1 DEF Listed, Worked
  <2>3. WritesEarned
    BY <2>1 DEF WritesEarned
  <2> QED BY <2>2, <2>3 DEF LoopInit, Board!BoardInit
<1>2. LoopInductive /\ WritesEarned /\ [LoopNext]_loopVars
        => WritesEarned' /\ [Board!BoardNext]_<<Listed, wins, Worked, ledger>>
  <2> SUFFICES ASSUME LoopInductive, WritesEarned, [LoopNext]_loopVars
               PROVE  WritesEarned' /\ [Board!BoardNext]_<<Listed, wins, Worked, ledger>>
    OBVIOUS
  <2>1. CASE LoopNext
    BY <2>1, StepEarned, StepMovesBoard
  <2>2. CASE UNCHANGED loopVars
    BY <2>2 DEF loopVars, disk, WritesEarned, Earned, Listed, Worked, Exists, OnDisk
  <2> QED BY <2>1, <2>2
<1> QED BY <1>1, <1>2, LoopInductiveHolds, PTL DEF LoopSpec, ImplementsBoard, Board!BoardSpec
===============================================================================
