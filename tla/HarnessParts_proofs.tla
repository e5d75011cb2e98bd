------------------------- MODULE HarnessParts_proofs --------------------------
(*****************************************************************************)
(* Proofs about the parts of cpp-harness: the Arena with its Firewall, the   *)
(* Worktrees, the SandboxRun of a verification, the Daemon and the           *)
(* ForwardNudge loop. For any teams, tasks, attempts, layouts, builds,       *)
(* requests and budgets.                                                     *)
(*****************************************************************************)
EXTENDS Arena, Worktrees, SandboxRun, Daemon, ForwardNudge, InductionLemmas,
        FiniteSetTheorems, SequenceTheorems, TLAPS

-----------------------------------------------------------------------------
(* Powers of a breadth                                                     *)

\* One more factor: a path of children is one child longer.
LEMMA PathsGrow ==
  ASSUME NEW n \in Nat, NEW S, IsFiniteSet(S), IsFiniteSet([1 .. n -> S])
  PROVE  /\ IsFiniteSet([1 .. (n + 1) -> S])
         /\ Cardinality([1 .. (n + 1) -> S]) = Cardinality([1 .. n -> S]) * Cardinality(S)
<1> DEFINE A == [1 .. n -> S] \X S
           B == [1 .. (n + 1) -> S]
           f == [p \in A |-> [i \in 1 .. (n + 1) |-> IF i = n + 1 THEN p[2] ELSE p[1][i]]]
<1>1. f \in [A -> B]
  <2> SUFFICES ASSUME NEW p \in A, NEW i \in 1 .. (n + 1)
               PROVE  (IF i = n + 1 THEN p[2] ELSE p[1][i]) \in S
    OBVIOUS
  <2>1. p[1] \in [1 .. n -> S] /\ p[2] \in S /\ (i # n + 1 => i \in 1 .. n)
    OBVIOUS
  <2> QED BY <2>1
<1>2. ASSUME NEW p \in A, NEW q \in A, f[p] = f[q]
      PROVE  p = q
  <2>1. /\ p[1] \in [1 .. n -> S] /\ q[1] \in [1 .. n -> S]
        /\ p = <<p[1], p[2]>> /\ q = <<q[1], q[2]>>
    OBVIOUS
  <2>2. \A i \in 1 .. (n + 1) : f[p][i] = f[q][i]
    BY <1>2
  <2>3. p[2] = q[2]
    <3>1. n + 1 \in 1 .. (n + 1)
      OBVIOUS
    <3> QED BY <2>2, <3>1
  <2>4. \A i \in 1 .. n : p[1][i] = q[1][i]
    <3> TAKE i \in 1 .. n
    <3>1. i \in 1 .. (n + 1) /\ i # n + 1
      OBVIOUS
    <3> QED BY <2>2, <3>1
  <2>5. p[1] = q[1]
    BY <2>1, <2>4
  <2> QED BY <2>1, <2>3, <2>5
<1>3. ASSUME NEW g \in B
      PROVE  \E p \in A : f[p] = g
  <2> DEFINE p == <<[i \in 1 .. n |-> g[i]], g[n + 1]>>
  <2>1. n + 1 \in 1 .. (n + 1) /\ \A i \in 1 .. n : i \in 1 .. (n + 1)
    OBVIOUS
  <2>2. p \in A
    BY <2>1
  <2>3. \A i \in 1 .. (n + 1) : f[p][i] = g[i]
    <3> TAKE i \in 1 .. (n + 1)
    <3>1. i # n + 1 => i \in 1 .. n
      OBVIOUS
    <3> QED BY <2>2, <3>1
  <2>4. f[p] = g
    BY <1>1, <2>2, <2>3
  <2> QED BY <2>2, <2>4
<1>4. f \in Bijection(A, B)
  <2> HIDE DEF A, B, f
  <2> QED BY <1>1, <1>2, <1>3 DEF Bijection, Injection, Surjection, IsInjective
<1>5. IsFiniteSet(A) /\ Cardinality(A) = Cardinality([1 .. n -> S]) * Cardinality(S)
  BY FS_Product
<1> HIDE DEF A, f
<1>6. ExistsBijection(A, B)
  BY <1>4 DEF ExistsBijection
<1> HIDE DEF B
<1>7. IsFiniteSet(B) /\ Cardinality(B) = Cardinality(A)
  BY <1>5, <1>6, FS_Bijection
<1> QED BY <1>5, <1>7 DEF B

LEMMA NoPath ==
  ASSUME NEW S
  PROVE  IsFiniteSet([1 .. 0 -> S]) /\ Cardinality([1 .. 0 -> S]) = 1
<1>1. [1 .. 0 -> S] = {[i \in 1 .. 0 |-> i]}
  <2>1. \A f \in [1 .. 0 -> S] : f = [i \in 1 .. 0 |-> i]
    OBVIOUS
  <2>2. [i \in 1 .. 0 |-> i] \in [1 .. 0 -> S]
    OBVIOUS
  <2> QED BY <2>1, <2>2
<1> QED BY <1>1, FS_Singleton

LEMMA TimesIs ==
  ASSUME NEW x \in Nat \ {0}, NEW b \in Nat \ {0}
  PROVE  x * b \in Nat /\ x * b >= x
OBVIOUS

\* One step of the saturating product.
LEMMA SaturatedIs ==
  ASSUME NEW x \in Nat \ {0}, NEW b \in Nat \ {0}
  PROVE  /\ Saturated(x * b) \in Nat \ {0}
         /\ Saturated(x * b) <= LongMax => Saturated(x * b) = x * b /\ x <= LongMax
<1> DEFINE y == x * b
<1>1. y \in Nat /\ y >= x
  BY TimesIs
<1> HIDE DEF y
<1>2. /\ Saturated(y) \in Nat \ {0}
      /\ Saturated(y) <= LongMax => Saturated(y) = y /\ x <= LongMax
  BY <1>1, FirewallCaps DEF Saturated
<1> QED BY <1>2 DEF y

LEMMA ProductIs ==
  ASSUME NEW b \in Nat \ {0}, NEW n \in Nat
  PROVE  /\ Product(b, n) \in Nat \ {0}
         /\ Product(b, n) <= LongMax => Product(b, n) = Cardinality([1 .. n -> 1 .. b])
<1> DEFINE acc == CHOOSE acc : acc = [i \in 0 .. n |-> IF i = 0 THEN 1 ELSE Saturated(acc[i - 1] * b)]
           step == [i \in 1 .. n |-> [v \in Nat |-> Saturated(v * b)]]
           Paths(i) == [1 .. i -> 1 .. b]
           Counts(i) == /\ acc[i] \in Nat \ {0}
                        /\ IsFiniteSet(Paths(i))
                        /\ acc[i] <= LongMax => acc[i] = Cardinality(Paths(i))
           S == {i \in 0 .. n : Counts(i)}
<1>1. step \in [1 .. n -> [Nat -> Nat]]
  BY FirewallCaps DEF Saturated
<1>2. PICK f \in [0 .. n -> Nat] : Recursion(f, n, 1, step)
  <2> HIDE DEF step
  <2>1. 1 \in Nat
    OBVIOUS
  <2> QED BY <1>1, <2>1, RecursionExists
<1>3. f = [i \in 0 .. n |-> IF i = 0 THEN 1 ELSE Saturated(f[i - 1] * b)]
  <2>1. \A i \in 0 .. n : i # 0 => i \in 1 .. n /\ f[i - 1] \in Nat
    OBVIOUS
  <2>2. \A i \in 1 .. n : \A v \in Nat : step[i][v] = Saturated(v * b)
    OBVIOUS
  <2> HIDE DEF step
  <2>3. \A i \in 0 .. n : f[i] = IF i = 0 THEN 1 ELSE Saturated(f[i - 1] * b)
    BY <1>2, <2>1, <2>2 DEF Recursion
  <2> QED BY <2>3
<1>4. acc = [i \in 0 .. n |-> IF i = 0 THEN 1 ELSE Saturated(acc[i - 1] * b)]
  <2> HIDE DEF step
  <2> QED BY <1>3
<1>5. Product(b, n) = acc[n]
  BY DEF Product
<1> HIDE DEF acc, step
<1>6. 0 \in S
  <2>1. acc[0] = 1
    BY <1>4
  <2>2. IsFiniteSet(Paths(0)) /\ Cardinality(Paths(0)) = 1
    BY NoPath
  <2> QED BY <2>1, <2>2
<1>7. ASSUME NEW i \in 1 .. n, i - 1 \in S
      PROVE  i \in S
  <2>1. Counts(i - 1)
    BY <1>7
  <2>2. i \in 0 .. n /\ i # 0 /\ i - 1 \in Nat /\ (i - 1) + 1 = i
    BY <1>7
  <2>3. acc[i] = Saturated(acc[i - 1] * b)
    BY <1>4, <2>2
  <2>4. IsFiniteSet(1 .. b) /\ Cardinality(1 .. b) = b
    <3>1. 1 \in Int /\ b \in Int /\ ~(1 > b) /\ b - 1 + 1 = b
      OBVIOUS
    <3> QED BY <3>1, FS_Interval
  <2>5. IsFiniteSet(Paths(i)) /\ Cardinality(Paths(i)) = Cardinality(Paths(i - 1)) * b
    BY <2>1, <2>2, <2>4, PathsGrow
  <2> HIDE DEF Paths
  <2>6. acc[i - 1] \in Nat \ {0}
    BY <2>1
  <2>7. /\ acc[i] \in Nat \ {0}
        /\ acc[i] <= LongMax => acc[i] = acc[i - 1] * b /\ acc[i - 1] <= LongMax
    <3>1. PICK x : x = acc[i - 1]
      OBVIOUS
    <3>2. /\ Saturated(x * b) \in Nat \ {0}
          /\ Saturated(x * b) <= LongMax => Saturated(x * b) = x * b /\ x <= LongMax
      BY <2>6, <3>1, SaturatedIs
    <3> QED BY <2>3, <3>1, <3>2
  <2> QED BY <2>1, <2>2, <2>5, <2>7
<1> HIDE DEF S
<1>8. \A i \in 0 .. n : i \in S
  BY <1>6, <1>7, IntervalInduction
<1>9. n \in 0 .. n
  OBVIOUS
<1>10. Counts(n)
  BY <1>8, <1>9 DEF S
<1> QED BY <1>5, <1>10

-----------------------------------------------------------------------------
(* Ids                                                                     *)

\* A child's id is an id, and its parent's is what it was made from.
LEMMA ChildIs ==
  ASSUME NEW id \in TaskId, NEW i \in Nat
  PROVE  /\ Child(id, i) \in TaskId
         /\ ParentOf(Child(id, i)) = id
         /\ Child(id, i) # id
<1> DEFINE kid == Append(id, i)
<1>1. /\ kid \in Seq(Root \cup Nat)
      /\ Len(kid) = Len(id) + 1
      /\ \A k \in 1 .. Len(id) : kid[k] = id[k]
  BY AppendProperties DEF TaskId
<1>2. Len(id) \in Nat
  BY LenProperties DEF TaskId
<1>3. SubSeq(kid, 1, Len(id)) = id
  <2>1. /\ SubSeq(kid, 1, Len(id)) \in Seq(Root \cup Nat)
        /\ Len(SubSeq(kid, 1, Len(id))) = Len(id)
        /\ \A k \in 1 .. Len(id) : SubSeq(kid, 1, Len(id))[k] = kid[k]
    BY <1>1, <1>2, SubSeqProperties
  <2> QED BY <1>1, <2>1, SeqEqual DEF TaskId
<1>4. Len(kid) # Len(id) /\ Len(kid) - 1 = Len(id)
  BY <1>1, <1>2
<1> QED BY <1>1, <1>3, <1>4 DEF TaskId, Child, ParentOf

\* A root has no dot.
LEMMA RootIs == ASSUME NEW r \in Root PROVE <<r>> \in TaskId
BY DEF TaskId

\* The children of a split are numbered by natural numbers.
LEMMA BreadthIs ==
  ASSUME NEW criteria \in Criteria
  PROVE  Cardinality(Safe(criteria)) \in Nat
<1>1. PICK n \in 1 .. Width : criteria \in [0 .. (n - 1) -> {"safe", "destructive"}]
  BY DEF Criteria
<1>2. IsFiniteSet(0 .. (n - 1))
  BY <1>1, ArenaCaps, FS_Interval
<1>3. Safe(criteria) \in SUBSET (0 .. (n - 1))
  BY <1>1 DEF Safe
<1>4. IsFiniteSet(Safe(criteria))
  BY <1>2, <1>3, FS_Subset
<1> QED BY <1>4, FS_CardinalityType

\* A split that the firewall lets through is the task's first, and its
\* lineage is below the limit.
LEMMA SplitIsFirst ==
  ASSUME NEW depth, NEW breadth, NEW resplits, NEW atomic, NEW split, NEW models, NEW used,
         ~Denied(CheckSplit(depth, breadth, resplits, atomic, split, models, used))
  PROVE  ~split /\ ~(resplits >= MAX_RESPLITS)
BY DEF CheckSplit, Denied

-----------------------------------------------------------------------------
(* Lineages                                                                *)

LineageTypes ==
  /\ nodes \in [Known -> Tasks]
  /\ Known \subseteq TaskId
  /\ born \subseteq Known

\* The inductive invariant of the tree: types, and the property itself.
Lineages == LineageTypes /\ LineageIsCounted

LEMMA LineagesInit == ArenaInit => Lineages
BY DEF ArenaInit, Lineages, LineageTypes, LineageIsCounted, Known

LEMMA EnqueueKeepsLineages ==
  ASSUME Lineages, NEW id \in TaskId, NEW atomic \in BOOLEAN, Enqueue(id, atomic)
  PROVE  Lineages'
<1> USE DEF Known
<1> DEFINE all == Known \cup {id}
<1>1. nodes' = [c \in all |-> IF c = id THEN NewTask(0, atomic) ELSE nodes[c]]
  BY DEF Enqueue
<1>2. id \notin Known /\ born' = born
  BY DEF Enqueue
<1>3. NewTask(0, atomic) \in Tasks
  BY DEF NewTask, Tasks, TaskStates
<1>4. LineageTypes'
  BY <1>1, <1>2, <1>3 DEF Lineages, LineageTypes
<1>5. ASSUME NEW c \in all
      PROVE  /\ nodes'[c].resplits <= MAX_RESPLITS
             /\ nodes'[c].state = "spiral" => nodes'[c].resplits = MAX_RESPLITS
  BY <1>1, <1>5 DEF Lineages, LineageIsCounted, NewTask, MAX_RESPLITS
<1>6. ASSUME NEW c \in born
      PROVE  /\ ParentOf(c) \in all /\ nodes'[ParentOf(c)].split
             /\ nodes'[c].resplits =
                  nodes'[ParentOf(c)].resplits + (IF nodes'[c].split THEN 1 ELSE 0)
  <2>1. c \in Known /\ c # id /\ ParentOf(c) \in Known /\ ParentOf(c) # id
    BY <1>2, <1>6 DEF Lineages, LineageTypes, LineageIsCounted
  <2>2. nodes'[c] = nodes[c] /\ nodes'[ParentOf(c)] = nodes[ParentOf(c)]
    BY <1>1, <2>1
  <2> QED BY <1>6, <2>1, <2>2 DEF Lineages, LineageIsCounted
<1>7. ASSUME NEW c \in all, c \notin born
      PROVE  nodes'[c].resplits = IF nodes'[c].split THEN 1 ELSE 0
  BY <1>1, <1>7 DEF Lineages, LineageIsCounted, NewTask
<1>8. Known' = all
  BY <1>1
<1> QED BY <1>2, <1>4, <1>5, <1>6, <1>7, <1>8 DEF Lineages, LineageIsCounted

\* A step that changes the state or the failures of one task only.
LEMMA MarkingKeepsLineages ==
  ASSUME Lineages, NEW id \in Known, NEW node \in Tasks,
         node.resplits = nodes[id].resplits, node.split = nodes[id].split,
         node.state = "spiral" => node.resplits = MAX_RESPLITS,
         nodes' = [nodes EXCEPT ![id] = node], born' = born
  PROVE  Lineages'
<1> USE DEF Known
<1>1. Known' = Known /\ \A c \in Known : nodes'[c] = IF c = id THEN node ELSE nodes[c]
  BY DEF Lineages, LineageTypes
<1>2. LineageTypes'
  BY DEF Lineages, LineageTypes
<1>3. \A c \in Known : /\ nodes'[c].resplits = nodes[c].resplits
                       /\ nodes'[c].split = nodes[c].split
                       /\ nodes'[c].state = "spiral" => nodes'[c].resplits = MAX_RESPLITS
  BY <1>1 DEF Lineages, LineageIsCounted
<1>4. \A c \in born : c \in Known /\ ParentOf(c) \in Known
  BY DEF Lineages, LineageTypes, LineageIsCounted
<1> QED BY <1>1, <1>2, <1>3, <1>4 DEF Lineages, LineageIsCounted

LEMMA StopKeepsLineages ==
  ASSUME Lineages, NEW id \in Known, StopSpiral(id)
  PROVE  Lineages'
<1> DEFINE node == [nodes[id] EXCEPT !.state = "spiral"]
<1>1. nodes[id] \in Tasks /\ nodes[id].resplits \in Nat /\ nodes[id].resplits <= 3
  BY DEF Lineages, LineageTypes, LineageIsCounted, Known, Tasks, MAX_RESPLITS
<1>2. nodes[id].resplits = MAX_RESPLITS
  BY <1>1 DEF StopSpiral, MAX_RESPLITS
<1>3. /\ node \in Tasks /\ node.resplits = nodes[id].resplits
      /\ node.split = nodes[id].split
  BY <1>1 DEF Tasks, TaskStates
<1>4. nodes' = [nodes EXCEPT ![id] = node] /\ born' = born
  BY DEF StopSpiral
<1> HIDE DEF node
<1> QED BY <1>2, <1>3, <1>4, MarkingKeepsLineages

LEMMA ReportKeepsLineages ==
  ASSUME Lineages, NEW id, NEW v, ReportTask(id, v)
  PROVE  Lineages'
<1> DEFINE proposed == [nodes[id] EXCEPT !.state = "proposed"]
           refused  == [nodes[id] EXCEPT !.failures = @ + 1]
<1>1. id \in Known /\ born' = born
  BY DEF ReportTask
<1>2. nodes[id] \in Tasks
  BY <1>1 DEF Lineages, LineageTypes, Known
<1>3. /\ proposed \in Tasks /\ proposed.resplits = nodes[id].resplits
      /\ proposed.split = nodes[id].split /\ proposed.state # "spiral"
  BY <1>2 DEF Tasks, TaskStates
<1>4. /\ refused \in Tasks /\ refused.resplits = nodes[id].resplits
      /\ refused.split = nodes[id].split /\ refused.state = nodes[id].state
  BY <1>2 DEF Tasks, TaskStates
<1>5. \/ nodes' = [nodes EXCEPT ![id] = proposed]
      \/ nodes' = [nodes EXCEPT ![id] = refused]
  BY DEF ReportTask
<1>6. refused.state = "spiral" => refused.resplits = MAX_RESPLITS
  BY <1>1, <1>4 DEF Lineages, LineageIsCounted
<1> HIDE DEF proposed, refused
<1>7. CASE nodes' = [nodes EXCEPT ![id] = proposed]
  BY <1>1, <1>3, <1>7, MarkingKeepsLineages
<1>8. CASE nodes' = [nodes EXCEPT ![id] = refused]
  BY <1>1, <1>4, <1>6, <1>8, MarkingKeepsLineages
<1> QED BY <1>5, <1>7, <1>8

\* The record of a task that was split ("split" is given as a variable: the
\* provers do not see through a Boolean constant in an EXCEPT).
LEMMA SplitTaskIs ==
  ASSUME NEW task \in Tasks, NEW split \in BOOLEAN
  PROVE  LET after == [task EXCEPT !.resplits = @ + 1, !.split = split, !.state = "active"]
         IN  /\ after \in Tasks /\ after.split = split /\ after.state = "active"
             /\ after.resplits = task.resplits + 1
<1> DEFINE after   == [task EXCEPT !.resplits = @ + 1, !.split = split, !.state = "active"]
           counted == [task EXCEPT !.resplits = @ + 1]
           marked  == [counted EXCEPT !.split = split]
<1>1. after = [marked EXCEPT !.state = "active"]
  BY DEF Tasks
<1>2. counted \in Tasks
  BY DEF Tasks
<1>3. marked \in Tasks
  <2> HIDE DEF counted
  <2> QED BY <1>2 DEF Tasks
<1>4. after \in Tasks
  <2> HIDE DEF after, marked
  <2> QED BY <1>1, <1>3 DEF Tasks, TaskStates
<1>5. after.split = split
  BY DEF Tasks
<1>6. after.state = "active"
  BY DEF Tasks
<1>7. after.resplits = task.resplits + 1
  BY DEF Tasks
<1> QED BY <1>4, <1>5, <1>6, <1>7

\* A split counts the lineage up, in the task and in the children it creates.
\* The task had no children of a split before: it was not split.
LEMMA SplitKeepsLineages ==
  ASSUME Lineages, NEW id, NEW criteria \in Criteria, NEW models,
         SplitOnce(id, criteria, models)
  PROVE  Lineages'
<1> USE DEF Known
<1> DEFINE breadth == Cardinality(Safe(criteria))
           kids    == {Child(id, i) : i \in 0 .. (breadth - 1)}
           parent  == [nodes[id] EXCEPT !.resplits = @ + 1, !.split = TRUE, !.state = "active"]
           kid     == NewTask(nodes[id].resplits + 1, FALSE)
           all     == Known \cup kids
<1>1. /\ id \in Known
      /\ born' = born \cup (kids \ Known)
      /\ nodes' = [c \in all |-> IF c = id THEN parent ELSE IF c \in Known THEN nodes[c] ELSE kid]
  BY DEF SplitOnce
<1>2. nodes[id] \in Tasks /\ ~nodes[id].split /\ nodes[id].resplits < MAX_RESPLITS
  <2>1. ~nodes[id].split /\ ~(nodes[id].resplits >= MAX_RESPLITS)
    BY SplitIsFirst DEF SplitOnce
  <2>2. nodes[id] \in Tasks /\ nodes[id].resplits \in Nat
    BY <1>1 DEF Lineages, LineageTypes, Tasks
  <2> QED BY <2>1, <2>2 DEF MAX_RESPLITS
<1>3. \A c \in kids : c \in TaskId /\ ParentOf(c) = id /\ c # id
  <2>1. id \in TaskId
    BY <1>1 DEF Lineages, LineageTypes
  <2>2. breadth \in Nat
    BY BreadthIs
  <2>3. \A i \in 0 .. (breadth - 1) : i \in Nat
    BY <2>2
  <2> QED BY <2>1, <2>3, ChildIs
<1>4. /\ parent \in Tasks /\ parent.split /\ parent.state = "active"
      /\ parent.resplits = nodes[id].resplits + 1
  <2>1. nodes[id] \in Tasks /\ TRUE \in BOOLEAN
    BY <1>2
  <2> QED BY <2>1, SplitTaskIs, Zenon
<1>5. /\ kid \in Tasks /\ ~kid.split /\ kid.state = "queued"
      /\ kid.resplits = nodes[id].resplits + 1
  BY <1>2 DEF Tasks, TaskStates, NewTask
<1>6. nodes[id].resplits + 1 <= MAX_RESPLITS
  BY <1>2 DEF Tasks, MAX_RESPLITS
<1> HIDE DEF breadth, kids, parent, kid
<1>7. Known' = all
  BY <1>1
<1>8. LineageTypes'
  <2>1. nodes' \in [all -> Tasks]
    BY <1>1, <1>4, <1>5 DEF Lineages, LineageTypes
  <2>2. all \subseteq TaskId
    BY <1>3 DEF Lineages, LineageTypes
  <2>3. born' \subseteq all
    BY <1>1 DEF Lineages, LineageTypes
  <2> QED BY <1>7, <2>1, <2>2, <2>3 DEF LineageTypes
<1>9. ASSUME NEW c \in all
      PROVE  /\ nodes'[c].resplits <= MAX_RESPLITS
             /\ nodes'[c].state = "spiral" => nodes'[c].resplits = MAX_RESPLITS
  BY <1>1, <1>4, <1>5, <1>6, <1>9 DEF Lineages, LineageIsCounted
<1>10. ASSUME NEW c \in born'
       PROVE  /\ ParentOf(c) \in all /\ nodes'[ParentOf(c)].split
              /\ nodes'[c].resplits =
                   nodes'[ParentOf(c)].resplits + (IF nodes'[c].split THEN 1 ELSE 0)
  <2>1. CASE c \in born
    <3>1. /\ c \in Known /\ ParentOf(c) \in Known /\ nodes[ParentOf(c)].split
          /\ nodes[c].resplits =
               nodes[ParentOf(c)].resplits + (IF nodes[c].split THEN 1 ELSE 0)
      BY <2>1 DEF Lineages, LineageTypes, LineageIsCounted
    <3>2. ParentOf(c) # id /\ nodes'[ParentOf(c)] = nodes[ParentOf(c)]
      BY <1>1, <1>2, <3>1
    <3>3. CASE c = id
      <4>1. nodes[id].resplits = nodes[ParentOf(c)].resplits
        BY <1>2, <3>1, <3>3 DEF Lineages, LineageTypes, Tasks
      <4>2. nodes'[c] = parent
        BY <1>1, <3>3
      <4> QED BY <1>4, <3>1, <3>2, <4>1, <4>2
    <3>4. CASE c # id
      <4>1. nodes'[c] = nodes[c]
        BY <1>1, <3>1, <3>4
      <4> QED BY <3>1, <3>2, <4>1
    <3> QED BY <3>3, <3>4
  <2>2. CASE c \in kids \ Known
    <3>1. ParentOf(c) = id /\ nodes'[id] = parent /\ nodes'[c] = kid
      BY <1>1, <1>3, <2>2
    <3>2. kid.resplits \in Int
      BY <1>5 DEF Tasks
    <3> QED BY <1>1, <1>4, <1>5, <3>1, <3>2
  <2> QED BY <1>1, <1>10, <2>1, <2>2
<1>11. ASSUME NEW c \in all, c \notin born'
       PROVE  nodes'[c].resplits = IF nodes'[c].split THEN 1 ELSE 0
  <2>1. c \in Known /\ c \notin born
    BY <1>1, <1>11
  <2>2. nodes[c].resplits = IF nodes[c].split THEN 1 ELSE 0
    BY <2>1 DEF Lineages, LineageIsCounted
  <2>3. CASE c = id
    <3>1. nodes'[c] = parent /\ nodes[id].resplits = 0
      BY <1>1, <1>2, <2>2, <2>3
    <3> QED BY <1>4, <3>1
  <2>4. CASE c # id
    <3>1. nodes'[c] = nodes[c]
      BY <1>1, <2>1, <2>4
    <3> QED BY <2>2, <3>1
  <2> QED BY <2>3, <2>4
<1> QED BY <1>7, <1>8, <1>9, <1>10, <1>11 DEF Lineages, LineageIsCounted

\* Steps of the day's count leave the tree alone.
LEMMA SpawningKeepsLineages ==
  ASSUME Lineages, UNCHANGED <<nodes, born>>
  PROVE  Lineages'
BY DEF Lineages, LineageTypes, LineageIsCounted, Known

-----------------------------------------------------------------------------
(* The day's requests                                                      *)

\* The inductive invariant of the count: types, and the property itself.
Counting ==
  /\ dayUsed \in Nat
  /\ cleared \in SUBSET Caller
  /\ DayOvershootBounded

\* The count of a set of callers is a natural number, no more than there are.
LEMMA ClearedIs ==
  ASSUME NEW some \in SUBSET Caller
  PROVE  /\ IsFiniteSet(some)
         /\ Cardinality(some) \in Nat /\ Cardinality(Caller) \in Nat
         /\ Cardinality(some) <= Cardinality(Caller)
BY ArenaCaps, FS_Subset, FS_CardinalityType

LEMMA CountingInit == ArenaInit => Counting
<1> SUFFICES ASSUME ArenaInit PROVE Counting
  OBVIOUS
<1>1. dayUsed = 0 /\ cleared = {}
  BY DEF ArenaInit
<1>2. ASSUME Caller # {} PROVE dayUsed + Cardinality(cleared) <= DayCap + Cardinality(Caller) - 1
  <2>1. Cardinality(Caller) \in Nat /\ Cardinality(Caller) # 0
    BY <1>2, ArenaCaps, FS_EmptySet, FS_CardinalityType
  <2>2. Cardinality(cleared) = 0
    BY <1>1, FS_EmptySet
  <2> QED BY <1>1, <2>1, <2>2, FirewallCaps
<1> QED BY <1>1, <1>2 DEF Counting, DayOvershootBounded

LEMMA ClearSpawnKeepsCounting ==
  ASSUME Counting, NEW c \in Caller, NEW depth, ClearSpawn(c, depth)
  PROVE  Counting'
<1>1. /\ dayUsed \in Nat /\ dayUsed' = dayUsed
      /\ cleared' = cleared \cup {c} /\ cleared' \in SUBSET Caller
  BY DEF Counting, ClearSpawn
<1>2. ~(dayUsed + 1 > DayCap)
  BY DEF ClearSpawn, CheckSpawn
<1>3. /\ Cardinality(cleared') \in Nat /\ Cardinality(Caller) \in Nat
      /\ Cardinality(cleared') <= Cardinality(Caller)
  BY <1>1, ClearedIs
<1>4. dayUsed' + Cardinality(cleared') <= DayCap + Cardinality(Caller) - 1
  BY <1>1, <1>2, <1>3, FirewallCaps
<1> QED BY <1>1, <1>4 DEF Counting, DayOvershootBounded

LEMMA RecordKeepsCounting ==
  ASSUME Counting, NEW c \in Caller, RecordRequest(c)
  PROVE  Counting'
<1>1. /\ dayUsed \in Nat /\ dayUsed' = dayUsed + 1 /\ c \in cleared
      /\ cleared' = cleared \ {c} /\ cleared' \in SUBSET Caller
  BY DEF Counting, RecordRequest
<1>2. IsFiniteSet(cleared) /\ Cardinality(cleared) \in Nat
  BY ClearedIs DEF Counting
<1>3. Cardinality(cleared') = Cardinality(cleared) - 1
  BY <1>1, <1>2, FS_RemoveElement
<1>4. dayUsed' + Cardinality(cleared') = dayUsed + Cardinality(cleared)
  BY <1>1, <1>2, <1>3
<1> QED BY <1>1, <1>4 DEF Counting, DayOvershootBounded

LEMMA TreeStepsKeepCounting ==
  ASSUME Counting, UNCHANGED <<dayUsed, cleared>>
  PROVE  Counting'
BY DEF Counting, DayOvershootBounded

-----------------------------------------------------------------------------
(* The tree's use                                                          *)

\* What a split is estimated at is a natural number, at every depth.
LEMMA EstimateIs ==
  ASSUME NEW breadth \in Nat \ {0}, NEW depth \in Int
  PROVE  Estimate(breadth, depth) \in Nat
<1> DEFINE factors == IF depth >= 0 THEN depth + 1 ELSE 0
<1>1. factors \in Nat
  OBVIOUS
<1>2. Product(breadth, factors) \in Nat
  BY <1>1, ProductIs
<1>3. Estimate(breadth, depth) =
        IF Product(breadth, factors) > LongMax THEN TreeBudget + 1 ELSE Product(breadth, factors)
  BY DEF Estimate
<1> HIDE DEF factors
<1> QED BY <1>2, <1>3, FirewallCaps

TreeCounted == treeUsed \in Nat

LEMMA TreeInductive ==
  ASSUME Lineages, TreeCounted, [ArenaNext]_arenaVars
  PROVE  TreeCounted'
<1>1. CASE UNCHANGED treeUsed
  BY <1>1 DEF TreeCounted
<1>2. ASSUME NEW id \in Known, NEW criteria \in Criteria, NEW models \in 0 .. 2,
             SplitOnce(id, criteria, models)
      PROVE  TreeCounted'
  <2> DEFINE breadth == Cardinality(Safe(criteria))
  <2>1. breadth \in Nat \ {0}
    BY <1>2, BreadthIs DEF SplitOnce
  <2>2. DepthOf(id) \in Int
    BY LenProperties DEF DepthOf, Lineages, LineageTypes, TaskId
  <2>3. Estimate(breadth, DepthOf(id)) \in Nat
    BY <2>1, <2>2, EstimateIs
  <2>4. treeUsed' = treeUsed + Estimate(breadth, DepthOf(id))
    BY <1>2 DEF SplitOnce
  <2> HIDE DEF breadth
  <2> QED BY <2>3, <2>4 DEF TreeCounted
<1> QED BY <1>1, <1>2
        DEF ArenaNext, arenaVars, Enqueue, StopSpiral, ReportTask, ClearSpawn, RecordRequest

-----------------------------------------------------------------------------
(* The theorems                                                            *)

LEMMA ArenaInductive ==
  ASSUME Lineages, Counting, [ArenaNext]_arenaVars
  PROVE  Lineages' /\ Counting'
<1>1. CASE UNCHANGED arenaVars
  BY <1>1, SpawningKeepsLineages, TreeStepsKeepCounting DEF arenaVars
<1>2. ASSUME NEW id \in {<<r>> : r \in Root} \cup Early, NEW atomic \in BOOLEAN,
             Enqueue(id, atomic)
      PROVE  Lineages' /\ Counting'
  <2>1. id \in TaskId
    BY <1>2, RootIs, ArenaCaps
  <2>2. UNCHANGED <<dayUsed, cleared>>
    BY <1>2 DEF Enqueue
  <2> QED BY <1>2, <2>1, <2>2, EnqueueKeepsLineages, TreeStepsKeepCounting
<1>3. ASSUME NEW id \in Known, StopSpiral(id) PROVE Lineages' /\ Counting'
  BY <1>3, StopKeepsLineages, TreeStepsKeepCounting DEF StopSpiral
<1>4. ASSUME NEW id \in Known, NEW criteria \in Criteria, NEW models \in 0 .. 2,
             SplitOnce(id, criteria, models)
      PROVE  Lineages' /\ Counting'
  <2>1. UNCHANGED <<dayUsed, cleared>>
    BY <1>4 DEF SplitOnce
  <2> QED BY <1>4, <2>1, SplitKeepsLineages, TreeStepsKeepCounting
<1>5. ASSUME NEW id \in Reporting, NEW v \in Vector, ReportTask(id, v)
      PROVE  Lineages' /\ Counting'
  <2>1. UNCHANGED <<dayUsed, cleared>>
    BY <1>5 DEF ReportTask
  <2> QED BY <1>5, <2>1, ReportKeepsLineages, TreeStepsKeepCounting
<1>6. ASSUME NEW c \in Caller, NEW depth \in 0 .. 2, ClearSpawn(c, depth)
      PROVE  Lineages' /\ Counting'
  <2>1. UNCHANGED <<nodes, born>>
    BY <1>6 DEF ClearSpawn
  <2> QED BY <1>6, <2>1, ClearSpawnKeepsCounting, SpawningKeepsLineages
<1>7. ASSUME NEW c \in Caller, RecordRequest(c) PROVE Lineages' /\ Counting'
  <2>1. UNCHANGED <<nodes, born>>
    BY <1>7 DEF RecordRequest
  <2> QED BY <1>7, <2>1, RecordKeepsCounting, SpawningKeepsLineages
<1> QED BY <1>1, <1>2, <1>3, <1>4, <1>5, <1>6, <1>7 DEF ArenaNext

\* Every behaviour of the arena keeps both invariants.
THEOREM ArenaInvariants == ArenaSpec => [](Lineages /\ Counting)
<1>1. ArenaInit => Lineages /\ Counting
  BY LineagesInit, CountingInit
<1>2. (Lineages /\ Counting) /\ [ArenaNext]_arenaVars => (Lineages /\ Counting)'
  BY ArenaInductive
<1> QED BY <1>1, <1>2, PTL DEF ArenaSpec

\* The spiral breaker's number (middleware.cpp:338, 553) follows the splits that
\* created the tasks, and begins anew at a task that a host enqueued: for any
\* tree, models, criteria and reports.
THEOREM LineagesAreCounted == ArenaSpec => []LineageIsCounted
<1>1. Lineages /\ Counting => LineageIsCounted
  BY DEF Lineages
<1> QED BY <1>1, ArenaInvariants, PTL

\* Check and record of the daily cap are two steps (middleware.cpp:318, 412):
\* for any number of hosts, all but one of them may exceed it by one.
THEOREM DayOvershootIsBounded == ArenaSpec => []DayOvershootBounded
<1>1. Lineages /\ Counting => DayOvershootBounded
  BY DEF Counting
<1> QED BY <1>1, ArenaInvariants, PTL

\* Every variable of the arena has its type, whatever is enqueued and split:
\* the estimates that checkSplit lets through add up to a number, saturated
\* or not.
THEOREM ArenaIsTyped == ArenaSpec => []ArenaTypeOK
<1>1. ArenaInit => TreeCounted
  BY DEF ArenaInit, TreeCounted
<1>2. (Lineages /\ Counting) /\ TreeCounted /\ [ArenaNext]_arenaVars => TreeCounted'
  BY TreeInductive
<1>3. (Lineages /\ Counting) /\ TreeCounted => ArenaTypeOK
  BY DEF Lineages, LineageTypes, Counting, TreeCounted, ArenaTypeOK
<1> QED BY <1>1, <1>2, <1>3, ArenaInvariants, PTL DEF ArenaSpec

-----------------------------------------------------------------------------
(* The state, in parts.                                                    *)

RegistryOK == registry \in [RegistryKey -> Handle \cup {NoHandle}]

FilesOK ==
  /\ DOMAIN branches \subseteq Name /\ branches \in [DOMAIN branches -> 0 .. MaxEdits]
  /\ DOMAIN trees \subseteq Name /\ trees \in [DOMAIN trees -> 0 .. MaxEdits]

PatchesOK == patches \in [WorkTask -> Patch \cup {NoPatch}]

MergeOK ==
  /\ native \in Builds
  /\ mainDirty \in BOOLEAN
  /\ lastMerge \in Merge \cup {NoMerge}
  /\ verified \subseteq Work /\ raced \subseteq Work

\* Whoever holds the mutex verifies for a registered handle that is active.
Holding ==
  ~Unlocked =>
    /\ proposing \in Work /\ proposing.of \in Registered
    /\ registry[proposing.of].state = "active"

\* What a patch file holds was verified when it was written, or edited while
\* that verification ran.
PatchesWereVerified ==
  \A t \in WorkTask : patches[t] # NoPatch => patches[t].work \in verified \cup raced

\* The inductive invariants: of the registry and the repository, of the mutex,
\* and of the patches and merges.
Owning == RegistryOK /\ FilesOK /\ OwnWorktree
Vouching == PatchesOK /\ MergeOK /\ PatchesWereVerified /\ AppliedWasVerified

LEMMA TypeParts == RegistryOK /\ FilesOK /\ Holding /\ PatchesOK /\ MergeOK => WorkTypeOK
BY DEF WorkTypeOK, RegistryOK, FilesOK, Holding, Unlocked, PatchesOK, MergeOK

LEMMA WorkInitIs == WorkInit => Owning /\ Holding /\ Vouching
<1> SUFFICES ASSUME WorkInit PROVE Owning /\ Holding /\ Vouching
  OBVIOUS
<1>1. RegistryOK /\ Registered = {}
  BY DEF WorkInit, RegistryOK, Registered
<1>2. FilesOK
  BY DEF WorkInit, FilesOK
<1>3. PatchesOK /\ PatchesWereVerified
  BY DEF WorkInit, PatchesOK, PatchesWereVerified
<1>4. MergeOK /\ AppliedWasVerified
  BY DEF WorkInit, MergeOK, AppliedWasVerified, NoMerge
<1>5. Holding
  BY DEF WorkInit, Holding, Unlocked
<1> QED BY <1>1, <1>2, <1>3, <1>4, <1>5 DEF Owning, Vouching, OwnWorktree

-----------------------------------------------------------------------------
(* The registry.                                                           *)

LEMMA RegisteredIs ==
  ASSUME RegistryOK, NEW key \in Registered
  PROVE  /\ key \in RegistryKey /\ registry[key] \in Handle
         /\ registry[key].name \in Name
BY DEF RegistryOK, Registered, Handle

LEMMA NameIs ==
  ASSUME NEW key \in RegistryKey, NEW attempt \in 1 .. MaxTries, NEW layout
  PROVE  NameOf(key, attempt, layout) \in Name
BY DEF NameOf, Name, RegistryKey

LEMMA HandleIs == \A h \in Handle : h # NoHandle
BY DEF Handle, NoHandle

\* A file that is added, removed or changed leaves the others.
LEMMA ExtendIs ==
  ASSUME NEW S, NEW f \in [S -> 0 .. MaxEdits], NEW n
  PROVE  /\ Extend(f, n, 0) \in [S \cup {n} -> 0 .. MaxEdits]
         /\ DOMAIN Extend(f, n, 0) = S \cup {n}
BY WorktreeConstants DEF Extend

LEMMA WithoutIs ==
  ASSUME NEW S, NEW f \in [S -> 0 .. MaxEdits], NEW n
  PROVE  /\ Without(f, n) \in [S \ {n} -> 0 .. MaxEdits]
         /\ DOMAIN Without(f, n) = S \ {n}
BY DEF Without

LEMMA RemovalIs ==
  ASSUME NEW f, NEW g, NEW n, f \in [DOMAIN f -> 0 .. MaxEdits], g = Without(f, n) \/ g = f
  PROVE  /\ g \in [DOMAIN g -> 0 .. MaxEdits]
         /\ DOMAIN f \ {n} \subseteq DOMAIN g /\ DOMAIN g \subseteq DOMAIN f
<1>1. CASE g = f
  BY <1>1
<1>2. CASE g = Without(f, n)
  <2> DEFINE S == DOMAIN f
  <2>1. f \in [S -> 0 .. MaxEdits]
    OBVIOUS
  <2> HIDE DEF S
  <2>2. g \in [S \ {n} -> 0 .. MaxEdits] /\ DOMAIN g = S \ {n}
    BY <1>2, <2>1, WithoutIs
  <2> QED BY <2>2 DEF S
<1> QED BY <1>1, <1>2

LEMMA AcquireKeepsOwning ==
  ASSUME Owning, NEW key \in RegistryKey, NEW attempt \in 1 .. MaxTries, NEW layout,
         Acquire(key, attempt, layout)
  PROVE  Owning'
<1> DEFINE name   == NameOf(key, attempt, layout)
           handle == [name |-> name, state |-> "active"]
<1>1. /\ key \notin Registered /\ name \notin DOMAIN trees /\ name \in Name
      /\ registry' = [registry EXCEPT ![key] = handle]
      /\ branches' = Extend(branches, name, 0) /\ trees' = Extend(trees, name, 0)
  BY NameIs DEF Acquire, MayAcquire
<1>2. handle \in Handle
  BY <1>1 DEF Handle
<1> HIDE DEF name, handle
<1>3. RegistryOK'
  BY <1>1, <1>2 DEF Owning, RegistryOK
<1>4. /\ DOMAIN branches' = DOMAIN branches \cup {name}
      /\ branches' \in [DOMAIN branches \cup {name} -> 0 .. MaxEdits]
      /\ DOMAIN trees' = DOMAIN trees \cup {name}
      /\ trees' \in [DOMAIN trees \cup {name} -> 0 .. MaxEdits]
  BY <1>1, ExtendIs DEF Owning, FilesOK
<1>5. FilesOK'
  BY <1>1, <1>4 DEF Owning, FilesOK
<1>6. /\ \A k \in Registered : k \in RegistryKey /\ k # key /\ registry'[k] = registry[k]
      /\ registry'[key] = handle /\ handle.name = name
      /\ Registered' = Registered \cup {key}
  BY <1>1, <1>2, HandleIs DEF Owning, RegistryOK, Registered, handle
<1>7. OwnWorktree'
  BY <1>1, <1>4, <1>6 DEF Owning, OwnWorktree
<1> QED BY <1>3, <1>5, <1>7 DEF Owning

LEMMA AddFailsKeepsOwning ==
  ASSUME Owning, NEW key \in RegistryKey, NEW attempt \in 1 .. MaxTries, NEW layout,
         AddFails(key, attempt, layout)
  PROVE  Owning'
<1> DEFINE name == NameOf(key, attempt, layout)
<1>1. /\ name \in Name /\ branches' = Extend(branches, name, 0)
      /\ UNCHANGED <<registry, trees>>
  BY NameIs DEF AddFails
<1> HIDE DEF name
<1>2. /\ DOMAIN branches' = DOMAIN branches \cup {name}
      /\ branches' \in [DOMAIN branches \cup {name} -> 0 .. MaxEdits]
  BY <1>1, ExtendIs DEF Owning, FilesOK
<1> QED BY <1>1, <1>2 DEF Owning, RegistryOK, FilesOK, OwnWorktree, Registered

\* A step that renames nothing and removes nothing.
LEMMA NamesKeepOwning ==
  ASSUME Owning, RegistryOK', FilesOK',
         DOMAIN trees' = DOMAIN trees, DOMAIN branches' = DOMAIN branches,
         Registered' \subseteq Registered,
         \A k \in Registered' : registry'[k].name = registry[k].name
  PROVE  Owning'
BY DEF Owning, OwnWorktree

LEMMA WorkerKeepsOwning ==
  ASSUME Owning, NEW key \in RegistryKey, Edit(key) \/ CommitWork(key)
  PROVE  Owning'
<1> DEFINE name == registry[key].name
<1>1. /\ key \in Registered /\ name \in DOMAIN trees /\ name \in DOMAIN branches
      /\ registry' = registry
  BY DEF Owning, OwnWorktree, Edit, CommitWork
<1>2. /\ trees[name] \in 0 .. MaxEdits
      /\ branches \in [DOMAIN branches -> 0 .. MaxEdits]
      /\ trees \in [DOMAIN trees -> 0 .. MaxEdits]
  BY <1>1 DEF Owning, FilesOK
<1>3. \/ /\ trees' = [trees EXCEPT ![name] = @ + 1] /\ branches' = branches
         /\ trees[name] + 1 \in 0 .. MaxEdits
      \/ trees' = trees /\ branches' = [branches EXCEPT ![name] = trees[name]]
  BY <1>2, WorktreeConstants DEF Edit, CommitWork
<1> HIDE DEF name
<1>4. DOMAIN trees' = DOMAIN trees /\ DOMAIN branches' = DOMAIN branches
  BY <1>3
<1>5. FilesOK'
  BY <1>2, <1>3, <1>4 DEF Owning, FilesOK
<1>6. RegistryOK' /\ Registered' = Registered
  BY <1>1 DEF Owning, RegistryOK, Registered
<1> QED BY <1>1, <1>4, <1>5, <1>6, NamesKeepOwning

\* Proposing and merging change the state of a handle, not its name.
LEMMA StateKeepsOwning ==
  ASSUME Owning, NEW key \in Registered, NEW state \in {"active", "proposed", "merged"},
         registry' = [registry EXCEPT ![key].state = state], UNCHANGED <<branches, trees>>
  PROVE  Owning'
<1>1. key \in RegistryKey /\ registry[key] \in Handle
  BY RegisteredIs DEF Owning
<1> DEFINE handle == [registry[key] EXCEPT !.state = state]
<1>2. handle \in Handle /\ handle.name = registry[key].name
  BY <1>1 DEF Handle
<1>3. registry' = [registry EXCEPT ![key] = handle]
  OBVIOUS
<1> HIDE DEF handle
<1>4. RegistryOK'
  BY <1>1, <1>2, <1>3 DEF Owning, RegistryOK
<1>5. /\ Registered' = Registered
      /\ \A k \in Registered : registry'[k].name = registry[k].name
  BY <1>1, <1>2, <1>3, HandleIs DEF Owning, RegistryOK, Registered
<1>6. FilesOK'
  BY DEF Owning, FilesOK
<1> QED BY <1>4, <1>5, <1>6, NamesKeepOwning

LEMMA ReleaseKeepsOwning ==
  ASSUME Owning, NEW key \in RegistryKey, NEW removed \in BOOLEAN, NEW keepBranch \in BOOLEAN,
         Release(key, removed, keepBranch)
  PROVE  Owning'
<1> DEFINE name == registry[key].name
<1>1. /\ key \in Registered /\ registry' = [registry EXCEPT ![key] = NoHandle]
      /\ trees' = Without(trees, name) \/ trees' = trees
      /\ branches' = Without(branches, name) \/ branches' = branches
  BY DEF Release
<1> HIDE DEF name
<1>2. /\ trees' \in [DOMAIN trees' -> 0 .. MaxEdits]
      /\ DOMAIN trees \ {name} \subseteq DOMAIN trees' /\ DOMAIN trees' \subseteq DOMAIN trees
  BY <1>1, RemovalIs DEF Owning, FilesOK
<1>3. /\ branches' \in [DOMAIN branches' -> 0 .. MaxEdits]
      /\ DOMAIN branches \ {name} \subseteq DOMAIN branches'
      /\ DOMAIN branches' \subseteq DOMAIN branches
  BY <1>1, RemovalIs DEF Owning, FilesOK
<1>4. RegistryOK' /\ FilesOK'
  BY <1>1, <1>2, <1>3 DEF Owning, RegistryOK, FilesOK
<1>5. \A k \in Registered' : k \in Registered /\ k # key /\ registry'[k] = registry[k]
  BY <1>1 DEF Owning, RegistryOK, Registered
<1>6. \A k \in Registered' : registry[k].name # name
  BY <1>1, <1>5 DEF Owning, OwnWorktree, name
<1>7. OwnWorktree'
  BY <1>2, <1>3, <1>5, <1>6 DEF Owning, OwnWorktree
<1> QED BY <1>4, <1>7 DEF Owning

LEMMA OwningInductive ==
  ASSUME Owning, Holding, [WorkNext]_workVars
  PROVE  Owning'
<1>1. CASE UNCHANGED <<registry, branches, trees>>
  BY <1>1 DEF Owning, RegistryOK, FilesOK, OwnWorktree, Registered
<1>2. ASSUME NEW key \in RegistryKey, NEW attempt \in 1 .. MaxTries, NEW layout \in Layouts,
             Acquire(key, attempt, layout) \/ AddFails(key, attempt, layout)
      PROVE  Owning'
  BY <1>2, AcquireKeepsOwning, AddFailsKeepsOwning
<1>3. ASSUME NEW key \in RegistryKey, Edit(key) \/ CommitWork(key) PROVE Owning'
  BY <1>3, WorkerKeepsOwning
<1>4. ASSUME NEW key \in RegistryKey, Propose(key) PROVE Owning'
  BY <1>4, StateKeepsOwning DEF Propose, Holding
<1>5. ASSUME NEW key \in RegistryKey, ApplyPatch(key) PROVE Owning'
  BY <1>5, StateKeepsOwning DEF ApplyPatch
<1>6. ASSUME NEW key \in RegistryKey, MergeBranch(key) PROVE Owning'
  BY <1>6, StateKeepsOwning DEF MergeBranch
<1>7. ASSUME NEW key \in RegistryKey, NEW removed \in BOOLEAN, NEW keepBranch \in BOOLEAN,
             Release(key, removed, keepBranch)
      PROVE  Owning'
  BY <1>7, ReleaseKeepsOwning
<1>8. CASE RestartHost
  BY <1>8 DEF RestartHost, Owning, RegistryOK, FilesOK, OwnWorktree, Registered
<1> QED BY <1>1, <1>2, <1>3, <1>4, <1>5, <1>6, <1>7, <1>8
        DEF WorkNext, workVars, BeginPropose, VerifyFails, CommitMain

-----------------------------------------------------------------------------
(* What reaches the main checkout.                                         *)

LEMMA WorkIs ==
  ASSUME Owning, NEW key \in Registered
  PROVE  /\ WorkOf(key) \in Work /\ WorkOf(key).of = key
         /\ WorkIn(key, branches[registry[key].name]) \in Work
<1>1. key \in RegistryKey
  BY RegisteredIs DEF Owning
<1>2. trees[registry[key].name] \in 0 .. MaxEdits /\ branches[registry[key].name] \in 0 .. MaxEdits
  BY DEF Owning, OwnWorktree, FilesOK
<1> QED BY <1>1, <1>2 DEF WorkOf, WorkIn, Work

\* Only the worker, a release and a propose disturb what the mutex is held for,
\* and the last two need the mutex.
LEMMA HoldingInductive ==
  ASSUME Owning, Holding, [WorkNext]_workVars
  PROVE  Holding'
<1> SUFFICES ASSUME ~Unlocked' PROVE Holding'
  BY DEF Holding
<1>1. CASE proposing' = proposing /\ registry' = registry
  BY <1>1 DEF Holding, Unlocked, Registered
<1>2. ASSUME NEW key \in RegistryKey, BeginPropose(key) PROVE Holding'
  BY <1>2, WorkIs DEF BeginPropose, Holding, Registered
<1>3. CASE Unlocked /\ proposing' = proposing
  BY <1>3 DEF Unlocked
<1>4. CASE proposing' = NoWork
  BY <1>4 DEF Unlocked
<1> QED BY <1>1, <1>2, <1>3, <1>4
        DEF WorkNext, workVars, Acquire, AddFails, Edit, CommitWork, Propose, VerifyFails,
            ApplyPatch, MergeBranch, Release, CommitMain, RestartHost

LEMMA ProposeKeepsVouching ==
  ASSUME Owning, Holding, Vouching, NEW key \in RegistryKey, Propose(key)
  PROVE  Vouching'
<1> DEFINE work == WorkOf(key)
           kind == IF native /\ trees[registry[key].name] > 0 THEN "stat" ELSE "diff"
           file == [kind |-> kind, work |-> work]
<1>1. /\ work \in Work /\ kind \in {"stat", "diff"}
      /\ key[2] \in WorkTask /\ proposing \in Work
      /\ verified' = verified \cup {proposing} /\ raced' = raced \cup ({work} \ {proposing})
      /\ UNCHANGED <<native, mainDirty, lastMerge>>
  BY WorkIs DEF Propose, Holding, RegistryKey
<1>2. patches' = [patches EXCEPT ![key[2]] = file]
  BY DEF Propose
<1> HIDE DEF work, kind
<1>3. file \in Patch /\ file.work = work /\ work \in verified' \cup raced'
  BY <1>1 DEF Patch
<1> HIDE DEF file
<1>4. PatchesOK'
  BY <1>1, <1>2, <1>3 DEF Vouching, PatchesOK
<1>5. PatchesWereVerified'
  BY <1>1, <1>2, <1>3 DEF Vouching, PatchesOK, PatchesWereVerified
<1>6. MergeOK'
  BY <1>1 DEF Vouching, MergeOK
<1>7. AppliedWasVerified'
  BY <1>1 DEF Vouching, AppliedWasVerified
<1> QED BY <1>4, <1>5, <1>6, <1>7 DEF Vouching

LEMMA MergeKeepsVouching ==
  ASSUME Vouching, NEW key \in RegistryKey, NEW how \in {"apply", "merge"}, NEW work \in Work,
         lastMerge' = [for |-> key, how |-> how, work |-> work],
         how = "apply" => work \in verified \cup raced,
         mainDirty' \in BOOLEAN, UNCHANGED <<native, patches, verified, raced>>
  PROVE  Vouching'
<1>1. lastMerge' \in Merge
  BY DEF Merge
<1> QED BY <1>1 DEF Vouching, PatchesOK, MergeOK, PatchesWereVerified, AppliedWasVerified

LEMMA ApplyKeepsVouching ==
  ASSUME Vouching, NEW key \in RegistryKey, ApplyPatch(key)
  PROVE  Vouching'
<1> DEFINE patch == patches[key[2]]
<1>1. /\ key[2] \in WorkTask /\ patch.kind = "diff"
      /\ lastMerge' = [for |-> key, how |-> "apply", work |-> patch.work]
      /\ mainDirty' \in BOOLEAN /\ UNCHANGED <<native, patches, verified, raced>>
  BY DEF ApplyPatch, RegistryKey
<1>2. patch # NoPatch /\ patch \in Patch
  BY <1>1 DEF Vouching, PatchesOK, NoPatch
<1>3. patch.work \in Work /\ patch.work \in verified \cup raced
  BY <1>1, <1>2 DEF Vouching, PatchesWereVerified, Patch
<1> HIDE DEF patch
<1> QED BY <1>1, <1>3, MergeKeepsVouching

LEMMA BranchKeepsVouching ==
  ASSUME Owning, Vouching, NEW key \in RegistryKey, MergeBranch(key)
  PROVE  Vouching'
<1> DEFINE work == WorkIn(key, branches[registry[key].name])
<1>1. /\ work \in Work /\ lastMerge' = [for |-> key, how |-> "merge", work |-> work]
      /\ UNCHANGED <<native, mainDirty, patches, verified, raced>>
  BY WorkIs DEF MergeBranch
<1>2. mainDirty' \in BOOLEAN
  BY <1>1 DEF Vouching, MergeOK
<1> HIDE DEF work
<1> QED BY <1>1, <1>2, MergeKeepsVouching

\* Every other step leaves the patches and the history of merges alone.
LEMMA OthersKeepVouching ==
  ASSUME Vouching, UNCHANGED <<native, patches, workHistory>>, mainDirty' \in BOOLEAN
  PROVE  Vouching'
BY DEF Vouching, PatchesOK, MergeOK, PatchesWereVerified, AppliedWasVerified, workHistory

LEMMA VouchingInductive ==
  ASSUME Owning, Holding, Vouching, [WorkNext]_workVars
  PROVE  Vouching'
<1>1. mainDirty \in BOOLEAN
  BY DEF Vouching, MergeOK
<1>2. CASE UNCHANGED workVars
  BY <1>1, <1>2, OthersKeepVouching DEF workVars
<1>3. ASSUME NEW key \in RegistryKey, NEW attempt \in 1 .. MaxTries, NEW layout \in Layouts,
             Acquire(key, attempt, layout) \/ AddFails(key, attempt, layout)
      PROVE  Vouching'
  BY <1>1, <1>3, OthersKeepVouching DEF Acquire, AddFails
<1>4. ASSUME NEW key \in RegistryKey, Edit(key) \/ CommitWork(key) PROVE Vouching'
  BY <1>1, <1>4, OthersKeepVouching DEF Edit, CommitWork
<1>5. ASSUME NEW key \in RegistryKey, Propose(key) \/ ApplyPatch(key) \/ MergeBranch(key)
      PROVE  Vouching'
  BY <1>5, ProposeKeepsVouching, ApplyKeepsVouching, BranchKeepsVouching
<1>6. ASSUME NEW key \in RegistryKey, NEW removed \in BOOLEAN, NEW keepBranch \in BOOLEAN,
             Release(key, removed, keepBranch)
      PROVE  Vouching'
  BY <1>1, <1>6, OthersKeepVouching DEF Release
<1>7. CASE CommitMain
  BY <1>7, OthersKeepVouching DEF CommitMain
<1>8. CASE RestartHost
  BY <1>1, <1>8, OthersKeepVouching DEF RestartHost
<1>9. ASSUME NEW key \in RegistryKey, BeginPropose(key) PROVE Vouching'
  BY <1>1, <1>9, OthersKeepVouching DEF BeginPropose
<1>10. CASE VerifyFails
  BY <1>1, <1>10, OthersKeepVouching DEF VerifyFails
<1> QED BY <1>2, <1>3, <1>4, <1>5, <1>6, <1>7, <1>8, <1>9, <1>10 DEF WorkNext

-----------------------------------------------------------------------------
(* The theorems                                                            *)

\* The inductive invariants hold in every behaviour.
THEOREM WorktreeInvariants == WorkSpec => [](Owning /\ Holding /\ Vouching)
<1>1. WorkInit => Owning /\ Holding /\ Vouching
  BY WorkInitIs
<1>2. (Owning /\ Holding /\ Vouching) /\ [WorkNext]_workVars => (Owning /\ Holding /\ Vouching)'
  BY OwningInductive, HoldingInductive, VouchingInductive
<1> QED BY <1>1, <1>2, PTL DEF WorkSpec

\* Every state is of the declared form.
THEOREM WorktreesAreTyped == WorkSpec => []WorkTypeOK
<1>1. Owning /\ Holding /\ Vouching => WorkTypeOK
  BY TypeParts DEF Owning, Vouching
<1> QED BY <1>1, WorktreeInvariants, PTL

\* A registered handle has its branch and its worktree, and has them alone
\* (sandbox.cpp:181-226, 364-370).
THEOREM WorktreesAreOwned == WorkSpec => []OwnWorktree
<1>1. Owning /\ Holding /\ Vouching => OwnWorktree
  BY DEF Owning
<1> QED BY <1>1, WorktreeInvariants, PTL

\* A patch that reaches the main checkout passed verification, or was edited
\* while the propose that wrote it was verifying (sandbox.cpp:262-313,
\* harness.hpp:544-546).
THEOREM AppliedPatchesWereVerified == WorkSpec => []AppliedWasVerified
<1>1. Owning /\ Holding /\ Vouching => AppliedWasVerified
  BY DEF Vouching
<1> QED BY <1>1, WorktreeInvariants, PTL

-----------------------------------------------------------------------------
(* Verification runs                                                       *)

Tries == {"none", "wrapped", "raw"}
Verdicts == {"none", "pass", "fail", "timeout", "waivedDocsOnly", "waivedHarnessAbsent"}

SandboxTypes ==
  /\ docsOnly \in BOOLEAN /\ waived \in BOOLEAN /\ hasWrapper \in BOOLEAN
  /\ detected \in 0 .. MaxHarness /\ todo \in 0 .. detected
  /\ try \in Tries /\ child \in Children
  /\ clock \in 0 .. Limit
  /\ allZero \in BOOLEAN /\ isolated \in BOOLEAN
  /\ verdict \in Verdicts /\ earned \in Nat

\* While no run reported anything but 0, every harness that reported earned it;
\* a verdict ends the runs, and a run under way has a harness that waits for it.
Earning ==
  /\ allZero => earned = detected - todo
  /\ try # "none" => verdict = "none" /\ ~docsOnly /\ todo > 0
  /\ PassIsEarned

Verifying == SandboxTypes /\ Earning

LEMMA ChildrenAre == NoChild \in Children /\ Started \subseteq Children
<1>1. NoChild \in Children
  BY DEF NoChild, Children, Codes
<1>2. Running \in Children
  BY <1>1 DEF Running, Children
<1>3. [state |-> "ended", code |-> 127, smell |-> FALSE] \in Children
  BY DEF Children, Codes
<1> QED BY <1>1, <1>2, <1>3 DEF Started

LEMMA VerifyingInit == SandboxInit => Verifying
<1> SUFFICES ASSUME SandboxInit
             PROVE  Verifying
  OBVIOUS
<1>1. detected \in Nat /\ todo = detected /\ earned = 0 /\ verdict = "none"
  BY SandboxConstants DEF SandboxInit
<1>2. detected \in 0 .. MaxHarness /\ todo \in 0 .. detected /\ clock \in 0 .. Limit
  BY <1>1, SandboxConstants DEF SandboxInit
<1>3. SandboxTypes
  <2>1. docsOnly \in BOOLEAN /\ waived \in BOOLEAN /\ hasWrapper \in BOOLEAN
    BY DEF SandboxInit
  <2>2. allZero = TRUE /\ isolated = FALSE
    BY DEF SandboxInit
  <2>3. try \in Tries /\ child \in Children /\ verdict \in Verdicts /\ earned \in Nat
    BY <1>1, ChildrenAre DEF SandboxInit, Tries, Verdicts
  <2> QED BY <1>2, <2>1, <2>2, <2>3, Zenon DEF SandboxTypes
<1>4. Earning
  BY <1>1 DEF SandboxInit, Earning, PassIsEarned
<1> QED BY <1>3, <1>4 DEF Verifying

\* A code that was reported is a child's own, but for 124.
LEMMA ReportedIs ==
  ASSUME NEW code, Reported(code), code # 124
  PROVE  try # "none" /\ child.state = "ended" /\ child.code = code
BY DEF Reported

LEMMA EndRunKeepsVerifying ==
  ASSUME Verifying, NEW code \in Codes, EndRun(code)
  PROVE  Verifying'
<1> USE DEF Verifying
<1>1. try # "none" /\ verdict = "none" /\ todo \in 1 .. detected
  BY DEF EndRun, Reported, Earning, SandboxTypes
<1>2. SandboxTypes'
  <2>1. NoChild \in Children
    BY DEF NoChild, Children, Codes
  <2> QED BY <1>1, <2>1, SandboxConstants DEF EndRun, SandboxTypes, Tries, Verdicts, sandboxCase
<1>3. Earning'
  <2>1. allZero' => allZero /\ code = 0
    BY DEF EndRun
  <2>2. allZero' => earned' = earned + 1
    BY <2>1, ReportedIs DEF EndRun
  <2>3. todo' = todo - 1 /\ try' = "none" /\ detected' = detected
    BY DEF EndRun, sandboxCase
  <2>4. allZero' => earned' = detected' - todo'
    BY <1>1, <2>1, <2>2, <2>3 DEF Earning, SandboxTypes
  <2>5. verdict' = "pass" => allZero' /\ todo = 1
    BY <1>1 DEF EndRun
  <2>6. PassIsEarned'
    BY <1>1, <2>3, <2>4, <2>5 DEF PassIsEarned, SandboxTypes
  <2> QED BY <2>3, <2>4, <2>6 DEF Earning
<1> QED BY <1>2, <1>3

LEMMA VerifyingInductive ==
  ASSUME Verifying, [SandboxNext]_sandboxVars
  PROVE  Verifying'
<1> USE DEF Verifying
<1>1. CASE NothingToRun
  <2>1. verdict' \in {"fail", "waivedDocsOnly", "waivedHarnessAbsent"}
    BY <1>1 DEF NothingToRun
  <2>2. try = "none"
    BY <1>1 DEF NothingToRun, Earning, SandboxTypes
  <2> QED
    BY <1>1, <2>1, <2>2
    DEF NothingToRun, SandboxTypes, Earning, PassIsEarned, Verdicts, sandboxCase
<1>2. CASE StartRun
  BY <1>2, ChildrenAre, SandboxConstants
  DEF StartRun, SandboxTypes, Earning, PassIsEarned, Tries, sandboxCase
<1>3. ASSUME NEW code \in Codes, RetryRaw(code)
      PROVE  Verifying'
  BY <1>3, ChildrenAre
  DEF RetryRaw, Reported, SandboxTypes, Earning, PassIsEarned, Tries, sandboxCase
<1>4. ASSUME NEW code \in Codes, EndRun(code)
      PROVE  Verifying'
  BY <1>4, EndRunKeepsVerifying
<1>5. CASE Tick
  BY <1>5, SandboxConstants DEF Tick, SandboxTypes, Earning, PassIsEarned, sandboxCase
<1>6. ASSUME NEW ending \in Endings, ChildEnds(ending)
      PROVE  Verifying'
  BY <1>6 DEF ChildEnds, Endings, SandboxTypes, Earning, PassIsEarned, sandboxCase
<1>7. CASE UNCHANGED sandboxVars
  BY <1>7 DEF sandboxVars, SandboxTypes, Earning, PassIsEarned
<1> QED BY <1>1, <1>2, <1>3, <1>4, <1>5, <1>6, <1>7 DEF SandboxNext, SandboxStep

(***************************************************************************)
(* sandbox.cpp:531-610: for any number of harnesses and any deadline, a    *)
(* worktree passes only if the last try of every harness ended with 0.     *)
(***************************************************************************)
THEOREM PassesAreEarned == SandboxSpec => []PassIsEarned
<1>1. Verifying => PassIsEarned
  BY DEF Verifying, Earning
<1> QED BY <1>1, VerifyingInit, VerifyingInductive, PTL DEF SandboxSpec

-----------------------------------------------------------------------------
(* The nudge loop                                                          *)

\* The depth that the code counts is the number of re-prompts.
Nudging ==
  /\ ctx \in [depth : Nat, reason : NudgeReason, stalls : Nat, failures : Nat]
  /\ nudged = ctx.depth

LEMMA NudgingInductive ==
  ASSUME Nudging, [NudgeNext]_nudgeVars
  PROVE  Nudging'
<1>1. CASE NudgeTick
  BY <1>1 DEF NudgeTick, Nudging
<1>2. CASE Heartbeat
  BY <1>2 DEF Heartbeat, Nudging, NudgeReason
<1>3. CASE UserSpeaks
  BY <1>3 DEF UserSpeaks, Nudging
<1>4. ASSUME NEW failed \in BOOLEAN, Yields(failed)
      PROVE  Nudging'
  <2> DEFINE f == IF failed THEN ctx.failures + 1 ELSE ctx.failures
  <2>1. ctx' = [ctx EXCEPT !.reason = "yield", !.failures = f] /\ nudged' = nudged
    BY <1>4 DEF Yields
  <2>2. f \in Nat
    BY DEF Nudging
  <2> HIDE DEF f
  <2> QED BY <2>1, <2>2 DEF Nudging, NudgeReason
<1>5. ASSUME NEW interrupted \in BOOLEAN, PollTask(interrupted)
      PROVE  Nudging'
  <2> DEFINE d == IF action' = "reprompt" THEN ctx.depth + 1 ELSE ctx.depth
             s == IF Stalled THEN ctx.stalls + 1 ELSE 0
  <2>1. ctx' = [ctx EXCEPT !.depth = d, !.stalls = s]
    BY <1>5 DEF PollTask
  <2>2. nudged' = d /\ d \in Nat /\ s \in Nat
    BY <1>5 DEF PollTask, Nudging
  <2> HIDE DEF d, s
  <2> QED BY <2>1, <2>2 DEF Nudging
<1>6. CASE UNCHANGED nudgeVars
  BY <1>6 DEF nudgeVars, Nudging
<1> QED BY <1>1, <1>2, <1>3, <1>4, <1>5, <1>6 DEF NudgeNext

\* What a poll says before it says to re-prompt.
LEMMA PollIs ==
  ASSUME Nudging, NEW interrupted, Poll(interrupted) = "reprompt"
  PROVE  /\ nudged < MaxNudgeDepth /\ ctx.failures < MaxRounds
         /\ ~(Stalled /\ ctx.stalls >= 2)
BY NudgeConstants DEF Poll, Nudging

(***************************************************************************)
(* middleware.cpp: for any budget, number of rounds and stall interval, no *)
(* re-prompt beyond the budget, after the last failed check or the third   *)
(* stall in a row.                                                         *)
(***************************************************************************)
THEOREM NudgesStayWithinBudget == NudgeSpec => NudgesWithinBudget
<1>1. NudgeInit => Nudging
  BY DEF NudgeInit, Nudging, NudgeReason
<1>2. Nudging /\ [NudgeNext]_nudgeVars => Nudging'
  BY NudgingInductive
<1>3. ASSUME Nudging, [NudgeNext]_nudgeVars
      PROVE  [polls' # polls /\ action' = "reprompt" =>
               /\ nudged < MaxNudgeDepth /\ ctx.failures < MaxRounds
               /\ ~(Stalled /\ ctx.stalls >= 2)]_nudgeVars
  <2> SUFFICES ASSUME polls' # polls, action' = "reprompt"
               PROVE  /\ nudged < MaxNudgeDepth /\ ctx.failures < MaxRounds
                      /\ ~(Stalled /\ ctx.stalls >= 2)
    OBVIOUS
  <2>1. PICK interrupted \in BOOLEAN : PollTask(interrupted)
    BY <1>3 DEF NudgeNext, nudgeVars, NudgeTick, Heartbeat, UserSpeaks, Yields
  <2>2. Poll(interrupted) = "reprompt"
    BY <2>1 DEF PollTask
  <2> QED BY <1>3, <2>2, PollIs
<1> QED BY <1>1, <1>2, <1>3, PTL DEF NudgeSpec, NudgesWithinBudget

-----------------------------------------------------------------------------
(* The daemon                                                              *)

\* A line that was read is one that was sent, or the end of the stream.
Words == Line \cup {<<>>}

\* DispatchIsPaidFor, of one answer.
PaidFor(a) ==
  (/\ a # NoAnswer /\ a.code \in {"Ok", "BudgetWarn"}
   /\ Op(a.line) = "jev_route" /\ ParentDepth(a.line) # IntMax) =>
    Cardinality([1..(ParentDepth(a.line) + 1) -> 1..Breadth(a.line)]) <= TreeBudget

\* Until it is told to stop, nothing is late; while it waits to be told so it
\* has taken nothing more, but for the client whose token it is reading.
StopIsNoticed ==
  /\ late \in Nat
  /\ ~stopping => late = 0
  /\ phase \in {"starting", "accepting", "serving"} => late = 0
  /\ late <= 1

DaemonTypes ==
  /\ phase \in Phases
  /\ peer \in Client \cup {NoClient}
  /\ phase \in {"authing", "serving", "answering"} => peer \in Client
  /\ backlog \in Seq(Client)
  /\ wire \in [Client -> Seq(Words)]
  /\ answer = [c \in Client |-> answer[c]]

AnswersAreSound == \A c \in Client : PaidFor(answer[c])

Serving == DaemonTypes /\ AnswersAreSound

(***************************************************************************)
(* checkSplit lets a call of jev_route pass only if the tree that it asks  *)
(* for, with what is too small raised, fits the budget.                    *)
(***************************************************************************)
LEMMA AllowedFits ==
  ASSUME NEW depth \in Nat, NEW breadth \in Nat \ {0}, NEW used \in Int,
         CheckSplit(depth, breadth, 0, FALSE, FALSE, 2, used) \in {"Ok", "BudgetWarn"}
  PROVE  /\ Cardinality([1 .. (depth + 1) -> 1 .. breadth]) <= TreeBudget
         /\ 1 <= TreeBudget
<1> DEFINE product == Product(breadth, depth + 1)
<1>0. depth + 1 \in Nat /\ depth >= 0
  OBVIOUS
<1>1. /\ product \in Nat \ {0}
      /\ product <= LongMax => product = Cardinality([1 .. (depth + 1) -> 1 .. breadth])
  BY <1>0, ProductIs
<1>2. Estimate(breadth, depth) = IF product > LongMax THEN TreeBudget + 1 ELSE product
  BY <1>0 DEF Estimate
<1> HIDE DEF product
<1>3. Estimate(breadth, depth) <= TreeBudget
  <2>1. ~(Estimate(breadth, depth) > TreeBudget)
    BY DEF CheckSplit
  <2>2. Estimate(breadth, depth) \in Int
    BY <1>1, <1>2, FirewallCaps
  <2> QED BY <2>1, <2>2, FirewallCaps
<1> QED BY <1>1, <1>2, <1>3, FirewallCaps

LEMMA IntsAreInt == \A n \in Int : AsInt(n) \in Int
<1> SUFFICES ASSUME NEW n \in Int PROVE AsInt(n) \in Int
  OBVIOUS
<1> DEFINE width == 2 * (IntMax + 1)
<1>1. IntMax \in Nat /\ width \in Nat \ {0} /\ n + IntMax + 1 \in Int
  BY DaemonConstants
<1> HIDE DEF width
<1>2. (n + IntMax + 1) % width \in Int
  BY <1>1
<1> QED BY <1>1, <1>2 DEF AsInt, width

LEMMA RoutedIsPaidFor ==
  ASSUME NEW line \in Words, NEW code \in Dispatch(line)
  PROVE  PaidFor([code |-> code, line |-> line])
<1> DEFINE depth   == ParentDepth(line)
           breadth == Breadth(line)
           used    == Field(line, "day_used", 0)
           deep    == IF depth < 0 THEN 0 ELSE depth
           wide    == IF breadth < 1 THEN 1 ELSE breadth
<1> SUFFICES ASSUME code \in {"Ok", "BudgetWarn"}, Op(line) = "jev_route", depth # IntMax
             PROVE  Cardinality([1 .. (depth + 1) -> 1 .. breadth]) <= TreeBudget
  BY DEF PaidFor
<1>1. code \in JevRouteOps(line)
  BY DEF Dispatch, Throwing
<1>2. CheckSplit(deep, wide, 0, FALSE, FALSE, 2, used) \in {"Ok", "BudgetWarn"}
  BY <1>1 DEF JevRouteOps, DepthCounted
<1>3. depth \in Int /\ breadth \in Int /\ used \in Int
  <2>1. line # <<>>
    BY DEF Op, Field
  <2>2. /\ Field(line, "parent_depth", 0) \in Int /\ Field(line, "breadth", 1) \in Int
        /\ used \in Int
    BY <2>1, LineNumbers, FirewallCaps DEF Words, Field
  <2> HIDE DEF used
  <2> QED BY <2>2, IntsAreInt DEF ParentDepth, Breadth
<1> HIDE DEF depth, breadth, used
<1>4. deep \in Nat /\ wide \in Nat \ {0}
  BY <1>3
<1>5. Cardinality([1 .. (deep + 1) -> 1 .. wide]) <= TreeBudget /\ 1 <= TreeBudget
  <2> HIDE DEF deep, wide
  <2> QED BY <1>2, <1>3, <1>4, AllowedFits
<1>6. CASE depth < 0
  <2>1. 1 .. (depth + 1) = 1 .. 0
    BY <1>3, <1>6
  <2> HIDE DEF deep, wide
  <2>2. Cardinality([1 .. (depth + 1) -> 1 .. breadth]) = 1
    BY <2>1, NoPath
  <2> QED BY <1>5, <2>2
<1>7. CASE depth >= 0 /\ breadth < 1
  <2> DEFINE paths == [1 .. (depth + 1) -> 1 .. breadth]
  <2>1. paths = {}
    <3>1. 1 \in 1 .. (depth + 1) /\ 1 .. breadth = {}
      BY <1>3, <1>7
    <3> QED BY <3>1
  <2>2. Cardinality({}) = 0
    BY FS_EmptySet
  <2> HIDE DEF paths
  <2>3. Cardinality(paths) <= TreeBudget
    BY <2>1, <2>2, FirewallCaps
  <2> QED BY <2>3 DEF paths
<1>8. CASE depth >= 0 /\ breadth >= 1
  <2>1. deep = depth /\ wide = breadth
    BY <1>3, <1>8
  <2> HIDE DEF deep, wide
  <2> QED BY <1>5, <2>1
<1> QED BY <1>3, <1>6, <1>7, <1>8

LEMMA ReadIs ==
  ASSUME DaemonTypes, peer \in Client
  PROVE  LineRead \in Words /\ LinesLeft \in Seq(Words)
<1>1. wire[peer] \in Seq(Words)
  BY DEF DaemonTypes
<1>2. wire[peer] # <<>> => Head(wire[peer]) \in Words /\ Tail(wire[peer]) \in Seq(Words)
  BY <1>1, HeadTailProperties
<1>3. <<>> \in Words /\ <<>> \in Seq(Words)
  BY EmptySeq DEF Words
<1> QED BY <1>1, <1>2, <1>3 DEF LineRead, LinesLeft

LEMMA ReplyKeeps ==
  ASSUME Serving, peer \in Client, NEW code, Reply(code),
         PaidFor([code |-> code, line |-> LineRead])
  PROVE  /\ wire' \in [Client -> Seq(Words)]
         /\ answer' = [c \in Client |-> answer'[c]]
         /\ AnswersAreSound'
<1> DEFINE a == [code |-> code, line |-> LineRead]
<1>1. answer' = [c \in Client |-> IF c = peer THEN a ELSE answer[c]]
  BY DEF Reply, Serving, DaemonTypes
<1>2. PaidFor(a)
  OBVIOUS
<1> HIDE DEF a
<1>3. wire' \in [Client -> Seq(Words)]
  BY ReadIs DEF Reply, Serving, DaemonTypes
<1>4. \A c \in Client : answer'[c] = a \/ answer'[c] = answer[c]
  BY <1>1
<1>5. AnswersAreSound'
  BY <1>2, <1>4 DEF Serving, AnswersAreSound, PaidFor
<1> QED BY <1>1, <1>3, <1>5

LEMMA ServingInductive ==
  ASSUME Serving, [DaemonNext]_daemonVars
  PROVE  Serving'
<1> USE DEF Serving
<1>1. CASE UNCHANGED <<peer, wire, answer>> /\ phase' \in Phases /\ backlog' \in Seq(Client)
           /\ (phase' \in {"authing", "serving", "answering"} => phase' = phase)
  BY <1>1 DEF DaemonTypes, AnswersAreSound, PaidFor
<1>2. CASE StartDaemon
  BY <1>1, <1>2 DEF StartDaemon, DaemonTypes, Phases
<1>3. CASE Signal
  BY <1>1, <1>3 DEF Signal, DaemonTypes, Phases
<1>4. CASE AcceptFails
  BY <1>1, <1>4 DEF AcceptFails, NextClient, DaemonTypes, Phases
<1>5. ASSUME NEW c \in Client, Connect(c)
      PROVE  Serving'
  <2>1. backlog' \in Seq(Client)
    BY <1>5, AppendProperties DEF Connect, DaemonTypes
  <2> QED BY <1>1, <1>5, <2>1 DEF Connect, DaemonTypes
<1>6. ASSUME NEW c \in Client, HangUp(c)
      PROVE  Serving'
  BY <1>1, <1>6 DEF HangUp, DaemonTypes
<1>7. ASSUME NEW c \in Client, NEW line \in Words, SendLine(c, line)
      PROVE  Serving'
  <2>1. Append(wire[c], line) \in Seq(Words)
    BY AppendProperties DEF DaemonTypes
  <2>2. wire' \in [Client -> Seq(Words)]
    BY <1>7, <2>1 DEF SendLine, DaemonTypes
  <2> QED BY <1>7, <2>2 DEF SendLine, DaemonTypes, AnswersAreSound, PaidFor
<1>8. CASE Accept
  <2>1. Head(backlog) \in Client /\ Tail(backlog) \in Seq(Client)
    BY <1>8, HeadTailProperties DEF Accept, DaemonTypes
  <2> QED BY <1>8, <2>1 DEF Accept, DaemonTypes, AnswersAreSound, PaidFor, Phases
<1>9. CASE RefuseToken
  <2>1. PaidFor([code |-> "bad token", line |-> LineRead])
    BY DEF PaidFor
  <2>2. peer \in Client /\ Reply("bad token")
    BY <1>9 DEF RefuseToken, DaemonTypes
  <2>3. /\ wire' \in [Client -> Seq(Words)] /\ answer' = [c \in Client |-> answer'[c]]
        /\ AnswersAreSound'
    BY <2>1, <2>2, ReplyKeeps
  <2> QED BY <1>9, <2>3 DEF RefuseToken, Close, NextClient, DaemonTypes, Phases
<1>10. CASE AcceptToken
  <2>1. PaidFor([code |-> "auth ok", line |-> LineRead])
    BY DEF PaidFor
  <2>2. peer \in Client /\ Reply("auth ok")
    BY <1>10 DEF AcceptToken, DaemonTypes
  <2>3. /\ wire' \in [Client -> Seq(Words)] /\ answer' = [c \in Client |-> answer'[c]]
        /\ AnswersAreSound'
    BY <2>1, <2>2, ReplyKeeps
  <2> QED BY <1>10, <2>2, <2>3 DEF AcceptToken, Close, NextClient, DaemonTypes, Phases
<1>11. CASE EndConnection
  <2>1. peer \in Client /\ wire' \in [Client -> Seq(Words)]
    BY <1>11, ReadIs DEF EndConnection, DaemonTypes
  <2> QED
    BY <1>11, <2>1
    DEF EndConnection, Close, NextClient, DaemonTypes, AnswersAreSound, PaidFor, Phases
<1>12. CASE ServeLine
  <2>1. PICK code \in Dispatch(LineRead) : Reply(code)
    BY <1>12 DEF ServeLine
  <2>2. peer \in Client
    BY <1>12 DEF ServeLine, DaemonTypes
  <2>3. PaidFor([code |-> code, line |-> LineRead])
    BY <2>2, ReadIs, RoutedIsPaidFor
  <2>4. /\ wire' \in [Client -> Seq(Words)] /\ answer' = [c \in Client |-> answer'[c]]
        /\ AnswersAreSound'
    BY <2>1, <2>2, <2>3, ReplyKeeps
  <2> QED BY <1>12, <2>2, <2>4 DEF ServeLine, DaemonTypes, Phases
<1>14. CASE SendAnswer
  <2>1. \/ phase' = NextClient /\ peer' = NoClient
        \/ phase' = "serving" /\ peer' = peer
    BY <1>14 DEF SendAnswer, Close
  <2>2. peer \in Client /\ UNCHANGED <<backlog, wire, answer>>
    BY <1>14 DEF SendAnswer, DaemonTypes
  <2> QED BY <2>1, <2>2 DEF NextClient, DaemonTypes, Phases, AnswersAreSound, PaidFor
<1>15. ASSUME NEW c \in Client, ReadAnswer(c)
       PROVE  Serving'
  BY <1>1, <1>15 DEF ReadAnswer, DaemonTypes
<1>13. CASE UNCHANGED daemonVars
  BY <1>1, <1>13 DEF daemonVars, DaemonTypes
<1> QED
  BY <1>2, <1>3, <1>4, <1>5, <1>6, <1>7, <1>8, <1>9, <1>10, <1>11, <1>12, <1>13, <1>14, <1>15
  DEF DaemonNext, ServerStep, Words

(***************************************************************************)
(* harness_c.cpp:389-411: for any clients, lines and caps, a client told   *)
(* to dispatch has asked, in the ints made of its numbers, for no more     *)
(* leaves than the budget, unless the depth is the largest int.            *)
(***************************************************************************)
THEOREM DispatchesArePaidFor == DaemonSpec => []DispatchIsPaidFor
<1>1. DaemonInit => Serving
  <2> SUFFICES ASSUME DaemonInit
               PROVE  Serving
    OBVIOUS
  <2>1. <<>> \in Seq(Words) /\ <<>> \in Seq(Client)
    BY EmptySeq
  <2>2. DaemonTypes
    BY <2>1 DEF DaemonInit, DaemonTypes, Phases
  <2>3. AnswersAreSound
    BY DEF DaemonInit, AnswersAreSound, PaidFor
  <2> QED BY <2>2, <2>3 DEF Serving
<1>2. Serving => DispatchIsPaidFor
  BY DEF Serving, AnswersAreSound, PaidFor, DispatchIsPaidFor
<1> QED BY <1>1, <1>2, ServingInductive, PTL DEF DaemonSpec

(***************************************************************************)
(* harnessd.cpp:242-262: however many clients wait, and whatever they have *)
(* sent, one client or one line is taken after the signal and no second.   *)
(***************************************************************************)
THEOREM StopsAfterOneMore == DaemonSpec => []StopTakesOneMore
<1>1. DaemonInit => StopIsNoticed
  BY DEF DaemonInit, StopIsNoticed
<1>2. ASSUME StopIsNoticed, [DaemonNext]_daemonVars
      PROVE  StopIsNoticed'
  <2>1. CASE UNCHANGED <<stopping, late>> /\ (phase' \in {"starting", "accepting", "serving"} => phase' = phase)
    BY <1>2, <2>1 DEF StopIsNoticed
  <2>2. CASE StartDaemon \/ AcceptFails \/ UNCHANGED daemonVars
    BY <1>2, <2>1, <2>2
    DEF StopIsNoticed, StartDaemon, AcceptFails, NextClient, daemonVars
  <2>3. CASE Signal
    BY <1>2, <2>3 DEF StopIsNoticed, Signal
  <2>4. ASSUME NEW c \in Client, Connect(c) \/ HangUp(c) \/ ReadAnswer(c)
                                 \/ \E line \in Words : SendLine(c, line)
        PROVE  StopIsNoticed'
    BY <2>1, <2>4 DEF Connect, HangUp, ReadAnswer, SendLine
  <2>5. CASE Accept
    BY <1>2, <2>5 DEF StopIsNoticed, Accept, Late
  <2>6. CASE RefuseToken \/ AcceptToken
    BY <1>2, <2>6 DEF StopIsNoticed, RefuseToken, AcceptToken, Close, NextClient
  <2>7. CASE EndConnection
    BY <1>2, <2>7 DEF StopIsNoticed, EndConnection, Close, NextClient
  <2>8. CASE ServeLine
    BY <1>2, <2>8 DEF ServeLine, StopIsNoticed, Late
  <2>9. CASE SendAnswer
    BY <1>2, <2>9 DEF SendAnswer, StopIsNoticed, Close, NextClient
  <2> QED
    BY <1>2, <2>2, <2>3, <2>4, <2>5, <2>6, <2>7, <2>8, <2>9 DEF DaemonNext, ServerStep, Words
<1>3. StopIsNoticed => StopTakesOneMore
  BY DEF StopIsNoticed, StopTakesOneMore
<1> QED BY <1>1, <1>2, <1>3, PTL DEF DaemonSpec
===============================================================================
