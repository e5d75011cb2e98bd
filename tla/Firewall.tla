------------------------------ MODULE Firewall -------------------------------
(***************************************************************************)
(* The gates of the token firewall of cpp-harness (middleware.cpp): they   *)
(* say, before a split or a spawn, what it may cost. The task arena asks   *)
(* them with its own counts, the daemon with those of its client.          *)
(***************************************************************************)
EXTENDS Integers

CONSTANTS
  TreeBudget,  \* perTreeRequestBudget
  BreadthCap,  \* perDepthBreadthCap
  DayCap,      \* dailyRequestCap
  LongMax      \* the largest long

ASSUME FirewallCaps == {TreeBudget, BreadthCap, DayCap, LongMax} \subseteq Nat

MAX_RESPLITS == 3
MAX_ROUNDS_PER_TASK == 2
MEMBER_MAX_DEPTH == 1

Estimate_ownLevel(breadth, depth) == breadth ^ depth

(***************************************************************************)
(* estimatePreCallChecked: breadth^(depth + 1), or a refused value once    *)
(* the product leaves the range of long.                                   *)
(***************************************************************************)
Saturated(n) == IF n > LongMax THEN LongMax + 1 ELSE n
Product(breadth, factors) ==
  LET acc[i \in 0..factors] == IF i = 0 THEN 1 ELSE Saturated(acc[i - 1] * breadth)
  IN  acc[factors]
Estimate(breadth, depth) ==
  LET product == Product(breadth, IF depth >= 0 THEN depth + 1 ELSE 0)
  IN  IF product > LongMax THEN TreeBudget + 1 ELSE product

CheckSplit_noSpiral(depth, breadth, resplits, atomic, split, models, used) ==
  IF breadth > BreadthCap THEN "BreadthCap"
  ELSE IF Estimate(breadth, depth) > TreeBudget THEN "BudgetExceeded"
  ELSE IF split THEN "SplitOnce" ELSE "Ok"

(***************************************************************************)
(* checkSplit, in its normative order. The tree's use is a parameter that  *)
(* the code does not name and never reads.                                 *)
(***************************************************************************)
CheckSplit(depth, breadth, resplits, atomic, split, models, used) ==
  LET estimate == Estimate(breadth, depth) IN
  IF resplits >= MAX_RESPLITS THEN "SpiralStop"
  ELSE IF breadth > 1 /\ models < 2 THEN "HomogeneousAssignment"
  ELSE IF breadth > BreadthCap THEN "BreadthCap"
  ELSE IF estimate > TreeBudget THEN "BudgetExceeded"
  ELSE IF used + estimate > DayCap THEN "DailyCap"
  ELSE IF split THEN "SplitOnce"
  ELSE IF atomic THEN "AtomicLocked"
  ELSE IF 10 * estimate > 7 * TreeBudget THEN "BudgetWarn"
  ELSE "Ok"

CheckSpawn_oneMore(depth, used) == IF used > DayCap THEN "DailyCap" ELSE "Ok"

CheckSpawn(depth, used) ==
  IF depth > MEMBER_MAX_DEPTH THEN "DepthFirebreak"
  ELSE IF used + 1 > DayCap THEN "DailyCap"
  ELSE "Ok"

Denied(code) == code \notin {"Ok", "BudgetWarn"}
=============================================================================
