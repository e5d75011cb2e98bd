----------------------------- MODULE SandboxRun ------------------------------
(***************************************************************************)
(* Verification of a worktree in cpp-harness (sandbox.cpp): verify runs    *)
(* the harnesses it detects one after the other; a run starts the command  *)
(* in a sandbox wrapper where there is one, polls it until it ends or its  *)
(* time is up, and starts it once more without the wrapper when the        *)
(* wrapper itself seems to have failed. Both tries share one deadline.     *)
(***************************************************************************)
EXTENDS Naturals

CONSTANTS
  MaxHarness,  \* bound: harnesses in a worktree
  Limit        \* timeoutMs, in ticks

ASSUME SandboxConstants == MaxHarness \in Nat /\ Limit \in Nat

(***************************************************************************)
(* A child ends with its exit status, or with 128 if a signal ended it, and*)
(* its stderr looks like an error of the wrapper or not. A workload may    *)
(* print such a line, and may exit with 124 or 127 of its own.             *)
(***************************************************************************)
Codes == {0, 1, 124, 127, 128}
Children == [state: {"none", "running", "ended"}, code: Codes, smell: BOOLEAN]
NoChild == [state |-> "none", code |-> 0, smell |-> FALSE]
Running == [NoChild EXCEPT !.state = "running"]
Endings == {c \in Children : c.state = "ended"}

\* Codes of a wrapped try that make its stderr be looked at.
WrapperCodes == {1, 71, 72, 127}

VARIABLES
  docsOnly, waived,  \* arguments of verify
  hasWrapper,  \* bwrap is installed
  detected,    \* harnesses of the worktree
  todo,        \* those that have not reported
  try,         \* "none", "wrapped", "raw": the try under way
  child,       \* the child of the try
  clock,       \* ticks since the run began; its deadline is Limit
  allZero,     \* no run reported anything but 0
  isolated,    \* the report's claim
  verdict,     \* of verify
  earned       \* history: harnesses whose last try ended with 0 by itself

sandboxVars ==
  <<docsOnly, waived, hasWrapper, detected, todo, try, child, clock, allZero, isolated, verdict, earned>>
sandboxCase == <<docsOnly, waived, hasWrapper, detected>>

SandboxInit ==
  /\ docsOnly \in BOOLEAN /\ waived \in BOOLEAN
  /\ hasWrapper \in BOOLEAN
  /\ detected \in 0..MaxHarness /\ todo = detected
  /\ try = "none" /\ child = NoChild
  /\ clock = 0
  /\ allZero = TRUE /\ isolated = FALSE
  /\ verdict = "none" /\ earned = 0

\* A diff of documents only, or no harness, needs a waiver of the brain.
NothingToRun ==
  /\ verdict = "none" /\ (docsOnly \/ detected = 0)
  /\ verdict' = IF ~waived THEN "fail"
                ELSE IF docsOnly THEN "waivedDocsOnly" ELSE "waivedHarnessAbsent"
  /\ UNCHANGED <<sandboxCase, todo, try, child, clock, allZero, isolated, earned>>

\* A child that could not be started reports 127 and no stderr.
Started == {Running, [state |-> "ended", code |-> 127, smell |-> FALSE]}

StartRun ==
  /\ verdict = "none" /\ ~docsOnly /\ todo > 0 /\ try = "none"
  /\ try' = IF hasWrapper THEN "wrapped" ELSE "raw"
  /\ child' \in Started
  /\ clock' = 0
  /\ UNCHANGED <<sandboxCase, todo, allZero, isolated, verdict, earned>>

ChildEnds(ending) ==
  /\ child.state = "running"
  /\ child' = ending
  /\ UNCHANGED <<sandboxCase, todo, try, clock, allZero, isolated, verdict, earned>>

Tick ==
  /\ try # "none" /\ clock < Limit
  /\ clock' = clock + 1
  /\ UNCHANGED <<sandboxCase, todo, try, child, allZero, isolated, verdict, earned>>

(***************************************************************************)
(* The poll loop ends. Every round looks at the deadline, and then whether *)
(* the child ended: one that ended about the deadline is reaped with its   *)
(* own code or reported as killed. 124 is the code for that, and a child   *)
(* may have exited with it too.                                            *)
(***************************************************************************)
Reported(code) ==
  /\ try # "none"
  /\ \/ code = 124 /\ clock >= Limit
     \/ code = child.code /\ child.state = "ended"
RetriesRaw(code) == try = "wrapped" /\ code \in WrapperCodes /\ child.smell

RetryRaw_fresh(code) ==
  /\ Reported(code) /\ RetriesRaw(code)
  /\ try' = "wrapped"
  /\ child' = Running
  /\ clock' = 0
  /\ UNCHANGED <<sandboxCase, todo, allZero, isolated, verdict, earned>>

\* The second try, without the wrapper, keeps the first one's deadline.
RetryRaw(code) ==
  /\ Reported(code) /\ RetriesRaw(code)
  /\ try' = "raw"
  /\ child' \in Started
  /\ UNCHANGED <<sandboxCase, todo, clock, allZero, isolated, verdict, earned>>

EndRun_lastOnly(code) ==
  /\ Reported(code) /\ ~RetriesRaw(code)
  /\ todo' = todo - 1
  /\ try' = "none" /\ child' = NoChild
  /\ allZero' = (code = 0)
  /\ isolated' = (try = "wrapped")
  /\ verdict' = IF code = 124 THEN "timeout"
                ELSE IF todo > 1 THEN "none" ELSE IF allZero' THEN "pass" ELSE "fail"
  /\ earned' = IF child.state = "ended" /\ child.code = 0 THEN earned + 1 ELSE earned
  /\ clock' = 0
  /\ UNCHANGED sandboxCase

\* verify takes the code of a run; a timeout ends it at once.
EndRun(code) ==
  /\ Reported(code) /\ ~RetriesRaw(code)
  /\ todo' = todo - 1
  /\ try' = "none" /\ child' = NoChild
  /\ allZero' = (allZero /\ code = 0)
  /\ isolated' = (try = "wrapped")
  /\ verdict' = IF code = 124 THEN "timeout"
                ELSE IF todo > 1 THEN "none"
                ELSE IF allZero' THEN "pass" ELSE "fail"
  /\ earned' = IF child.state = "ended" /\ child.code = 0 THEN earned + 1 ELSE earned
  /\ clock' = 0
  /\ UNCHANGED sandboxCase

SandboxStep ==
  \/ NothingToRun
  \/ StartRun
  \/ \E code \in Codes : RetryRaw(code) \/ EndRun(code)
SandboxNext == SandboxStep \/ Tick \/ \E ending \in Endings : ChildEnds(ending)
SandboxFairness == WF_sandboxVars(SandboxStep) /\ WF_sandboxVars(Tick)
SandboxSpec == SandboxInit /\ [][SandboxNext]_sandboxVars /\ SandboxFairness

-----------------------------------------------------------------------------
(***************************************************************************)
(* Wrapper failures, retries, timeouts and exit codes that look like       *)
(* something else (sandbox.cpp:531-610, 632-650): a worktree passes only   *)
(* if the last try of every one of its harnesses ended with 0 by itself.   *)
(***************************************************************************)
PassIsEarned == verdict = "pass" => detected > 0 /\ earned = detected

(***************************************************************************)
(* A child that hangs, wrapped or not, is killed, and a failed wrapper is  *)
(* retried once (sandbox.cpp:531-610): a verification that began to run     *)
(* comes to a verdict.                                                     *)
(***************************************************************************)
VerifyEnds == try # "none" ~> verdict # "none"
=============================================================================
