------------------------------ MODULE Worktrees ------------------------------
(***************************************************************************)
(* The worktree manager of cpp-harness (sandbox.cpp, git_native.cpp): it   *)
(* gives every task of a team a branch and a worktree, verifies the work,  *)
(* writes its patch for review, and merges or discards it. Each method     *)
(* holds the manager's mutex throughout, so it is one step, but for        *)
(* propose: it keeps the mutex while the verification runs, and the worker *)
(* in the worktree, who knows no mutex, may edit until the diff is taken.  *)
(* The registry lives in the host's memory, all else in the repository.    *)
(***************************************************************************)
EXTENDS Naturals, FiniteSets

CONSTANTS
  Team,      \* teams of one repository
  WorkTask,  \* task ids; teams may use the same
  MaxTries,  \* bound: attempts of a task
  MaxEdits,  \* bound: edits of a worktree
  Layouts,   \* layouts in use, a subset of {"team", "flat"}
  Builds,    \* builds: with libgit2 (TRUE) or with the git command (FALSE)
  Flat       \* stands for the team in a flat name

ASSUME WorktreeConstants ==
  /\ {MaxTries, MaxEdits} \subseteq Nat
  /\ Layouts \subseteq {"team", "flat"}
  /\ Builds \subseteq BOOLEAN
  /\ Flat \notin Team

\* A registry key, and the name that a branch and a path are made of.
RegistryKey == Team \X WorkTask
Name == (Team \cup {Flat}) \X WorkTask \X (1..MaxTries)
NameOf(key, attempt, layout) ==
  <<IF layout = "team" THEN key[1] ELSE Flat, key[2], attempt>>

(***************************************************************************)
(* Work is what a team did in a worktree: whose, and how many edits. A     *)
(* patch file holds some work, or the statistics of it: the libgit2 build  *)
(* puts the text of its diff statistics where the patch belongs.           *)
(***************************************************************************)
Work == [of: RegistryKey, edits: 0..MaxEdits]
NoWork == [of |-> <<>>]
NoPatch == [kind |-> "none"]
Patch == [kind: {"diff", "stat"}, work: Work]

NoMerge == [how |-> "none"]
Merge == [for: RegistryKey, how: {"apply", "merge"}, work: Work]

Handle == [name: Name, state: {"active", "proposed", "merged"}]
NoHandle == [state |-> "none"]

VARIABLES
  native,     \* the build links libgit2
  registry,   \* the manager's map
  branches,   \* branches that exist, with the edits committed on them
  trees,      \* paths that exist, with the edits made in them
  patches,    \* patches/<task>.patch
  mainDirty,  \* the main checkout has uncommitted changes
  proposing,  \* what propose, which holds the mutex, found and verifies
  lastMerge,  \* history: what was merged last, for whom, and how
  verified,   \* history: work that passed verification
  raced       \* history: work proposed that was edited during its verification

workHistory == <<lastMerge, verified, raced>>
workVars == <<native, registry, branches, trees, patches, mainDirty, proposing, workHistory>>

\* Nobody holds the manager's mutex.
Unlocked == proposing = NoWork

Registered == {key \in RegistryKey : registry[key] # NoHandle}
WorkIn(key, edits) == [of |-> key, edits |-> edits]
Extend(f, n, v) == [m \in DOMAIN f \cup {n} |-> IF m = n THEN v ELSE f[m]]
Without(f, n) == [m \in DOMAIN f \ {n} |-> f[m]]

WorkInit ==
  /\ native \in Builds
  /\ registry = [key \in RegistryKey |-> NoHandle]
  /\ branches = <<>>
  /\ trees = <<>>
  /\ patches = [t \in WorkTask |-> NoPatch]
  /\ mainDirty = FALSE
  /\ proposing = NoWork
  /\ lastMerge = NoMerge
  /\ verified = {}
  /\ raced = {}

-----------------------------------------------------------------------------
MayAcquire_registryOnly(key, name) == key \notin Registered /\ ~mainDirty

(***************************************************************************)
(* acquire. The registry, a dirty main checkout, an existing path and an   *)
(* existing branch refuse, in that order. git may fail to add the          *)
(* worktree, before or after it created the branch, which then stays.      *)
(***************************************************************************)
MayAcquire(key, name) ==
  /\ key \notin Registered
  /\ ~mainDirty
  /\ name \notin DOMAIN trees
  /\ name \notin DOMAIN branches

Acquire(key, attempt, layout) ==
  LET name == NameOf(key, attempt, layout) IN
  /\ Unlocked /\ MayAcquire(key, name)
  /\ registry' = [registry EXCEPT ![key] = [name |-> name, state |-> "active"]]
  /\ branches' = Extend(branches, name, 0)
  /\ trees' = Extend(trees, name, 0)
  /\ UNCHANGED <<native, patches, mainDirty, proposing, workHistory>>

AddFails(key, attempt, layout) ==
  LET name == NameOf(key, attempt, layout) IN
  /\ Unlocked /\ MayAcquire(key, name)
  /\ branches' = Extend(branches, name, 0)
  /\ UNCHANGED <<native, registry, trees, patches, mainDirty, proposing, workHistory>>

\* The worker in the worktree edits tracked files, and commits, whoever holds
\* the mutex.
Edit(key) ==
  LET name == registry[key].name IN
  /\ key \in Registered /\ trees[name] < MaxEdits
  /\ trees' = [trees EXCEPT ![name] = @ + 1]
  /\ UNCHANGED <<native, registry, branches, patches, mainDirty, proposing, workHistory>>

CommitWork(key) ==
  LET name == registry[key].name IN
  /\ key \in Registered /\ branches[name] # trees[name]
  /\ branches' = [branches EXCEPT ![name] = trees[name]]
  /\ UNCHANGED <<native, registry, trees, patches, mainDirty, proposing, workHistory>>

(***************************************************************************)
(* propose of an active handle takes the mutex and verifies what is in the *)
(* worktree. A verification that does not pass changes nothing. After one  *)
(* that passes, the patch, of what is in the worktree by then, goes to a   *)
(* file named after the task alone. An empty diff does not refuse:         *)
(* verify.json is an untracked file by then.                               *)
(***************************************************************************)
WorkOf(key) == WorkIn(key, trees[registry[key].name])

BeginPropose(key) ==
  /\ Unlocked /\ key \in Registered /\ registry[key].state = "active"
  /\ proposing' = WorkOf(key)
  /\ UNCHANGED <<native, registry, branches, trees, patches, mainDirty, workHistory>>

VerifyFails ==
  /\ ~Unlocked /\ proposing' = NoWork
  /\ UNCHANGED <<native, registry, branches, trees, patches, mainDirty, workHistory>>

Propose(key) ==
  /\ ~Unlocked /\ key = proposing.of
  /\ registry' = [registry EXCEPT ![key].state = "proposed"]
  /\ patches' = [patches EXCEPT ![key[2]] =
                   [kind |-> IF native /\ trees[registry[key].name] > 0 THEN "stat" ELSE "diff",
                    work |-> WorkOf(key)]]
  /\ proposing' = NoWork
  /\ verified' = verified \cup {proposing}
  /\ raced' = raced \cup ({WorkOf(key)} \ {proposing})
  /\ UNCHANGED <<native, branches, trees, mainDirty, lastMerge>>

ApplyPatch_presentTree(key) ==
  /\ Unlocked /\ key \in Registered /\ registry[key].state = "proposed"
  /\ registry' = [registry EXCEPT ![key].state = "merged"]
  /\ lastMerge' = [for |-> key, how |-> "apply", work |-> WorkOf(key)]
  /\ mainDirty' = TRUE
  /\ UNCHANGED <<native, branches, trees, patches, proposing, verified, raced>>

(***************************************************************************)
(* mergeBack of a proposed handle. "apply" takes the patch file, if it is  *)
(* one and not empty, into the main checkout; the merges take the branch.  *)
(* A conflict leaves everything as it was.                                 *)
(***************************************************************************)
ApplyPatch(key) ==
  LET patch == patches[key[2]] IN
  /\ Unlocked /\ key \in Registered /\ registry[key].state = "proposed"
  /\ patch.kind = "diff" /\ patch.work.edits > 0
  /\ registry' = [registry EXCEPT ![key].state = "merged"]
  /\ lastMerge' = [for |-> key, how |-> "apply", work |-> patch.work]
  /\ mainDirty' = TRUE
  /\ UNCHANGED <<native, branches, trees, patches, proposing, verified, raced>>

MergeBranch(key) ==
  LET name == registry[key].name IN
  /\ Unlocked /\ key \in Registered /\ registry[key].state = "proposed"
  /\ registry' = [registry EXCEPT ![key].state = "merged"]
  /\ lastMerge' = [for |-> key, how |-> "merge", work |-> WorkIn(key, branches[name])]
  /\ UNCHANGED <<native, branches, trees, patches, mainDirty, proposing, verified, raced>>

(***************************************************************************)
(* release in any state. What git answers is not looked at: a worktree it  *)
(* does not remove keeps its branch too, and the registry forgets both.    *)
(***************************************************************************)
Release(key, removed, keepBranch) ==
  LET name == registry[key].name IN
  /\ Unlocked /\ key \in Registered
  /\ registry' = [registry EXCEPT ![key] = NoHandle]
  /\ trees' = IF removed THEN Without(trees, name) ELSE trees
  /\ branches' = IF removed /\ ~keepBranch THEN Without(branches, name) ELSE branches
  /\ UNCHANGED <<native, patches, mainDirty, proposing, workHistory>>

\* Someone commits what was applied to the main checkout.
CommitMain ==
  /\ mainDirty /\ mainDirty' = FALSE
  /\ UNCHANGED <<native, registry, branches, trees, patches, proposing, workHistory>>

\* The host restarts with an empty registry and a mutex that nobody holds.
RestartHost ==
  /\ Registered # {}
  /\ registry' = [key \in RegistryKey |-> NoHandle]
  /\ proposing' = NoWork
  /\ UNCHANGED <<native, branches, trees, patches, mainDirty, workHistory>>

WorkNext ==
  \/ \E key \in RegistryKey :
       \/ \E attempt \in 1..MaxTries, layout \in Layouts :
            Acquire(key, attempt, layout) \/ AddFails(key, attempt, layout)
       \/ Edit(key) \/ CommitWork(key)
       \/ BeginPropose(key) \/ Propose(key) \/ ApplyPatch(key) \/ MergeBranch(key)
       \/ \E removed, keepBranch \in BOOLEAN : Release(key, removed, keepBranch)
  \/ VerifyFails
  \/ CommitMain
  \/ RestartHost

WorkSpec == WorkInit /\ [][WorkNext]_workVars

-----------------------------------------------------------------------------
WorkTypeOK ==
  /\ native \in Builds
  /\ registry \in [RegistryKey -> Handle \cup {NoHandle}]
  /\ DOMAIN branches \subseteq Name /\ branches \in [DOMAIN branches -> 0..MaxEdits]
  /\ DOMAIN trees \subseteq Name /\ trees \in [DOMAIN trees -> 0..MaxEdits]
  /\ patches \in [WorkTask -> Patch \cup {NoPatch}]
  /\ mainDirty \in BOOLEAN
  /\ lastMerge \in Merge \cup {NoMerge}
  /\ proposing \in Work \cup {NoWork}
  /\ verified \subseteq Work /\ raced \subseteq Work

(***************************************************************************)
(* Whatever release failed to remove, whatever a failed add or a restarted *)
(* host left behind, and though flat names are the same for every team     *)
(* (sandbox.cpp:181-226, 364-370): a registered handle has a branch and a  *)
(* worktree, and has them alone.                                           *)
(***************************************************************************)
OwnWorktree ==
  /\ \A key \in Registered :
       registry[key].name \in DOMAIN trees /\ registry[key].name \in DOMAIN branches
  /\ \A k1, k2 \in Registered : registry[k1].name = registry[k2].name => k1 = k2

(***************************************************************************)
(* "Red suite -> ... no patch" (harness.hpp:544), as far as the code goes  *)
(* (sandbox.cpp:262-313): a patch that reaches the main checkout is work   *)
(* that passed verification, or work that was edited while the propose it  *)
(* comes from was verifying, between sandbox.cpp:265 and 276, whatever was *)
(* edited, re-acquired, restarted or overwritten since.                    *)
(***************************************************************************)
AppliedWasVerified ==
  lastMerge.how = "apply" => lastMerge.work \in verified \cup raced

(***************************************************************************)
(* harness.hpp:494 calls the canonical layout "team-scoped" and warns of   *)
(* collisions between teams for the flat one only: with the team layout,   *)
(* what is merged for a task of a team is that team's work.                *)
(***************************************************************************)
MergedIsOwnWork == lastMerge # NoMerge => lastMerge.work.of = lastMerge.for
=============================================================================
