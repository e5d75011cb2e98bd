# TLA+ models of mr-meeseeks

This directory holds TLA+ modules that model the parts of this repository in
which several actors change shared state, the TLC configurations that check
them on small instances, and TLAPS proofs of what matters most for every value
of the constants. Every definition is translated from the code; `PROJECT.json`
names, for each of them, the lines it stands for.

    tlc -workers 2 -config TeamPool.cfg MCTeamTasks    # one run (see below)
    tlapm TeamTasks_proofs.tla                         # the proofs of a module

## 1. What the repository is made of

The repository holds four programs and what surrounds them. They do not share
state with one another; each is modelled by itself.

| Part | Code | State | What it does |
|---|---|---|---|
| AgentTeams plugin: tasks and scheduler | `plugin/src/tools.ts`, `scheduler.ts`, `state.ts`, `types.ts` | `team.json` (tasks, members), `retired-members.json`; in memory: parked attempts, kick queues, sessions | a captain and its members create, claim, update, reassign tasks; the scheduler hands ready tasks to idle members |
| AgentTeams plugin: mailbox | `tools.ts`, `scheduler.ts`, `state.ts` | the mailbox files: messages, `readAt`, `deliveryClaimedAt` | live delivery with a durable fallback under a lease |
| AgentTeams plugin: team life cycle | `tools.ts`, `state.ts` | `<team>/team.json`, `archive/<team>`, `retired-members.json`; locks per team and per captain | create a team, add and remove members, delete the team into the archive |
| AgentTeams plugin: members, events, panel | `members.ts`, `index.ts`, `snapshot.ts`, `events.ts`, `client/` | the event log | configure members; show a team |
| Golem (`dsh-lite-cpp`): gated task loop | `brain.cpp`, `nudge.cpp`, `payload_gate.cpp`, `postcondition.cpp` | one `NudgeState` per task id, locals of the call | gate a payload, run it, verify it, retry or ask again, within caps |
| Golem: router and engine clients | `router.cpp`, `llm_client.cpp`, `abi_client.cpp` | a turn counter per engine; a stream's stamps; a native session and its positions | choose an engine with fallback; post to it over HTTP or in process |
| Golem: workers and the judge | `spawner.cpp`, `brain.cpp` | a child process, its pipes, its workspace | run a worker under a watchdog; ask one whether to delegate |
| Golem: history | `brain.cpp`, `compaction.cpp` | the messages of a conversation | append, compact, post |
| Golem: ledger, sanitizer, grammar, command line, bench host | `ledger.cpp`, `sanitizer.cpp`, `grammar.cpp`, `main.cpp`, `bench/iso_harness/` | a log file | formatting, and hosts of the loop |
| File loop | `harness/loop.ts`, `jev.ts`, `typesafe-judge.ts` | `tasks/<id>.json`, `tasks/<id>.lock`, `queue/<id>`, `ledger.jsonl` | enqueue, claim, report, verify, split tasks from several processes |
| cpp-harness: arena, firewall, nudge loop | `middleware.cpp` | a task tree behind a mutex; requests of the day; last signs of life | gates before a split or a spawn; what to do with a silent task |
| cpp-harness: sister bus | `sister_shm.cpp`, `middleware.cpp` | a shared-memory table of slots with a mutex, robust where the build makes it so | leaf values between processes |
| cpp-harness: worktrees and sandbox | `sandbox.cpp`, `git_native.cpp` | a registry in memory; branches, worktrees, patch files | isolate, verify, propose, merge the work of a task |
| cpp-harness: daemon and C ABI | `harnessd.cpp`, `harness_c.cpp` | a Unix socket, a stop flag | the operations above for clients, one at a time |
| Memory, benchmarks, scripts, docs | `memory/`, `bench/`, `scripts/`, `skills/`, `docs/` | files | small sequential programs around the rest |

How they interact inside:

* The plugin's tools run in one process. Every change of `team.json` is made
  in a locked section (`withTeamLock`); between two sections of one tool, and
  while the scheduler waits for a delivery, any other tool, any kick and any
  agent event may run. Agents are driven by follow-ups and interrupts and
  answer with status events whose handlers run later, in any order.
* Golem's loop is sequential in a call; what survives from call to call is the
  `NudgeState` of each task id. Its environment (planner, hooks, workers, the
  model's re-solicited payloads) may answer anything the types allow. Posts
  through the router may run in threads of their own (`postAsync`) and share
  its turn counters; an engine client's call is a step of the router. The judge is
  a worker of the spawner, or a hook of the host.
* The file loop's commands are processes that share only files. No lock
  covers a command: `O_EXCL` on the lock file is all there is.
* In cpp-harness the arena and the worktree manager are monitors (one mutex
  from first to last line), the bus is shared by processes store by store, and
  the daemon is one thread that calls them on behalf of its client.

What is hard in this code, and what is therefore stated as properties:

| Where | What makes it hard | What must hold |
|---|---|---|
| tasks and scheduler | locked sections of several tools interleave; dispatches are acknowledged late or fail; members work ahead; restarts lose memory, not files | one open task per member; an attempt its member is parked with is not rotated; results belong to the present attempt; a rollback takes nothing from anybody else; handoffs end; ready work is taken |
| mailbox | direct delivery, fallback and polls race; leases lapse; restarts | no second delivery within a lease; nothing is marked read unheard; nothing hidden without a carrier; all mail is read in the end |
| team life cycle | locks are held a section at a time; three renames archive a team, each may fail or be the last thing the process does; a record written in place may be torn | one team per captain; what was archived last is on disk; archived members are retired |
| gated task loop | three counters over calls, turns and nudges; payloads are rewritten between gate and execution; four kinds of evidence end in one label | caps; what runs was approved; labels claim no more than was checked; calls return |
| router | a counter read before a request and raised after it, by several threads; identities cut out of URLs | an engine is not aborted for slowness before its warm-up |
| engine clients | the same read error for silence and for a broken connection; batches, steps and room counted apart | a stall is a silence, headers apart; positions are consecutive and fit |
| judge and spawner | watchdog against an end at the same moment; processes that the worker leaves behind; any exit status | no verdict from a judge that failed; the gate answers |
| history | the marker is added after the pruning; protected messages | what is posted fits, unless what is protected alone does not |
| file loop | torn files, deaths between writes, copies of records written at the same time | one claim; bounded lineages; a split task has its children |
| arena and firewall | a lineage's count is copied to the children a split creates, not to those that were enqueued before, and carried over reports; the daily cap is checked and recorded apart | what a split creates keeps its lineage's count; the cap is exceeded by one request per caller at most |
| sister bus | a publisher may die between any two stores, with the mutex; eviction comes before the new entry | whatever dies, a table with one entry per key, where nothing old comes back; an entry is of one publication unless somebody died while updating it |
| worktrees | registry in memory, everything else on disk; adds that fail half-way; an edit between verification and diff; patch files named after the task alone | a handle's branch and worktree are its own; what is applied was verified, or edited during its verification |
| sandbox | a wrapper's failure looks like a workload's; two tries share a deadline; 124 is a status, too | a pass is earned by every harness; a verification ends |
| daemon | clients that stay silent or do not read; a signal between two waits; numbers of a client, cast to `int` | the queue moves; a stop takes one more at most; a dispatch is within the budget |
| nudge loop | depth, failed checks and stalls in one decision | no re-prompt beyond the budget or after the last round |

`PROJECT.json` lists 40 hazards, each at its line, with the properties that
watch over it or the reason why there are none.

## 2. The modules

| Module | Models | Extended or used by |
|---|---|---|
| `TeamTasks` | the task list: tools, scheduler, agents | `MCTeamTasks`, `MCTeamLive`, `TeamTasks_proofs` |
| `Leases` | the abstract specification of the task list | `TeamTasks` (INSTANCE, refinement mapping) |
| `Mailbox` | one mailbox and its three ways of delivery | `MCMailbox`, `MCFileProtocols`, `PluginFiles_proofs` |
| `Delivery` | the abstract specification of the mailbox | `Mailbox` (INSTANCE, refinement mapping) |
| `TeamFiles` | the directories of teams and their archive | `MCFileProtocols`, `PluginFiles_proofs` |
| `GatedTask` | `runGatedTask` and the caps of `nudge.cpp` | `MCGolem`, `GatedTask_proofs` |
| `Router` | the model router | `MCRouter`, `MCGolem`, `GolemParts_proofs` |
| `LlmCall`, `AbiCall` | a post over HTTP, a post to the native engine | `MCGolem`, `GolemParts_proofs` |
| `Spawner` | a worker process and its watchdog | `JudgeGate` (EXTENDS: the judge is its worker) |
| `JudgeGate` | the gate before a delegation | `MCGolem`, `GolemParts_proofs` |
| `BrainHistory` | turns and compaction | `MCGolem`, `GolemParts_proofs` |
| `TaskLoop` | the file loop | `MCTaskLoop`, `MCFileProtocols`, `TaskLoop_proofs` |
| `TaskBoard` | the abstract specification of the file loop | `TaskLoop` (INSTANCE, refinement mapping) |
| `Firewall` | the gates before a split or a spawn | `Arena`, `Daemon` (EXTENDS: the same gates with other counts) |
| `Arena` | the task tree and the day's requests | `MCHarness`, `HarnessParts_proofs` |
| `ForwardNudge` | the nudge loop | `MCHarness`, `HarnessParts_proofs` |
| `SisterTable` | the abstract specification of the bus | `SisterBus` (INSTANCE, refinement mapping) |
| `SisterBus` | the shared-memory bus and its in-process fallback | `MCHarness`, `SisterBus_proofs` |
| `Worktrees` | the worktree manager over the repository | `MCHarness`, `HarnessParts_proofs` |
| `SandboxRun` | verification and sandboxed runs | `MCHarness`, `HarnessParts_proofs` |
| `Daemon` | harnessd and the dispatch behind it | `MCHarness`, `HarnessParts_proofs` |
| `InductionLemmas` | induction and recursive functions, for proofs | `GolemParts_proofs`, `HarnessParts_proofs` |

`MCFileProtocols`, `MCGolem` and `MCHarness` check several systems in one run:
the variable `system`, chosen in the initial state, says which one a behaviour
is of, and the others keep one fixed initial state. They share no variable,
as the programs share none; what one part sees of another is part of its own
model (an engine's outcome in `Router`, a worker's exit in `GatedTask`).

Definitions with a suffix, such as `Claimable_again`, are wrong variants of the
definition that follows them: replacing the latter by the former must make the
property that `PROJECT.json` pairs with it fail. They are used nowhere else.

### TeamTasks

`tasks`, `taskSeq` and `members` are `team.json`; `retired` is
`retired-members.json`; `parked`, `kicks`, `tickets`, `handoffs` and `leaving`
are memory: the parked attempts of the scheduler, its queued kicks, the
dispatch a kick is waiting for, the calls of `reassign_task` and
`remove_member` between their sections; `agents` and `edges` are the harness'
agents and the status events not yet handled.

Each locked section is one action, with everything the section does: so
`ReassignBegin` (revoke), `ReassignQuiet` (the wait for idleness) and
`ReassignFinish` or `ReassignAborted` (second section) are one
`reassign_task`; `RemoveMember`, `RetireMember` and `FinishRemoval` one
`remove_member`; `KickSkips`, `KickMail`, `KickClaim`, then
`DeliveryAccepted` or `DeliveryRejected` (with the rollback) one `kickMember`;
`SyncRunning` and `SyncIdle` the two status handlers. `wroteAs` (auxiliary) is
the attempt id that the last update of a task presented: `UpdateStatus` is every
update that the tool lets through, those of the output alone and `cancelled`
included, and `CapabilityAccepted` is its test, which a task without an attempt
id does not make.

Abstractions: attempt ids and handoff ids, random in the code, are the number
of the attempt and the name of the call; idle and not resident agents are both
"resting"; queued kicks of one member are one (a kick reads everything anew);
pending events of one kind are one; a name is used once; unread mail is only
"a kick may find some" (`KickMail`; the mail itself is `Mailbox`); what is
displayed about members, titles and texts are left out. Faults of the environment are
named by the constant `Faults` (rejected deliveries, aborted waits, an absent
captain, members that work ahead of the acknowledgement, restarts), so that
every claim says which of them it survives.

`Leases` is what the task list promises as a whole: an unfinished task in work
is on lease to one holder, leases are numbered and never given to a second
holder before they ended, a member holds one at a time. `ImplementsLeases`
maps a task's holder to its assignee while it is open and the lease's number to `attempt`.

### Mailbox

`sent`, `read` and `lease` are the file; `sends`, `kick` and `polls` say where
each `send_message`, the fallback delivery and each `agent_teams_status` of
the recipient are between their reads and writes. A message's content does not
matter; the n-th one is called n. A lease is fresh for a minute (`LeaseLapses`
is the clock). Direct delivery, refused delivery, the kick with a claim of its
own, the poll that reads the mailbox twice, and restarts are actions of their own.

`Delivery` is what the mailbox promises as a whole: what was posted is kept, a
message is handed over again only when it is overdue, and marked as read only
after it was handed over or in answer to a question of the recipient's.
`ImplementsDelivery` maps hand-overs to turns the message started or joined
(`live`), overdue to a lease that ever ran out (`lapsed`), and questions to what the
polls in flight have read (`Asked`). The file knows nothing of hand-overs; that
the lease stands in for them is what the refinement shows.

### TeamFiles

`teams`, `archive` and `hidden` are the directories `<team>/`, `archive/<team>/`
and `archive/.<team>.previous-<uuid>/`; a team's record has its captain, its
members and those that were removed. `deny` is `retired-members.json`, `spawned`
the sessions that exist. `calls` says between which sections each tool call is,
and so who holds which lock (`Holder` of a team's, `Creators` of a captain's).
`broken` and `last` are history: whether anything was broken off, and which
team was archived last under each name.

`agent_teams_create` is `CreateScan`, `CreateLooks`, `CreateWrites`: scan under
the captain's lock, look under the team's, write. `agent_teams_add_member` is
`AddFinds`, `AddSpawns`, `AddWrites`; `agent_teams_remove_member` `RemoveMarks`
and `RemoveRetires`; `agent_teams_delete` `DeleteFinds`, `DeleteLocks`,
`DeleteMarks`, `DeleteRetires`, and then one action per rename of
`archiveTeamDir`: `Displace`, `MoveIn` or `MoveFails` (with the restoration,
which may fail too), `CleansUp`. A write that fails is `WriteFails`, anything
else that fails `EndFails`, a restart `RestartHarness`; a write in place that is
broken off leaves a record that no tool can read (`Tears`).

`overlap` says whether captains have several calls in flight, as an agent
with parallel tool calls does; `ArchivedAreRetired` holds when they have not, see
section 6. One name may be that of the archive itself. Left out: tasks and
mail of an archived team, the retries of a rename, the text of names; a
dismissal marks in one step, and its record is written whole.

### GatedTask

`lineages` holds the `NudgeState`s, `run` the locals of the present call of
`runGatedTask`, `report` the last `TaskReport`. Steps: `Bind`, `Gate`, `Spawn`,
`Content` with `Passes` (layer 2), `Verified` or `Retry` (`recordRetry` with
any scope and any replayed payload), `ReSolicit`. Payloads are four values:
what the gate approves and runs, approves only as a proposal, refuses. Hosts
are: none (no hook), declared (a postcondition that may hold or not, or throw)
and the command line's. `Turn` is what `BrainLoop::turn` does to the lineages,
`HostNudge` a host's own continuation. `granted`, `chained` and `spawned` are
auxiliary counters of what the caps must bound.

### Router, LlmCall and AbiCall

`Router`: `config` and `built` are the pools and the result of the
constructor's checks, `entryTurns` is `turnCounters_`, `call` the posts under
way: role, place in the pool, the counter as it was read, refusals of a
grammar so far. `SendRequest` is the reading of the counter and the request,
`EndAttempt` the answer or failure with what follows (velocity floor, counter,
next entry, or the end of the post). Between the two any other post may move.
A URL is scheme, host and port, and path: `HostPortOf` does what the code's
unsigned differences amount to.

`LlmCall`: `llm` is the call with what the content receiver keeps (first byte,
last byte, largest gap, partial line, counts). A chunk is of a kind: content,
reasoning, an empty line, half a line, usage. Headers may come well before the
first one (`HeadersCome`); the receiver does not see them. `ReadFails` is the one error
that stands for a silence and for a broken connection; `IsStall` is the code's
classification; `quiet` (auxiliary) is how long the wire was really silent.
`SendFails`, `StatusFails` and `AnswerComes` are the other ends.

`AbiCall`: `OpenEngine`, `AbiPost`, then `Prefill` batch by batch, `Select`,
`DecodeStep`, `Detokenize` and the ends. `Busy` marks a call into the engine,
which the firewall may abort at a poll once the deadline passed
(`DeadlinePasses`, `Polls`). `fed` (auxiliary) lists the positions written.

### Spawner, JudgeGate and BrainHistory

`Spawner`: `BeginSpawn` is the setup with the failures that throw; the child
writes, forks, exits; `WatchTimedOut` and `WatchReaps` are the two ways in
which the watch loop sees its end, `Drain` the last reading of the pipes:
they are non-blocking (`spawner.cpp:182-183`), so it takes what is there, also
when a process that the child started holds them (`held`); `Cleanup` is the end.
A process that writes faster than the drain reads, for ever, is left out. `JudgeGate` adds `EnterGate`, the host's hook (`HostHook`,
`HookThrows`), the node hook's setup (`NodeHook`) and what it makes of the
worker's result (`NodeAnswers`); `Parse` says what the printed text means: an
action of the four, and nowhere the word "fallback".

`BrainHistory`: a message is a role and a size (and for how many messages a
marker stands). `BeginTurn` appends, compacts in the code's two stages (cut
long messages, then drop the oldest that are not protected and insert a
marker) and posts; `EndTurn` and `TurnThrows` are the two ends of the post.
Sizes are small numbers; what matters is their order to the threshold.

### TaskLoop

A command reads its task once and then only writes. So each process has a list
`todo` of the file operations it has yet to do, and each operation is a step:
`Truncate` and `WriteTask` (one `writeFileSync` is a truncation, then a
write), `Mark`, `AppendLine`, and `LoadClaimed`, the look `claim` takes at the
task after it has the lock. A process may die (`Die`) before any of them.
`EnqueueRoot`, `ClaimTask`, `ReportTask`, `VerifyTask`, `SplitTask` begin a
command with its guards. Ids are sequences of numbers, as in `t1.2.1`.

Assumed of the users: workers claim what the poll listed and report what they
claimed, one loop process enqueues, verifies and splits, users enqueue roots
(the `enqueue` command with a dotted id starts a count of its own, for which
`LineageBounded` is not claimed). Which models may work on or verify a task,
the heuristics that call a criterion atomic, prompts and the content of lock
files are left out; a denial of the daemon is a refused split.

`TaskBoard` is what the loop promises as a whole: a task is put up as the root
or as a part of a claimed one, claimed once, and only claimed tasks are worked
on or told of in the log; a task told of as split has a part on the board.
`ImplementsBoard` maps the files that exist to what is on the board, `wins` to
claims, records that can be read and are no longer queued to worked ones, and
the ledger to the log. Truncating the file of a new task puts it up, since the
code looks for the file only; locks, markers and the lists of writes have no
counterpart.

### Firewall, Arena and ForwardNudge

`Firewall` holds `CheckSplit` and `CheckSpawn` with the order of the code's
refusals, and `Estimate` with its saturation (`LongMax` stands for the largest
`long`). `Arena`: `nodes` is the map of `TaskArenaImpl`, `treeUsed` the sum of
what the allowed splits cost, `dayUsed` the firewall's count of the day. `Enqueue`, `SplitOnce`,
`ReportTask` are whole methods, as each holds the mutex; `ClearSpawn` and
`RecordRequest` are two steps of a host, which no lock joins. A vector that is
reported is a record of what `Validate` looks at. `ForwardNudge`: `beat` is
the last sign of life, `ctx` the counters that a host passes to `poll` (the
repository has no such host in C++; one that counts as the fields say is
assumed and marked external).

### SisterBus and SisterTable

A publication is a number. A slot has the number of the publication of its
head, of its length and of its bytes, and 0 for what is half-written.
`BeginPublish` takes the mutex and chooses the slot, `ClearSlot` claims a new
or evicted one (one step: its memset begins at the magic); then, for an update
of a visible slot in place, `BeginHead` and `EndHead` around the stores of the head,
`StoreLength`, `BeginCopy` and `EndCopy` around the copy of the value; `Commit`
(the magic) and `Unlock`. Creation is
`CreateSegment`, `SizeSegment`, `MarkSegment` and `InitMutex`, opening
`OpenExisting`. `Die` ends a process anywhere. A mutex whose holder died is
taken over if it is robust, and `RobustBuilds` says of which builds it is. `PublishLocal` is the in-process map. `Read` returns what a reader
finds (`Found`: a publication, or `Corrupt` if head, length and bytes are not of
one), and what it finds for each key is the abstract table: `BusIsTable` says
that it implements `SisterTable`, where newer publications replace older ones,
an entry is given up only when the table is full, and one that is there may be
spoiled (by a death in an update), but never goes back to an older publication.
`TornByDeathOnly` says what spoils one (`Torn`): the death of a publisher
between the first of these stores and the last, and nothing else; a publish
that returns has left its slot whole.

Faults are named: `fillDeath` (death outside an update in place),
`updateDeath` (within one), `noSegment` (fallback to the map), `openRace` (a
process opens the segment between the creator's steps, or after the creator
died there). The run has the first three. With `openRace` two publishers can
be in the table at once and nothing is promised; see section 6.

### Worktrees and SandboxRun

`Worktrees`: `registry` is memory (`RestartHost` empties it); `branches`,
`trees`, `patches`, `mainDirty` are the repository. Work is whose it is and how many
edits it has. `Acquire` and `AddFails` are `acquire` with an add that succeeds,
or fails after the branch was made; `Edit` is the worker. `propose` is
`BeginPropose` (the mutex is taken, and `proposing` is what the verification
looks at) and then `VerifyFails`, or `Propose`, which writes the patch of what
is in the worktree by that time: the mutex keeps other methods out, but not the
worker. `ApplyPatch` and `MergeBranch` are `mergeBack`;
`Release` is `release` with the answers git may give. `native` says whether
libgit2 was built in, since the two builds differ in what they leave behind.
Whether verification passes is open here; what it takes is `SandboxRun`.
`verified` and `raced` (auxiliary) are the work that passed, and the work that
was proposed after an edit during its verification.

`SandboxRun`: `StartRun` starts the next harness that was detected, wrapped or not;
the child ends by itself with any status and any stderr, or is killed when the
deadline passed; `RetryRaw` is the second try without the wrapper; `EndRun`
counts. `earned` (auxiliary) counts the harnesses whose last try exited with 0
by itself.

### Daemon

`phase` is where the loop is, `peer` its client, `backlog` the connections not
accepted, `wire` the lines sent and not read, `unread` how many answers each
client was written and has not read. Clients connect, send, read and hang
up as they like. `Signal` sets the flag only; `Accept`, `LineRead` and `Close`
follow the loop with the tests of the flag where the code has them. `ServeLine`
reads and dispatches a line, `SendAnswer` is the write of the answer, which
waits while `Room` answers are unread. `Breadth` and `ParentDepth` are a line's
numbers after the casts to `int` (`AsInt`); `DepthCounted` is what the estimate
makes of the largest depth. `Dispatch`
has a case for each operation with the C function behind it, and answers with
its code; operations that call another subsystem (`sandbox_exec`, `bus_post`,
the worktree ones) answer with any code that subsystem may give and keep track
of the handles (`held`) only.

## 3. The runs

Every run bounds what the code does not: the number of tasks, attempts,
messages, calls. In all runs `CHECK_DEADLOCK` is off, because these systems
may rest: a team with nothing to do, a mailbox with everything read, a daemon
without clients, a bound that is reached.

| Run | Instance | Shows |
|---|---|---|
| `TeamPool` | 1 member and the captain, 2 tasks with dependencies, 2 attempts each, 1 reassignment at a time; rejected deliveries, aborted waits, absent captain (556 k states) | one open task per member; dependencies; removal and handoff marks; refinement of `Leases` |
| `TeamRestart` | 1 task, 3 attempts, every fault (31 k) | results of the present attempt; parked attempts are kept; acknowledged completions are kept |
| `TeamLive` | two settings: 2 members without reassignment; 1 member and a captain that reassigns; 1 task, 2 attempts, fair (125 k) | ready work is taken; every reassignment ends |
| `FileProtocols` | mailbox: 2 messages, 1 restart, 1 poll, to the captain or a member, fair. File loop: 2 workers, 1 loop process, 1 split level, up to 2 children, 3 loop commands, 2 deaths. Teams: 2 captains, 2 names, one of them the archive's, 2 calls, 1 recruit, 2 teams, 2 failures or restarts (441 k) | refinement of `Delivery`: no double delivery within a lease; nothing hidden without a carrier; all mail is read; refinement of `TaskBoard`: one claim, nothing worked on or told of before it; no split without children; one team per captain, archives that survive, archived members retired |
| `Golem` | task: 1 id, payloads that run, that are only proposed and that are refused, 3 kinds of host, 2 calls, 1 turn. Router: 2 posts, several configurations. HTTP: 2 chunks, stall of 3 ticks. Native: prompts up to 5 in batches of 2, 3 tokens, context 9. Judge: 2 gates, 2 ticks. History: 4 turns, sizes 1, 5, 9 against 16 (285 k) | caps, approvals and labels; the warm-up; stalls are silences; positions and posts fit; no verdict from a failed judge; calls return and the gate answers |
| `Harness` | arena: 5 tasks, width 2, tree budget 4, 2 callers, 4 requests a day. Bus: 2 processes, 3 keys, 2 slots, 4 publications, three faults. Worktrees: 2 teams with the same task id in the flat layout, 1 edit each, git by command. Sandbox: 3 harnesses, 2 ticks. Daemon: 2 clients, 2 lines each, room for 1 answer, a largest int of 7, a signal. Nudge: depth 3, 2 rounds, 5 polls (307 k) | the properties of each part as in section 1; refinement of `SisterTable` |
| `TeamDocFinal`, `TeamDocStale`, `MailboxDocRead`, `LoopDocRequeue`, `PatchDocTask`, `BusDocWedged` | the smallest instances that show it | the findings of section 6 |

Why the bounds are enough for what the runs are for:

* `TeamPool` needs a second task so that "one open task" and dependencies can
  fail, a second attempt so that a stale capability and a rollback exist, and
  one call in flight so that a handoff can overlap a kick. The constraint
  `FewEdges` keeps at most one unhandled status event; `TeamRestart` has none,
  so that both orders of two events are explored there.
* `TeamRestart` has a third attempt: a first one that is revoked, a second one
  that is rolled back, a third one to be confused with either.
* `TeamLive` restricts which tools are called in each of its settings, never
  what the scheduler does. Two members are needed so that work may be ready
  beside an idle one while another is dispatched; a handoff needs one.
* `CaptainShown` is 2 instead of 10, so that two messages are shown and the
  boundary is met with the messages of the instance; the poll of a member shows one.
* The auxiliary counters of `GatedTask` saturate above what any bound allows;
  calls are two, since the state that lives from call to call is the
  `NudgeState`, and with two calls, a turn and nudges every cap is reached.
* In the file loop `MAX_RESPLITS` is 1 instead of 3: one level of children, so
  that both the split that passes the guard and the one that is stopped
  happen, with two children to be torn between. Deeper trees are covered by
  the theorems (any `MaxSplits`, `MaxBreadth`).
* Two captains and two names let calls meet at a captain's lock and at a
  name's; the second team displaces the first one's archive; two troubles are
  a deletion that is broken off and another failure while it is repeated.
* The arena keeps `MAX_RESPLITS` as it is: ids four deep let a chain be split
  three times and refused; a dotted id that a host enqueues first is met by
  the split that would create it. Two callers are the smallest number of which
  both can pass the daily cap with one request left.
* Two slots for three keys make the bus evict; four publications let an entry
  be written, updated, evicted and written again, with a death in each.
* The prompt of 5 in batches of 2 leaves a last batch of one, and 5 + 3 tokens meet the
  context; the history's sizes are one that is kept, one that only the sum makes too
  long, and one that is cut.
* The daemon's lines are the token, a Jev call whose tree is just too large, and
  one whose breadth is beyond the largest int and small after the cast: with
  two of two clients each, the signal can come before, between and after any of
  them. Room for one answer makes the write of the second wait for a client that
  does not read. The largest int is 7, so that the cast and the largest depth
  cost little; the theorem has any.
* One edit of a worktree can come before, during or after its verification.
* The flat layout is the one in which teams meet in names; the team layout is
  checked by `PatchDocTask` and covered by the theorems, as is libgit2.
* Members, workers and payloads are model values. No run uses symmetry: the
  instances are small enough without it, and several check liveness.

## 4. Fairness

* Plugin (`TeamTasks!FairSpec`, `MCTeamLive!LiveSpec`): the continuations of a
  tool or a kick run, as promises settle and the lock is a queue: weak fairness
  of `RetireMember`, `FinishRemoval`, `Kick`, `Delivery`, the two handlers and
  `ReassignFinish`. `ReassignQuiet` is strongly fair: `whenIdle()` settles at
  the first moment of idleness even if the agent is woken again at once. A
  turn of a member is only assumed to end when it was interrupted; no tool is
  assumed to be called.
* Mailbox: begun calls go on, the captain polls again and again, the clock
  passes, and a fallback that is tried again and again is accepted in the end
  (strong fairness of `KickAccepted`).
* Golem's loop is synchronous, hooks return and the watchdog ends a worker:
  weak fairness of its steps.
* Judge (`JudgeFairness`): the clock passes, the watch loop runs, the drain ends, the host goes on with the result. Nothing is
  assumed of the judge or of the processes it starts.
* Sandbox (`SandboxFairness`): the run's own loop and the clock. The child may hang.
* Daemon (`DaemonFairness`): the thread goes on whenever it is not waiting.
  Its write is waiting, too. Clients need not do anything; `QueueMoves` therefore
  assumes, as its premise, that no client stays connected for ever and silent,
  or with no room for the answer that is to be written.
* Team life cycle, file loop, arena, bus, worktrees, router, engine clients, nudge loop: none.
  Nobody is obliged to call them; only safety is claimed.

In the composed runs each condition is that of its own system.

## 5. What is proved

All theorems hold for every value of the constants that satisfies the
`ASSUME` of the module, without the bounds of the runs.

**`TeamTasks_proofs`.** None of the properties is inductive by itself: that a
member has one open task depends on what a dispatch on its way may still do,
and that depends on what numbers attempts have. `Inductive` is therefore
`TypeOK`, `AttemptsInOrder` (what a task carries in each status, and that its
capability is that of its present attempt or none), `TicketsBehind` (no
dispatch is ahead of the task list), `OneOpenTask` and `DispatchOwnsItsTask`.
The proof goes: lemmas about the record operators (`BeginAttempt`,
`Invalidate`, `RolledBack`, ...); every step keeps the types; every step
changes each task in one of a few ways (`TaskSteps`, `TaskEffects`); each
conjunct is kept by each of those; then PTL. From it follow `MembersWorkAlone`,
`DispatchesAreOwned`, `ResultsArePresent`, `CapabilitiesNeverReturn`,
`TasksChangeHandsInThePool`, `ParkedAttemptsKept`,
`DeliveredCompletionsAreFinal`, and `TasksAreLeased`: the task list implements
`Leases`. Three more hold under a restriction of the environment which the
theorem states: `CompletionsAreFinal`, `RemovedMembersOwnNothing` and
`DependenciesAlwaysHold` if no member works ahead of an acknowledgement
(`"early" \notin Faults`), and `MarksHaveTheirCall` if the process does not
restart (`"crash" \notin Faults`). The findings show that the first and the
last restriction are needed.

**`PluginFiles_proofs`.** For the mailbox, `Inductive` is `TypeOK`, `InOrder` (nothing is said of a
message before it is sent, what was accepted was live) and `OneCarrier` for
every message whose lease never lapsed. From it: `NeverTwiceWithinTheLease`,
`HiddenMailHasItsCarrier`, `ReadMailWasHandedOver`, and, one lemma for each
kind of abstract step, the refinement `MailboxImplementsDelivery`, for any number
of messages, polls and restarts. For the teams, `LifeInductive` adds to the types
three groups. `Sections`: creators are alone with their captain and lock holders
alone with their team, and what a section found fresh stays so until it ends; so
`OneTeamEach` can be followed through a creation (`CaptainsLeadOneTeam`).
`ArchiveOrder`: where the last archived team of a name is while another one
moves in (`ArchivesSurvive`). `Retirement`: without overlapping calls a captain
is at one place, and what a deletion knows of its roster covers everybody the
record names when the team moves (`ArchivedMembersAreRetired`). All this for any
captains, names, calls, failures and restarts.

**`GatedTask_proofs`.** `Inductive` is `TypeOK` and three ties between the
counters of the code and what was granted: retries against rounds, chain
against depth, executions against calls and retries; and that the command line
bound now was approved. From it: `CommandsAreApproved`, `RetriesAreCapped`,
`ChainsAreCapped`, `SpawnsAreAccounted`, `StoppedLineagesStay`,
`ReportsAreHonest`, for any payloads, task ids and hosts.

**`TaskLoop_proofs`.** What the files say depends on what is on its way to
them, so `LoopInductive` adds to the three properties the order of the writes
to come: `WritesInOrder` (a record to be saved is within the bounds and of a
claimed task; a look under a lock is the owner's, at a task never claimed) and
`ChildrenFirst` (before a parent's record or its ledger line come all its
children). The proof has lemmas about ids and about lists of operations; then,
for each command and each file operation, that the list of its process is in
order afterwards (`NewList`) and that no file, lock or claim is taken back
(`Kept`); that the lists of the other processes stay in order (`OtherLists`);
and one lemma per conjunct. From it: `LineagesAreBounded`,
`TasksAreClaimedOnce`, `SplitTasksHaveChildren`, for any number of workers,
splits, commands and deaths, and any depth and breadth.

The refinement `LoopImplementsBoard` needs one thing more of what is to come,
`WritesEarned`: a line to be written is of a claimed task, and a file to be
made is the root's or that of a part of a claimed one. It is kept by the same
case distinction over commands and file operations (`StepEarned`);
`FilesMoveBoard` finds for a write of a file whether it puts a task up or
rewrites a card, and `StepMovesBoard` the step of the board for each step of
the loop.

**`SisterBus_proofs`.** All under `"openRace" \notin Faults`. `BusInv` is the
types, `OneCreator`, `OnePublisher`, `SlotIsChosen` (what a publisher knows of
its slot and of the rest of the table at each of its stores), `NumbersGrow`, `VisibleIsEntry`,
`OneSlotPerKey`. The abstract table is
full exactly when the slots are, since visible slots and entries correspond
one to one (`OneSlotPerKey` in one direction, `VisibleIsEntry` in the other);
so an eviction of a slot is an eviction of the table. Each step then is a
publication, an eviction, a corruption or a stutter: `BusImplementsTable`. `SlotsAreUnique`
is the invariant's last part. Deaths within an update in place are included;
what they spoil is a `Corruption` of the table.
`StoresStand`, what a publisher has stored at each of its places, gives
`OnlyDeathTearsSlots`.

**`HarnessParts_proofs`.** The parts of cpp-harness but the bus, each with an
invariant of its own.

* Arena. `Lineages` adds to `LineageIsCounted` the types of ids and tasks and
  that what a split made has its parent in the arena; with it a count that is
  copied to the children a split creates, raised by their own splits and kept by
  a report can be followed through each method; a task that was enqueued begins
  its own. `SplitTaskIs` says what a split
  does to the task and its children. `Counting` bounds the day's count together
  with the callers that were cleared and did not record yet. From them:
  `LineagesAreCounted`, `DayOvershootIsBounded`, and with the product below
  `ArenaIsTyped`.
* Worktrees. `Owning`: registered handles have different names, and every name
  has its branch and its tree; what a restart or a failed add leaves behind
  makes `acquire` refuse. `Holding`: what `propose` verifies is of an active
  handle while it has the mutex. `Vouching`: a patch file holds work that was
  verified, or edited during the verification that let it pass. From them: `WorktreesAreTyped`, `WorktreesAreOwned`,
  `AppliedPatchesWereVerified`. Whose work a patch is cannot be proved: that is
  the finding `PatchDocTask`.
* Sandbox. `Verifying`: while no harness reported anything but 0, as many
  earned it as are done with; a run that is under way has a harness that waits
  for it and no verdict yet. What a child reports, 124 apart, is its own
  (`ReportedIs`). From it `PassesAreEarned`.
* Nudge loop. `Nudging` ties the depth that the host counts to the prompts
  since the last reset. From it `NudgesStayWithinBudget`.
* Daemon. `StopIsNoticed` says, place by place, what the loop may still take
  before its next look at the flag; with it `StopsAfterOneMore`. `Serving` says
  that every line that is on a wire, was read or was answered is one a client
  may send, and that each answer that allows a dispatch was paid for
  (`PaidFor`). The arithmetic is `ProductIs`: the product of `n` factors `b`,
  while it does not saturate, is the number of paths of `n` children out of `b`
  (`PathsGrow`: one more factor makes each path one child longer), and one that
  does is refused; `IntsAreInt`, that the casts give an int of any number. From
  them `DispatchesArePaidFor`.

**`GolemParts_proofs`.** The parts of dsh-lite-cpp beside the gated task.

* Engine clients. `Listening`: while a call is open, what the receiver takes
  for silence is how long the wire was silent, unless only headers came; so a
  stall was one (`StallsAreSilent`). `Filling` relates the positions fed, the batch under way
  and the tokens left to the room that was asked for (`PositionsAlwaysFit`).
* Router. `Routing`: an entry's counter is the number of attempts that ended
  there (`TurnsAreCounted`), a post that sent a request read a counter that has
  not gone back since (`PostsGoOn`), and every attempt that was
  dropped for its speed had as many others beside it as the warm-up takes
  (`DropsWereSpared`). The count is the cardinality of a set of posts, so that
  posts at the same time need no order. From it `WarmUpsAreSpared`.
* Judge. `ReturnedIsReaped`: a worker that has returned is no process any
  more, and one that returned 0 in time exited with 0 (`DelegationsAreJudged`).
* History. Sizes are sums over the messages: `TotalsAre` gives the partial sums
  of `SerializedChars`. `Keeps` says of a replacement that it keeps the
  messages that are not gone, in order, with the marker in the place of the
  first that is (`ReplacedIs`, by induction over the messages);
  `CharsOfMark`, that the marker adds its own size and frame and nothing else.
  Then either the dropping stopped because the rest was within the target, and
  the marker fits into what was reserved; or all that may be dropped is gone
  (`OnlyMarksAreLeft`). `PostsFit` is stated for a reserve of no more than half
  of the budget: the code clamps it there, and with a smaller budget the
  property fails (section 6).

**`InductionLemmas`.** The provers cannot instantiate an induction rule that
takes an operator as its parameter, but they can instantiate one over a set.
`LeastElement` (from the well-founded order of the natural numbers),
`SetInduction` and `IntervalInduction` say that a set which contains the first
number, and with each number the next, contains all of them; `RecursionExists`,
that a function over an interval that is defined by recursion exists and
satisfies its equations, the steps being given as functions. `ProductIs`,
`TotalsAre` and `ReplacedIs` rest on them.

**Model-checked only.** `ReadyWorkIsTaken`, `HandoffsEnd`, `MailArrives`,
`CallsReturn`, `GateAnswers`, `VerifyEnds` and `QueueMoves` are liveness
properties under fairness, which TLAPS has no rule for here (ENABLED). Every
other property of a passing run is a theorem. The findings show why some
theorems restrict the environment or the constants. `ReadMailWasHandedOver`,
`LineagesAreBounded`, `ArenaIsTyped` and `CapabilitiesNeverReturn` state what no
run checks: they are proved only.

## 6. Findings

Each is a run that TLC ends with a counterexample; `PROJECT.json` quotes the
sentence of the code or its documentation that the run contradicts.

* `TeamDocFinal` (`scheduler.ts:250`): the rollback of a failed dispatch looks
  at the attempt id only. A member that was awake and completed the task before
  the failure is reported loses the completion.
* `TeamDocStale` (`tools.ts:781`): an update is compared with the task's attempt
  id only when the task has one. While a task waits for its next attempt in the
  name of the member that lost it (a reassignment to the same member), an update
  with the revoked id is accepted: it writes the output, and may cancel the task.
  `ResultOfPresentAttempt` says what is left: nothing of it is there when the
  next attempt begins, and no task that was worked on shows it.
* `MailboxDocRead` (`tools.ts:1029`): a member's status poll acknowledges
  messages it did not show.
* `LoopDocRequeue` (`loop.ts:839`): a task that was split can be split again
  and enqueues children under the same ids; one that was claimed before is
  queued and polled, but its lock file is never removed: no claim succeeds any more.
* `PatchDocTask` (`sandbox.cpp:301`): patch files are named after the task
  alone, also in the layout that is kept per team: one team's patch is applied
  in the name of another's task.
* `BusDocWedged` (`sister_shm.cpp:139`): the mutex of the bus is made robust
  under `#ifdef PTHREAD_MUTEX_ROBUST`, which is an enumerator and no macro with
  glibc; there a publisher that dies with the mutex stops every other one for
  good. With musl it is a macro. The other runs and the proofs have both builds.

Other places where code and comments differ, or where something is left to
luck, without a run of their own:

* Plugin: a restart between the two sections of `reassign_task` leaves the
  task marked as being reassigned, and no tool accepts it any more
  (`tools.ts:586`; the reason for the assumption of `MarksHaveTheirCall`);
  taking a parked task away from an idle member kicks the new owner only, and
  the old one may rest beside ready work (`tools.ts:623`); a captain's takeover
  does not look at dependencies (`tools.ts:612`); `remove_member` puts failed
  and cancelled tasks back into the pool (`tools.ts:789` speaks of unfinished
  ones); a handoff that outlives a cancellation revives the task
  (`tools.ts:605-612` against `types.ts:20`); a task that was started is
  dispatched anew when a running event cleared the parked mark before the idle
  event was handled (`scheduler.ts:196-206`).
* Team life cycle: a team named "archive" gets the archive directory as its own
  and can never be deleted, as it would move into itself (`state.ts:783`);
  one torn record makes the search for a team fail for every captain and
  member (`state.ts:185-187`); the two sections of a deletion identify the
  team by name and captain only, so that with overlapping calls the second one may archive a
  newer team of that name with live members (`tools.ts:1088-1095`), or members
  who were added in between (`tools.ts:1076`): why `ArchivedAreRetired` is said
  of captains that make one call at a time; a restart between spawning a
  member and recording it leaves a session that no list names (`tools.ts:345-366`).
* Golem: the bench host's undeclared ground truth passes unevaluated and is
  labelled `verified` (`golem_runner.cpp:289`); the command line passes a
  postcondition hook even when the task states nothing checkable, so that an
  exit with 0 is retried and reported as a failed verification
  (`main.cpp:422-441`, `brain.cpp:305-320`), against "no hook", "the honest
  `verified-exit-only` label" (`main.cpp:413-414`); the identity of an engine is
  everything after the scheme, the path included (`router.cpp:52`), so that the
  brain's server under another path passes as a worker's, against "the brain
  endpoint is reachable only by role brain" (`router.cpp:138`); the headers of an
  answer do not renew the receiver's stamps, so that late headers and an end of
  the stream count as "zero wire bytes" (`llm_client.cpp:287-303`; excepted in
  `AliveIsNotStalled`); an error body that
  ends with a line end is consumed as a stream line and lost for the
  classification that `llm_client.cpp:315-319` keeps it for; a compaction
  leaves at most half of the budget for its marker (`compaction.cpp:103`), so
  that with a budget below twice the marker's size (some 350 characters) the
  result is over it while messages that may be pruned remain, against
  `compaction.hpp:45`: the hypothesis of `PostsFit`; a pool of which
  one engine stalls and all others refuse the grammar ends as exhausted, not
  as a refused grammar.
* File loop: the loser of a claim may read an empty lock file (`loop.ts:240`).
* cpp-harness: the cap "across ALL sessions" (`harness.hpp:93`) is exceeded by
  callers that check before one of them records (`DayOvershootBounded` says by
  how many); after a death within an update in place a visible slot has the
  head of one publication and the value of another, or the new length over the
  old bytes, against "no torn slot is ever visible" (`sister_shm.cpp:246-248`;
  `TornByDeathOnly` says that nothing else leaves one); children "inherit the
  parent's NEW resplit_count" (`harness.hpp:704-705`) unless they were enqueued
  before the parent was split, in which case they keep their own
  (`middleware.cpp:631`): a chain of splits through such children is longer than
  `MAX_RESPLITS`; an edit between the verification of a worktree and its diff
  (`sandbox.cpp:265`, `276`) is in the patch, against "no patch" for red work
  (`harness.hpp:544-546`; `AppliedWasVerified` says that nothing else gets there
  unverified); the daemon casts breadth and depth to `int`
  (`harnessd.cpp:143-145`), so that a breadth of 2^32 + 1 is taken for 1 and
  allowed, and the estimate adds 1 to the largest depth in an `int`
  (`harness.hpp:378`, against "no signed-UB", `372-375`), which may count no
  level at all and allow the dispatch: the property speaks of the numbers after
  the cast and excepts that depth; one client that does not read its answers
  stops the daemon in `write` (`harnessd.cpp:79-87`) as a silent one does in
  `read`; the creator of the segment sets
  the magic (`sister_shm.cpp:130`) before it initialises the mutex, so that an
  opener in between locks a mutex that is initialised again (fault `openRace`,
  the reason for the assumption of `SisterBus_proofs`); `poll` is documented to
  re-prompt a task that stalled or yielded (`harness.hpp:473-477`), but
  re-prompts one that was heard of in time as well.

## 7. Not modelled

* Members and models, snapshot, events, the `/teams` command and the panel:
  configuration, projections and user interfaces without a state of their own.
* Golem's payload gate and postconditions: pure functions of JSON and files,
  which `GatedTask` has as sets of payloads and a verdict. Ledger, usage probe,
  sanitizer, grammar, `toResultVector`: formatting. The command line and the
  bench host: in `GatedTask` as kinds of host. A planner that throws and the
  detection of repeated output are left out of `GatedTask`.
* File loop: the judge and Jev helpers (an HTTP answer becomes a verdict,
  which is an input of `TaskLoop`), model assignments, dotted `enqueue` by users.
* cpp-harness: a `day_used` so near the largest `long` that the estimate added to
  it overflows, and the products of a negative breadth below the smallest one; the demo, the TypeScript proxy, truncated answers; the state
  "stale" and the text of patches in the worktree manager; partitions of the bus, which
  are disjoint.
* Layered memory, benchmarks, scripts, skills, presets, docs: short sequential
  functions and prose.

What would add most next: the mail inside `TeamTasks` instead of `KickMail`;
the opening of the bus as a property of its own, once the order of magic and
mutex is settled.
