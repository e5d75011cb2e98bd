------------------------------ MODULE TeamTasks ------------------------------
(***************************************************************************)
(* The shared task list of an AgentTeams team (plugin/src): the tools of   *)
(* tools.ts, the task rules of state.ts and the scheduler of scheduler.ts. *)
(*                                                                         *)
(* A team is one durable record (team.json), read and written under an     *)
(* in-process lock, so every locked section is one action here; what a     *)
(* tool does outside the lock (a delivery, a wait for an agent to become   *)
(* idle) is another action, and anything may happen in between.            *)
(***************************************************************************)
EXTENDS Naturals, FiniteSets

CONSTANTS
  Member,       \* member names; a name is used once in the life of a team
  Captain,      \* the key of the owning session (CAPTAIN_KEY)
  None,         \* JavaScript's undefined
  Call,         \* reassign_task calls that can be in flight at one time
  MaxMembers,   \* config.maxMembers
  MaxTasks,     \* bound: tasks created in the life of the team
  MaxAttempts,  \* bound: attempts begun on one task
  Faults        \* what the environment may do, a subset of FaultKind

(***************************************************************************)
(* "delivery"  the harness may reject a follow-up turn                     *)
(* "abort"     a tool's wait for an idle agent may be aborted              *)
(* "away"      the captain's agent may be gone when a kick is served       *)
(* "early"     a member may work on an attempt whose dispatch has not been *)
(*             acknowledged (it was awake and read the task list)          *)
(* "crash"     the process may restart                                     *)
(***************************************************************************)
FaultKind == {"delivery", "abort", "away", "early", "crash"}

ASSUME TeamAssumption ==
  /\ MaxTasks \in Nat /\ MaxAttempts \in Nat /\ MaxMembers \in Nat
  /\ Captain \notin Member /\ None \notin Member \cup {Captain} \cup Call
  /\ Faults \subseteq FaultKind

VARIABLES
  tasks,     \* team.json: the task list
  taskSeq,   \* team.json: tasks created so far
  members,   \* team.json: who is on the team
  retired,   \* retired-members.json: sessions that may not be resumed
  parked,    \* scheduler memory: the capability a member went idle with
  kicks,     \* scheduler memory: members with a queued kickMember
  tickets,   \* scheduler memory: the delivery a kick is waiting for
  handoffs,  \* reassign_task calls between their two locked sections
  leaving,   \* members whose remove_member call has not returned
  agents,    \* the harness: each member's agent, "running" a turn or not
             \* ("resting": idle, or not resident at all)
  edges      \* agent/status events whose handler has not run

durable  == <<tasks, taskSeq, members, retired>>
volatile == <<parked, kicks, tickets, handoffs, leaving>>
vars     == <<durable, volatile, agents, edges>>

-----------------------------------------------------------------------------
TaskId   == 1 .. MaxTasks
Status   == {"absent", "pending", "claimed", "in_progress",
             "completed", "failed", "cancelled"}
Terminal == {"completed", "failed", "cancelled"}
Owner    == Member \cup {Captain, None}

(***************************************************************************)
(* attemptId and handoffId are random identifiers in the code. An attempt  *)
(* id is drawn exactly when attempt grows, so its number within the task   *)
(* identifies it (0 is undefined); a handoff id is only ever compared by   *)
(* the call that drew it, so that call identifies it. wroteAs stands for   *)
(* the result: the attempt presented with the last update that wrote the   *)
(* status or the output, since the output was last cleared.                *)
(***************************************************************************)
Task == [status : Status, assignee : Owner, dependencies : SUBSET TaskId,
         attempt : Nat, attemptId : Nat, handoffId : Call \cup {None},
         reassigning : BOOLEAN, wroteAs : Nat]

NoTask == [status |-> "absent", assignee |-> None, dependencies |-> {},
           attempt |-> 0, attemptId |-> 0, handoffId |-> None,
           reassigning |-> FALSE, wroteAs |-> 0]

\* A parked capability: task and attempt, or NoCapability.
NoCapability == <<0, 0>>
Parked       == {NoCapability} \cup TaskId \X (Nat \ {0})

\* The dispatch a served kick waits for (DispatchTicket), task 0 when none.
NoTicket == [task |-> 0, attempt |-> 0, previous |-> None]
Ticket   == {NoTicket} \cup
            [task : TaskId, attempt : Nat \ {0}, previous : Owner]

\* A reassign_task call: its task, its target and the worker it waits for.
NoHandoff == [task |-> 0, target |-> None, worker |-> None]
Handoff   == {NoHandoff} \cup
             [task : TaskId, target : Member \cup {Captain},
              worker : Member \cup {None}]

-----------------------------------------------------------------------------
Active == {m \in Member : members[m] = "active"}

IsOpen(t) == tasks[t].status \in {"claimed", "in_progress"}

Owned(who) == {t \in TaskId : tasks[t].assignee = who /\ IsOpen(t)}

\* unsatisfiedDependencies(...).length === 0
DependenciesMet(t) ==
  \A d \in tasks[t].dependencies : tasks[d].status = "completed"

ReadyFor_blocked(who) ==
  {t \in TaskId : /\ tasks[t].status = "pending"
                  /\ tasks[t].assignee = who
                  /\ ~tasks[t].reassigning}

\* nextReadyTask: the candidates assigned to who
ReadyFor(who) ==
  {t \in TaskId : /\ tasks[t].status = "pending"
                  /\ tasks[t].assignee = who
                  /\ ~tasks[t].reassigning
                  /\ DependenciesMet(t)}

Busy_ignored(who, t) == FALSE

\* memberOpenTask(team, who, t): who has an open task other than t.
Busy(who, t) == Owned(who) \ {t} # {}

\* Array.prototype.find: the first match in creation order.
IsFirst(t, S) == t \in S /\ \A u \in S : t <= u

\* TASK_TRANSITIONS, without the step to the same status.
Transition ==
  {<<"pending", "claimed">>, <<"pending", "cancelled">>,
   <<"claimed", "in_progress">>, <<"claimed", "failed">>,
   <<"claimed", "cancelled">>, <<"in_progress", "completed">>,
   <<"in_progress", "failed">>, <<"in_progress", "cancelled">>}

\* beginTaskAttempt and activateTaskAttempt
BeginAttempt(task, who) ==
  [task EXCEPT !.status = "claimed", !.assignee = who,
               !.attempt = @ + 1, !.attemptId = task.attempt + 1,
               !.handoffId = None, !.reassigning = FALSE, !.wroteAs = 0]

Invalidate_keepsMark(task, next, call) ==
  [task EXCEPT !.status = "pending", !.assignee = next, !.attemptId = 0,
               !.handoffId = call, !.reassigning = @ \/ (call # None),
               !.wroteAs = 0]

\* invalidateTaskAttempt; call is None when nobody will look at handoffId
Invalidate(task, next, call) ==
  [task EXCEPT !.status = "pending", !.assignee = next, !.attemptId = 0,
               !.handoffId = call, !.reassigning = (call # None),
               !.wroteAs = 0]

\* The task create_task adds, a task with a new state, a task whose handoff
\* is over, and one whose dispatch failed.
Created(deps, who) ==
  [NoTask EXCEPT !.status = "pending", !.assignee = who,
                 !.dependencies = deps]

Moved(task, status, id) == [task EXCEPT !.status = status, !.wroteAs = id]

HandedOver(task) == [task EXCEPT !.reassigning = FALSE]

RolledBack(task, who) ==
  [task EXCEPT !.status = "pending", !.assignee = who, !.attemptId = 0,
               !.handoffId = None, !.reassigning = FALSE]

\* The bound on attempts: a step that begins one, or a takeover that is going
\* to, is taken only below it.
CanBegin(t) == tasks[t].attempt < MaxAttempts

\* A started turn: the agent runs, and says so when it was not running.
Wake(m) ==
  /\ agents' = [agents EXCEPT ![m] = "running"]
  /\ edges' = IF agents[m] = "running" THEN edges
              ELSE [edges EXCEPT ![m] = @ \cup {"running"}]

-----------------------------------------------------------------------------
Init ==
  /\ tasks = [t \in TaskId |-> NoTask]
  /\ taskSeq = 0
  /\ members = [m \in Member |-> "absent"]
  /\ retired = {}
  /\ parked = [m \in Member |-> NoCapability]
  /\ kicks = {}
  /\ tickets = [m \in Member |-> NoTicket]
  /\ handoffs = [c \in Call |-> NoHandoff]
  /\ leaving = {}
  /\ agents = [m \in Member |-> "resting"]
  /\ edges = [m \in Member |-> {}]

-----------------------------------------------------------------------------
(* The captain's tools                                                     *)

\* agent_teams_add_member: spawn with a welcome turn, record, kick.
AddMember(m) ==
  /\ members[m] = "absent"
  /\ Cardinality(Active) < MaxMembers
  /\ members' = [members EXCEPT ![m] = "active"]
  /\ kicks' = kicks \cup {m}
  /\ Wake(m)
  /\ UNCHANGED <<tasks, taskSeq, retired, parked, tickets, handoffs,
                 leaving>>

Requeued_openOnly(m, t) == t \in Owned(m)

\* The tasks remove_member takes back: all of the member's but completed ones.
Requeued(m, t) == tasks[t].assignee = m /\ tasks[t].status # "completed"

\* agent_teams_remove_member, the locked section.
RemoveMember(m) ==
  /\ members[m] = "active"
  /\ tasks' = [t \in TaskId |->
                 IF Requeued(m, t)
                   THEN Invalidate(tasks[t], None, None)
                   ELSE tasks[t]]
  /\ members' = [members EXCEPT ![m] = "removed"]
  /\ leaving' = leaving \cup {m}
  /\ UNCHANGED <<taskSeq, retired, parked, kicks, tickets, handoffs,
                 agents, edges>>

\* ... recordRetiredMemberIds, then the interrupt ...
RetireMember(m) ==
  /\ m \in leaving \ retired
  /\ retired' = retired \cup {m}
  /\ UNCHANGED <<tasks, taskSeq, members, volatile, agents, edges>>

FinishRemoval_noKick(m) ==
  /\ m \in leaving \cap retired
  /\ agents[m] # "running"
  /\ leaving' = leaving \ {m}
  /\ UNCHANGED <<durable, parked, kicks, tickets, handoffs, agents, edges>>

\* ... and after the member is idle the team is kicked. An aborted wait
\* ends the call with no kick.
FinishRemoval(m) ==
  /\ m \in leaving \cap retired
  /\ \/ agents[m] # "running" /\ kicks' = kicks \cup Active
     \/ "abort" \in Faults /\ kicks' = kicks
  /\ leaving' = leaving \ {m}
  /\ UNCHANGED <<durable, parked, tickets, handoffs, agents, edges>>

\* agent_teams_create_task
CreateTask(deps, who) ==
  /\ taskSeq < MaxTasks
  /\ deps \subseteq 1 .. taskSeq
  /\ who \in Active \cup {None}
  /\ taskSeq' = taskSeq + 1
  /\ tasks' = [tasks EXCEPT ![taskSeq + 1] = Created(deps, who)]
  /\ kicks' = kicks \cup Active
  /\ UNCHANGED <<members, retired, parked, tickets, handoffs, leaving,
                 agents, edges>>

Revocable_anyStatus(t) == tasks[t].status # "absent"

\* What reassign_task accepts: any task but a completed one, once at a time.
Revocable(t) == /\ tasks[t].status \notin {"absent", "completed"}
                /\ ~tasks[t].reassigning

\* agent_teams_reassign_task, first locked section: revoke, then interrupt
\* the member that was working on the task.
ReassignBegin(c, t, target) ==
  /\ handoffs[c] = NoHandoff
  /\ Revocable(t)
  /\ target \in Active \cup {Captain}
  /\ IF target = Captain THEN CanBegin(t) ELSE ~Busy(target, t)
  /\ tasks' = [tasks EXCEPT ![t] = Invalidate(@, target, c)]
  /\ handoffs' = [handoffs EXCEPT ![c] =
       [task |-> t, target |-> target,
        worker |-> IF IsOpen(t) /\ tasks[t].assignee \in Active
                     THEN tasks[t].assignee ELSE None]]
  /\ UNCHANGED <<taskSeq, members, retired, parked, kicks, tickets,
                 leaving, agents, edges>>

\* The newer-state check at the head of the second locked section.
StillOurs(c) ==
  LET h == handoffs[c] task == tasks[h.task]
  IN task.handoffId = c /\ task.assignee = h.target /\ task.reassigning

\* waitForMemberIdle returned; the worker may be woken again before the lock.
ReassignQuiet(c) ==
  /\ handoffs[c].worker # None
  /\ agents[handoffs[c].worker] # "running"
  /\ handoffs' = [handoffs EXCEPT ![c].worker = None]
  /\ UNCHANGED <<durable, parked, kicks, tickets, leaving, agents, edges>>

ReassignFinish_insists(c) ==
  LET h == handoffs[c] IN
  /\ h # NoHandoff /\ h.worker = None
  /\ StillOurs(c)
  /\ handoffs' = [handoffs EXCEPT ![c] = NoHandoff]
  /\ IF h.target = Captain
       THEN /\ tasks' = [tasks EXCEPT ![h.task] = BeginAttempt(@, Captain)]
            /\ UNCHANGED kicks
       ELSE /\ tasks' = [tasks EXCEPT ![h.task] = HandedOver(@)]
            /\ kicks' = kicks \cup {h.target}
  /\ UNCHANGED <<taskSeq, members, retired, parked, tickets, leaving,
                 agents, edges>>

\* Second locked section: a captain takeover starts its attempt at once, a
\* member is kicked.
ReassignFinish(c) ==
  LET h == handoffs[c] IN
  /\ h # NoHandoff /\ h.worker = None
  /\ handoffs' = [handoffs EXCEPT ![c] = NoHandoff]
  /\ IF ~StillOurs(c)
       THEN UNCHANGED <<tasks, kicks>>
       ELSE IF h.target = Captain
         THEN /\ tasks' = [tasks EXCEPT ![h.task] = BeginAttempt(@, Captain)]
              /\ UNCHANGED kicks
         ELSE /\ tasks' = [tasks EXCEPT ![h.task] = HandedOver(@)]
              /\ kicks' = kicks \cup {h.target}
  /\ UNCHANGED <<taskSeq, members, retired, parked, tickets, leaving,
                 agents, edges>>

\* Second locked section after the wait was aborted: the handoff is closed,
\* no attempt is begun, nobody is kicked.
ReassignAborted(c) ==
  LET h == handoffs[c] IN
  /\ "abort" \in Faults
  /\ h.worker # None
  /\ handoffs' = [handoffs EXCEPT ![c] = NoHandoff]
  /\ tasks' = IF StillOurs(c)
                THEN [tasks EXCEPT ![h.task] = HandedOver(@)]
                ELSE tasks
  /\ UNCHANGED <<taskSeq, members, retired, parked, kicks, tickets,
                 leaving, agents, edges>>

\* agent_teams_status called by the captain kicks the team.
CaptainStatus ==
  /\ kicks' = kicks \cup Active
  /\ UNCHANGED <<durable, parked, tickets, handoffs, leaving, agents, edges>>

-----------------------------------------------------------------------------
(* Tools the captain and the members share                                 *)

Claimable_again(t) == tasks[t].status \in {"pending", "claimed"}

\* transitionError(status, "claimed"): on an open task claim_task returns the
\* present attempt to its owner and changes nothing.
Claimable(t) == tasks[t].status = "pending"

\* agent_teams_claim_task
ClaimFor(t, who) ==
  /\ Claimable(t)
  /\ ~tasks[t].reassigning
  /\ DependenciesMet(t)
  /\ ~Busy(who, t)
  /\ CanBegin(t)
  /\ tasks' = [tasks EXCEPT ![t] = BeginAttempt(@, who)]
  /\ UNCHANGED <<taskSeq, members, retired, volatile, agents, edges>>

CaptainClaim(t, who) ==
  /\ who \in Active \/ (who = tasks[t].assignee /\ who # None)
  /\ ClaimFor(t, who)

MemberClaim(m, t) ==
  /\ m \in Active /\ agents[m] = "running"
  /\ tasks[t].assignee \in {None, m}
  /\ ClaimFor(t, m)

\* What update_task may make of the status: the one it has, when only the
\* output is written, or a next one, which is never "claimed".
Writable(t, status) ==
  /\ tasks[t].status \notin Terminal \cup {"absent"}
  /\ \/ status = tasks[t].status
     \/ <<tasks[t].status, status>> \in Transition /\ status # "claimed"

\* agent_teams_update_task; id is the attempt_id the caller presents. A result
\* may only be repeated. The team is kicked afterwards.
UpdateStatus(t, status, id) ==
  /\ \/ /\ Writable(t, status)
        /\ tasks' = [tasks EXCEPT ![t] = Moved(@, status, id)]
     \/ /\ tasks[t].status \in Terminal /\ status = tasks[t].status
        /\ UNCHANGED tasks
  /\ kicks' = kicks \cup Active
  /\ UNCHANGED <<taskSeq, members, retired, parked, tickets, handoffs,
                 leaving, agents, edges>>

CaptainUpdate(t, status) ==
  /\ tasks[t].assignee \in {None, Captain}
  /\ UpdateStatus(t, status, tasks[t].attemptId)

\* The dispatch of t's present attempt to m has not been acknowledged.
Undelivered(m, t) ==
  /\ tickets[m].task = t
  /\ tickets[m].attempt = tasks[t].attemptId

CapabilityAccepted_always(t, id) == TRUE

\* A member can have seen any attempt id the task has had: they are in the
\* status snapshot. 0 is none. A task that waits has none to compare with.
CapabilityAccepted(t, id) == tasks[t].attemptId # 0 => id = tasks[t].attemptId

MemberUpdate(m, t, status, id) ==
  /\ m \in Active /\ agents[m] = "running"
  /\ tasks[t].assignee = m
  /\ CapabilityAccepted(t, id)
  /\ Undelivered(m, t) => "early" \in Faults
  /\ UpdateStatus(t, status, id)

\* agent_teams_send_message to a member, accepted as its next turn. A
\* message that is not accepted stays in the mailbox (module Mailbox).
SendMessage(m) ==
  /\ m \in Active
  /\ Wake(m)
  /\ UNCHANGED <<durable, volatile>>

-----------------------------------------------------------------------------
(* The scheduler: kickMember, serialized per member                        *)

Served(m) == m \in kicks /\ tickets[m] = NoTicket

\* isMemberAvailable, for a member still on the team
Available(m) == m \in Active /\ agents[m] # "running"

Recovered_always(m, t) == TRUE

\* recoverOwned: the open task m owns is not the one it is parked with.
Recovered(m, t) ==
  tasks[t].attemptId = 0 \/ <<t, tasks[t].attemptId>> # parked[m]

\* The task a kick dispatches to m: an owned one to recover, else, when it
\* owns none, the first ready one, its own before the unassigned ones.
Selected(m, t) ==
  \/ IsFirst(t, Owned(m)) /\ Recovered(m, t)
  \/ Owned(m) = {} /\ IsFirst(t, ReadyFor(m))
  \/ /\ Owned(m) = {} /\ ReadyFor(m) = {}
     /\ IsFirst(t, ReadyFor(None))

\* The early returns: unavailable, nothing to do, or no captain to deliver.
KickSkips(m) ==
  /\ Served(m)
  /\ \/ ~Available(m)
     \/ \A t \in TaskId : ~Selected(m, t)
     \/ "away" \in Faults
  /\ kicks' = kicks \ {m}
  /\ UNCHANGED <<durable, parked, tickets, handoffs, leaving, agents, edges>>

\* Unread mail comes first: a kick that finds some delivers it, and that is
\* all it does. Mail is left unread only when a delivery failed.
KickMail(m) ==
  /\ Faults \cap {"delivery", "away", "crash"} # {}
  /\ Served(m) /\ Available(m)
  /\ kicks' = kicks \ {m}
  /\ Wake(m) \/ UNCHANGED <<agents, edges>>
  /\ UNCHANGED <<durable, parked, tickets, handoffs, leaving>>

\* The atomic claim of the scheduler.
KickClaim(m, t) ==
  /\ Served(m) /\ Available(m)
  /\ Selected(m, t)
  /\ CanBegin(t)
  /\ kicks' = kicks \ {m}
  /\ tasks' = [tasks EXCEPT ![t] = BeginAttempt(@, m)]
  /\ parked' = [parked EXCEPT ![m] = NoCapability]
  /\ tickets' = [tickets EXCEPT ![m] =
       [task |-> t, attempt |-> tasks[t].attempt + 1,
        previous |-> tasks[t].assignee]]
  /\ UNCHANGED <<taskSeq, members, retired, handoffs, leaving, agents,
                 edges>>

\* deliverToMember: the harness accepts the follow-up and the member runs.
DeliveryAccepted(m) ==
  /\ tickets[m] # NoTicket /\ m \notin retired
  /\ tickets' = [tickets EXCEPT ![m] = NoTicket]
  /\ Wake(m)
  /\ UNCHANGED <<durable, parked, kicks, handoffs, leaving>>

\* The dispatch is undone when the task still carries its attempt id.
Rollback(m) ==
  LET ticket == tickets[m] IN
  [t \in TaskId |->
     IF t = ticket.task /\ tasks[t].attemptId = ticket.attempt
       THEN RolledBack(tasks[t], ticket.previous)
       ELSE tasks[t]]

\* deliverToMember returned false: followup threw, or the retired guard did.
DeliveryRejected(m) ==
  /\ tickets[m] # NoTicket
  /\ "delivery" \in Faults \/ m \in retired
  /\ tasks' = Rollback(m)
  /\ tickets' = [tickets EXCEPT ![m] = NoTicket]
  /\ UNCHANGED <<taskSeq, members, retired, parked, kicks, handoffs, leaving,
                 agents, edges>>

\* syncMemberStatus: a running agent is not parked, an idle one is parked
\* with the open attempt it owns and is kicked. Handlers of two events may
\* reach the lock in either order.
SyncRunning(m) ==
  /\ "running" \in edges[m]
  /\ edges' = [edges EXCEPT ![m] = @ \ {"running"}]
  /\ parked' = [parked EXCEPT ![m] = NoCapability]
  /\ UNCHANGED <<durable, kicks, tickets, handoffs, leaving, agents>>

SyncIdle(m) ==
  /\ "idle" \in edges[m]
  /\ edges' = [edges EXCEPT ![m] = @ \ {"idle"}]
  /\ IF m \notin Active
       THEN /\ parked' = [parked EXCEPT ![m] = NoCapability]
            /\ UNCHANGED kicks
       ELSE /\ \/ /\ Owned(m) = {}
                  /\ parked' = [parked EXCEPT ![m] = NoCapability]
               \/ \E t \in TaskId :
                    /\ IsFirst(t, Owned(m))
                    /\ parked' = [parked EXCEPT ![m] =
                         IF tasks[t].attemptId = 0 THEN NoCapability
                         ELSE <<t, tasks[t].attemptId>>]
            /\ kicks' = kicks \cup {m}
  /\ UNCHANGED <<durable, tickets, handoffs, leaving, agents>>

-----------------------------------------------------------------------------
(* The harness                                                             *)

TurnEnds(m) ==
  /\ agents[m] = "running"
  /\ agents' = [agents EXCEPT ![m] = "resting"]
  /\ edges' = [edges EXCEPT ![m] = @ \cup {"idle"}]
  /\ UNCHANGED <<durable, volatile>>

\* The process restarts: files survive, memory and agents do not.
Restart ==
  /\ "crash" \in Faults
  /\ parked' = [m \in Member |-> NoCapability]
  /\ kicks' = {}
  /\ tickets' = [m \in Member |-> NoTicket]
  /\ handoffs' = [c \in Call |-> NoHandoff]
  /\ leaving' = {}
  /\ agents' = [m \in Member |-> "resting"]
  /\ edges' = [m \in Member |-> {}]
  /\ UNCHANGED <<tasks, taskSeq, members, retired>>

-----------------------------------------------------------------------------
CaptainStep ==
  \/ \E m \in Member : AddMember(m) \/ RemoveMember(m)
  \/ \E deps \in SUBSET TaskId, who \in Owner : CreateTask(deps, who)
  \/ \E c \in Call, t \in TaskId, target \in Member \cup {Captain} :
       ReassignBegin(c, t, target)
  \/ \E t \in TaskId, who \in Owner : CaptainClaim(t, who)
  \/ \E t \in TaskId, status \in Status : CaptainUpdate(t, status)
  \/ CaptainStatus

MemberStep ==
  \E m \in Member :
    \/ \E t \in TaskId : MemberClaim(m, t)
    \/ \E t \in TaskId, status \in Status : \E id \in 0 .. tasks[t].attempt :
         MemberUpdate(m, t, status, id)
    \/ SendMessage(m)

\* What the plugin does by itself once a tool call or an event set it off.
PluginStep ==
  \/ \E m \in Member :
       \/ RetireMember(m) \/ FinishRemoval(m)
       \/ KickSkips(m) \/ KickMail(m)
       \/ \E t \in TaskId : KickClaim(m, t)
       \/ DeliveryAccepted(m) \/ DeliveryRejected(m)
       \/ SyncRunning(m) \/ SyncIdle(m)
  \/ \E c \in Call : ReassignQuiet(c) \/ ReassignFinish(c)
                     \/ ReassignAborted(c)

HarnessStep == Restart \/ \E m \in Member : TurnEnds(m)

Next == CaptainStep \/ MemberStep \/ PluginStep \/ HarnessStep

Spec == Init /\ [][Next]_vars

-----------------------------------------------------------------------------
(* Fairness. The plugin's own continuations run: the promises it awaits    *)
(* settle and its locks are queues. whenIdle() settles even if the agent   *)
(* is woken again, so a wait needs only a moment of idleness. A turn is    *)
(* only assumed to end when it was interrupted.                            *)
Kick(m) == KickSkips(m) \/ KickMail(m) \/ \E t \in TaskId : KickClaim(m, t)

Delivery(m) == DeliveryAccepted(m) \/ DeliveryRejected(m)

InterruptedTurnEnds(m) ==
  /\ m \in retired \/ \E c \in Call : handoffs[c].worker = m
  /\ TurnEnds(m)

Fairness ==
  /\ \A m \in Member :
       /\ WF_vars(RetireMember(m)) /\ WF_vars(FinishRemoval(m))
       /\ WF_vars(Kick(m)) /\ WF_vars(Delivery(m))
       /\ WF_vars(SyncRunning(m)) /\ WF_vars(SyncIdle(m))
       /\ WF_vars(InterruptedTurnEnds(m))
  /\ \A c \in Call : SF_vars(ReassignQuiet(c)) /\ WF_vars(ReassignFinish(c))

FairSpec == Spec /\ Fairness

-----------------------------------------------------------------------------
(* Invariants                                                              *)

\* Every variable has its type.
TypeOK ==
  /\ tasks \in [TaskId -> Task]
  /\ taskSeq \in 0 .. MaxTasks
  /\ members \in [Member -> {"absent", "active", "removed"}]
  /\ retired \subseteq Member /\ kicks \subseteq Member
  /\ leaving \subseteq Member
  /\ parked \in [Member -> Parked]
  /\ tickets \in [Member -> Ticket]
  /\ handoffs \in [Call -> Handoff]
  /\ agents \in [Member -> {"resting", "running"}]
  /\ edges \in [Member -> SUBSET {"running", "idle"}]

\* A member never owns two unfinished tasks, whichever of the scheduler,
\* claim_task and reassign_task gave them to it (memberOpenTask and
\* ownedOpenTask are checked at different moments by each).
OneOpenTask ==
  \A m \in Member : \A t, u \in Owned(m) : t = u

\* A dispatch on its way to a member is of a task that member holds, freshly
\* claimed, or it has been revoked: a rollback never takes a task from
\* somebody else ("Roll back only our exact failed dispatch").
DispatchOwnsItsTask ==
  \A m \in Member, t \in TaskId :
    Undelivered(m, t) =>
      /\ tasks[t].assignee = m
      /\ tickets[m].previous \in {m, None}
      /\ "early" \in Faults \/ tasks[t].status = "claimed"

\* A member that was removed is left with completed tasks only: nothing can
\* be stranded on a name nobody will ever dispatch to again.
RemovedOwnNothing ==
  \A t \in TaskId :
    tasks[t].assignee \in Member \ Active => tasks[t].status = "completed"

\* Every task a member has in hand has all its dependencies completed. A
\* captain takeover does not look at them, so nothing is said of the captain.
DependenciesHold ==
  \A m \in Member : \A t \in Owned(m) : DependenciesMet(t)

\* A task is marked as being reassigned only while the reassign_task call
\* that will clear the mark is in flight (types.ts: "A handoff is quiescing
\* the old owner; the scheduler must not dispatch it yet").
ReassigningHasItsCall ==
  \A t \in TaskId :
    tasks[t].reassigning =>
      \E c \in Call : handoffs[c].task = t /\ StillOurs(c)

\* What a task that is or was worked on says, its status and its output, was
\* written with the capability of its present attempt, after that began: an
\* interrupted worker may still write to a task that waits, which has no
\* capability to compare with, and may cancel it, but nothing of that is left
\* when the next attempt begins.
ResultOfPresentAttempt ==
  \A t \in TaskId :
    /\ tasks[t].status \in {"claimed", "in_progress", "completed", "failed"} =>
         tasks[t].attemptId = tasks[t].attempt
    /\ tasks[t].status = "claimed" => tasks[t].wroteAs \in {0, tasks[t].attempt}
    /\ tasks[t].status \in Terminal \cup {"in_progress"} =>
         \/ tasks[t].wroteAs = tasks[t].attempt
         \/ tasks[t].status = "cancelled" /\ tasks[t].attemptId = 0

\* tools.ts:736 says "stale attempts are rejected after takeover/reassignment":
\* an update that is accepted presents the capability of the task, or none.
StaleIsRejected ==
  [][\A t \in TaskId :
       tasks'[t].wroteAs \in {0, tasks[t].wroteAs, tasks[t].attemptId}]_vars

\* A task carries the capability of its present attempt or none at all; one
\* that is worked on or was worked to an end carries it, one that waits does
\* not; one that is being reassigned is not worked on.
InOrder(task) ==
  /\ task.attemptId \in {0, task.attempt}
  /\ task.status \in {"absent", "pending"} => task.attemptId = 0
  /\ task.status \in {"claimed", "in_progress", "completed", "failed"} =>
       task.attemptId # 0
  /\ task.status = "claimed" => task.wroteAs \in {0, task.attempt}
  /\ task.status \in {"in_progress", "completed", "failed"} =>
       task.wroteAs = task.attempt
  /\ task.status = "cancelled" /\ task.attemptId # 0 =>
       task.wroteAs = task.attempt
  /\ task.reassigning => task.status \in {"pending", "cancelled"}

AttemptsInOrder ==
  \A t \in TaskId : InOrder(tasks[t]) /\ (t > taskSeq => tasks[t] = NoTask)

\* No delivery is ahead of the task list.
TicketsBehind ==
  \A m \in Member :
    tickets[m] # NoTicket =>
      tickets[m].attempt <= tasks[tickets[m].task].attempt

\* The invariants above that need no assumption on the environment, made
\* inductive.
Inductive ==
  /\ TypeOK /\ AttemptsInOrder /\ TicketsBehind
  /\ OneOpenTask /\ DispatchOwnsItsTask

-----------------------------------------------------------------------------
(* What a step may never do                                                *)

\* A completed task stays completed ("Terminal results are immutable").
CompletedIsFinal ==
  [][\A t \in TaskId : tasks[t].status = "completed" =>
                        tasks'[t].status = "completed"]_vars

\* ... even when members run ahead of the acknowledgement of their dispatch,
\* once that dispatch has been acknowledged.
DeliveredCompletionIsFinal ==
  [][\A t \in TaskId :
       (/\ tasks[t].status = "completed"
        /\ \A m \in Member : ~Undelivered(m, t)) =>
       tasks'[t].status = "completed"]_vars

\* A revoked capability never becomes valid again: an attempt id that
\* appears on a task was never there before.
CapabilityNeverReturns ==
  [][\A t \in TaskId :
       tasks'[t].attemptId \in {0, tasks[t].attemptId}
         \/ tasks'[t].attemptId > tasks[t].attempt]_vars

\* An open attempt changes hands only by way of the pool: no step takes it
\* from its owner and gives it to another.
NoDirectTakeover ==
  [][\A t \in TaskId :
       IsOpen(t) /\ tasks'[t].status \in {"claimed", "in_progress"} =>
         tasks'[t].assignee = tasks[t].assignee]_vars

\* The attempt a member is parked with is not rotated under it: it can only
\* be taken back as a whole (scheduler.ts: "only an explicit captain
\* reassignment may rotate that capability").
ParkedAttemptKept ==
  [][\A m \in Member, t \in TaskId :
       /\ parked[m] = <<t, tasks[t].attemptId>>
       /\ t \in Owned(m)
       /\ tasks'[t].status \in {"claimed", "in_progress"}
       => tasks'[t].attemptId = tasks[t].attemptId]_vars

-----------------------------------------------------------------------------
(* What the task list promises, in the abstract                            *)

\* The open attempts are the leases of module Leases, numbered by attempt.
Lease == INSTANCE Leases WITH
  Task <- TaskId, Holder <- Member \cup {Captain}, Exclusive <- Member,
  Nobody <- None,
  held <- [t \in TaskId |-> IF IsOpen(t) THEN tasks[t].assignee ELSE None],
  grants <- [t \in TaskId |-> tasks[t].attempt]

\* The task list implements Leases: tools, scheduler, rollbacks and restarts
\* grant, end and renew attempts as leases.
ImplementsLeases == Lease!Spec

-----------------------------------------------------------------------------
(* Liveness                                                                *)

\* m has nothing to do, t waits for somebody like m, and the bound on
\* attempts is not what keeps them apart.
IdleBeside(m, t) ==
  /\ Available(m) /\ Owned(m) = {} /\ tickets[m] = NoTicket
  /\ t \in ReadyFor(m) \cup ReadyFor(None)
  /\ \A u \in ReadyFor(m) \cup ReadyFor(None) : CanBegin(u)

\* No member idles forever beside a ready task, though nobody polls
\* ("Idle members with no open task are automatically reused for ready
\* work").
ReadyWorkIsTaken ==
  \A m \in Member, t \in TaskId : IdleBeside(m, t) ~> ~IdleBeside(m, t)

\* Every reassignment ends.
HandoffsEnd ==
  \A c \in Call : handoffs[c] # NoHandoff ~> handoffs[c] = NoHandoff
=============================================================================
