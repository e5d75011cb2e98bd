-------------------------- MODULE TeamTasks_proofs --------------------------
(* Theorems about TeamTasks, for any number of members, tasks and calls. *)
EXTENDS TeamTasks, TLAPS

-----------------------------------------------------------------------------
(* What the operators on one task record return                            *)

\* The states and owners the operators assign are states and owners.
LEMMA StatusAndOwner ==
  /\ "claimed" \in Status /\ "pending" \in Status
  /\ Member \cup {Captain, None} \subseteq Owner
  BY DEF Status, Owner

\* A begun attempt is a claimed task of who, with a fresh attempt id.
LEMMA BeginAttemptIs ==
  ASSUME NEW task \in Task, NEW who \in Owner
  PROVE  LET new == BeginAttempt(task, who) IN
         /\ new \in Task
         /\ new.status = "claimed" /\ new.assignee = who
         /\ new.dependencies = task.dependencies
         /\ new.attempt = task.attempt + 1 /\ new.attemptId = task.attempt + 1
         /\ new.wroteAs = 0 /\ ~new.reassigning
  <1> DEFINE n == task.attempt + 1
  <1>1. n \in Nat
    BY DEF Task
  <1>2. BeginAttempt(task, who) =
          [task EXCEPT !.status = "claimed", !.assignee = who, !.attempt = n,
                       !.attemptId = n, !.handoffId = None,
                       !.reassigning = FALSE, !.wroteAs = 0]
    BY DEF BeginAttempt
  <1> HIDE DEF n
  <1>3. BeginAttempt(task, who) \in Task
    <2>1. "claimed" \in Status /\ None \in Call \cup {None} /\ 0 \in Nat
      BY StatusAndOwner
    <2> QED
      BY <1>1, <1>2, <2>1 DEF Task
  <1>4. LET new == BeginAttempt(task, who) IN
        /\ new.status = "claimed" /\ new.assignee = who
        /\ new.dependencies = task.dependencies
        /\ new.attempt = n /\ new.attemptId = n
        /\ new.wroteAs = 0 /\ ~new.reassigning
    BY <1>2 DEF Task
  <1> QED
    BY <1>3, <1>4 DEF n

\* An invalidated task waits in the pool, without a capability.
LEMMA InvalidateIs ==
  ASSUME NEW task \in Task, NEW who \in Owner, NEW call \in Call \cup {None}
  PROVE  LET new == Invalidate(task, who, call) IN
         /\ new \in Task
         /\ new.status = "pending" /\ new.assignee = who
         /\ new.dependencies = task.dependencies
         /\ new.attempt = task.attempt /\ new.attemptId = 0
         /\ new.handoffId = call /\ new.reassigning = (call # None)
  BY StatusAndOwner DEF Invalidate, Task

\* A task whose dispatch is rolled back waits in the pool again.
LEMMA RolledBackIs ==
  ASSUME NEW task \in Task, NEW who \in Owner
  PROVE  LET new == RolledBack(task, who) IN
         /\ new \in Task
         /\ new.status = "pending" /\ new.assignee = who
         /\ new.dependencies = task.dependencies
         /\ new.attempt = task.attempt /\ new.attemptId = 0
         /\ ~new.reassigning
  BY StatusAndOwner DEF RolledBack, Task

\* A status update changes the status and who wrote it, nothing else.
LEMMA MovedIs ==
  ASSUME NEW task \in Task, NEW s \in Status, NEW id \in Nat
  PROVE  LET new == Moved(task, s, id) IN
         /\ new \in Task
         /\ new.status = s /\ new.wroteAs = id
         /\ new.assignee = task.assignee
         /\ new.dependencies = task.dependencies
         /\ new.attempt = task.attempt /\ new.attemptId = task.attemptId
         /\ new.handoffId = task.handoffId
         /\ new.reassigning = task.reassigning
  BY DEF Moved, Task

\* The end of a handoff clears the mark and nothing else.
LEMMA HandedOverIs ==
  ASSUME NEW task \in Task
  PROVE  LET new == HandedOver(task) IN
         /\ new \in Task
         /\ new.status = task.status /\ new.assignee = task.assignee
         /\ new.dependencies = task.dependencies
         /\ new.attempt = task.attempt /\ new.attemptId = task.attemptId
         /\ new.wroteAs = task.wroteAs /\ new.handoffId = task.handoffId
         /\ ~new.reassigning
  BY DEF HandedOver, Task

\* What create_task adds to the list.
LEMMA CreatedIs ==
  ASSUME NEW deps \in SUBSET TaskId, NEW who \in Owner
  PROVE  LET new == Created(deps, who) IN
         /\ NoTask \in Task /\ new \in Task
         /\ new.status = "pending" /\ new.assignee = who
         /\ new.dependencies = deps
         /\ new.attempt = 0 /\ new.attemptId = 0
         /\ ~new.reassigning
  BY DEF Created, NoTask, Task, Status, Owner

-----------------------------------------------------------------------------
(* Type correctness                                                        *)

\* The initial state is type correct: an empty task list and nothing in flight.
LEMMA InitTypeOK == Init => TypeOK
  <1> SUFFICES ASSUME Init PROVE TypeOK
    OBVIOUS
  <1>1. NoTask \in Task
    BY CreatedIs, StatusAndOwner
  <1>2. tasks \in [TaskId -> Task]
    BY <1>1 DEF Init
  <1>3. taskSeq \in 0 .. MaxTasks
    BY TeamAssumption DEF Init
  <1>4. parked \in [Member -> Parked]
    BY DEF Init, Parked
  <1>5. tickets \in [Member -> Ticket]
    BY DEF Init, Ticket
  <1>6. handoffs \in [Call -> Handoff]
    BY DEF Init, Handoff
  <1> QED
    BY <1>2, <1>3, <1>4, <1>5, <1>6 DEF Init, TypeOK

\* Every tool call, scheduler step and event keeps the types.
LEMMA StepTypeOK == TypeOK /\ [Next]_vars => TypeOK'
  <1> SUFFICES ASSUME TypeOK, [Next]_vars PROVE TypeOK'
    OBVIOUS
  <1> USE TeamAssumption DEF TypeOK
  <1>1. ASSUME NEW m \in Member, AddMember(m) PROVE TypeOK'
    BY <1>1 DEF AddMember, Wake
  <1>2. ASSUME NEW m \in Member, RemoveMember(m) PROVE TypeOK'
    <2>1. \A t \in TaskId : Invalidate(tasks[t], None, None) \in Task
      BY InvalidateIs DEF Owner
    <2>2. (tasks \in [TaskId -> Task])'
      BY <1>2, <2>1 DEF RemoveMember
    <2> QED
      BY <1>2, <2>2 DEF RemoveMember
  <1>3. ASSUME NEW deps \in SUBSET TaskId, NEW who \in Owner,
               CreateTask(deps, who)
        PROVE  TypeOK'
    <2>1. Created(deps, who) \in Task
      BY CreatedIs
    <2>2. (tasks \in [TaskId -> Task])'
      BY <1>3, <2>1 DEF CreateTask
    <2>3. (taskSeq \in 0 .. MaxTasks)'
      BY <1>3 DEF CreateTask
    <2>4. (kicks \subseteq Member)'
      BY <1>3 DEF CreateTask, Active
    <2> QED
      BY <1>3, <2>2, <2>3, <2>4 DEF CreateTask
  <1>4. ASSUME NEW c \in Call, NEW t \in TaskId,
               NEW target \in Member \cup {Captain},
               ReassignBegin(c, t, target)
        PROVE  TypeOK'
    <2>1. Invalidate(tasks[t], target, c) \in Task
      BY InvalidateIs DEF Owner
    <2>2. (tasks \in [TaskId -> Task])'
      BY <1>4, <2>1 DEF ReassignBegin
    <2>3. handoffs'[c] \in Handoff
      BY <1>4 DEF ReassignBegin, Handoff, Active
    <2>4. (handoffs \in [Call -> Handoff])'
      BY <1>4, <2>3 DEF ReassignBegin
    <2> QED
      BY <1>4, <2>2, <2>4 DEF ReassignBegin
  <1>5. ASSUME NEW t \in TaskId, NEW who \in Owner, ClaimFor(t, who)
        PROVE  TypeOK'
    <2>1. (tasks \in [TaskId -> Task])'
      BY <1>5, BeginAttemptIs DEF ClaimFor
    <2> QED
      BY <1>5, <2>1 DEF ClaimFor, volatile
  <1>6. ASSUME NEW t \in TaskId, NEW status \in Status, NEW id \in Nat,
               UpdateStatus(t, status, id)
        PROVE  TypeOK'
    <2>1. Moved(tasks[t], status, id) \in Task
      BY MovedIs
    <2>4. (tasks \in [TaskId -> Task])'
      BY <1>6, <2>1 DEF UpdateStatus
    <2>2. (kicks \subseteq Member)'
      BY <1>6 DEF UpdateStatus, Active
    <2> QED
      BY <1>6, <2>4, <2>2 DEF UpdateStatus
  <1>7. ASSUME CaptainStatus PROVE TypeOK'
    BY <1>7 DEF CaptainStatus, durable, Active
  <1>8. ASSUME NEW m \in Member, SendMessage(m) PROVE TypeOK'
    BY <1>8 DEF SendMessage, Wake, durable, volatile
  <1>9. ASSUME NEW m \in Member, RetireMember(m) \/ FinishRemoval(m)
        PROVE  TypeOK'
    BY <1>9 DEF RetireMember, FinishRemoval, durable, volatile, Active
  <1>10. ASSUME NEW m \in Member, KickSkips(m) \/ KickMail(m)
         PROVE  TypeOK'
    BY <1>10 DEF KickSkips, KickMail, Wake, durable
  <1>11. ASSUME NEW m \in Member, NEW t \in TaskId, KickClaim(m, t)
         PROVE  TypeOK'
    <2>1. (tasks \in [TaskId -> Task])'
      BY <1>11, BeginAttemptIs DEF KickClaim, Owner
    <2>2. tickets'[m] \in Ticket
      <3>1. /\ tasks[t].attempt + 1 \in Nat \ {0}
            /\ tasks[t].assignee \in Owner
        BY DEF Task
      <3>2. tickets'[m] = [task |-> t, attempt |-> tasks[t].attempt + 1,
                           previous |-> tasks[t].assignee]
        BY <1>11 DEF KickClaim
      <3> QED
        BY <3>1, <3>2 DEF Ticket
    <2>3. (tickets \in [Member -> Ticket])'
      BY <1>11, <2>2 DEF KickClaim
    <2>4. (parked \in [Member -> Parked])'
      BY <1>11 DEF KickClaim, Parked
    <2> QED
      BY <1>11, <2>1, <2>3, <2>4 DEF KickClaim
  <1>12. ASSUME NEW m \in Member, DeliveryAccepted(m) PROVE TypeOK'
    BY <1>12 DEF DeliveryAccepted, Ticket, Wake, durable
  <1>13. ASSUME NEW m \in Member, DeliveryRejected(m) PROVE TypeOK'
    <2>4. tickets[m].previous \in Owner
      BY <1>13 DEF DeliveryRejected, Ticket
    <2>1. \A t \in TaskId :
            RolledBack(tasks[t], tickets[m].previous) \in Task
      BY <2>4, RolledBackIs
    <2>3. Rollback(m) \in [TaskId -> Task]
      BY <2>1 DEF Rollback
    <2>2. (tickets \in [Member -> Ticket])'
      BY <1>13 DEF DeliveryRejected, Ticket
    <2> QED
      BY <1>13, <2>3, <2>2 DEF DeliveryRejected
  <1>14. ASSUME NEW m \in Member, SyncRunning(m) PROVE TypeOK'
    BY <1>14 DEF SyncRunning, Parked, durable
  <1>15. ASSUME NEW m \in Member, SyncIdle(m) PROVE TypeOK'
    <2>1. \A t \in TaskId : tasks[t].attemptId \in Nat
      BY DEF Task
    <2>2. (parked \in [Member -> Parked])'
      BY <1>15, <2>1 DEF SyncIdle, Parked
    <2> QED
      BY <1>15, <2>2 DEF SyncIdle, durable
  <1>16. ASSUME NEW c \in Call, ReassignQuiet(c) PROVE TypeOK'
    <2>1. handoffs[c] # NoHandoff
      BY <1>16 DEF ReassignQuiet, NoHandoff
    <2>2. [handoffs[c] EXCEPT !.worker = None] \in Handoff
      BY <2>1 DEF Handoff
    <2> QED
      BY <1>16, <2>2 DEF ReassignQuiet, durable
  <1>17. ASSUME NEW c \in Call, ReassignFinish(c) \/ ReassignAborted(c)
         PROVE  TypeOK'
    <2>1. (handoffs \in [Call -> Handoff])'
      BY <1>17 DEF ReassignFinish, ReassignAborted, Handoff
    <2>2. (tasks \in [TaskId -> Task])'
      <3> DEFINE t == handoffs[c].task
      <3>1. t \in TaskId => BeginAttempt(tasks[t], Captain) \in Task
        BY BeginAttemptIs DEF Owner
      <3>2. [tasks EXCEPT ![t] = BeginAttempt(@, Captain)] \in [TaskId -> Task]
        BY <3>1
      <3>3. \A u \in TaskId : HandedOver(tasks[u]) \in Task
        BY HandedOverIs
      <3>4. [tasks EXCEPT ![t] = HandedOver(@)] \in [TaskId -> Task]
        BY <3>3
      <3> QED
        BY <1>17, <3>2, <3>4 DEF ReassignFinish, ReassignAborted
    <2>3. (kicks \subseteq Member)'
      BY <1>17 DEF ReassignFinish, ReassignAborted, Handoff
    <2> QED
      BY <1>17, <2>1, <2>2, <2>3 DEF ReassignFinish, ReassignAborted
  <1>18. ASSUME NEW m \in Member, TurnEnds(m) PROVE TypeOK'
    BY <1>18 DEF TurnEnds, durable, volatile
  <1>19. ASSUME Restart PROVE TypeOK'
    BY <1>19 DEF Restart, Parked, Ticket, Handoff
  <1>20. ASSUME UNCHANGED vars PROVE TypeOK'
    BY <1>20 DEF vars, durable, volatile
  <1>21. CASE CaptainStep
    <2>1. ASSUME NEW t \in TaskId PROVE tasks[t].attemptId \in Nat
      BY DEF Task
    <2> QED
      BY <1>21, <2>1, <1>1, <1>2, <1>3, <1>4, <1>5, <1>6, <1>7
      DEF CaptainStep, CaptainClaim, CaptainUpdate
  <1>22. CASE MemberStep
    BY <1>22, <1>5, <1>6, <1>8, StatusAndOwner
    DEF MemberStep, MemberClaim, MemberUpdate
  <1>23. CASE PluginStep
    BY <1>23, <1>9, <1>10, <1>11, <1>12, <1>13, <1>14, <1>15, <1>16, <1>17
    DEF PluginStep
  <1> QED
    BY <1>18, <1>19, <1>20, <1>21, <1>22, <1>23 DEF Next, HarnessStep

\* The variables keep their types.
THEOREM TypeCorrect == Spec => []TypeOK
  BY InitTypeOK, StepTypeOK, PTL DEF Spec

-----------------------------------------------------------------------------
(* The steps that touch the task list, with what each knows of its caller  *)

\* Only these steps of tools.ts and scheduler.ts write the task list, each
\* with what its caller was checked for.
LEMMA TaskSteps ==
  ASSUME TypeOK, [Next]_vars
  PROVE  \/ UNCHANGED <<tasks, taskSeq>>
         \/ \E m \in Member : RemoveMember(m)
         \/ \E deps \in SUBSET TaskId, who \in Owner : CreateTask(deps, who)
         \/ \E c \in Call, t \in TaskId, target \in Member \cup {Captain} :
              ReassignBegin(c, t, target)
         \/ \E c \in Call : ReassignFinish(c) \/ ReassignAborted(c)
         \/ \E t \in TaskId, who \in Member \cup {Captain} :
              /\ ClaimFor(t, who)
              /\ who \in Active \/ who = tasks[t].assignee
         \/ \E t \in TaskId, status \in Status, id \in Nat :
              /\ UpdateStatus(t, status, id)
              /\ CapabilityAccepted(t, id)
              /\ \/ tasks[t].assignee \in {None, Captain}
                 \/ \E m \in Active : /\ tasks[t].assignee = m
                                      /\ Undelivered(m, t) => "early" \in Faults
         \/ \E m \in Member, t \in TaskId : KickClaim(m, t)
         \/ \E m \in Member : DeliveryRejected(m)
  <1>1. CASE CaptainStep
    <2>1. ASSUME NEW t \in TaskId, NEW who \in Owner, CaptainClaim(t, who)
          PROVE  /\ who \in Member \cup {Captain}
                 /\ ClaimFor(t, who)
                 /\ who \in Active \/ who = tasks[t].assignee
      BY <2>1 DEF CaptainClaim, Owner, Active
    <2>2. ASSUME NEW t \in TaskId, NEW status \in Status,
                 CaptainUpdate(t, status)
          PROVE  /\ tasks[t].attemptId \in Nat
                 /\ UpdateStatus(t, status, tasks[t].attemptId)
                 /\ CapabilityAccepted(t, tasks[t].attemptId)
                 /\ tasks[t].assignee \in {None, Captain}
      BY <2>2 DEF CaptainUpdate, CapabilityAccepted, TypeOK, Task
    <2>3. ASSUME NEW m \in Member, AddMember(m)
          PROVE  UNCHANGED <<tasks, taskSeq>>
      BY <2>3 DEF AddMember
    <2>4. ASSUME CaptainStatus PROVE UNCHANGED <<tasks, taskSeq>>
      BY <2>4 DEF CaptainStatus, durable
    <2> QED
      BY <1>1, <2>1, <2>2, <2>3, <2>4 DEF CaptainStep
  <1>2. CASE MemberStep
    <2>1. ASSUME NEW m \in Member, NEW t \in TaskId, MemberClaim(m, t)
          PROVE  ClaimFor(t, m) /\ m \in Active
      BY <2>1 DEF MemberClaim
    <2>2. ASSUME NEW m \in Member, NEW t \in TaskId, NEW status \in Status,
                 NEW id \in 0 .. tasks[t].attempt,
                 MemberUpdate(m, t, status, id)
          PROVE  /\ id \in Nat
                 /\ UpdateStatus(t, status, id)
                 /\ CapabilityAccepted(t, id)
                 /\ m \in Active /\ tasks[t].assignee = m
                 /\ Undelivered(m, t) => "early" \in Faults
      BY <2>2 DEF MemberUpdate, TypeOK, Task
    <2>3. ASSUME NEW m \in Member, SendMessage(m)
          PROVE  UNCHANGED <<tasks, taskSeq>>
      BY <2>3 DEF SendMessage, durable
    <2> QED
      BY <1>2, <2>1, <2>2, <2>3 DEF MemberStep
  <1>3. CASE PluginStep
    <2>1. ASSUME NEW m \in Member,
                 \/ RetireMember(m) \/ FinishRemoval(m)
                 \/ KickSkips(m) \/ KickMail(m) \/ DeliveryAccepted(m)
                 \/ SyncRunning(m) \/ SyncIdle(m)
          PROVE  UNCHANGED <<tasks, taskSeq>>
      BY <2>1 DEF RetireMember, FinishRemoval, KickSkips, KickMail,
                  DeliveryAccepted, SyncRunning, SyncIdle, durable
    <2>2. ASSUME NEW c \in Call, ReassignQuiet(c)
          PROVE  UNCHANGED <<tasks, taskSeq>>
      BY <2>2 DEF ReassignQuiet, durable
    <2> QED
      BY <1>3, <2>1, <2>2 DEF PluginStep
  <1>4. CASE HarnessStep \/ UNCHANGED vars
    BY <1>4 DEF HarnessStep, Restart, TurnEnds, vars, durable
  <1> QED
    BY <1>1, <1>2, <1>3, <1>4 DEF Next

-----------------------------------------------------------------------------
(* What a step may do to one task. Each of these holds of the task u that  *)
(* the step is about; all other tasks stay as they are.                    *)

ToPool(u, who) ==
  /\ tasks'[u].status = "pending" /\ tasks'[u].assignee = who
  /\ tasks'[u].attempt = tasks[u].attempt /\ tasks'[u].attemptId = 0
  /\ tasks'[u].dependencies = tasks[u].dependencies

Begun(u, who) ==
  /\ tasks'[u].status = "claimed" /\ tasks'[u].assignee = who
  /\ tasks'[u].attempt = tasks[u].attempt + 1
  /\ tasks'[u].attemptId = tasks[u].attempt + 1 /\ tasks'[u].wroteAs = 0
  /\ tasks'[u].dependencies = tasks[u].dependencies
  /\ ~tasks'[u].reassigning

SameCapability(u) ==
  /\ tasks'[u].assignee = tasks[u].assignee
  /\ tasks'[u].attempt = tasks[u].attempt
  /\ tasks'[u].attemptId = tasks[u].attemptId
  /\ tasks'[u].handoffId = tasks[u].handoffId
  /\ tasks'[u].dependencies = tasks[u].dependencies

Same(u) == tasks'[u] = tasks[u]

IsCreated(u) ==
  \E deps \in SUBSET TaskId, who \in Owner :
    /\ CreateTask(deps, who)
    /\ u = taskSeq + 1
    /\ tasks'[u].status = "pending" /\ tasks'[u].assignee = who
    /\ tasks'[u].attemptId = 0 /\ ~tasks'[u].reassigning

IsRequeued(u) ==
  \E m \in Member : /\ RemoveMember(m) /\ Requeued(m, u)
                    /\ ToPool(u, None) /\ ~tasks'[u].reassigning

IsRevoked(u) ==
  \E c \in Call, target \in Member \cup {Captain} :
    /\ ReassignBegin(c, u, target)
    /\ ToPool(u, target)
    /\ tasks'[u].handoffId = c /\ tasks'[u].reassigning

IsUndone(u) ==
  \E m \in Member : /\ DeliveryRejected(m) /\ Undelivered(m, u)
                    /\ tasks[u].attemptId # 0
                    /\ ToPool(u, tickets[m].previous) /\ ~tasks'[u].reassigning

IsClaimed(u) ==
  \E who \in Member \cup {Captain} :
    /\ ClaimFor(u, who)
    /\ who \in Active \/ who = tasks[u].assignee
    /\ Begun(u, who)

IsDispatched(u) == \E m \in Member : KickClaim(m, u) /\ Begun(u, m)

IsTakenOver(u) ==
  \E c \in Call : /\ ReassignFinish(c)
                  /\ handoffs[c].task = u /\ StillOurs(c)
                  /\ Begun(u, Captain)

IsHandedOver(u) ==
  \E c \in Call : /\ ReassignFinish(c) \/ ReassignAborted(c)
                  /\ handoffs[c].task = u /\ StillOurs(c)
                  /\ SameCapability(u)
                  /\ tasks'[u].status = tasks[u].status
                  /\ tasks'[u].wroteAs = tasks[u].wroteAs
                  /\ ~tasks'[u].reassigning

IsMoved(u) ==
  \E status \in Status, id \in Nat :
    /\ Writable(u, status) /\ CapabilityAccepted(u, id)
    /\ \/ tasks[u].assignee \in {None, Captain}
       \/ \E m \in Active : /\ tasks[u].assignee = m
                            /\ Undelivered(m, u) => "early" \in Faults
    /\ SameCapability(u)
    /\ tasks'[u].status = status /\ tasks'[u].wroteAs = id
    /\ tasks'[u].reassigning = tasks[u].reassigning
    /\ members' = members

\* Every step does one of these to a task.
LEMMA TaskEffects ==
  ASSUME TypeOK, [Next]_vars, NEW u \in TaskId
  PROVE  \/ Same(u) \/ IsCreated(u) \/ IsRequeued(u) \/ IsRevoked(u)
         \/ IsUndone(u) \/ IsClaimed(u) \/ IsDispatched(u) \/ IsTakenOver(u)
         \/ IsHandedOver(u) \/ IsMoved(u)
  <1> DEFINE Goal == \/ Same(u) \/ IsCreated(u) \/ IsRequeued(u) \/ IsRevoked(u)
                     \/ IsUndone(u) \/ IsClaimed(u) \/ IsDispatched(u)
                     \/ IsTakenOver(u) \/ IsHandedOver(u) \/ IsMoved(u)
  <1>u. /\ tasks[u] \in Task /\ None \in Owner /\ Captain \in Owner
        /\ Member \cup {Captain} \subseteq Owner
    BY StatusAndOwner DEF TypeOK
  <1>1. CASE UNCHANGED <<tasks, taskSeq>>
    BY <1>1 DEF Same
  <1>2. ASSUME NEW m \in Member, RemoveMember(m) PROVE Same(u) \/ IsRequeued(u)
    <2>1. CASE Requeued(m, u)
      <3>1. tasks'[u] = Invalidate(tasks[u], None, None)
        BY <1>2, <2>1 DEF RemoveMember, TypeOK
      <3>2. ToPool(u, None)
        BY <3>1, <1>u, InvalidateIs DEF ToPool
      <3>3. tasks'[u].reassigning = (None # None)
        BY <3>1, <1>u, InvalidateIs
      <3> QED
        BY <1>2, <2>1, <3>2, <3>3 DEF IsRequeued
    <2>2. CASE ~Requeued(m, u)
      BY <1>2, <2>2 DEF RemoveMember, TypeOK, Same
    <2> QED
      BY <2>1, <2>2
  <1>3. ASSUME NEW deps \in SUBSET TaskId, NEW who \in Owner,
               CreateTask(deps, who)
        PROVE  Same(u) \/ IsCreated(u)
    <2>1. CASE u = taskSeq + 1
      <3>1. tasks'[u] = Created(deps, who)
        BY <1>3, <2>1 DEF CreateTask, TypeOK
      <3> QED
        BY <1>3, <2>1, <3>1, CreatedIs DEF IsCreated
    <2>2. CASE u # taskSeq + 1
      BY <1>3, <2>2 DEF CreateTask, TypeOK, Same
    <2> QED
      BY <2>1, <2>2
  <1>4. ASSUME NEW c \in Call, NEW t \in TaskId,
               NEW target \in Member \cup {Captain},
               ReassignBegin(c, t, target)
        PROVE  Same(u) \/ IsRevoked(u)
    <2>1. CASE u = t
      <3>1. tasks'[u] = Invalidate(tasks[u], target, c)
        BY <1>4, <2>1 DEF ReassignBegin, TypeOK
      <3>2. ToPool(u, target) /\ tasks'[u].handoffId = c
        BY <3>1, <1>u, InvalidateIs DEF ToPool
      <3>3. tasks'[u].reassigning = (c # None)
        BY <3>1, <1>u, InvalidateIs
      <3>4. c # None
        BY TeamAssumption
      <3> QED
        BY <1>4, <2>1, <3>2, <3>3, <3>4 DEF IsRevoked
    <2>2. CASE u # t
      BY <1>4, <2>2 DEF ReassignBegin, TypeOK, Same
    <2> QED
      BY <2>1, <2>2
  <1>5. ASSUME NEW c \in Call, ReassignFinish(c) \/ ReassignAborted(c)
        PROVE  Same(u) \/ IsTakenOver(u) \/ IsHandedOver(u)
    <2>1. CASE ~(StillOurs(c) /\ handoffs[c].task = u)
      BY <1>5, <2>1, SMTT(30) DEF ReassignFinish, ReassignAborted, TypeOK, Same
    <2>2. CASE StillOurs(c) /\ handoffs[c].task = u
      <3>1. \/ /\ tasks'[u] = BeginAttempt(tasks[u], Captain)
               /\ ReassignFinish(c)
            \/ tasks'[u] = HandedOver(tasks[u])
        BY <1>5, <2>2, SMTT(30) DEF ReassignFinish, ReassignAborted, TypeOK
      <3>2. CASE tasks'[u] = BeginAttempt(tasks[u], Captain)
                 /\ ReassignFinish(c)
        <4>1. Begun(u, Captain)
          BY <3>2, <1>u, BeginAttemptIs DEF Begun
        <4> QED
          BY <3>2, <2>2, <4>1 DEF IsTakenOver
      <3>3. CASE tasks'[u] = HandedOver(tasks[u])
        BY <3>3, <1>u, <1>5, <2>2, HandedOverIs DEF IsHandedOver, SameCapability
      <3> QED
        BY <3>1, <3>2, <3>3
    <2> QED
      BY <2>1, <2>2
  <1>6. ASSUME NEW t \in TaskId, NEW who \in Member \cup {Captain},
               ClaimFor(t, who), who \in Active \/ who = tasks[t].assignee
        PROVE  Same(u) \/ IsClaimed(u)
    <2>1. CASE u = t
      <3>1. tasks'[u] = BeginAttempt(tasks[u], who)
        BY <1>6, <2>1 DEF ClaimFor, TypeOK
      <3>2. Begun(u, who)
        BY <3>1, <1>u, BeginAttemptIs DEF Begun
      <3> QED
        BY <1>6, <2>1, <3>2 DEF IsClaimed
    <2>2. CASE u # t
      BY <1>6, <2>2 DEF ClaimFor, TypeOK, Same
    <2> QED
      BY <2>1, <2>2
  <1>7. ASSUME NEW t \in TaskId, NEW status \in Status, NEW id \in Nat,
               UpdateStatus(t, status, id), CapabilityAccepted(t, id),
               \/ tasks[t].assignee \in {None, Captain}
               \/ \E m \in Active : /\ tasks[t].assignee = m
                                    /\ Undelivered(m, t) => "early" \in Faults
        PROVE  Same(u) \/ IsMoved(u)
    <2>1. CASE u = t /\ Writable(t, status)
      <3>1. tasks'[u] = Moved(tasks[u], status, id)
        BY <1>7, <2>1 DEF UpdateStatus, Writable, TypeOK
      <3>2. /\ SameCapability(u)
            /\ tasks'[u].status = status /\ tasks'[u].wroteAs = id
            /\ tasks'[u].reassigning = tasks[u].reassigning
        BY <3>1, <1>u, MovedIs DEF SameCapability
      <3>3. members' = members
        BY <1>7 DEF UpdateStatus
      <3> QED
        BY <1>7, <2>1, <3>2, <3>3 DEF IsMoved
    <2>2. CASE u # t \/ ~Writable(t, status)
      BY <1>7, <2>2 DEF UpdateStatus, TypeOK, Same
    <2> QED
      BY <2>1, <2>2
  <1>8. ASSUME NEW m \in Member, NEW t \in TaskId, KickClaim(m, t)
        PROVE  Same(u) \/ IsDispatched(u)
    <2>1. CASE u = t
      <3>1. tasks'[u] = BeginAttempt(tasks[u], m)
        BY <1>8, <2>1 DEF KickClaim, TypeOK
      <3>2. Begun(u, m)
        BY <3>1, <1>u, BeginAttemptIs DEF Begun
      <3> QED
        BY <1>8, <2>1, <3>2 DEF IsDispatched
    <2>2. CASE u # t
      BY <1>8, <2>2 DEF KickClaim, TypeOK, Same
    <2> QED
      BY <2>1, <2>2
  <1>9. ASSUME NEW m \in Member, DeliveryRejected(m)
        PROVE  Same(u) \/ IsUndone(u)
    <2>1. CASE Undelivered(m, u)
      <3>1. tasks'[u] = RolledBack(tasks[u], tickets[m].previous)
        BY <1>9, <2>1 DEF DeliveryRejected, Rollback, Undelivered
      <3>2. tickets[m].previous \in Owner /\ tickets[m].attempt # 0
        BY <1>9 DEF DeliveryRejected, TypeOK, Ticket
      <3>3. ToPool(u, tickets[m].previous)
        <4>1. ASSUME NEW who \in Owner,
                     tasks'[u] = RolledBack(tasks[u], who)
              PROVE  ToPool(u, who)
          BY <4>1, <1>u, RolledBackIs, Z3 DEF ToPool
        <4> QED
          BY <4>1, <3>1, <3>2
      <3>4. ~tasks'[u].reassigning
        BY <3>1, <3>2, <1>u, RolledBackIs
      <3> QED
        BY <1>9, <2>1, <3>2, <3>3, <3>4 DEF IsUndone, Undelivered
    <2>2. CASE ~Undelivered(m, u)
      BY <1>9, <2>2 DEF DeliveryRejected, Rollback, Undelivered, Same
    <2> QED
      BY <2>1, <2>2
  <1> QED
    BY TaskSteps, <1>1, <1>2, <1>3, <1>4, <1>5, <1>6, <1>7, <1>8, <1>9

-----------------------------------------------------------------------------
(* The inductive invariant                                                 *)

\* The inductive invariant holds of an empty team.
LEMMA InitInductive == Init => Inductive
  <1> SUFFICES ASSUME Init PROVE Inductive
    OBVIOUS
  <1>1. AttemptsInOrder
    BY DEF Init, AttemptsInOrder, InOrder, NoTask
  <1>2. TicketsBehind
    BY DEF Init, TicketsBehind
  <1>3. OneOpenTask
    BY DEF Init, OneOpenTask, Owned, IsOpen, NoTask
  <1>4. DispatchOwnsItsTask
    BY TeamAssumption
    DEF Init, DispatchOwnsItsTask, Undelivered, NoTicket, TaskId
  <1> QED
    BY <1>1, <1>2, <1>3, <1>4, InitTypeOK DEF Inductive

\* Attempt ids, states and marks stay in step on every task.
LEMMA StepAttemptsInOrder ==
  ASSUME TypeOK, AttemptsInOrder, [Next]_vars
  PROVE  AttemptsInOrder'
  <1> SUFFICES ASSUME NEW u \in TaskId
               PROVE  /\ InOrder(tasks'[u])
                      /\ u > taskSeq' => tasks'[u] = NoTask
    BY DEF AttemptsInOrder
  <1>1. InOrder(tasks[u]) /\ (u > taskSeq => tasks[u] = NoTask)
    BY DEF AttemptsInOrder
  <1>2. /\ NoTask.assignee = None /\ NoTask.attemptId = 0
        /\ NoTask.status = "absent" /\ ~NoTask.reassigning
    BY DEF NoTask
  <1>3. /\ tasks[u].attempt \in Nat /\ taskSeq \in Nat /\ taskSeq' \in Nat
        /\ u \in Nat /\ taskSeq' >= taskSeq
    <2>1. taskSeq' \in {taskSeq, taskSeq + 1}
      BY TaskSteps DEF RemoveMember, CreateTask, ReassignBegin, ReassignFinish,
                       ReassignAborted, ClaimFor, UpdateStatus, KickClaim,
                       DeliveryRejected
    <2> QED
      BY <2>1 DEF TypeOK, Task, TaskId
  <1>4. InOrder(tasks'[u])
    <2>1. CASE Same(u)
      BY <2>1, <1>1 DEF Same
    <2>2. CASE IsCreated(u) \/ IsRequeued(u) \/ IsUndone(u)
      BY <2>2 DEF IsCreated, IsRequeued, IsUndone, ToPool, InOrder
    <2>3. CASE IsRevoked(u)
      BY <2>3 DEF IsRevoked, ToPool, InOrder
    <2>4. CASE IsClaimed(u) \/ IsDispatched(u) \/ IsTakenOver(u)
      BY <2>4, <1>3 DEF IsClaimed, IsDispatched, IsTakenOver, Begun, InOrder
    <2>5. CASE IsHandedOver(u)
      BY <2>5, <1>1 DEF IsHandedOver, SameCapability, InOrder
    <2>6. CASE IsMoved(u)
      BY <2>6, <1>1 DEF IsMoved, SameCapability, Writable,
                        CapabilityAccepted, Transition, InOrder
    <2> QED
      BY <2>1, <2>2, <2>3, <2>4, <2>5, <2>6, TaskEffects
  <1>5. ASSUME u > taskSeq, ~IsCreated(u) PROVE Same(u)
    <2>1. tasks[u] = NoTask
      BY <1>1, <1>5
    <2> QED
      BY <2>1, <1>2, <1>5, TaskEffects, TeamAssumption
      DEF IsRequeued, Requeued, IsRevoked, ReassignBegin, Revocable, IsUndone,
          IsClaimed, ClaimFor, Claimable, IsDispatched, KickClaim, Selected,
          IsFirst, Owned, IsOpen, ReadyFor, IsTakenOver, IsHandedOver,
          StillOurs, IsMoved, Writable, Transition
  <1>6. IsCreated(u) => ~(u > taskSeq')
    BY <1>3 DEF IsCreated, CreateTask
  <1> QED
    BY <1>1, <1>3, <1>4, <1>5, <1>6 DEF Same

\* A member's new attempt is on the only task it holds.
LEMMA NewlyOwned ==
  ASSUME TypeOK, [Next]_vars, NEW m \in Member, NEW t \in Owned(m)',
         t \notin Owned(m)
  PROVE  /\ Owned(m) = {}
         /\ \A u \in TaskId \ {t} : Same(u)
  <1>1. t \in TaskId /\ tasks'[t].assignee = m
        /\ tasks'[t].status \in {"claimed", "in_progress"}
    BY DEF Owned, IsOpen
  <1>2. t \in TaskId /\ ~(tasks[t].assignee = m /\ IsOpen(t)) /\ m # Captain
    BY <1>1, TeamAssumption DEF Owned
  <1>3. CASE Same(t)
    BY <1>1, <1>2, <1>3 DEF Same, IsOpen
  <1>4. CASE IsCreated(t) \/ IsRequeued(t) \/ IsRevoked(t) \/ IsUndone(t)
    BY <1>1, <1>4 DEF IsCreated, IsRequeued, IsRevoked, IsUndone, ToPool
  <1>5. CASE IsTakenOver(t)
    BY <1>1, <1>2, <1>5 DEF IsTakenOver, Begun
  <1>6. CASE IsHandedOver(t)
    BY <1>1, <1>2, <1>6 DEF IsHandedOver, SameCapability, IsOpen
  <1>7. CASE IsMoved(t)
    BY <1>1, <1>2, <1>7
    DEF IsMoved, SameCapability, Writable, Transition, IsOpen
  <1>8. CASE IsClaimed(t)
    <2>1. ClaimFor(t, m)
      BY <1>1, <1>8 DEF IsClaimed, Begun
    <2> QED
      BY <2>1 DEF ClaimFor, Busy, Same, TypeOK
  <1>9. CASE IsDispatched(t)
    <2>1. KickClaim(m, t)
      BY <1>1, <1>9 DEF IsDispatched, Begun
    <2> QED
      BY <2>1 DEF KickClaim, Selected, IsFirst, Same, TypeOK
  <1> QED
    BY <1>1, <1>3, <1>4, <1>5, <1>6, <1>7, <1>8, <1>9, TaskEffects

\* No claim path gives a member a second unfinished task.
LEMMA StepOneOpenTask ==
  ASSUME TypeOK, OneOpenTask, [Next]_vars
  PROVE  OneOpenTask'
  <1> SUFFICES ASSUME NEW m \in Member, NEW t \in Owned(m)', NEW u \in Owned(m)'
               PROVE  t = u
    BY DEF OneOpenTask
  <1>1. CASE t \in Owned(m) /\ u \in Owned(m)
    BY <1>1 DEF OneOpenTask
  <1>2. ASSUME NEW v \in Owned(m)', NEW w \in Owned(m)', v \notin Owned(m)
        PROVE  v = w
    <2>1. Owned(m) = {} /\ \A x \in TaskId \ {v} : Same(x)
      BY <1>2, NewlyOwned
    <2>2. w \in TaskId /\ (Same(w) => w \in Owned(m))
      BY DEF Owned, IsOpen, Same
    <2> QED
      BY <2>1, <2>2
  <1> QED
    BY <1>1, <1>2

\* No step takes an attempt number back.
LEMMA AttemptGrows ==
  ASSUME TypeOK, AttemptsInOrder, [Next]_vars, NEW u \in TaskId
  PROVE  tasks'[u].attempt >= tasks[u].attempt
  <1>1. tasks[u].attempt \in Nat /\ tasks'[u].attempt \in Nat
    BY StepTypeOK DEF TypeOK, Task
  <1>2. CASE IsCreated(u)
    <2>1. tasks[u] = NoTask
      BY <1>2 DEF IsCreated, AttemptsInOrder, TypeOK
    <2> QED
      BY <1>1, <2>1 DEF NoTask
  <1>3. CASE ~IsCreated(u)
    BY <1>1, <1>3, TaskEffects
    DEF Same, IsRequeued, IsRevoked, IsUndone, ToPool, IsClaimed, IsDispatched,
        IsTakenOver, Begun, IsHandedOver, IsMoved, SameCapability
  <1> QED
    BY <1>2, <1>3

\* A member's ticket is only written by its own kick, and cleared otherwise.
LEMMA TicketSteps ==
  ASSUME TypeOK, [Next]_vars, NEW m \in Member
  PROVE  \/ tickets'[m] \in {tickets[m], NoTicket}
         \/ \E t \in TaskId :
              /\ KickClaim(m, t)
              /\ tickets'[m] = [task |-> t, attempt |-> tasks[t].attempt + 1,
                                previous |-> tasks[t].assignee]
  <1> DEFINE Kept == tickets'[m] \in {tickets[m], NoTicket}
  <1>1. ASSUME UNCHANGED tickets PROVE Kept
    BY <1>1
  <1>2. CASE CaptainStep
    BY <1>2 DEF CaptainStep, AddMember, RemoveMember, CreateTask, ReassignBegin,
                CaptainClaim, ClaimFor, CaptainUpdate, UpdateStatus,
                CaptainStatus, volatile
  <1>3. CASE MemberStep
    BY <1>3 DEF MemberStep, MemberClaim, ClaimFor, MemberUpdate, UpdateStatus,
                SendMessage, volatile
  <1>4. CASE PluginStep
    <2>1. ASSUME NEW n \in Member, NEW t \in TaskId, KickClaim(n, t), n # m
          PROVE  Kept
      BY <2>1 DEF KickClaim, TypeOK
    <2>2. ASSUME NEW t \in TaskId, KickClaim(m, t)
          PROVE  tickets'[m] = [task |-> t, attempt |-> tasks[t].attempt + 1,
                                previous |-> tasks[t].assignee]
      BY <2>2 DEF KickClaim, TypeOK
    <2>3. ASSUME NEW n \in Member, DeliveryAccepted(n) \/ DeliveryRejected(n)
          PROVE  Kept
      BY <2>3 DEF DeliveryAccepted, DeliveryRejected, TypeOK
    <2>4. ASSUME NEW n \in Member,
                 \/ RetireMember(n) \/ FinishRemoval(n) \/ KickSkips(n)
                 \/ KickMail(n) \/ SyncRunning(n) \/ SyncIdle(n)
          PROVE  Kept
      BY <2>4 DEF RetireMember, FinishRemoval, KickSkips, KickMail,
                  SyncRunning, SyncIdle, volatile
    <2>5. ASSUME NEW c \in Call,
                 ReassignQuiet(c) \/ ReassignFinish(c) \/ ReassignAborted(c)
          PROVE  Kept
      BY <2>5 DEF ReassignQuiet, ReassignFinish, ReassignAborted
    <2> QED
      BY <1>4, <2>1, <2>2, <2>3, <2>4, <2>5 DEF PluginStep
  <1>5. CASE HarnessStep \/ UNCHANGED vars
    BY <1>5 DEF HarnessStep, Restart, TurnEnds, vars, volatile
  <1> QED
    BY <1>2, <1>3, <1>4, <1>5 DEF Next

\* A kick never waits for a delivery the task list does not know of.
LEMMA StepTicketsBehind ==
  ASSUME TypeOK, AttemptsInOrder, TicketsBehind, [Next]_vars
  PROVE  TicketsBehind'
  <1> SUFFICES ASSUME NEW m \in Member, tickets'[m] # NoTicket
               PROVE  tickets'[m].attempt <= tasks'[tickets'[m].task].attempt
    BY DEF TicketsBehind
  <1>1. CASE tickets'[m] = tickets[m]
    <2>1. tickets[m].task \in TaskId /\ tickets[m].attempt \in Nat
      BY <1>1 DEF TypeOK, Ticket
    <2>2. /\ tasks[tickets[m].task].attempt \in Nat
          /\ tasks'[tickets[m].task].attempt \in Nat
      BY <2>1, StepTypeOK DEF TypeOK, Task
    <2>3. tasks'[tickets[m].task].attempt >= tasks[tickets[m].task].attempt
      BY <2>1, AttemptGrows
    <2>4. tickets[m].attempt <= tasks[tickets[m].task].attempt
      BY <1>1 DEF TicketsBehind
    <2> QED
      BY <1>1, <2>1, <2>2, <2>3, <2>4
  <1>2. ASSUME NEW t \in TaskId, KickClaim(m, t),
               tickets'[m] = [task |-> t, attempt |-> tasks[t].attempt + 1,
                              previous |-> tasks[t].assignee]
        PROVE  tickets'[m].attempt <= tasks'[tickets'[m].task].attempt
    <2>1. tasks'[t] = BeginAttempt(tasks[t], m)
      BY <1>2 DEF KickClaim, TypeOK
    <2>2. tasks[t].attempt \in Nat /\ tasks[t] \in Task
      BY DEF TypeOK, Task
    <2>3. tasks'[t].attempt = tasks[t].attempt + 1
      BY <2>1, <2>2, BeginAttemptIs, StatusAndOwner
    <2> QED
      BY <1>2, <2>2, <2>3
  <1> QED
    BY <1>1, <1>2, TicketSteps

\* A dispatch on its way stays the dispatch of its member's own attempt.
LEMMA StepDispatchOwnsItsTask ==
  ASSUME TypeOK, AttemptsInOrder, TicketsBehind, DispatchOwnsItsTask,
         [Next]_vars
  PROVE  DispatchOwnsItsTask'
  <1> SUFFICES ASSUME NEW m \in Member, NEW t \in TaskId, Undelivered(m, t)'
               PROVE  /\ tasks'[t].assignee = m
                      /\ tickets'[m].previous \in {m, None}
                      /\ "early" \in Faults \/ tasks'[t].status = "claimed"
    BY DEF DispatchOwnsItsTask
  <1>1. tickets'[m].task = t /\ tickets'[m].attempt = tasks'[t].attemptId
    BY DEF Undelivered
  <1>2. CASE tickets'[m] = NoTicket
    BY <1>1, <1>2 DEF NoTicket, TaskId
  <1>3. ASSUME NEW u \in TaskId, KickClaim(m, u),
               tickets'[m] = [task |-> u, attempt |-> tasks[u].attempt + 1,
                              previous |-> tasks[u].assignee]
        PROVE  /\ tasks'[t].assignee = m
               /\ tickets'[m].previous \in {m, None}
               /\ "early" \in Faults \/ tasks'[t].status = "claimed"
    <2>1. t = u /\ tickets'[m].previous = tasks[u].assignee
      BY <1>1, <1>3
    <2>2. tasks'[t] = BeginAttempt(tasks[t], m) /\ tasks[t] \in Task
      BY <1>3, <2>1 DEF KickClaim, TypeOK
    <2>3. tasks'[t].assignee = m /\ tasks'[t].status = "claimed"
      BY <2>2, BeginAttemptIs, StatusAndOwner
    <2>4. tasks[u].assignee \in {m, None}
      BY <1>3 DEF KickClaim, Selected, IsFirst, Owned, ReadyFor
    <2> QED
      BY <2>1, <2>3, <2>4
  <1>4. CASE tickets'[m] = tickets[m] /\ tickets[m] # NoTicket
    <2>1. tickets[m].attempt \in Nat \ {0} /\ tasks[t].attempt \in Nat
      BY <1>4 DEF TypeOK, Ticket, Task
    <2>2. tickets[m].task = t /\ tickets[m].attempt = tasks'[t].attemptId
      BY <1>1, <1>4
    <2>3. tickets[m].attempt <= tasks[t].attempt
      BY <1>4, <2>2 DEF TicketsBehind
    <2>4. CASE Same(t)
      BY <2>2, <2>4, <1>4 DEF Same, Undelivered, DispatchOwnsItsTask
    <2>5. CASE IsCreated(t) \/ IsRequeued(t) \/ IsRevoked(t) \/ IsUndone(t)
      BY <2>1, <2>2, <2>5
      DEF IsCreated, IsRequeued, IsRevoked, IsUndone, ToPool
    <2>6. CASE IsClaimed(t) \/ IsDispatched(t) \/ IsTakenOver(t)
      BY <2>1, <2>2, <2>3, <2>6 DEF IsClaimed, IsDispatched, IsTakenOver, Begun
    <2>7. ASSUME SameCapability(t)
          PROVE  /\ Undelivered(m, t) /\ tasks'[t].assignee = m
                 /\ tasks[t].assignee = m
                 /\ tickets'[m].previous \in {m, None}
                 /\ "early" \in Faults \/ tasks[t].status = "claimed"
      BY <2>2, <2>7, <1>4 DEF SameCapability, Undelivered, DispatchOwnsItsTask
    <2>8. CASE IsHandedOver(t)
      BY <2>7, <2>8 DEF IsHandedOver
    <2>9. CASE IsMoved(t)
      BY <2>7, <2>9, TeamAssumption DEF IsMoved
    <2> QED
      BY <2>4, <2>5, <2>6, <2>8, <2>9, TaskEffects
  <1> QED
    BY <1>2, <1>3, <1>4, TicketSteps

\* Every step keeps the inductive invariant.
LEMMA StepInductive == Inductive /\ [Next]_vars => Inductive'
  BY StepTypeOK, StepAttemptsInOrder, StepTicketsBehind, StepOneOpenTask,
     StepDispatchOwnsItsTask
  DEF Inductive

\* The inductive invariant holds in every reachable state.
THEOREM InductiveHolds == Spec => []Inductive
  BY StepInductive, InitInductive, PTL DEF Spec

\* No member ever holds two unfinished tasks.
THEOREM MembersWorkAlone == Spec => []OneOpenTask
  <1>1. Inductive => OneOpenTask
    BY DEF Inductive
  <1> QED
    BY <1>1, InductiveHolds, PTL

\* A rollback only ever undoes its own member's fresh claim.
THEOREM DispatchesAreOwned == Spec => []DispatchOwnsItsTask
  <1>1. Inductive => DispatchOwnsItsTask
    BY DEF Inductive
  <1> QED
    BY <1>1, InductiveHolds, PTL

\* The result of an attempt was written with its capability, after it began;
\* what an interrupted worker wrote to a task that waited is gone by then.
THEOREM ResultsArePresent == Spec => []ResultOfPresentAttempt
  <1>1. Inductive => ResultOfPresentAttempt
    BY DEF Inductive, AttemptsInOrder, InOrder, ResultOfPresentAttempt, Terminal
  <1> QED
    BY <1>1, InductiveHolds, PTL

-----------------------------------------------------------------------------
(* What a step may never do                                                *)

\* An attempt id on a task is the one it had or one it never had.
THEOREM CapabilitiesNeverReturn == Spec => CapabilityNeverReturns
  <1> DEFINE Step(t) == tasks'[t].attemptId \in {0, tasks[t].attemptId}
                          \/ tasks'[t].attemptId > tasks[t].attempt
  <1>1. ASSUME Inductive, [Next]_vars, NEW t \in TaskId PROVE Step(t)
    <2>1. TypeOK /\ tasks[t].attempt \in Nat
      BY <1>1 DEF Inductive, TypeOK, Task
    <2> QED
      BY <1>1, <2>1, TaskEffects
      DEF Same, IsCreated, IsRequeued, IsRevoked, IsUndone, ToPool, IsClaimed,
          IsDispatched, IsTakenOver, Begun, IsHandedOver, IsMoved,
          SameCapability
  <1>2. Inductive /\ [Next]_vars => [\A t \in TaskId : Step(t)]_vars
    BY <1>1
  <1> QED
    BY <1>2, InductiveHolds, PTL DEF Spec, CapabilityNeverReturns

\* No step takes an open task from its owner and gives it to another.
LEMMA OpenTaskKept ==
  ASSUME Inductive, [Next]_vars, NEW t \in TaskId, IsOpen(t),
         tasks'[t].status \in {"claimed", "in_progress"}
  PROVE  /\ tasks'[t].assignee = tasks[t].assignee
         /\ \/ tasks'[t].attemptId = tasks[t].attemptId
            \/ \E m \in Member : KickClaim(m, t) /\ t \in Owned(m)
  <1>1. TypeOK /\ InOrder(tasks[t])
    BY DEF Inductive, AttemptsInOrder
  <1>2. /\ tasks[t].status \notin {"absent", "pending"}
        /\ ~tasks[t].reassigning
    BY <1>1 DEF IsOpen, InOrder
  <1>3. CASE Same(t) \/ IsHandedOver(t) \/ IsMoved(t)
    BY <1>3 DEF Same, IsHandedOver, IsMoved, SameCapability
  <1>4. CASE IsCreated(t) \/ IsRequeued(t) \/ IsRevoked(t) \/ IsUndone(t)
    BY <1>4 DEF IsCreated, IsRequeued, IsRevoked, IsUndone, ToPool
  <1>5. CASE IsClaimed(t) \/ IsTakenOver(t)
    BY <1>2, <1>5 DEF IsClaimed, ClaimFor, Claimable, IsTakenOver, StillOurs
  <1>6. CASE IsDispatched(t)
    BY <1>2, <1>6
    DEF IsDispatched, Begun, KickClaim, Selected, IsFirst, Owned, ReadyFor
  <1> QED
    BY <1>1, <1>3, <1>4, <1>5, <1>6, TaskEffects

\* An open task changes hands only by way of the pool, whoever claims it.
THEOREM TasksChangeHandsInThePool == Spec => NoDirectTakeover
  <1>1. Inductive /\ [Next]_vars =>
          [\A t \in TaskId :
             IsOpen(t) /\ tasks'[t].status \in {"claimed", "in_progress"} =>
               tasks'[t].assignee = tasks[t].assignee]_vars
    BY OpenTaskKept
  <1> QED
    BY <1>1, InductiveHolds, PTL DEF Spec, NoDirectTakeover

\* What the refinement mapping makes of a task.
LeaseHeld(u) == IF IsOpen(u) THEN tasks[u].assignee ELSE None

\* Every step keeps, ends or grants the lease of a task.
LEMMA LeaseStep ==
  ASSUME Inductive, [Next]_vars, NEW u \in TaskId
  PROVE  \/ /\ LeaseHeld(u)' = LeaseHeld(u)
            /\ tasks'[u].attempt = tasks[u].attempt
         \/ /\ LeaseHeld(u) # None /\ LeaseHeld(u)' = None
            /\ tasks'[u].attempt = tasks[u].attempt
         \/ \E who \in Member \cup {Captain} :
              /\ LeaseHeld(u) \in {None, who} /\ LeaseHeld(u)' = who
              /\ tasks'[u].attempt = tasks[u].attempt + 1
              /\ who \in Member =>
                   \A v \in TaskId \ {u} : LeaseHeld(v)' # who
  <1>1. TypeOK /\ InOrder(tasks[u]) /\ Inductive'
    BY StepInductive DEF Inductive, AttemptsInOrder
  <1>2. CASE Same(u)
    BY <1>2 DEF Same, LeaseHeld, IsOpen
  <1>3. CASE IsCreated(u)
    <2>1. PICK deps \in SUBSET TaskId, who \in Owner :
            CreateTask(deps, who) /\ u = taskSeq + 1
      BY <1>3 DEF IsCreated
    <2>2. tasks[u] = NoTask /\ tasks'[u] = Created(deps, who)
      BY <1>1, <2>1 DEF CreateTask, Inductive, AttemptsInOrder, TypeOK
    <2>3. tasks'[u].attempt = 0 /\ tasks'[u].status = "pending"
      BY <2>2, CreatedIs
    <2> QED
      BY <2>2, <2>3 DEF NoTask, LeaseHeld, IsOpen
  <1>4. CASE IsRequeued(u) \/ IsRevoked(u) \/ IsUndone(u)
    BY <1>4 DEF IsRequeued, IsRevoked, IsUndone, ToPool, LeaseHeld, IsOpen
  <1>5. CASE IsHandedOver(u)
    BY <1>5 DEF IsHandedOver, SameCapability, LeaseHeld, IsOpen
  <1>6. CASE IsMoved(u)
    BY <1>6 DEF IsMoved, Writable, Transition, SameCapability, LeaseHeld,
                IsOpen
  <1>7. CASE IsClaimed(u) \/ IsDispatched(u) \/ IsTakenOver(u)
    <2>1. PICK who \in Member \cup {Captain} :
            Begun(u, who) /\ LeaseHeld(u) \in {None, who}
      BY <1>1, <1>7
      DEF IsClaimed, ClaimFor, Claimable, IsDispatched, KickClaim, Selected,
          IsFirst, Owned, ReadyFor, IsTakenOver, StillOurs, InOrder,
          LeaseHeld, IsOpen
    <2>2. LeaseHeld(u)' = who /\ tasks'[u].attempt = tasks[u].attempt + 1
      BY <2>1 DEF Begun, LeaseHeld, IsOpen
    <2>3. ASSUME who \in Member, NEW v \in TaskId \ {u}
          PROVE  LeaseHeld(v)' # who
      <3>1. u \in Owned(who)'
        BY <2>1 DEF Begun, Owned, IsOpen
      <3>2. v \notin Owned(who)'
        BY <1>1, <2>3, <3>1 DEF Inductive, OneOpenTask
      <3> QED
        BY <2>3, <3>2, TeamAssumption DEF LeaseHeld, Owned
    <2> QED
      BY <2>1, <2>2, <2>3
  <1> QED
    BY <1>1, <1>2, <1>3, <1>4, <1>5, <1>6, <1>7, TaskEffects

\* The task list implements the abstract leases: whatever tools, scheduler,
\* rollbacks and restarts do, attempts are granted and ended as leases are.
THEOREM TasksAreLeased == Spec => ImplementsLeases
  <1>1. Init => Lease!Init
    BY DEF Init, Lease!Init, NoTask, IsOpen
  <1>2. Inductive /\ [Next]_vars =>
          [Lease!Next]_<<[t \in TaskId |-> IF IsOpen(t) THEN tasks[t].assignee
                                                       ELSE None],
                         [t \in TaskId |-> tasks[t].attempt]>>
    BY LeaseStep
    DEF Lease!Next, Lease!Keep, Lease!Release, Lease!Grant, LeaseHeld
  <1> QED
    BY <1>1, <1>2, InductiveHolds, PTL DEF Spec, Lease!Spec, ImplementsLeases

\* The attempt a member is parked with is not rotated under it.
THEOREM ParkedAttemptsKept == Spec => ParkedAttemptKept
  <1> DEFINE Step(m, t) ==
        (/\ parked[m] = <<t, tasks[t].attemptId>>
         /\ t \in Owned(m)
         /\ tasks'[t].status \in {"claimed", "in_progress"})
        => tasks'[t].attemptId = tasks[t].attemptId
  <1>1. ASSUME Inductive, [Next]_vars, NEW m \in Member, NEW t \in TaskId,
               parked[m] = <<t, tasks[t].attemptId>>, t \in Owned(m),
               tasks'[t].status \in {"claimed", "in_progress"}
        PROVE  tasks'[t].attemptId = tasks[t].attemptId
    <2>1. IsOpen(t) /\ tasks[t].assignee = m /\ tasks[t].attemptId # 0
      BY <1>1 DEF Owned, IsOpen, Inductive, AttemptsInOrder, InOrder
    <2>2. ASSUME NEW n \in Member, KickClaim(n, t), t \in Owned(n)
          PROVE  FALSE
      <3>1. n = m
        BY <2>1, <2>2 DEF Owned
      <3>2. Recovered(m, t)
        BY <2>2, <3>1 DEF KickClaim, Selected
      <3> QED
        BY <1>1, <2>1, <3>2 DEF Recovered
    <2> QED
      BY <1>1, <2>1, <2>2, OpenTaskKept
  <1>2. Inductive /\ [Next]_vars =>
          [\A m \in Member, t \in TaskId : Step(m, t)]_vars
    BY <1>1
  <1> QED
    BY <1>2, InductiveHolds, PTL DEF Spec, ParkedAttemptKept

\* Only the rollback of a dispatch still on its way can undo a completion.
LEMMA CompletionKept ==
  ASSUME Inductive, [Next]_vars, NEW t \in TaskId,
         tasks[t].status = "completed",
         "early" \notin Faults \/ \A m \in Member : ~Undelivered(m, t)
  PROVE  tasks'[t].status = "completed"
  <1>1. TypeOK /\ InOrder(tasks[t]) /\ (t > taskSeq => tasks[t] = NoTask)
    BY DEF Inductive, AttemptsInOrder
  <1>2. ~tasks[t].reassigning
    BY <1>1 DEF InOrder
  <1>3. CASE Same(t) \/ IsHandedOver(t)
    BY <1>3 DEF Same, IsHandedOver
  <1>4. ~IsCreated(t)
    BY <1>1 DEF IsCreated, NoTask, TypeOK
  <1>5. ~IsRequeued(t) /\ ~IsRevoked(t)
    BY DEF IsRequeued, Requeued, IsRevoked, ReassignBegin, Revocable
  <1>6. ~IsUndone(t)
    BY DEF IsUndone, Inductive, DispatchOwnsItsTask
  <1>7. ~IsClaimed(t) /\ ~IsTakenOver(t) /\ ~IsMoved(t)
    BY <1>2
    DEF IsClaimed, ClaimFor, Claimable, IsTakenOver, StillOurs, IsMoved,
        Writable, Terminal
  <1>8. ~IsDispatched(t)
    BY DEF IsDispatched, KickClaim, Selected, IsFirst, Owned, IsOpen, ReadyFor
  <1> QED
    BY <1>1, <1>3, <1>4, <1>5, <1>6, <1>7, <1>8, TaskEffects

\* Once its dispatch was acknowledged, a completed task stays completed,
\* whatever the environment does.
THEOREM DeliveredCompletionsAreFinal == Spec => DeliveredCompletionIsFinal
  <1>1. Inductive /\ [Next]_vars =>
          [\A t \in TaskId :
             (/\ tasks[t].status = "completed"
              /\ \A m \in Member : ~Undelivered(m, t)) =>
             tasks'[t].status = "completed"]_vars
    BY CompletionKept
  <1> QED
    BY <1>1, InductiveHolds, PTL DEF Spec, DeliveredCompletionIsFinal

\* A completed task stays completed if members never run ahead of the
\* acknowledgement of their dispatch.
THEOREM CompletionsAreFinal ==
  ASSUME "early" \notin Faults
  PROVE  Spec => CompletedIsFinal
  <1>1. Inductive /\ [Next]_vars =>
          [\A t \in TaskId : tasks[t].status = "completed" =>
                              tasks'[t].status = "completed"]_vars
    BY CompletionKept
  <1> QED
    BY <1>1, InductiveHolds, PTL DEF Spec, CompletedIsFinal

-----------------------------------------------------------------------------
(* Invariants that depend on the environment                               *)

\* Only add_member and remove_member write the list of members.
LEMMA MemberSteps ==
  ASSUME [Next]_vars
  PROVE  \/ members' = members
         \/ \E m \in Member : AddMember(m) \/ RemoveMember(m)
  BY DEF Next, CaptainStep, CreateTask, ReassignBegin, CaptainClaim, ClaimFor,
         CaptainUpdate, UpdateStatus, CaptainStatus, MemberStep, MemberClaim,
         MemberUpdate, SendMessage, PluginStep, RetireMember, FinishRemoval,
         KickSkips, KickMail, KickClaim, DeliveryAccepted, DeliveryRejected,
         SyncRunning, SyncIdle, ReassignQuiet, ReassignFinish, ReassignAborted,
         HarnessStep, Restart, TurnEnds, vars, durable

\* No step leaves unfinished work on a removed member.
LEMMA StepRemovedOwnNothing ==
  ASSUME Inductive, RemovedOwnNothing, "early" \notin Faults, [Next]_vars
  PROVE  RemovedOwnNothing'
  <1> SUFFICES ASSUME NEW t \in TaskId, tasks'[t].assignee \in Member \ Active'
               PROVE  tasks'[t].status = "completed"
    BY DEF RemovedOwnNothing
  <1>1. TypeOK
    BY DEF Inductive
  <1>2. tasks[t].assignee \in Member \ Active => tasks[t].status = "completed"
    BY DEF RemovedOwnNothing
  <1>3. CASE Same(t)
    <2>1. CASE tasks[t].assignee \in Member \ Active
      BY <1>2, <1>3, <2>1 DEF Same
    <2>2. CASE tasks[t].assignee \in Active
      <3> DEFINE m == tasks[t].assignee
      <3>1. RemoveMember(m)
        <4>1. m \in Member /\ members[m] = "active" /\ members'[m] # "active"
          BY <1>3, <2>2 DEF Same, Active
        <4>2. PICK n \in Member : AddMember(n) \/ RemoveMember(n)
          BY <4>1, MemberSteps
        <4> HIDE DEF m
        <4>3. members \in [Member -> {"absent", "active", "removed"}]
          BY <1>1 DEF TypeOK
        <4>4. ~AddMember(n)
          BY <4>1, <4>3 DEF AddMember
        <4>5. RemoveMember(n) => n = m
          BY <4>1, <4>3 DEF RemoveMember
        <4> QED
          BY <4>2, <4>4, <4>5
      <3>2. ASSUME tasks[t].status # "completed" PROVE FALSE
        <4>1. tasks'[t] = Invalidate(tasks[t], None, None)
          BY <1>1, <3>1, <3>2 DEF RemoveMember, Requeued, TypeOK
        <4>2. tasks'[t].assignee = None
          <5>1. tasks[t] \in Task /\ None \in Owner
            BY <1>1, StatusAndOwner DEF TypeOK
          <5> QED
            BY <4>1, <5>1, InvalidateIs
        <4> QED
          BY <4>2, TeamAssumption
      <3> QED
        BY <3>2, <1>3 DEF Same
    <2> QED
      BY <2>1, <2>2, <1>3 DEF Same, Active
  <1>4. ~IsCreated(t)
    BY TeamAssumption DEF IsCreated, CreateTask, Active
  <1>5. ~IsRequeued(t) /\ ~IsTakenOver(t)
    BY TeamAssumption DEF IsRequeued, ToPool, IsTakenOver, Begun
  <1>6. ~IsRevoked(t)
    BY TeamAssumption DEF IsRevoked, ReassignBegin, ToPool, Active
  <1>7. ~IsUndone(t)
    <2> SUFFICES ASSUME NEW m \in Member, DeliveryRejected(m),
                        Undelivered(m, t), ToPool(t, tickets[m].previous)
                 PROVE  FALSE
      BY DEF IsUndone
    <2>1. /\ tasks[t].assignee = m /\ tickets[m].previous \in {m, None}
          /\ tasks[t].status = "claimed"
      BY DEF Inductive, DispatchOwnsItsTask
    <2>2. m \in Active
      BY <2>1, <1>2
    <2> QED
      BY <2>1, <2>2, TeamAssumption DEF ToPool, DeliveryRejected, Active
  <1>8. ~IsClaimed(t) /\ ~IsDispatched(t)
    <2>1. ~IsClaimed(t)
      BY <1>2, TeamAssumption
      DEF IsClaimed, ClaimFor, Claimable, Begun, Active
    <2>2. ~IsDispatched(t)
      BY DEF IsDispatched, KickClaim, Available, Begun, Active
    <2> QED
      BY <2>1, <2>2
  <1>9. CASE IsHandedOver(t)
    <2>1. members' = members
      BY <1>9 DEF IsHandedOver, ReassignFinish, ReassignAborted
    <2> QED
      BY <1>2, <1>9, <2>1 DEF IsHandedOver, SameCapability, Active
  <1>10. CASE IsMoved(t)
    BY <1>10, TeamAssumption
    DEF IsMoved, Writable, SameCapability, Active
  <1> QED
    BY <1>1, <1>3, <1>4, <1>5, <1>6, <1>7, <1>8, <1>9, <1>10, TaskEffects

\* Nothing is stranded on a removed member.
THEOREM RemovedMembersOwnNothing ==
  ASSUME "early" \notin Faults
  PROVE  Spec => []RemovedOwnNothing
  <1>1. Init => RemovedOwnNothing
    BY TeamAssumption DEF Init, RemovedOwnNothing, NoTask
  <1>2. Inductive /\ RemovedOwnNothing /\ [Next]_vars => RemovedOwnNothing'
    BY StepRemovedOwnNothing
  <1> QED
    BY <1>1, <1>2, InductiveHolds, PTL DEF Spec

\* No step opens a task before its dependencies or reopens a dependency.
LEMMA StepDependenciesHold ==
  ASSUME Inductive, DependenciesHold, "early" \notin Faults, [Next]_vars
  PROVE  DependenciesHold'
  <1> SUFFICES ASSUME NEW m \in Member, NEW t \in Owned(m)',
                      NEW d \in tasks'[t].dependencies
               PROVE  tasks'[d].status = "completed"
    BY DEF DependenciesHold, DependenciesMet
  <1>1. TypeOK /\ t \in TaskId /\ tasks'[t].assignee = m /\ m # Captain
        /\ tasks'[t].status \in {"claimed", "in_progress"}
    BY TeamAssumption DEF Inductive, Owned, IsOpen
  <1>2. ASSUME t \in Owned(m) PROVE DependenciesMet(t)
    BY <1>2 DEF DependenciesHold
  <1>3. /\ tasks'[t].dependencies = tasks[t].dependencies
        /\ DependenciesMet(t)
    <2>1. CASE Same(t)
      BY <1>1, <1>2, <2>1 DEF Same, Owned, IsOpen
    <2>2. CASE IsCreated(t) \/ IsRequeued(t) \/ IsRevoked(t) \/ IsUndone(t)
      BY <1>1, <2>2 DEF IsCreated, IsRequeued, IsRevoked, IsUndone, ToPool
    <2>3. CASE IsClaimed(t)
      BY <2>3 DEF IsClaimed, ClaimFor, Begun
    <2>4. CASE IsDispatched(t)
      <3>1. KickClaim(m, t) /\ tasks'[t].dependencies = tasks[t].dependencies
        BY <1>1, <2>4 DEF IsDispatched, Begun
      <3> QED
        BY <1>2, <3>1 DEF KickClaim, Selected, IsFirst, ReadyFor
    <2>5. CASE IsTakenOver(t)
      BY <1>1, <2>5 DEF IsTakenOver, Begun
    <2>6. CASE IsHandedOver(t) \/ IsMoved(t)
      BY <1>1, <1>2, <2>6
      DEF IsHandedOver, IsMoved, SameCapability, Writable, Transition,
          Owned, IsOpen
    <2> QED
      BY <1>1, <2>1, <2>2, <2>3, <2>4, <2>5, <2>6, TaskEffects
  <1>4. d \in TaskId /\ tasks[d].status = "completed"
    BY <1>1, <1>3 DEF TypeOK, Task, DependenciesMet
  <1> QED
    BY <1>4, CompletionKept

\* Every task in a member's hands has its dependencies completed.
THEOREM DependenciesAlwaysHold ==
  ASSUME "early" \notin Faults
  PROVE  Spec => []DependenciesHold
  <1>1. Init => DependenciesHold
    BY DEF Init, DependenciesHold, Owned, IsOpen, NoTask
  <1>2. Inductive /\ DependenciesHold /\ [Next]_vars => DependenciesHold'
    BY StepDependenciesHold
  <1> QED
    BY <1>1, <1>2, InductiveHolds, PTL DEF Spec

\* A reassign_task call in flight keeps its task and target until it ends.
LEMMA HandoffSteps ==
  ASSUME TypeOK, [Next]_vars, NEW c \in Call, "crash" \notin Faults
  PROVE  \/ /\ handoffs'[c].task = handoffs[c].task
            /\ handoffs'[c].target = handoffs[c].target
         \/ \E t \in TaskId, target \in Member \cup {Captain} :
              ReassignBegin(c, t, target)
         \/ ReassignFinish(c) \/ ReassignAborted(c)
  <1> DEFINE Kept == /\ handoffs'[c].task = handoffs[c].task
                     /\ handoffs'[c].target = handoffs[c].target
  <1>1. ASSUME NEW e \in Call, NEW t \in TaskId,
               NEW target \in Member \cup {Captain},
               ReassignBegin(e, t, target), e # c
        PROVE  Kept
    BY <1>1 DEF ReassignBegin, TypeOK
  <1>2. ASSUME NEW e \in Call, ReassignFinish(e) \/ ReassignAborted(e), e # c
        PROVE  Kept
    BY <1>2 DEF ReassignFinish, ReassignAborted, TypeOK
  <1>3. ASSUME NEW e \in Call, ReassignQuiet(e) PROVE Kept
    <2>1. CASE e = c
      <3>1. handoffs'[c] = [handoffs[c] EXCEPT !.worker = None]
        BY <1>3, <2>1 DEF ReassignQuiet, TypeOK
      <3> QED
        BY <3>1 DEF TypeOK, Handoff, NoHandoff
    <2>2. CASE e # c
      BY <1>3, <2>2 DEF ReassignQuiet, TypeOK
    <2> QED
      BY <2>1, <2>2
  <1>4. ASSUME UNCHANGED handoffs PROVE Kept
    BY <1>4
  <1>5. CASE CaptainStep
    BY <1>1, <1>4, <1>5
    DEF CaptainStep, AddMember, RemoveMember, CreateTask, CaptainClaim,
        ClaimFor, CaptainUpdate, UpdateStatus, CaptainStatus, volatile
  <1>6. CASE MemberStep
    BY <1>4, <1>6
    DEF MemberStep, MemberClaim, ClaimFor, MemberUpdate, UpdateStatus,
        SendMessage, volatile
  <1>7. CASE PluginStep
    BY <1>2, <1>3, <1>4, <1>7
    DEF PluginStep, RetireMember, FinishRemoval, KickSkips, KickMail,
        KickClaim, DeliveryAccepted, DeliveryRejected, SyncRunning, SyncIdle,
        volatile
  <1>8. CASE HarnessStep \/ UNCHANGED vars
    BY <1>4, <1>8 DEF HarnessStep, Restart, TurnEnds, vars, volatile
  <1> QED
    BY <1>5, <1>6, <1>7, <1>8 DEF Next

\* No step but the call's own end separates a mark from its call.
LEMMA StepReassigningHasItsCall ==
  ASSUME TypeOK, ReassigningHasItsCall, "crash" \notin Faults, [Next]_vars
  PROVE  ReassigningHasItsCall'
  <1> SUFFICES ASSUME NEW t \in TaskId, tasks'[t].reassigning
               PROVE  \E c \in Call : /\ handoffs'[c].task = t
                                      /\ tasks'[t].handoffId = c
                                      /\ tasks'[t].assignee = handoffs'[c].target
    BY DEF ReassigningHasItsCall, StillOurs
  <1>1. CASE IsRevoked(t)
    <2>1. PICK c \in Call, target \in Member \cup {Captain} :
            /\ ReassignBegin(c, t, target) /\ ToPool(t, target)
            /\ tasks'[t].handoffId = c
      BY <1>1 DEF IsRevoked
    <2>2. handoffs'[c].task = t /\ handoffs'[c].target = target
      BY <2>1 DEF ReassignBegin, TypeOK
    <2> QED
      BY <2>1, <2>2 DEF ToPool
  <1>2. ASSUME tasks[t].reassigning, tasks'[t].handoffId = tasks[t].handoffId,
               tasks'[t].assignee = tasks[t].assignee
        PROVE  \E c \in Call : /\ handoffs'[c].task = t
                               /\ tasks'[t].handoffId = c
                               /\ tasks'[t].assignee = handoffs'[c].target
    <2>1. PICK c \in Call : handoffs[c].task = t /\ StillOurs(c)
      BY <1>2 DEF ReassigningHasItsCall
    <2>2. ASSUME NEW u \in TaskId, NEW target \in Member \cup {Captain},
                 ReassignBegin(c, u, target)
          PROVE  FALSE
      BY <2>1, <2>2 DEF ReassignBegin, NoHandoff, TaskId
    <2>3. ASSUME ReassignFinish(c) \/ ReassignAborted(c) PROVE FALSE
      <3>1. tasks[t] \in Task
        BY DEF TypeOK
      <3>2. \/ tasks'[t] = BeginAttempt(tasks[t], Captain)
            \/ tasks'[t] = HandedOver(tasks[t])
        BY <2>1, <2>3 DEF ReassignFinish, ReassignAborted, TypeOK
      <3>3. ~tasks'[t].reassigning
        BY <3>1, <3>2, BeginAttemptIs, HandedOverIs, StatusAndOwner
      <3> QED
        BY <3>3
    <2>4. handoffs'[c].task = t /\ handoffs'[c].target = handoffs[c].target
      BY <2>1, <2>2, <2>3, HandoffSteps
    <2> QED
      BY <1>2, <2>1, <2>4 DEF StillOurs
  <1>3. CASE Same(t)
    BY <1>2, <1>3 DEF Same
  <1>4. CASE IsMoved(t)
    BY <1>2, <1>4 DEF IsMoved, SameCapability
  <1>5. /\ ~IsCreated(t) /\ ~IsRequeued(t) /\ ~IsUndone(t) /\ ~IsClaimed(t)
        /\ ~IsDispatched(t) /\ ~IsTakenOver(t) /\ ~IsHandedOver(t)
    BY DEF IsCreated, IsRequeued, IsUndone, IsClaimed, IsDispatched,
           IsTakenOver, IsHandedOver, Begun
  <1> QED
    BY <1>1, <1>3, <1>4, <1>5, TaskEffects

\* While the process lives, a mark left by reassign_task has its call.
THEOREM MarksHaveTheirCall ==
  ASSUME "crash" \notin Faults
  PROVE  Spec => []ReassigningHasItsCall
  <1>1. Init => ReassigningHasItsCall
    BY DEF Init, ReassigningHasItsCall, NoTask
  <1>2. TypeOK /\ ReassigningHasItsCall /\ [Next]_vars => ReassigningHasItsCall'
    BY StepReassigningHasItsCall
  <1> QED
    BY <1>1, <1>2, TypeCorrect, PTL DEF Spec
=============================================================================
