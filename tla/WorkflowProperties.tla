------------------------ MODULE WorkflowProperties ------------------------
(***************************************************************************)
(* What the workflow service guarantees, and what its documentation says   *)
(* of it.                                                                  *)
(***************************************************************************)
EXTENDS WorkflowService

OutboxRow == [req : Req, event : EventType, subject : Subject]

\* Every variable has its type.
TypeOK ==
    /\ taskStatus \in [Task -> DbTaskStatus]
    /\ instanceStatus \in [Instance -> WorkflowStatus \cup {Absent}]
    /\ outbox \subseteq OutboxRow
    /\ timeline \subseteq OutboxRow
    /\ session \in [Req -> Session]
    /\ everCompleted \subseteq Task

-----------------------------------------------------------------------------
(***************************************************************************)
(* Guarantees that hold however requests overlap.                          *)
(***************************************************************************)

\* Transactional outbox: a request answered with 200 has left rows in the
\* outbox, and one that left rows is over and was not told that it was refused.
\* (A handler's rows stand or fall with its one db.commit(); a 500 or no answer
\* leaves the client in doubt.)
OutboxAtomic ==
    \A r \in Req :
        LET wrote == \E row \in outbox : row.req = r
        IN /\ session[r].reply = "200" => wrote
           /\ wrote => session[r].reply \in Outcome

\* The dependency engine announces a child as ready only after a COMPLETED has
\* been committed for every task it depends on, whatever other requests do
\* between the engine's statements.
UnlockJustified ==
    \A row \in outbox :
        row.event = UnlockEvent => Parents(row.subject) \subseteq everCompleted

TaskAnnouncement ==
    [READY     |-> {"task.ready", UnlockEvent},
     RUNNING   |-> {"task.started", "ApprovalRequested"},
     COMPLETED |-> {"task.completed"},
     CANCELLED |-> {"task.cancel"},
     PENDING   |-> {}, FAILED |-> {}, RETRYING |-> {}]

InstanceAnnouncement ==
    [RUNNING   |-> {"instance.started", "instance.resumed", "instance.retry"},
     PAUSED    |-> {"instance.paused"},
     COMPLETED |-> {"instance.completed"},
     FAILED    |-> {"instance.timed_out"},
     CANCELLED |-> {"instance.cancelled"},
     PENDING   |-> {"instance.created"},
     TIMED_OUT |-> {}, WAITING_FOR_APPROVAL |-> {}]

\* A status never changes silently: the transaction that commits the new
\* status of a task or an instance also commits an outbox row that names it
\* with an event for that status.
ChangesAnnounced ==
    [][ LET added == outbox' \ outbox
        IN /\ \A t \in Task : taskStatus'[t] # taskStatus[t] =>
                \E row \in added : /\ row.subject = t
                                   /\ row.event \in TaskAnnouncement[taskStatus'[t]]
           /\ \A i \in Instance : instanceStatus'[i] # instanceStatus[i] =>
                \E row \in added :
                    /\ row.subject = i
                    /\ row.event \in InstanceAnnouncement[instanceStatus'[i]]
      ]_vars

\* What is in flight agrees with what is stored.  It is the inductive form of
\* OutboxAtomic and UnlockJustified: a request that has not ended has left no
\* rows and has not been answered, and an unlock that a session is about to
\* commit is already justified.
InFlight ==
    \A r \in Req :
        /\ session[r].phase # "done" =>
              /\ session[r].reply = "none"
              /\ \A row \in outbox : row.req # r
        /\ session[r].phase \notin {"idle", "done"} => session[r].staged # {}
        /\ \A e \in session[r].staged :
              e.event = UnlockEvent => Parents(e.subject) \subseteq everCompleted

CompletedRemembered ==
    \A t \in Task : taskStatus[t] = "COMPLETED" => t \in everCompleted

IInv == OutboxAtomic /\ UnlockJustified /\ InFlight /\ CompletedRemembered

\* The inductive form of ChangesAnnounced: whatever status a session has changed,
\* among its staged rows is one that names it.
StagedAnnounces ==
    \A r \in Req :
        LET s == session[r]
        IN /\ \A t \in Task : s.dirty[t] \in DbTaskStatus =>
                \E e \in s.staged : e.subject = t /\ e.event \in TaskAnnouncement[s.dirty[t]]
           /\ s.instance # Clean =>
                \E e \in s.staged : /\ e.subject = s.subject
                                   /\ e.event \in InstanceAnnouncement[s.instance]

\* The inductive form of the three guarantees together: what a session holds is new,
\* justified and complete.
SessionInv == IInv /\ StagedAnnounces

\* Every request that begins a transaction ends it: no thread keeps a session
\* open for ever, however many children the dependency engine has to look at.
RequestsEnd == \A r \in Req : Open(r) ~> ~Open(r)

-----------------------------------------------------------------------------
(***************************************************************************)
(* Guarantees that need requests not to overlap (Overlap = FALSE).         *)
(***************************************************************************)

\* A cancelled task is never made ready or run again.
CancelledNeverRuns ==
    [][\A t \in Task : taskStatus[t] = "CANCELLED" =>
           taskStatus'[t] \notin {"READY", "RUNNING", "PENDING"}]_vars

\* The dependency engine makes a task ready at most once, so that no two
\* messages ask for it to be executed.
UnlockedOnce ==
    \A row1, row2 \in outbox :
        /\ row1.event = UnlockEvent /\ row2.event = UnlockEvent
        /\ row1.subject = row2.subject
        => row1.req = row2.req

\* The converse of ChangesAnnounced: a row that names a new status of a task is
\* committed only together with that status, so no consumer is told of a change
\* that did not happen or was already gone.
AnnouncedTruly ==
    [][\A row \in outbox' \ outbox :
           /\ row.subject \in Task
           /\ \E s \in TaskStatus : row.event \in TaskAnnouncement[s]
           /\ row.event # "ApprovalRequested"
           => row.event \in TaskAnnouncement[taskStatus'[row.subject]]]_vars

Atomic == INSTANCE AtomicWorkflow

\* Requests that do not overlap behave as indivisible changes: the service
\* implements AtomicWorkflow, each commit being the change its request asks
\* for and every other step of a request being invisible.
Atomically == Atomic!Spec

\* What a request that runs alone is about to write, from what is stored: a task
\* changed by op,
Changes(s, op, t) ==
    /\ taskStatus[t] \in TaskAllowed[op]
    /\ s.phase = "staged" /\ s.subject = t /\ s.instance = Clean
    /\ s.dirty = [Fresh.dirty EXCEPT ![t] =
                    Changed(TaskAssigned(op, taskStatus[t]), taskStatus[t])]
    /\ s.staged = {[event |-> e, subject |-> t] : e \in TaskEvents[op]}

\* a task completed, and the children found ready so far unlocked,
FoundReady(s, t) ==
    {c \in IF s.phase = "children" THEN {} ELSE PendingChildren(t) \ s.unread :
        AllDependenciesCompleted(c)}

Completes(s, t) ==
    /\ s.phase \in {"children", "parents", "staged"}
    /\ s.phase = "parents" => s.unread \subseteq PendingChildren(t)
    /\ s.phase = "staged" => s.unread = {}
    /\ s.subject = t /\ s.instance = Clean
    /\ s.dirty = [u \in Task |-> IF u \in FoundReady(s, t) THEN "READY"
                                 ELSE IF u = t THEN Changed("COMPLETED", taskStatus[t])
                                 ELSE Clean]
    /\ s.staged = {[event |-> "task.completed", subject |-> t]}
                    \cup {[event |-> UnlockEvent, subject |-> c] : c \in FoundReady(s, t)}

\* an instance changed by op, and when it starts the tasks it makes ready,
ChangesInstance(s, op, i) ==
    LET roots == IF op = "start_instance" /\ s.phase = "staged" THEN RootTasks(i) ELSE {}
    IN /\ instanceStatus[i] # Absent
       /\ s.phase \in {"staged"} \cup (IF op = "start_instance" THEN {"roots"} ELSE {})
       /\ s.subject = i
       /\ s.instance = Changed(InstanceAssigned(op, instanceStatus[i]), instanceStatus[i])
       /\ s.dirty = [t \in Task |-> IF t \in roots THEN "READY" ELSE Clean]
       /\ s.staged = {[event |-> InstanceEvent[op], subject |-> i]}
                       \cup {[event |-> "task.ready", subject |-> t] : t \in roots}

\* an instance created.
Creates(s, i) ==
    /\ instanceStatus[i] = Absent
    /\ s.phase = "staged" /\ s.subject = i /\ s.instance = "PENDING"
    /\ s.dirty = Fresh.dirty
    /\ s.staged = {[event |-> InstanceEvent["create_instance"], subject |-> i]}

OneChange(s) ==
    \/ \E op \in TaskOp \ {"complete_task", "fail_task"}, t \in Task : Changes(s, op, t)
    \/ \E t \in Task : Completes(s, t)
    \/ \E op \in InstanceOp \ {"fail_instance"}, i \in Instance : ChangesInstance(s, op, i)
    \/ \E i \in Instance : Creates(s, i)

\* The inductive form of UnlockedOnce, AnnouncedTruly and Atomically: one request is
\* open, it is about to make one change of AtomicWorkflow, and a task that was
\* unlocked is not PENDING again.
SerialInv ==
    /\ \A q, r \in Req : Open(q) /\ Open(r) => q = r
    /\ \A r \in Req : Open(r) => OneChange(session[r])
    /\ \A row \in outbox : row.event = UnlockEvent =>
          row.subject \in Task /\ taskStatus[row.subject] # "PENDING"
    /\ UnlockedOnce

-----------------------------------------------------------------------------
(***************************************************************************)
(* What the documentation and the tests say, and the service does not do.  *)
(***************************************************************************)

\* dependency_service.py: the engine works "within an active database
\* transaction" and a task is unlocked when "every upstream task ... is
\* COMPLETED": the completion that finishes the last parent unlocks the child.
LastParentUnlocks ==
    [][\A t \in Task : taskStatus[t] # "COMPLETED" /\ taskStatus'[t] = "COMPLETED" =>
           \A c \in Children(t) :
               /\ taskStatus[c] = "PENDING"
               /\ \A p \in Parents(c) : taskStatus'[p] = "COMPLETED"
               => taskStatus'[c] = "READY"]_vars

\* implementation_plan.md: tasks are executed "respecting depends_on DAG": no
\* task is announced as ready before the tasks it depends on have completed.
ReadyRespectsDependencies ==
    \A row \in outbox :
        row.event = "task.ready" => Parents(row.subject) \subseteq everCompleted

\* Task.start: a task becomes RUNNING from READY only; workflow_main.py answers
\* a concurrent mutation with 409 instead of letting it through.
RunningFromReady ==
    [][\A t \in Task : taskStatus[t] # "RUNNING" /\ taskStatus'[t] = "RUNNING" =>
           taskStatus[t] = "READY"]_vars
=============================================================================
