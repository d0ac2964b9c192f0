-------------------------- MODULE WorkflowService --------------------------
(***************************************************************************)
(* The workflow service: HTTP requests that run TaskService and            *)
(* InstanceService handlers, each in a database session of its own.        *)
(*                                                                         *)
(* The handlers are synchronous, so requests run in threads that           *)
(* interleave between the statements they send.  Sessions neither flush    *)
(* before a SELECT (autoflush=False) nor lock the rows they load; the      *)
(* database reads what is committed at each statement (READ COMMITTED).    *)
(* A handler therefore loads a row, works on the copy in its session, and  *)
(* only db.commit() writes: the changed columns of the loaded rows and the *)
(* staged outbox and timeline rows, in one transaction.                    *)
(***************************************************************************)
EXTENDS WorkflowDomain, FiniteSets

CONSTANTS
    Task,            \* rows of workflow.tasks
    Instance,        \* identifiers of workflow.workflow_instances
    InstanceOf,      \* tasks.workflow_instance_id
    DependsOn,       \* rows of workflow.task_dependencies, <<task, upstream>>
    Req,             \* the requests clients send
    Ops,             \* the operations they ask for
    SeedTask,        \* statuses a task row may have when the service starts
    SeedInstance,    \* the same for instance rows, Absent where none exists
    Overlap,         \* FALSE: a request is sent after the previous one ended
    Absent, Clean, NoSubject

ASSUME ServiceAssumption ==
    /\ Task \cap Instance = {}
    /\ NoSubject \notin Task \cup Instance
    /\ InstanceOf \in [Task -> Instance]
    /\ DependsOn \subseteq {d \in Task \X Task : d[1] # d[2]}
    /\ Ops \subseteq TaskOp \cup InstanceOp \cup {"create_instance"}
    /\ SeedTask \subseteq DbTaskStatus
    /\ SeedInstance \subseteq WorkflowStatus \cup {Absent}
    /\ Overlap \in BOOLEAN
    /\ Absent \notin WorkflowStatus
    /\ Clean \notin TaskStatus \cup WorkflowStatus

VARIABLES
    taskStatus,      \* committed tasks.status
    instanceStatus,  \* committed workflow_instances.status
    outbox,          \* committed workflow.outbox_events
    timeline,        \* committed workflow.workflow_events
    session,         \* per request: its handler and its database session
    everCompleted    \* history: tasks that have been COMPLETED in a commit

store == <<taskStatus, instanceStatus, outbox, timeline, everCompleted>>
vars  == <<store, session>>

Children(t) == {c \in Task : <<c, t>> \in DependsOn}
Parents(t)  == {p \in Task : <<t, p>> \in DependsOn}
Subject     == Task \cup Instance

\* The task or instance a staged row is about.  (The handlers that pass their
\* arguments by position store the task in aggregate_type and its instance in
\* aggregate_id; start_instance stores the task in the payload.)
StagedRow == [event : EventType, subject : Subject]

Phase == {"idle",      \* not sent yet
          "children",  \* about to select the pending children
          "parents",   \* selecting the parents of each of them
          "roots",     \* about to select the tasks an instance starts
          "staged",    \* ready to commit
          "done"}
Reply == {"none", "200", "404", "422", "500",
          "lost"}      \* the client never got an answer

Session ==
    [phase    : Phase,
     subject  : Subject \cup {NoSubject},
     unread   : SUBSET Task,                    \* children still to look at
     dirty    : [Task -> TaskStatus \cup {Clean}],
     instance : WorkflowStatus \cup {Clean},    \* changed instance status
     staged   : SUBSET StagedRow,
     reply    : Reply]

Fresh == [phase    |-> "idle",
          subject  |-> NoSubject,
          unread   |-> {},
          dirty    |-> [t \in Task |-> Clean],
          instance |-> Clean,
          staged   |-> {},
          reply    |-> "none"]

Answered(code) == [Fresh EXCEPT !.phase = "done", !.reply = code]

Init ==
    /\ taskStatus \in [Task -> SeedTask]
    /\ instanceStatus \in [Instance -> SeedInstance]
    /\ \A t \in Task : instanceStatus[InstanceOf[t]] # Absent
    /\ outbox = {}
    /\ timeline = {}
    /\ session = [r \in Req |-> Fresh]
    /\ everCompleted = {t \in Task : taskStatus[t] = "COMPLETED"}

Open(r) == session[r].phase \notin {"idle", "done"}

MayBegin(r) ==
    /\ session[r].phase = "idle"
    /\ Overlap \/ \A q \in Req : ~Open(q)

\* An assignment of the value an attribute already has is no change to flush.
Changed(new, old) == IF new = old THEN Clean ELSE new

-----------------------------------------------------------------------------
(***************************************************************************)
(* Task handlers: load the row, apply the state machine, stage the event.  *)
(***************************************************************************)

StageTask(r, op, t) ==
    /\ MayBegin(r)
    /\ op \in Ops \cap TaskOp
    /\ op \notin UnbuildableEvent
    /\ taskStatus[t] \in TaskAllowed[op]
    /\ session' = [session EXCEPT ![r] =
         [Fresh EXCEPT
            !.phase   = IF op = "complete_task" THEN "children" ELSE "staged",
            !.subject = t,
            !.dirty   = [Fresh.dirty EXCEPT ![t] =
                           Changed(TaskAssigned(op, taskStatus[t]), taskStatus[t])],
            !.staged  = {[event |-> e, subject |-> t] : e \in TaskEvents[op]}]]
    /\ UNCHANGED store

\* Task.mark_ready, start, retry or cancel, or receive_approval itself, raises
\* InvalidStateTransitionError.
RejectTask(r, op, t) ==
    /\ MayBegin(r)
    /\ op \in Ops \cap TaskOp
    /\ taskStatus[t] \notin TaskAllowed[op]
    /\ session' = [session EXCEPT ![r] = Answered("422")]
    /\ UNCHANGED store

TaskMissing(r, op) ==
    /\ MayBegin(r)
    /\ op \in Ops \cap TaskOp
    /\ session' = [session EXCEPT ![r] = Answered(TaskMissingReply(op))]
    /\ UNCHANGED store

(***************************************************************************)
(* TaskDependencyEngine.evaluate_downstream_tasks, called by complete_task *)
(* before its commit: one SELECT for the children that are PENDING, then   *)
(* one for the parents of each.  Both see committed rows only, so the      *)
(* COMPLETED that the calling handler has just assigned is not among them. *)
(***************************************************************************)

\* Mutant: the children are not filtered by their status.
AnyChildren(t) == Children(t)

PendingChildren(t) == {c \in Children(t) : taskStatus[c] = "PENDING"}

ReadChildren(r) ==
    LET pending == PendingChildren(session[r].subject)
    IN /\ session[r].phase = "children"
       /\ session' = [session EXCEPT ![r] =
            [@ EXCEPT !.phase  = IF pending = {} THEN "staged" ELSE "parents",
                      !.unread = pending]]
       /\ UNCHANGED store

\* Mutants: one completed parent is enough; a parent need only have left PENDING.
AnyDependencyCompleted(c) == \E p \in Parents(c) : taskStatus[p] = "COMPLETED"
DependenciesLeftPending(c) == \A p \in Parents(c) : taskStatus[p] # "PENDING"

AllDependenciesCompleted(c) == \A p \in Parents(c) : taskStatus[p] = "COMPLETED"

ReadParents(r, c) ==
    LET s == session[r]
        left == s.unread \ {c}
        unlocked == AllDependenciesCompleted(c)
    IN /\ s.phase = "parents"
       /\ c \in s.unread
       /\ session' = [session EXCEPT ![r] =
            [s EXCEPT
               !.phase  = IF left = {} THEN "staged" ELSE "parents",
               !.unread = left,
               !.dirty  = IF unlocked THEN [s.dirty EXCEPT ![c] = "READY"] ELSE s.dirty,
               !.staged = IF unlocked
                          THEN s.staged \cup {[event |-> UnlockEvent, subject |-> c]}
                          ELSE s.staged]]
       /\ UNCHANGED store

-----------------------------------------------------------------------------
(***************************************************************************)
(* Instance handlers.                                                      *)
(***************************************************************************)

CreateInstance(r, i) ==
    /\ MayBegin(r)
    /\ "create_instance" \in Ops
    /\ instanceStatus[i] = Absent
    /\ \A q \in Req : session[q].subject # i          \* a fresh uuid4
    /\ session' = [session EXCEPT ![r] =
         [Fresh EXCEPT
            !.phase    = "staged",
            !.subject  = i,
            !.instance = "PENDING",
            !.staged   = {[event   |-> InstanceEvent["create_instance"],
                           subject |-> i]}]]
    /\ UNCHANGED store

StageInstance(r, op, i) ==
    /\ MayBegin(r)
    /\ op \in Ops \cap InstanceOp
    /\ op \notin UnbuildableEvent
    /\ instanceStatus[i] # Absent
    /\ session' = [session EXCEPT ![r] =
         [Fresh EXCEPT
            !.phase    = IF op = "start_instance" THEN "roots" ELSE "staged",
            !.subject  = i,
            !.instance = Changed(InstanceAssigned(op, instanceStatus[i]),
                                 instanceStatus[i]),
            !.staged   = {[event |-> InstanceEvent[op], subject |-> i]}]]
    /\ UNCHANGED store

\* The handler wants to answer 404, but builds WorkflowInstanceNotFound without
\* the blueprint_id the event requires, so pydantic turns the 404 into a 500.
\* Creating an instance of a blueprint that does not exist fails at the flush.
InstanceMissing(r, op) ==
    /\ MayBegin(r)
    /\ op \in Ops \cap (InstanceOp \cup {"create_instance"})
    /\ session' = [session EXCEPT ![r] = Answered("500")]
    /\ UNCHANGED store

\* Mutants: the query forgets dependencies.any(), or the status.
PendingTasks(i)   == {t \in Task : InstanceOf[t] = i /\ taskStatus[t] = "PENDING"}
DependentTasks(i) == {t \in Task : InstanceOf[t] = i /\ Parents(t) # {}}

\* The query that start_instance names root_tasks: PENDING tasks of the
\* instance with Task.dependencies.any(), that is with at least one parent.
RootTasks(i) == {t \in Task : /\ InstanceOf[t] = i
                              /\ taskStatus[t] = "PENDING"
                              /\ Parents(t) # {}}

\* Mutant: the tasks become READY without a row of their own.
ReadRootsSilently(r) ==
    /\ session[r].phase = "roots"
    /\ session' = [session EXCEPT ![r] =
         [@ EXCEPT !.phase = "staged",
                   !.dirty = [t \in Task |-> IF t \in RootTasks(session[r].subject)
                                             THEN "READY" ELSE @[t]]]]
    /\ UNCHANGED store

ReadRoots(r) ==
    LET s == session[r]
        roots == RootTasks(s.subject)
    IN /\ s.phase = "roots"
       /\ session' = [session EXCEPT ![r] =
            [s EXCEPT
               !.phase  = "staged",
               !.dirty  = [t \in Task |-> IF t \in roots THEN "READY" ELSE s.dirty[t]],
               !.staged = s.staged \cup
                            {[event |-> "task.ready", subject |-> t] : t \in roots}]]
       /\ UNCHANGED store

\* fail_task and fail_instance raise while they build their event.
BuildError(r, op) ==
    /\ MayBegin(r)
    /\ op \in Ops \cap UnbuildableEvent
    /\ session' = [session EXCEPT ![r] = Answered("500")]
    /\ UNCHANGED store

-----------------------------------------------------------------------------
(***************************************************************************)
(* The end of a transaction.                                               *)
(***************************************************************************)

\* Mutant: the UPDATE is sent whatever the label.
AlwaysFlushable(r) == session[r].phase = "staged"

Flushable(r) == \A t \in Task : session[r].dirty[t] \in DbTaskStatus \cup {Clean}

Rows(r) == {[req |-> r, event |-> e.event, subject |-> e.subject] :
               e \in session[r].staged}

\* What a client hears after a commit: db.refresh() comes after it and can fail.
Outcome == {"200", "500", "lost"}

\* Mutant: the rows are staged after the commit and never written.
CommitWithoutRows(r) ==
    /\ session[r].phase = "staged"
    /\ taskStatus' = [t \in Task |->
         IF session[r].dirty[t] = Clean THEN taskStatus[t] ELSE session[r].dirty[t]]
    /\ \E code \in Outcome : session' = [session EXCEPT ![r] = Answered(code)]
    /\ UNCHANGED <<instanceStatus, outbox, timeline, everCompleted>>

Commit(r) ==
    LET s == session[r]
    IN /\ s.phase = "staged"
       /\ Flushable(r)
       /\ taskStatus' = [t \in Task |->
            IF s.dirty[t] = Clean THEN taskStatus[t] ELSE s.dirty[t]]
       /\ instanceStatus' = [i \in Instance |->
            IF i = s.subject /\ s.instance # Clean THEN s.instance
                                                   ELSE instanceStatus[i]]
       /\ outbox' = outbox \cup Rows(r)
       /\ timeline' = timeline \cup
            {row \in Rows(r) : row.event = UnlockEvent}
       /\ everCompleted' = everCompleted \cup
            {t \in Task : s.dirty[t] = "COMPLETED"}
       /\ \E code \in Outcome :
            session' = [session EXCEPT ![r] = Answered(code)]

\* Mutant: the error is swallowed and the session stays as it is.
KeepSession(r) ==
    /\ session[r].phase = "staged"
    /\ ~Flushable(r)
    /\ UNCHANGED vars

\* The UPDATE carries a label the column type does not have.
FlushError(r) ==
    /\ session[r].phase = "staged"
    /\ ~Flushable(r)
    /\ session' = [session EXCEPT ![r] = Answered("500")]
    /\ UNCHANGED store

\* Mutant: the outbox rows are committed by a transaction of their own.
CrashBetweenCommits(r) ==
    /\ session[r].phase = "staged"
    /\ outbox' = outbox \cup Rows(r)
    /\ session' = [session EXCEPT ![r] = Answered("500")]
    /\ UNCHANGED <<taskStatus, instanceStatus, timeline, everCompleted>>

\* The process dies or the connection drops before the commit: rolled back.
Crash(r) ==
    /\ Open(r)
    /\ session' = [session EXCEPT ![r] = Answered("lost")]
    /\ UNCHANGED store

-----------------------------------------------------------------------------
Begin(r) ==
    \/ \E op \in TaskOp, t \in Task : StageTask(r, op, t) \/ RejectTask(r, op, t)
    \/ \E op \in TaskOp : TaskMissing(r, op)
    \/ \E i \in Instance : CreateInstance(r, i)
    \/ \E op \in InstanceOp, i \in Instance : StageInstance(r, op, i)
    \/ \E op \in InstanceOp \cup {"create_instance"} : InstanceMissing(r, op)
    \/ \E op \in UnbuildableEvent : BuildError(r, op)

Proceed(r) ==
    \/ ReadChildren(r)
    \/ \E c \in Task : ReadParents(r, c)
    \/ ReadRoots(r)
    \/ Commit(r)
    \/ FlushError(r)

Next == \E r \in Req : Begin(r) \/ Proceed(r) \/ Crash(r)

Spec == Init /\ [][Next]_vars

\* A thread of the pool runs its handler to the end; clients owe nothing.
FairSpec == Spec /\ \A r \in Req : WF_vars(Proceed(r))
=============================================================================
