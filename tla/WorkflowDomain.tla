--------------------------- MODULE WorkflowDomain ---------------------------
(***************************************************************************)
(* The vocabulary of the workflow service: the statuses of tasks and       *)
(* instances, the operations of TaskService and InstanceService, the       *)
(* statuses in which each operation goes through, the status it assigns    *)
(* and the outbox rows it stages.  Everything here is constant.            *)
(***************************************************************************)

TaskStatus == {"PENDING", "READY", "RUNNING", "COMPLETED", "FAILED",
               "CANCELLED", "RETRYING"}

\* The labels of the column type workflow.task_status: RETRYING is not one.
DbTaskStatus == TaskStatus \ {"RETRYING"}

WorkflowStatus == {"PENDING", "RUNNING", "PAUSED", "COMPLETED", "FAILED",
                   "CANCELLED", "TIMED_OUT", "WAITING_FOR_APPROVAL"}

(***************************************************************************)
(* TaskService.                                                            *)
(***************************************************************************)

\* The statuses for which no InvalidStateTransitionError is raised.  Retrying
\* also asks for retry_count < max_retries; no statement that changes
\* retry_count can commit, so the count is the 0 the row was made with.
TaskAllowed ==
    [mark_task_ready  |-> {"PENDING", "RETRYING"},
     start_task       |-> {"READY"},
     complete_task    |-> TaskStatus,
     fail_task        |-> TaskStatus,
     retry_task       |-> {"FAILED"},
     cancel_task      |-> {"PENDING", "READY", "RUNNING"},
     request_approval |-> TaskStatus,
     receive_approval |-> {"RUNNING"}]

TaskOp == DOMAIN TaskAllowed

\* The status the loaded Task object holds when the handler is done with it.
TaskAssigned(op, status) ==
    [mark_task_ready  |-> "READY",
     start_task       |-> "RUNNING",
     complete_task    |-> "COMPLETED",
     fail_task        |-> "FAILED",
     retry_task       |-> "RETRYING",
     cancel_task      |-> "CANCELLED",
     request_approval |-> IF status = "READY" THEN "RUNNING" ELSE status,
     receive_approval |-> status][op]

\* The event_type of the outbox rows the handler stages for its own task.
TaskEvents ==
    [mark_task_ready  |-> {"task.ready", "TaskReady"},
     start_task       |-> {"task.started"},
     complete_task    |-> {"task.completed"},
     fail_task        |-> {"task.failed"},
     retry_task       |-> {"task.retry"},
     cancel_task      |-> {"task.cancel"},
     request_approval |-> {"ApprovalRequested"},
     receive_approval |-> {"ApprovalReceived"}]

\* The row the dependency engine stages for a child it unlocks.
UnlockEvent == "workflow.events.TaskReady"

\* complete_task and fail_task do not use get_task_by_id: with no such row the
\* first reads task.id of None and the second raises ValueError, both a 500.
TaskMissingReply(op) ==
    IF op \in {"complete_task", "fail_task"} THEN "500" ELSE "404"

(***************************************************************************)
(* InstanceService.                                                        *)
(***************************************************************************)

\* Operations on an existing instance.  None of them asks for its status.
InstanceOp == {"start_instance", "complete_instance", "fail_instance",
               "pause_instance", "resume_instance", "cancel_instance",
               "retry_instance", "timeout_instance", "signal_instance"}

InstanceAssigned(op, status) ==
    [start_instance    |-> "RUNNING",
     complete_instance |-> "COMPLETED",
     fail_instance     |-> "FAILED",
     pause_instance    |-> "PAUSED",
     resume_instance   |-> "RUNNING",
     cancel_instance   |-> "CANCELLED",
     retry_instance    |-> "RUNNING",
     timeout_instance  |-> "FAILED",
     signal_instance   |-> status][op]

InstanceEvent ==
    [create_instance   |-> "instance.created",
     start_instance    |-> "instance.started",
     complete_instance |-> "instance.completed",
     fail_instance     |-> "instance.failed",
     pause_instance    |-> "instance.paused",
     resume_instance   |-> "instance.resumed",
     cancel_instance   |-> "instance.cancelled",
     retry_instance    |-> "instance.retry",
     timeout_instance  |-> "instance.timed_out",
     signal_instance   |-> "instance.signal_instance"]

\* Handlers that build their event from error details: error_message is a
\* str field and the details are a dict or None, so pydantic rejects every
\* call and the transaction is rolled back with a 500.
UnbuildableEvent == {"fail_task", "fail_instance"}

EventType == (UNION {TaskEvents[o] : o \in TaskOp})
             \cup {InstanceEvent[o] : o \in DOMAIN InstanceEvent}
             \cup {UnlockEvent}
=============================================================================
