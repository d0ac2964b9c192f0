--------------------------- MODULE AtomicWorkflow ---------------------------
(***************************************************************************)
(* The workflow service as its clients would describe it: every accepted   *)
(* request is one indivisible change of the tasks and instances.  Sessions,*)
(* statements, the outbox and failures are absent.                         *)
(*                                                                         *)
(* Completing a task makes ready the pending children all of whose parents *)
(* were COMPLETED before the request: the task being completed counts only *)
(* when it already was, as the service never flushes before it reads.      *)
(***************************************************************************)
EXTENDS WorkflowDomain

CONSTANTS Task, Instance, InstanceOf, DependsOn, SeedTask, SeedInstance, Absent

VARIABLES taskStatus, instanceStatus

rows == <<taskStatus, instanceStatus>>

ParentsOf(t) == {p \in Task : <<t, p>> \in DependsOn}

Init ==
    /\ taskStatus \in [Task -> SeedTask]
    /\ instanceStatus \in [Instance -> SeedInstance]

\* Starting, cancelling, retrying, approving: one task, in an allowed status.
\* A status the column cannot hold is never stored.
ChangeTask(op, t) ==
    /\ taskStatus[t] \in TaskAllowed[op]
    /\ TaskAssigned(op, taskStatus[t]) \in DbTaskStatus
    /\ taskStatus' = [taskStatus EXCEPT ![t] = TaskAssigned(op, taskStatus[t])]
    /\ UNCHANGED instanceStatus

Unlockable(t) ==
    {c \in Task : /\ t \in ParentsOf(c)
                  /\ taskStatus[c] = "PENDING"
                  /\ \A p \in ParentsOf(c) : taskStatus[p] = "COMPLETED"}

CompleteTask(t) ==
    /\ taskStatus' = [u \in Task |->
         IF u \in Unlockable(t) THEN "READY"
         ELSE IF u = t THEN "COMPLETED" ELSE taskStatus[u]]
    /\ UNCHANGED instanceStatus

CreateInstance(i) ==
    /\ instanceStatus[i] = Absent
    /\ instanceStatus' = [instanceStatus EXCEPT ![i] = "PENDING"]
    /\ UNCHANGED taskStatus

ChangeInstance(op, i) ==
    /\ instanceStatus[i] # Absent
    /\ instanceStatus' =
         [instanceStatus EXCEPT ![i] = InstanceAssigned(op, instanceStatus[i])]
    /\ UNCHANGED taskStatus

StartInstance(i) ==
    /\ instanceStatus[i] # Absent
    /\ instanceStatus' = [instanceStatus EXCEPT ![i] = "RUNNING"]
    /\ taskStatus' = [t \in Task |->
         IF InstanceOf[t] = i /\ taskStatus[t] = "PENDING" /\ ParentsOf(t) # {}
         THEN "READY" ELSE taskStatus[t]]

Next ==
    \/ \E op \in TaskOp \ {"complete_task", "fail_task"}, t \in Task : ChangeTask(op, t)
    \/ \E t \in Task : CompleteTask(t)
    \/ \E i \in Instance : CreateInstance(i) \/ StartInstance(i)
    \/ \E op \in InstanceOp \ {"start_instance", "fail_instance"}, i \in Instance :
           ChangeInstance(op, i)

Spec == Init /\ [][Next]_rows
=============================================================================
