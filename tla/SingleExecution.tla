-------------------------- MODULE SingleExecution --------------------------
(***************************************************************************)
(* What the agent runtime promises to whoever delivers task events to it:  *)
(* the agent of a task is executed at most once, one event of the task is  *)
(* recorded as its cause, and only a recorded event is acknowledged.       *)
(* Handler calls, sessions, transactions and failures are absent.          *)
(***************************************************************************)
EXTENDS Naturals

CONSTANTS Task, Event,
          TaskOf   \* the task an event is about

VARIABLES executions,    \* of the agent, per task
          done,          \* events recorded together with their effect
          acknowledged   \* events for which the handler has returned True

state == <<executions, done, acknowledged>>

Init ==
    /\ executions = [t \in Task |-> 0]
    /\ done = {}
    /\ acknowledged = {}

Execute(t) ==
    /\ executions[t] = 0
    /\ executions' = [executions EXCEPT ![t] = 1]
    /\ UNCHANGED <<done, acknowledged>>

Finish(e) ==
    /\ executions[TaskOf[e]] = 1
    /\ \A f \in done : TaskOf[f] # TaskOf[e]
    /\ done' = done \cup {e}
    /\ acknowledged' \in {acknowledged, acknowledged \cup {e}}
    /\ UNCHANGED executions

Acknowledge(e) ==
    /\ e \in done
    /\ acknowledged' = acknowledged \cup {e}
    /\ UNCHANGED <<executions, done>>

Next ==
    \/ \E t \in Task : Execute(t)
    \/ \E e \in Event : Finish(e) \/ Acknowledge(e)

Spec == Init /\ [][Next]_state
=============================================================================
