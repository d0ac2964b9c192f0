---------------------------- MODULE AgentRuntime ----------------------------
(***************************************************************************)
(* handle_task_ready_event: the agent runtime's handler for the events     *)
(* that announce a task.  A call records a run for the task in a first     *)
(* transaction, executes the agent (a bounded ReAct loop around an LLM and *)
(* tools), and in a second transaction completes the run, stages the       *)
(* outbox row of its result and records the event as processed.  Whoever   *)
(* delivers events may deliver one again, also while it is being handled,  *)
(* and two events may be about one task.                                   *)
(*                                                                         *)
(* PostgreSQL makes an INSERT wait for the transaction that has inserted   *)
(* the same key, and fails it once that one commits.                       *)
(***************************************************************************)
EXTENDS Naturals

CONSTANTS
    Event, Task,
    TaskOf,         \* the task an event is about
    WellFormed,     \* events with all ids, of an agent that is registered
    Handler,        \* threads or processes that call the handler
    Replies,        \* what the LLM client does: "answer", "tools", "raise"
    MaxIterations,  \* max_iterations of the agent
    MaxDeliveries,  \* bound: deliveries of one event
    MaxFaults,      \* bound: crashes and database errors
    Nothing

ASSUME RuntimeAssumption ==
    /\ TaskOf \in [Event -> Task]
    /\ WellFormed \subseteq Event
    /\ Replies \subseteq {"answer", "tools", "raise"}
    /\ MaxIterations \in Nat \ {0}
    /\ MaxDeliveries \in Nat
    /\ MaxFaults \in Nat
    /\ Nothing \notin Event

VARIABLES
    run,           \* agent_runs.status by its unique task_id
    processed,     \* processed_events of CONSUMER_GROUP
    finished,      \* committed agent.finished outbox rows, per task
    call,          \* per handler: the call it is executing
    deliveries,    \* of each event, so far
    executions,    \* history: how often the agent of a task was executed
    acknowledged,  \* history: events for which a call returned True
    unanswered,    \* history: tasks whose agent raised or ended as FAILED
    faults

stored  == <<run, processed, finished>>
history == <<executions, acknowledged, unanswered>>
vars == <<stored, call, deliveries, history, faults>>

RunStatus == {"NONE", "PENDING", "RUNNING", "FAILED", "COMPLETED"}

Phase == {"idle", "check", "create", "running", "generate", "tools", "failed",
          "finish", "commit"}

CallState == [phase     : Phase,                 \* the next statement
              event     : Event \cup {Nothing},
              iteration : 0..MaxIterations]

Idle == [phase |-> "idle", event |-> Nothing, iteration |-> 0]

TaskOfCall(h) == TaskOf[call[h].event]

Init ==
    /\ run = [t \in Task |-> "NONE"]
    /\ processed = {}
    /\ finished = [t \in Task |-> 0]
    /\ call = [h \in Handler |-> Idle]
    /\ deliveries = [e \in Event |-> 0]
    /\ executions = [t \in Task |-> 0]
    /\ acknowledged = {}
    /\ unanswered = {}
    /\ faults = 0

Fault == faults < MaxFaults /\ faults' = faults + 1

Goto(h, phase) == call' = [call EXCEPT ![h].phase = phase]

\* The handler has returned, or was cut off: its session is rolled back.
Leave(h) == call' = [call EXCEPT ![h] = Idle]

Deliver(h, e) ==
    /\ call[h] = Idle
    /\ deliveries[e] < MaxDeliveries
    /\ deliveries' = [deliveries EXCEPT ![e] = @ + 1]
    /\ call' = [call EXCEPT ![h] = [phase |-> "check", event |-> e, iteration |-> 0]]
    /\ UNCHANGED <<stored, history, faults>>

\* The payload lacks an id: KeyError, the handler returns False.
Malformed(h) ==
    /\ call[h].phase = "check"
    /\ call[h].event \notin WellFormed
    /\ Leave(h)
    /\ UNCHANGED <<stored, deliveries, history, faults>>

\* Mutant: the check looks for a run of the task, not for the event.
HasRun(e) == run[TaskOf[e]] # "NONE"

IsProcessed(e) == e \in processed

Check(h) ==
    /\ call[h].phase = "check"
    /\ call[h].event \in WellFormed
    /\ IF IsProcessed(call[h].event)
       THEN acknowledged' = acknowledged \cup {call[h].event} /\ Leave(h)
       ELSE Goto(h, "create") /\ UNCHANGED acknowledged
    /\ UNCHANGED <<stored, deliveries, executions, unanswered, faults>>

-----------------------------------------------------------------------------
\* First transaction: the INSERT of the run, PENDING and then RUNNING.

\* Mutant: task_id is not unique.
NoConflict(h) == TRUE

TaskIsFree(h) == run[TaskOfCall(h)] = "NONE"

\* No other transaction has inserted the key and not ended yet.
MayInsertRun(h) ==
    \A g \in Handler \ {h} : call[g].phase = "running" => TaskOfCall(g) # TaskOfCall(h)

CreateRun(h) ==
    /\ call[h].phase = "create"
    /\ MayInsertRun(h)
    /\ IF TaskIsFree(h) THEN Goto(h, "running") ELSE Leave(h)
    /\ UNCHANGED <<stored, deliveries, history, faults>>

\* Mutant: the event is recorded as processed before the agent is executed.
CommitRunningProcessed(h) ==
    /\ call[h].phase = "running"
    /\ run' = [run EXCEPT ![TaskOfCall(h)] = "RUNNING"]
    /\ processed' = processed \cup {call[h].event}
    /\ Goto(h, "generate")
    /\ executions' = [executions EXCEPT ![TaskOfCall(h)] = @ + 1]
    /\ UNCHANGED <<finished, deliveries, acknowledged, unanswered, faults>>

CommitRunning(h) ==
    /\ call[h].phase = "running"
    /\ run' = [run EXCEPT ![TaskOfCall(h)] = "RUNNING"]
    /\ Goto(h, "generate")
    /\ executions' = [executions EXCEPT ![TaskOfCall(h)] = @ + 1]
    /\ UNCHANGED <<processed, finished, deliveries, acknowledged, unanswered, faults>>

-----------------------------------------------------------------------------
\* The ReAct loop.  One call of the LLM client; "raise" is an error that is not
\* transient, or the third transient one in a row.
Generate(h) ==
    /\ call[h].phase = "generate"
    /\ \E reply \in Replies :
         \/ reply = "answer" /\ Goto(h, "finish") /\ UNCHANGED unanswered
         \/ reply = "tools" /\ Goto(h, "tools") /\ UNCHANGED unanswered
         \/ /\ reply = "raise"
            /\ Leave(h)
            /\ unanswered' = unanswered \cup {TaskOfCall(h)}
    /\ UNCHANGED <<stored, deliveries, executions, acknowledged, faults>>

\* Mutants: the iterations are not counted, or one too many is made.
NextIterationUncounted(h) == Goto(h, "generate")

NextIterationLate(h) ==
    LET n == call[h].iteration + 1
    IN  call' = [call EXCEPT
                   ![h].iteration = n,
                   ![h].phase = IF n > MaxIterations THEN "failed" ELSE "generate"]

NextIteration(h) ==
    LET n == call[h].iteration + 1
    IN  call' = [call EXCEPT
                   ![h].iteration = n,
                   ![h].phase = IF n = MaxIterations THEN "failed" ELSE "generate"]

\* The requested tools run one after the other; what one raises is its output.
ToolsReturn(h) == NextIteration(h)

\* A tool that is not registered ends the loop.
ToolUnknown(h) == Goto(h, "failed")

UseTools(h) ==
    /\ call[h].phase = "tools"
    /\ ToolsReturn(h) \/ ToolUnknown(h)
    /\ UNCHANGED <<stored, deliveries, history, faults>>

\* The agent's result is FAILED: mark_failed has no parameter "error", the
\* TypeError ends the call with False and the run stays as it is.
MarkFailedRaises(h) ==
    /\ call[h].phase = "failed"
    /\ unanswered' = unanswered \cup {TaskOfCall(h)}
    /\ Leave(h)
    /\ UNCHANGED <<stored, deliveries, executions, acknowledged, faults>>

-----------------------------------------------------------------------------
\* Second transaction: the run, the outbox row and the processed event.
MayInsertProcessed(h) ==
    \A g \in Handler \ {h} : call[g].phase = "commit" => call[g].event # call[h].event

StageFinished(h) ==
    /\ call[h].phase = "finish"
    /\ MayInsertProcessed(h)
    /\ IF call[h].event \in processed THEN Leave(h) ELSE Goto(h, "commit")
    /\ UNCHANGED <<stored, deliveries, history, faults>>

\* Mutant: the run is not marked as COMPLETED.
WriteEvents(h) ==
    /\ processed' = processed \cup {call[h].event}
    /\ finished' = [finished EXCEPT ![TaskOfCall(h)] = @ + 1]
    /\ UNCHANGED run

WriteFinished(h) ==
    /\ run' = [run EXCEPT ![TaskOfCall(h)] = "COMPLETED"]
    /\ processed' = processed \cup {call[h].event}
    /\ finished' = [finished EXCEPT ![TaskOfCall(h)] = @ + 1]

CommitFinished(h) ==
    /\ call[h].phase = "commit"
    /\ WriteFinished(h)
    /\ acknowledged' = acknowledged \cup {call[h].event}
    /\ Leave(h)
    /\ UNCHANGED <<deliveries, executions, unanswered, faults>>

-----------------------------------------------------------------------------
\* The process dies, or a statement or commit raises and the handler rolls back
\* and returns False.
CallFails(h) ==
    /\ call[h] # Idle
    /\ Fault
    /\ Leave(h)
    /\ UNCHANGED <<stored, deliveries, history>>

\* A commit takes effect and its answer is lost: the handler returns False.
CommitUnanswered(h) ==
    /\ Fault
    /\ \/ /\ call[h].phase = "running"
          /\ run' = [run EXCEPT ![TaskOfCall(h)] = "RUNNING"]
          /\ UNCHANGED <<processed, finished>>
       \/ call[h].phase = "commit" /\ WriteFinished(h)
    /\ Leave(h)
    /\ UNCHANGED <<deliveries, history>>

-----------------------------------------------------------------------------
\* What a call does by itself.
Proceed(h) ==
    \/ Malformed(h) \/ Check(h) \/ CreateRun(h) \/ CommitRunning(h)
    \/ Generate(h) \/ UseTools(h) \/ MarkFailedRaises(h)
    \/ StageFinished(h) \/ CommitFinished(h)

Next ==
    \E h \in Handler :
        \/ \E e \in Event : Deliver(h, e)
        \/ Proceed(h)
        \/ CallFails(h)
        \/ CommitUnanswered(h)

Spec == Init /\ [][Next]_vars

\* A thread runs its handler to the end; nobody has to deliver an event.
FairSpec == Spec /\ \A h \in Handler : WF_vars(Proceed(h))

-----------------------------------------------------------------------------
\* Every variable has its type.
TypeOK ==
    /\ run \in [Task -> RunStatus]
    /\ processed \subseteq WellFormed
    /\ finished \in [Task -> Nat]
    /\ call \in [Handler -> CallState]
    /\ deliveries \in [Event -> 0..MaxDeliveries]
    /\ executions \in [Task -> Nat]
    /\ acknowledged \subseteq WellFormed
    /\ unanswered \subseteq Task
    /\ faults \in 0..MaxFaults

\* The agent of a task, whose tools may have effects outside, is executed at
\* most once, however often its events are delivered, also at the same time:
\* the unique task_id decides, since the check for a processed event does not.
OneExecution == \A t \in Task : executions[t] <= 1

\* A run is COMPLETED, its one outbox row is staged and one of its events is
\* recorded as processed all together, or none of it: the second transaction
\* of handle_task_ready_event, whatever fails in between.
FinishedTogether ==
    \A t \in Task :
        /\ finished[t] = IF run[t] = "COMPLETED" THEN 1 ELSE 0
        /\ run[t] = "COMPLETED" <=> \E e \in processed : TaskOf[e] = t
        /\ \A e, f \in processed : TaskOf[e] = TaskOf[f] => e = f

Executing(t) ==
    \E h \in Handler : call[h].phase \in Phase \ {"idle", "check", "create"}
                       /\ TaskOfCall(h) = t

\* A run that no call works on any more and that is still RUNNING was left so
\* by a crash, a database error, or an agent that gave no answer.
StrandedForCause ==
    \A t \in Task : run[t] = "RUNNING" /\ ~Executing(t) => faults > 0 \/ t \in unanswered

\* A call between its two transactions, and any call that has inserted a run.
Started(h)  == call[h].phase \in {"generate", "tools", "failed", "finish", "commit"}
Inserted(h) == call[h].phase = "running" \/ Started(h)

\* Who works on what: a call has an event, past its check one with all ids, and
\* iterations left unless it failed; no two calls that inserted a run are about
\* one task; the run they insert, or have committed, is what the table says.
CallsAgree ==
    /\ \A h \in Handler :
         /\ call[h].phase # "idle" => call[h].event \in Event
         /\ call[h].phase \notin {"idle", "check"} => call[h].event \in WellFormed
         /\ call[h].phase # "failed" => call[h].iteration < MaxIterations
         /\ call[h].phase = "running" => run[TaskOfCall(h)] = "NONE"
         /\ Started(h) => run[TaskOfCall(h)] = "RUNNING" /\ executions[TaskOfCall(h)] = 1
    /\ \A g, h \in Handler :
         Inserted(g) /\ Inserted(h) /\ TaskOfCall(g) = TaskOfCall(h) => g = h

\* The agent is executed only for a task that has a run from then on.
ExecutionsHaveRuns == \A t \in Task : run[t] = "NONE" => executions[t] = 0

\* The inductive form of OneExecution, FinishedTogether and StrandedForCause.
RInv ==
    /\ CallsAgree
    /\ ExecutionsHaveRuns
    /\ OneExecution
    /\ FinishedTogether
    /\ StrandedForCause

Single == INSTANCE SingleExecution WITH done <- processed

\* The handler implements the promise: one execution per task, one recorded
\* event, no acknowledgement of an event that is not recorded.
Promise == Single!Spec

\* Every call of the handler ends: the loop is bounded, and the transactions
\* that wait for each other's keys do not wait for ever.
CallsEnd == \A h \in Handler : call[h] # Idle ~> call[h] = Idle
=============================================================================
