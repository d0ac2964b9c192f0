------------------------ MODULE AgentRuntime_proofs ------------------------
(***************************************************************************)
(* Theorems about the agent runtime's handler, for any number of events,   *)
(* tasks, handlers, deliveries, iterations and faults.                     *)
(***************************************************************************)
EXTENDS AgentRuntime, TLAPS

(***************************************************************************)
(* Type correctness.                                                       *)
(***************************************************************************)

\* A call that moves on, or ends, is still a call.
LEMMA MovesTyped ==
    ASSUME TypeOK, NEW h \in Handler
    PROVE  /\ Idle \in CallState
           /\ Leave(h) => call' \in [Handler -> CallState]
           /\ \A phase \in Phase : Goto(h, phase) => call' \in [Handler -> CallState]
<1>1. Idle \in CallState
  BY RuntimeAssumption DEF Idle, CallState, Phase
<1>2. QED
  BY <1>1 DEF TypeOK, Leave, Goto, CallState

\* A fault is counted, up to its bound.
LEMMA FaultTyped == ASSUME TypeOK, Fault PROVE faults' \in 0..MaxFaults /\ faults' > 0
BY RuntimeAssumption DEF TypeOK, Fault

\* Faults are counted by naturals.
LEMMA FaultsCounted == TypeOK => faults \in Nat /\ faults >= faults
BY RuntimeAssumption DEF TypeOK

\* The types hold when the service starts.
LEMMA InitTyped == Init => TypeOK
<1> SUFFICES ASSUME Init PROVE TypeOK
  OBVIOUS
<1>1. Idle \in CallState
  BY RuntimeAssumption DEF Idle, CallState, Phase
<1>2. QED
  BY <1>1, RuntimeAssumption DEF Init, TypeOK, RunStatus

\* What holds of an event that a call has.
LEMMA EventTyped ==
    /\ WellFormed \subseteq Event
    /\ \A e \in Event : TaskOf[e] \in Task
BY RuntimeAssumption

-----------------------------------------------------------------------------
(***************************************************************************)
(* Steps that write no row: a call moves to a new state c.                 *)
(***************************************************************************)

WorkPhase == {"generate", "tools", "failed", "finish", "commit"}

\* The new state of a call may follow the old one.
MayBecome(h, c) ==
    /\ c.phase # "idle" => c.event \in Event
    /\ c.phase \notin {"idle", "check"} => c.event \in WellFormed
    /\ c.phase # "failed" => c.iteration < MaxIterations
    /\ c.phase = "running" =>
         /\ run[TaskOf[c.event]] = "NONE"
         /\ \A g \in Handler \ {h} :
              call[g].phase = "running" => TaskOfCall(g) # TaskOf[c.event]
    /\ c.phase \in WorkPhase => Started(h) /\ c.event = call[h].event

\* A call leaves its run behind only for a cause.
LeavesForCause(h, c) ==
    Inserted(h) /\ c.phase \notin WorkPhase => faults' > 0 \/ TaskOfCall(h) \in unanswered'

\* Such a step keeps the invariant.
LEMMA MoveStep ==
    ASSUME TypeOK, RInv, NEW h \in Handler, NEW c \in CallState,
           call' = [call EXCEPT ![h] = c],
           UNCHANGED stored, UNCHANGED executions,
           faults' >= faults, faults' \in Nat, unanswered \subseteq unanswered',
           MayBecome(h, c), LeavesForCause(h, c)
    PROVE  RInv'
<1>1. /\ call'[h] = c
      /\ \A g \in Handler \ {h} : call'[g] = call[g]
      /\ UNCHANGED <<run, processed, finished, executions>>
  BY DEF TypeOK, stored
<1>2. CallsAgree'
  <2>1. ASSUME NEW g \in Handler
        PROVE  /\ call'[g].phase # "idle" => call'[g].event \in Event
               /\ call'[g].phase \notin {"idle", "check"} => call'[g].event \in WellFormed
               /\ call'[g].phase # "failed" => call'[g].iteration < MaxIterations
               /\ call'[g].phase = "running" => run[TaskOf[call'[g].event]] = "NONE"
               /\ Started(g)' => /\ run[TaskOf[call'[g].event]] = "RUNNING"
                                 /\ executions[TaskOf[call'[g].event]] = 1
    <3>1. CASE g = h
      BY <1>1, <3>1 DEF MayBecome, WorkPhase, RInv, CallsAgree, Started, TaskOfCall
    <3>2. CASE g # h
      BY <1>1, <3>2 DEF RInv, CallsAgree, Started, TaskOfCall
    <3>3. QED
      BY <3>1, <3>2
  <2>2. ASSUME NEW f \in Handler, NEW g \in Handler, Inserted(f)', Inserted(g)',
               TaskOfCall(f)' = TaskOfCall(g)', f # g
        PROVE  FALSE
    <3>1. ASSUME NEW k \in Handler \ {h}, Inserted(k)', Inserted(h)', TaskOfCall(k)' = TaskOfCall(h)'
          PROVE  FALSE
      <4>1. Inserted(k) /\ TaskOfCall(k) = TaskOf[c.event]
        BY <1>1, <3>1 DEF Inserted, Started, TaskOfCall
      <4>2. CASE c.phase = "running"
        <5>1. run[TaskOf[c.event]] = "NONE" /\ call[k].phase # "running"
          BY <4>1, <4>2, <3>1 DEF MayBecome
        <5>2. Started(k)
          BY <4>1, <5>1 DEF Inserted
        <5>3. QED
          BY <4>1, <5>1, <5>2 DEF RInv, CallsAgree
      <4>3. CASE c.phase # "running"
        <5>1. Started(h) /\ c.event = call[h].event
          BY <1>1, <3>1, <4>3 DEF Inserted, Started, MayBecome, WorkPhase
        <5>2. QED
          BY <4>1, <5>1 DEF RInv, CallsAgree, Inserted, TaskOfCall
      <4>4. QED
        BY <4>2, <4>3
    <3>2. CASE f # h /\ g # h
      BY <1>1, <2>2, <3>2 DEF RInv, CallsAgree, Inserted, Started, TaskOfCall
    <3>3. QED
      BY <2>2, <3>1, <3>2
  <2>3. QED
    BY <1>1, <2>1, <2>2 DEF CallsAgree, TaskOfCall
<1>3. StrandedForCause'
  <2> SUFFICES ASSUME NEW t \in Task, run[t] = "RUNNING", ~Executing(t)',
                      ~(faults' > 0), t \notin unanswered'
               PROVE  FALSE
    BY <1>1 DEF StrandedForCause
  <2>1. PICK g \in Handler : Inserted(g) /\ TaskOfCall(g) = t
    <3>1. Executing(t)
      BY DEF RInv, StrandedForCause, TypeOK
    <3>2. PICK g \in Handler : /\ call[g].phase \in Phase \ {"idle", "check", "create"}
                               /\ TaskOfCall(g) = t
      BY <3>1 DEF Executing
    <3>3. QED
      BY <3>2 DEF Phase, Inserted, Started
  <2>2. CASE g # h
    BY <1>1, <2>1, <2>2 DEF Executing, Inserted, Started, Phase, TaskOfCall
  <2>3. CASE g = h
    <3>1. c.phase \in WorkPhase
      BY <2>1, <2>3 DEF LeavesForCause
    <3>2. TaskOfCall(h)' = t
      BY <1>1, <2>1, <2>3, <3>1 DEF MayBecome, TaskOfCall
    <3>3. QED
      BY <1>1, <3>1, <3>2 DEF Executing, WorkPhase, Phase
  <2>4. QED
    BY <2>2, <2>3
<1>4. ExecutionsHaveRuns' /\ OneExecution' /\ FinishedTogether'
  BY <1>1 DEF RInv, ExecutionsHaveRuns, OneExecution, FinishedTogether
<1>5. QED
  BY <1>2, <1>3, <1>4 DEF RInv

\* A delivery, and the check of the event: nothing is inserted yet.
LEMMA ArriveStep ==
    ASSUME TypeOK, RInv, NEW h \in Handler,
           (\E e \in Event : Deliver(h, e)) \/ Malformed(h) \/ Check(h)
    PROVE  TypeOK' /\ RInv'
<1>1. CASE \E e \in Event : Deliver(h, e)
  <2>1. PICK e \in Event : Deliver(h, e)
    BY <1>1
  <2> DEFINE c == [phase |-> "check", event |-> e, iteration |-> 0]
  <2>2. c \in CallState /\ call' = [call EXCEPT ![h] = c]
    BY <2>1, RuntimeAssumption DEF Deliver, CallState, Phase
  <2>3. call[h].phase = "idle" /\ MayBecome(h, c)
    BY <2>1, RuntimeAssumption DEF Deliver, Idle, MayBecome, WorkPhase
  <2>4. LeavesForCause(h, c)
    BY <2>3 DEF LeavesForCause, Inserted, Started
  <2>5. TypeOK'
    BY <2>1, <2>2, RuntimeAssumption DEF Deliver, TypeOK, stored, history
  <2>6. UNCHANGED stored /\ UNCHANGED <<executions, unanswered, faults>>
    BY <2>1 DEF Deliver, history
  <2>7. RInv'
    BY <2>2, <2>3, <2>4, <2>6, FaultsCounted, MoveStep
  <2>8. QED
    BY <2>5, <2>7
<1>2. CASE Malformed(h) \/ Check(h)
  <2>1. /\ call[h].phase = "check" /\ call[h] \in CallState
        /\ UNCHANGED <<stored, deliveries, executions, unanswered, faults>>
    BY <1>2 DEF Malformed, Check, history, TypeOK
  <2>2. acknowledged' \subseteq WellFormed
    BY <1>2 DEF Malformed, Check, history, TypeOK
  <2>3. PICK c \in {Idle, [call[h] EXCEPT !.phase = "create"]} :
               /\ call' = [call EXCEPT ![h] = c]
               /\ c # Idle => call[h].event \in WellFormed
    BY <1>2, <2>1 DEF Malformed, Check, Leave, Goto, TypeOK
  <2>4. c \in CallState
    BY <2>1, MovesTyped DEF CallState, Phase
  <2>5. MayBecome(h, c)
    BY <2>1, <2>3, RuntimeAssumption
       DEF MayBecome, WorkPhase, Idle, CallState, RInv, CallsAgree
  <2>6. LeavesForCause(h, c)
    BY <2>1 DEF LeavesForCause, Inserted, Started
  <2>7. TypeOK'
    BY <2>1, <2>2, <2>3, <2>4 DEF TypeOK, stored
  <2>8. RInv'
    BY <2>1, <2>3, <2>4, <2>5, <2>6, FaultsCounted, MoveStep
  <2>9. QED
    BY <2>7, <2>8
<1>3. QED
  BY <1>1, <1>2

\* The INSERT of the run: the key is free, and no other open transaction has it.
LEMMA CreateRunStep ==
    ASSUME TypeOK, RInv, NEW h \in Handler, CreateRun(h)
    PROVE  TypeOK' /\ RInv'
<1>1. /\ call[h].phase = "create" /\ call[h] \in CallState
      /\ UNCHANGED <<stored, deliveries, history, faults>>
  BY DEF CreateRun, TypeOK
<1>2. PICK c \in {Idle, [call[h] EXCEPT !.phase = "running"]} :
             /\ call' = [call EXCEPT ![h] = c]
             /\ c # Idle => TaskIsFree(h)
  BY <1>1 DEF CreateRun, Leave, Goto, TypeOK
<1>3. c \in CallState
  BY <1>1, MovesTyped DEF CallState, Phase
<1>4. MayBecome(h, c)
  <2>1. CASE c = Idle
    BY <2>1, RuntimeAssumption DEF MayBecome, WorkPhase, Idle
  <2>2. CASE c # Idle
    <3>1. c.phase = "running" /\ c.event = call[h].event /\ c.iteration = call[h].iteration
      BY <1>1, <1>2, <2>2 DEF CallState
    <3>2. call[h].event \in Event /\ call[h].event \in WellFormed
      BY <1>1 DEF RInv, CallsAgree
    <3>3. call[h].iteration < MaxIterations
      BY <1>1 DEF RInv, CallsAgree
    <3>4. run[TaskOf[c.event]] = "NONE"
      BY <1>2, <2>2, <3>1 DEF TaskIsFree, TaskOfCall
    <3>5. \A g \in Handler \ {h} : call[g].phase = "running" => TaskOfCall(g) # TaskOf[c.event]
      BY <3>1 DEF CreateRun, MayInsertRun, TaskOfCall
    <3>6. QED
      BY <3>1, <3>2, <3>3, <3>4, <3>5 DEF MayBecome, WorkPhase
  <2>3. QED
    BY <2>1, <2>2
<1>5. LeavesForCause(h, c)
  BY <1>1 DEF LeavesForCause, Inserted, Started
<1>6. TypeOK'
  BY <1>1, <1>2, <1>3 DEF TypeOK, stored, history
<1>7. UNCHANGED <<executions, unanswered, faults>>
  BY <1>1 DEF history
<1>8. RInv'
  BY <1>1, <1>2, <1>3, <1>4, <1>5, <1>7, FaultsCounted, MoveStep
<1>9. QED
  BY <1>6, <1>8

\* The ReAct loop: a call goes on with its event, or ends for a cause.
LEMMA LoopStep ==
    ASSUME TypeOK, RInv, NEW h \in Handler,
           Generate(h) \/ UseTools(h) \/ MarkFailedRaises(h) \/ StageFinished(h)
    PROVE  TypeOK' /\ RInv'
<1> DEFINE old == call[h]
           n == old.iteration + 1
           Going == {"finish", "tools", "failed", "commit"}
<1>1. /\ old \in CallState /\ Started(h)
      /\ UNCHANGED <<stored, deliveries, executions, acknowledged, faults>>
  BY DEF Generate, UseTools, MarkFailedRaises, StageFinished, Started, history, TypeOK
<1>2. /\ old.event \in WellFormed /\ old.event \in Event
      /\ old.phase # "failed" => old.iteration < MaxIterations
      /\ run[TaskOfCall(h)] = "RUNNING"
  BY <1>1 DEF RInv, CallsAgree, Started
<1>3. TaskOfCall(h) \in Task
  BY <1>2, EventTyped DEF TaskOfCall
<1>4. old.event \notin processed
  <2>1. run[TaskOf[old.event]] # "COMPLETED"
    BY <1>2 DEF TaskOfCall
  <2>2. QED
    BY <1>2, <1>3, <2>1 DEF RInv, FinishedTogether, TaskOfCall
<1>5. PICK c \in {Idle}
              \cup {[old EXCEPT !.phase = p] : p \in Going}
              \cup {[old EXCEPT !.iteration = n,
                                !.phase = IF n = MaxIterations THEN "failed" ELSE "generate"]} :
             /\ call' = [call EXCEPT ![h] = c]
             /\ c = Idle => unanswered' = unanswered \cup {TaskOfCall(h)}
             /\ c # Idle => unanswered' = unanswered /\ old.phase # "failed"
  <2>1. CASE Generate(h)
    <3>1. \/ (\E p \in {"finish", "tools"} : Goto(h, p)) /\ unanswered' = unanswered
          \/ Leave(h) /\ unanswered' = unanswered \cup {TaskOfCall(h)}
      BY <2>1 DEF Generate
    <3>2. old.phase = "generate" /\ Idle.phase = "idle"
      BY <2>1 DEF Generate, Idle
    <3>3. ASSUME NEW p \in {"finish", "tools"}, Goto(h, p)
          PROVE  /\ call' = [call EXCEPT ![h] = [old EXCEPT !.phase = p]]
                 /\ [old EXCEPT !.phase = p] # Idle
      BY <1>1, <3>2, <3>3 DEF Goto, CallState
    <3>4. QED
      BY <3>1, <3>2, <3>3 DEF Leave
  <2>2. CASE UseTools(h)
    <3>1. old.phase = "tools" /\ Idle.phase = "idle" /\ unanswered' = unanswered
      BY <2>2 DEF UseTools, Idle, history
    <3>2. CASE Goto(h, "failed")
      BY <1>1, <3>1, <3>2 DEF Goto, CallState
    <3>3. CASE NextIteration(h)
      BY <1>1, <3>1, <3>3 DEF NextIteration, CallState
    <3>4. QED
      BY <2>2, <3>2, <3>3 DEF UseTools, ToolsReturn, ToolUnknown
  <2>3. CASE MarkFailedRaises(h)
    BY <1>1, <2>3 DEF MarkFailedRaises, Leave
  <2>4. CASE StageFinished(h)
    <3>1. /\ old.phase = "finish" /\ Idle.phase = "idle" /\ unanswered' = unanswered
          /\ Goto(h, "commit")
      BY <1>4, <2>4 DEF StageFinished, Idle, history
    <3>2. QED
      BY <1>1, <3>1 DEF Goto, CallState
  <2>5. QED
    BY <2>1, <2>2, <2>3, <2>4
<1>6. c \in CallState /\ MayBecome(h, c)
  <2>1. CASE c = Idle
    BY <2>1, MovesTyped, RuntimeAssumption DEF MayBecome, WorkPhase, Idle
  <2>2. CASE c # Idle /\ \E p \in Going : c = [old EXCEPT !.phase = p]
    <3>1. PICK p \in Going : c = [old EXCEPT !.phase = p]
      BY <2>2
    <3>2. c \in CallState /\ c.phase = p /\ c.event = old.event /\ c.iteration = old.iteration
      BY <1>1, <3>1 DEF CallState, Phase
    <3>3. QED
      BY <1>1, <1>2, <1>5, <2>2, <3>2 DEF MayBecome, WorkPhase
  <2>3. CASE /\ c # Idle
             /\ c = [old EXCEPT !.iteration = n,
                                !.phase = IF n = MaxIterations THEN "failed" ELSE "generate"]
    <3>1. old.iteration < MaxIterations /\ old.iteration \in Nat /\ n \in 0..MaxIterations
      BY <1>1, <1>2, <1>5, <2>3, RuntimeAssumption DEF CallState
    <3>2. /\ c.event = old.event /\ c.iteration = n
          /\ c.phase = IF n = MaxIterations THEN "failed" ELSE "generate"
      BY <1>1, <2>3 DEF CallState
    <3>3. c \in CallState
      BY <1>1, <2>3, <3>1 DEF CallState, Phase
    <3>4. c.phase # "failed" => n < MaxIterations
      BY <3>1, <3>2, RuntimeAssumption
    <3>5. QED
      BY <1>1, <1>2, <3>2, <3>3, <3>4 DEF MayBecome, WorkPhase
  <2>4. QED
    BY <1>5, <2>1, <2>2, <2>3
<1>7. LeavesForCause(h, c)
  <2>1. CASE c = Idle
    BY <1>5, <2>1 DEF LeavesForCause
  <2>2. CASE c # Idle
    BY <1>1, <1>5, <2>2 DEF LeavesForCause, WorkPhase, CallState
  <2>3. QED
    BY <2>1, <2>2
<1>8. unanswered \subseteq unanswered' /\ unanswered' \subseteq Task
  BY <1>3, <1>5 DEF TypeOK
<1>9. TypeOK'
  BY <1>1, <1>5, <1>6, <1>8 DEF TypeOK, stored
<1>10. RInv'
  BY <1>1, <1>5, <1>6, <1>7, <1>8, FaultsCounted, MoveStep
<1>11. QED
  BY <1>9, <1>10

\* A crash or an error between the commits costs a fault.
LEMMA CallFailsStep ==
    ASSUME TypeOK, RInv, NEW h \in Handler, CallFails(h)
    PROVE  TypeOK' /\ RInv'
<1>1. /\ call' = [call EXCEPT ![h] = Idle] /\ Idle \in CallState
      /\ UNCHANGED <<stored, deliveries, history>>
  BY MovesTyped DEF CallFails, Leave
<1>2. faults' \in 0..MaxFaults /\ faults' > 0 /\ faults' >= faults
  BY FaultTyped DEF CallFails, Fault, TypeOK
<1>3. MayBecome(h, Idle) /\ LeavesForCause(h, Idle)
  BY <1>2, RuntimeAssumption DEF MayBecome, LeavesForCause, WorkPhase, Idle
<1>4. TypeOK'
  BY <1>1, <1>2 DEF TypeOK, stored, history
<1>5. UNCHANGED <<executions, unanswered>> /\ faults' \in Nat
  BY <1>1, <1>2, RuntimeAssumption DEF history
<1>6. RInv'
  BY <1>1, <1>2, <1>3, <1>5, MoveStep
<1>7. QED
  BY <1>4, <1>6

-----------------------------------------------------------------------------
(***************************************************************************)
(* The two commits.                                                        *)
(***************************************************************************)

\* The run of a task is committed: its call goes on with the agent, or it is cut
\* off by a fault before it could.
LEMMA RunningStep ==
    ASSUME TypeOK, RInv, NEW h \in Handler, call[h].phase = "running",
           NEW c \in CallState, call' = [call EXCEPT ![h] = c],
           run' = [run EXCEPT ![TaskOfCall(h)] = "RUNNING"],
           UNCHANGED <<processed, finished, unanswered>>,
           faults' \in Nat,
           \/ /\ c = [call[h] EXCEPT !.phase = "generate"]
              /\ executions' = [executions EXCEPT ![TaskOfCall(h)] = @ + 1]
              /\ faults' = faults
           \/ c = Idle /\ executions' = executions /\ faults' > 0
    PROVE  /\ RInv'
           /\ run' \in [Task -> RunStatus] /\ executions' \in [Task -> Nat]
           /\ executions[TaskOfCall(h)] = 0
<1> DEFINE t == TaskOfCall(h)
<1>1. /\ call[h] \in CallState /\ call[h].event \in WellFormed /\ call[h].event \in Event
      /\ call[h].iteration < MaxIterations /\ t \in Task
      /\ run[t] = "NONE" /\ executions[t] = 0
  BY EventTyped DEF TypeOK, RInv, CallsAgree, ExecutionsHaveRuns, TaskOfCall
<1>2. /\ call'[h] = c
      /\ \A g \in Handler \ {h} : call'[g] = call[g]
      /\ run'[t] = "RUNNING"
      /\ \A u \in Task \ {t} : run'[u] = run[u] /\ executions'[u] = executions[u]
      /\ executions'[t] \in {0, 1}
      /\ c # Idle => executions'[t] = 1
  BY <1>1 DEF TypeOK
<1>3. /\ c.phase \in {"idle", "generate"}
      /\ c.phase = "generate" =>
           /\ c.event = call[h].event /\ c.iteration = call[h].iteration
           /\ c # Idle
      /\ c.phase # "generate" => faults' > 0 /\ c.iteration = 0
  BY <1>1 DEF CallState, Idle
<1>4. \A g \in Handler \ {h} : ~Inserted(g) \/ TaskOfCall(g) # t
  BY DEF RInv, CallsAgree, Inserted
<1>5. \A g \in Handler \ {h} : /\ Inserted(g)' = Inserted(g) /\ Started(g)' = Started(g)
                              /\ TaskOfCall(g)' = TaskOfCall(g)
  BY <1>2 DEF Inserted, Started, TaskOfCall
<1>6. /\ Inserted(h)' <=> c.phase = "generate"
      /\ Started(h)' <=> c.phase = "generate"
      /\ c.phase = "generate" => TaskOfCall(h)' = t
  BY <1>2, <1>3 DEF Inserted, Started, TaskOfCall
<1>7. \A g \in Handler : Inserted(g) => TaskOfCall(g) \in Task
  BY EventTyped DEF RInv, CallsAgree, Inserted, Started, TaskOfCall
<1>8. CallsAgree'
  <2>1. ASSUME NEW g \in Handler
        PROVE  /\ call'[g].phase # "idle" => call'[g].event \in Event
               /\ call'[g].phase \notin {"idle", "check"} => call'[g].event \in WellFormed
               /\ call'[g].phase # "failed" => call'[g].iteration < MaxIterations
               /\ call'[g].phase = "running" => run'[TaskOfCall(g)'] = "NONE"
               /\ Started(g)' => /\ run'[TaskOfCall(g)'] = "RUNNING"
                                 /\ executions'[TaskOfCall(g)'] = 1
    <3>1. CASE g = h
      <4>1. CASE c.phase = "idle"
        BY <1>2, <1>3, <1>6, <3>1, <4>1, RuntimeAssumption
      <4>2. CASE c.phase = "generate"
        <5>1. call'[h] = c /\ c.event = call[h].event /\ c.iteration = call[h].iteration
          BY <1>2, <1>3, <4>2
        <5>2. /\ TaskOfCall(h)' = t /\ run'[t] = "RUNNING" /\ executions'[t] = 1
          BY <1>2, <1>3, <1>6, <4>2
        <5>3. QED
          BY <1>1, <3>1, <4>2, <5>1, <5>2
      <4>3. QED
        BY <1>3, <4>1, <4>2
    <3>2. CASE g # h
      <4>1. call'[g] = call[g] /\ TaskOfCall(g)' = TaskOfCall(g) /\ Started(g)' = Started(g)
        BY <1>2, <1>5, <3>2
      <4>2. Inserted(g) => /\ run'[TaskOfCall(g)] = run[TaskOfCall(g)]
                           /\ executions'[TaskOfCall(g)] = executions[TaskOfCall(g)]
        BY <1>2, <1>4, <1>7, <3>2
      <4>3. QED
        BY <4>1, <4>2 DEF RInv, CallsAgree, Inserted
    <3>3. QED
      BY <3>1, <3>2
  <2>2. ASSUME NEW f \in Handler, NEW g \in Handler, Inserted(f)', Inserted(g)',
               TaskOfCall(f)' = TaskOfCall(g)'
        PROVE  f = g
    BY <1>4, <1>5, <1>6, <2>2 DEF RInv, CallsAgree
  <2>3. QED
    BY <2>1, <2>2 DEF CallsAgree
<1>9. ExecutionsHaveRuns' /\ OneExecution'
  <2>1. ASSUME NEW u \in Task
        PROVE  (run'[u] = "NONE" => executions'[u] = 0) /\ executions'[u] <= 1
    <3>1. CASE u = t
      BY <1>2, <3>1
    <3>2. CASE u # t
      BY <1>2, <3>2 DEF RInv, ExecutionsHaveRuns, OneExecution
    <3>3. QED
      BY <3>1, <3>2
  <2>2. QED
    BY <2>1 DEF ExecutionsHaveRuns, OneExecution
<1>10. FinishedTogether'
  BY <1>1, <1>2 DEF RInv, FinishedTogether
<1>11. StrandedForCause'
  <2> SUFFICES ASSUME NEW u \in Task, run'[u] = "RUNNING", ~Executing(u)', ~(faults' > 0)
               PROVE  u \in unanswered'
    BY DEF StrandedForCause
  <2>1. c.phase = "generate" /\ faults' = faults
    BY <1>3
  <2>2. u # t
    BY <1>2, <1>6, <2>1 DEF Executing, Phase
  <2>3. ~Executing(u)
    <3>1. SUFFICES ASSUME NEW g \in Handler, TaskOfCall(g) = u,
                          call[g].phase \in Phase \ {"idle", "check", "create"}
                   PROVE  FALSE
      BY DEF Executing
    <3>2. g # h
      BY <2>2, <3>1
    <3>3. QED
      BY <1>2, <1>5, <3>1, <3>2 DEF Executing
  <2>4. QED
    BY <1>2, <2>1, <2>2, <2>3 DEF RInv, StrandedForCause
<1>12. run' \in [Task -> RunStatus] /\ executions' \in [Task -> Nat]
  BY <1>1 DEF TypeOK, RunStatus
<1>13. QED
  BY <1>1, <1>8, <1>9, <1>10, <1>11, <1>12 DEF RInv

\* The result is committed: the run is COMPLETED, its row staged, its event
\* recorded, and the call is over.
LEMMA FinishedStep ==
    ASSUME TypeOK, RInv, NEW h \in Handler, call[h].phase = "commit",
           WriteFinished(h), Leave(h),
           UNCHANGED <<executions, unanswered>>, faults' \in Nat, faults' >= faults
    PROVE  /\ RInv'
           /\ run' \in [Task -> RunStatus] /\ finished' \in [Task -> Nat]
           /\ processed' \subseteq WellFormed
<1> DEFINE e == call[h].event
           t == TaskOfCall(h)
<1>1. /\ e \in WellFormed /\ e \in Event /\ t = TaskOf[e] /\ t \in Task
      /\ run[t] = "RUNNING" /\ executions[t] = 1 /\ Inserted(h)
  BY EventTyped DEF RInv, CallsAgree, Inserted, Started, TaskOfCall
<1>2. finished[t] = 0 /\ \A f \in processed : TaskOf[f] # t
  BY <1>1 DEF RInv, FinishedTogether
<1>3. /\ run' = [run EXCEPT ![t] = "COMPLETED"]
      /\ finished' = [finished EXCEPT ![t] = @ + 1]
      /\ processed' = processed \cup {e}
      /\ call' = [call EXCEPT ![h] = Idle]
  BY DEF WriteFinished, Leave
<1>4. /\ run'[t] = "COMPLETED" /\ finished'[t] = 1
      /\ \A u \in Task \ {t} : run'[u] = run[u] /\ finished'[u] = finished[u]
      /\ \A g \in Handler \ {h} : call'[g] = call[g]
      /\ call'[h] = Idle
  BY <1>1, <1>2, <1>3 DEF TypeOK
<1>5. \A g \in Handler \ {h} : /\ Inserted(g)' = Inserted(g) /\ Started(g)' = Started(g)
                              /\ TaskOfCall(g)' = TaskOfCall(g)
  BY <1>4 DEF Inserted, Started, TaskOfCall
<1>5a. \A g \in Handler \ {h} : Inserted(g) => TaskOfCall(g) \in Task \ {t}
  BY <1>1, EventTyped DEF RInv, CallsAgree, Inserted, Started, TaskOfCall
<1>6. Idle.phase = "idle" /\ Idle.iteration < MaxIterations
  BY RuntimeAssumption DEF Idle
<1>7. ~Inserted(h)' /\ ~Started(h)' /\ call'[h].phase = "idle"
  BY <1>4, <1>6 DEF Inserted, Started
<1>8. CallsAgree'
  <2>1. ASSUME NEW g \in Handler
        PROVE  /\ call'[g].phase # "idle" => call'[g].event \in Event
               /\ call'[g].phase \notin {"idle", "check"} => call'[g].event \in WellFormed
               /\ call'[g].phase # "failed" => call'[g].iteration < MaxIterations
               /\ call'[g].phase = "running" => run'[TaskOfCall(g)'] = "NONE"
               /\ Started(g)' => /\ run'[TaskOfCall(g)'] = "RUNNING"
                                 /\ executions[TaskOfCall(g)'] = 1
    <3>1. CASE g = h
      BY <1>4, <1>6, <1>7, <3>1
    <3>2. CASE g # h
      <4>1. Inserted(g) => run'[TaskOfCall(g)] = run[TaskOfCall(g)]
        BY <1>4, <1>5a, <3>2
      <4>2. QED
        BY <1>3, <1>4, <1>5, <3>2, <4>1 DEF RInv, CallsAgree, Inserted
    <3>3. QED
      BY <3>1, <3>2
  <2>2. ASSUME NEW f \in Handler, NEW g \in Handler, Inserted(f)', Inserted(g)',
               TaskOfCall(f)' = TaskOfCall(g)'
        PROVE  f = g
    BY <1>3, <1>5, <1>7, <2>2 DEF RInv, CallsAgree
  <2>3. QED
    BY <2>1, <2>2 DEF CallsAgree
<1>9. ExecutionsHaveRuns' /\ OneExecution'
  BY <1>4 DEF RInv, ExecutionsHaveRuns, OneExecution
<1>10. FinishedTogether'
  <2>1. ASSUME NEW u \in Task
        PROVE  /\ finished'[u] = IF run'[u] = "COMPLETED" THEN 1 ELSE 0
               /\ run'[u] = "COMPLETED" <=> \E f \in processed' : TaskOf[f] = u
    <3>1. CASE u = t
      BY <1>1, <1>3, <1>4, <3>1
    <3>2. CASE u # t
      BY <1>1, <1>3, <1>4, <3>2 DEF RInv, FinishedTogether
    <3>3. QED
      BY <3>1, <3>2
  <2>2. \A f, g \in processed' : TaskOf[f] = TaskOf[g] => f = g
    BY <1>1, <1>2, <1>3 DEF RInv, FinishedTogether
  <2>3. QED
    BY <2>1, <2>2 DEF FinishedTogether
<1>11. StrandedForCause'
  <2> SUFFICES ASSUME NEW u \in Task, run'[u] = "RUNNING", ~Executing(u)', ~(faults' > 0)
               PROVE  u \in unanswered
    BY DEF StrandedForCause
  <2>1. u # t /\ run[u] = "RUNNING"
    BY <1>4
  <2>2. ~Executing(u)
    <3>1. SUFFICES ASSUME NEW g \in Handler, TaskOfCall(g) = u,
                          call[g].phase \in Phase \ {"idle", "check", "create"}
                   PROVE  FALSE
      BY DEF Executing
    <3>2. g # h
      BY <2>1, <3>1
    <3>3. QED
      BY <1>3, <1>4, <1>5, <3>1, <3>2 DEF Executing
  <2>3. QED
    BY <2>1, <2>2 DEF RInv, StrandedForCause, TypeOK
<1>12. /\ run' \in [Task -> RunStatus] /\ finished' \in [Task -> Nat]
       /\ processed' \subseteq WellFormed
  BY <1>1, <1>3 DEF TypeOK, RunStatus
<1>13. QED
  BY <1>8, <1>9, <1>10, <1>11, <1>12 DEF RInv

\* A commit, answered or not, keeps types and invariant.
LEMMA CommitStep ==
    ASSUME TypeOK, RInv, NEW h \in Handler,
           CommitRunning(h) \/ CommitFinished(h) \/ CommitUnanswered(h)
    PROVE  TypeOK' /\ RInv'
<1> DEFINE going == [call[h] EXCEPT !.phase = "generate"]
<1>1. call[h] \in CallState /\ going \in CallState /\ Idle \in CallState
  BY MovesTyped DEF TypeOK, CallState, Phase
<1>2. CASE CommitRunning(h)
  <2>1. /\ call[h].phase = "running" /\ call' = [call EXCEPT ![h] = going]
        /\ run' = [run EXCEPT ![TaskOfCall(h)] = "RUNNING"]
        /\ executions' = [executions EXCEPT ![TaskOfCall(h)] = @ + 1]
        /\ UNCHANGED <<processed, finished, deliveries, acknowledged, unanswered, faults>>
    BY <1>2 DEF CommitRunning, Goto
  <2>2. RInv' /\ run' \in [Task -> RunStatus] /\ executions' \in [Task -> Nat]
    BY <1>1, <2>1, FaultsCounted, RunningStep
  <2>3. QED
    BY <1>1, <2>1, <2>2 DEF TypeOK
<1>3. CASE CommitFinished(h)
  <2>1. /\ call[h].phase = "commit" /\ WriteFinished(h) /\ Leave(h)
        /\ acknowledged' = acknowledged \cup {call[h].event}
        /\ UNCHANGED <<deliveries, executions, unanswered, faults>>
    BY <1>3 DEF CommitFinished
  <2>2. /\ RInv' /\ run' \in [Task -> RunStatus] /\ finished' \in [Task -> Nat]
        /\ processed' \subseteq WellFormed
    BY <2>1, FaultsCounted, FinishedStep
  <2>3. call[h].event \in WellFormed
    BY <2>1 DEF RInv, CallsAgree
  <2>4. QED
    BY <1>1, <2>1, <2>2, <2>3 DEF TypeOK, Leave
<1>4. CASE CommitUnanswered(h)
  <2>1. /\ Leave(h) /\ call' = [call EXCEPT ![h] = Idle]
        /\ UNCHANGED <<deliveries, executions, acknowledged, unanswered>>
        /\ faults' \in 0..MaxFaults /\ faults' \in Nat /\ faults' > 0 /\ faults' >= faults
    BY <1>4, FaultTyped, RuntimeAssumption DEF CommitUnanswered, Fault, Leave, history, TypeOK
  <2>2. CASE /\ call[h].phase = "running"
             /\ run' = [run EXCEPT ![TaskOfCall(h)] = "RUNNING"]
             /\ UNCHANGED <<processed, finished>>
    <3>1. RInv' /\ run' \in [Task -> RunStatus]
      BY <1>1, <2>1, <2>2, RunningStep
    <3>2. QED
      BY <1>1, <2>1, <2>2, <3>1 DEF TypeOK
  <2>3. CASE call[h].phase = "commit" /\ WriteFinished(h)
    <3>1. /\ RInv' /\ run' \in [Task -> RunStatus] /\ finished' \in [Task -> Nat]
          /\ processed' \subseteq WellFormed
      BY <2>1, <2>3, FinishedStep
    <3>2. QED
      BY <1>1, <2>1, <3>1 DEF TypeOK
  <2>4. QED
    BY <1>4, <2>2, <2>3 DEF CommitUnanswered
<1>5. QED
  BY <1>2, <1>3, <1>4

-----------------------------------------------------------------------------
(***************************************************************************)
(* The invariant, and what follows from it.                                *)
(***************************************************************************)

\* When the service starts nothing has been delivered.
LEMMA InitInductive == Init => TypeOK /\ RInv
<1> SUFFICES ASSUME Init PROVE RInv
  BY InitTyped
<1>1. \A h \in Handler : /\ call[h].phase = "idle" /\ call[h].iteration < MaxIterations
                         /\ ~Inserted(h) /\ ~Started(h)
  BY RuntimeAssumption DEF Init, Idle, Inserted, Started
<1>2. \A t \in Task : run[t] = "NONE" /\ executions[t] = 0 /\ finished[t] = 0
  BY DEF Init
<1>3. CallsAgree
  BY <1>1 DEF CallsAgree
<1>4. FinishedTogether
  BY <1>2 DEF Init, FinishedTogether
<1>5. QED
  BY <1>2, <1>3, <1>4 DEF RInv, ExecutionsHaveRuns, OneExecution, StrandedForCause

\* No step of a handler, of its database or of a fault breaks the invariant.
LEMMA NextInductive == TypeOK /\ RInv /\ [Next]_vars => TypeOK' /\ RInv'
<1> SUFFICES ASSUME TypeOK, RInv, [Next]_vars PROVE TypeOK' /\ RInv'
  OBVIOUS
<1>1. CASE UNCHANGED vars
  BY <1>1 DEF vars, stored, history, TypeOK, RInv, CallsAgree, ExecutionsHaveRuns,
              OneExecution, FinishedTogether, StrandedForCause, Executing, Inserted,
              Started, TaskOfCall
<1>2. CASE Next
  <2>1. PICK h \in Handler : \/ \E e \in Event : Deliver(h, e)
                             \/ Proceed(h) \/ CallFails(h) \/ CommitUnanswered(h)
    BY <1>2 DEF Next
  <2>2. CASE (\E e \in Event : Deliver(h, e)) \/ Malformed(h) \/ Check(h)
    BY <2>2, ArriveStep
  <2>3. CASE CreateRun(h)
    BY <2>3, CreateRunStep
  <2>4. CASE Generate(h) \/ UseTools(h) \/ MarkFailedRaises(h) \/ StageFinished(h)
    BY <2>4, LoopStep
  <2>5. CASE CommitRunning(h) \/ CommitFinished(h) \/ CommitUnanswered(h)
    BY <2>5, CommitStep
  <2>6. CASE CallFails(h)
    BY <2>6, CallFailsStep
  <2>7. QED
    BY <2>1, <2>2, <2>3, <2>4, <2>5, <2>6 DEF Proceed
<1>3. QED
  BY <1>1, <1>2

\* The types and the inductive invariant hold in every reachable state, for any
\* number of handlers that execute deliveries at the same time.
THEOREM Inductive == Spec => [](TypeOK /\ RInv)
<1>1. Init => TypeOK /\ RInv
  BY InitInductive
<1>2. TypeOK /\ RInv /\ [Next]_vars => TypeOK' /\ RInv'
  BY NextInductive
<1>3. QED
  BY <1>1, <1>2, PTL DEF Spec

\* Every variable of the handler's model has its type.
THEOREM TypeCorrect == Spec => []TypeOK
BY Inductive, PTL

\* The agent of a task is executed at most once, however often and from however
\* many threads handle_task_ready_event is called with its events.
THEOREM OneExecutionCorrect == Spec => []OneExecution
<1>1. TypeOK /\ RInv => OneExecution
  BY DEF RInv
<1>2. QED
  BY <1>1, Inductive, PTL

\* Run, outbox row and processed event change together, whatever fails.
THEOREM FinishedCorrect == Spec => []FinishedTogether
<1>1. TypeOK /\ RInv => FinishedTogether
  BY DEF RInv
<1>2. QED
  BY <1>1, Inductive, PTL

\* A run is left RUNNING only by a fault or by an agent that gave no answer.
THEOREM StrandedCorrect == Spec => []StrandedForCause
<1>1. TypeOK /\ RInv => StrandedForCause
  BY DEF RInv
<1>2. QED
  BY <1>1, Inductive, PTL

-----------------------------------------------------------------------------
(***************************************************************************)
(* Refinement: the commits are the steps that SingleExecution sees.        *)
(***************************************************************************)

promised == <<executions, processed, acknowledged>>

\* The commit of the run is the execution of the agent.
LEMMA RunningExecutes ==
    ASSUME TypeOK, RInv, NEW h \in Handler, CommitRunning(h)
    PROVE  Single!Next
<1>1. TaskOfCall(h) \in Task /\ executions[TaskOfCall(h)] = 0
  BY EventTyped DEF CommitRunning, RInv, CallsAgree, ExecutionsHaveRuns, TaskOfCall
<1>2. /\ executions' = [executions EXCEPT ![TaskOfCall(h)] = 1]
      /\ UNCHANGED <<processed, acknowledged>>
  BY <1>1 DEF CommitRunning, TypeOK
<1>3. Single!Execute(TaskOfCall(h))
  BY <1>1, <1>2 DEF Single!Execute
<1>4. QED
  BY <1>1, <1>3 DEF Single!Next

\* The second commit, whether it is answered or not, finishes its event.
LEMMA CommitFinishes ==
    ASSUME TypeOK, RInv, NEW h \in Handler, call[h].phase = "commit",
           WriteFinished(h), executions' = executions,
           acknowledged' \in {acknowledged, acknowledged \cup {call[h].event}}
    PROVE  Single!Next
<1> DEFINE e == call[h].event
<1>1. /\ e \in Event /\ TaskOf[e] \in Task
      /\ run[TaskOf[e]] = "RUNNING" /\ executions[TaskOf[e]] = 1
  BY EventTyped DEF RInv, CallsAgree, Started, TaskOfCall
<1>2. \A f \in processed : TaskOf[f] # TaskOf[e]
  BY <1>1 DEF RInv, FinishedTogether
<1>3. processed' = processed \cup {e}
  BY DEF WriteFinished
<1>4. Single!Finish(e)
  BY <1>1, <1>2, <1>3 DEF Single!Finish
<1>5. QED
  BY <1>1, <1>4 DEF Single!Next

\* Every step maps to a step of SingleExecution or to a stutter.
LEMMA StepRefines ==
    TypeOK /\ RInv /\ [Next]_vars => [Single!Next]_promised
<1> SUFFICES ASSUME TypeOK, RInv, [Next]_vars PROVE [Single!Next]_promised
  OBVIOUS
<1>1. CASE UNCHANGED vars
  BY <1>1 DEF vars, stored, history, promised
<1>2. CASE Next
  <2>1. PICK h \in Handler : \/ \E e \in Event : Deliver(h, e)
                             \/ Proceed(h) \/ CallFails(h) \/ CommitUnanswered(h)
    BY <1>2 DEF Next
  <2>2. CASE \/ (\E e \in Event : Deliver(h, e)) \/ Malformed(h) \/ CreateRun(h)
             \/ Generate(h) \/ UseTools(h) \/ MarkFailedRaises(h) \/ StageFinished(h)
             \/ CallFails(h)
    BY <2>2 DEF Deliver, Malformed, CreateRun, Generate, UseTools, MarkFailedRaises,
                StageFinished, CallFails, stored, history, promised
  <2>3. CASE Check(h)
    <3>1. UNCHANGED <<executions, processed>>
      BY <2>3 DEF Check, stored
    <3>2. CASE call[h].event \in processed
      <4>1. call[h].event \in Event
        BY <2>3 DEF Check, RInv, CallsAgree
      <4>2. Single!Acknowledge(call[h].event)
        BY <2>3, <3>1, <3>2 DEF Check, IsProcessed, Single!Acknowledge
      <4>3. QED
        BY <4>1, <4>2 DEF Single!Next
    <3>3. CASE call[h].event \notin processed
      BY <2>3, <3>1, <3>3 DEF Check, IsProcessed, promised
    <3>4. QED
      BY <3>2, <3>3
  <2>4. CASE CommitRunning(h)
    BY <2>4, RunningExecutes
  <2>5. CASE CommitFinished(h)
    BY <2>5, CommitFinishes DEF CommitFinished
  <2>6. CASE CommitUnanswered(h)
    <3>1. UNCHANGED <<executions, acknowledged>>
      BY <2>6 DEF CommitUnanswered, history
    <3>2. CASE call[h].phase = "running" /\ UNCHANGED <<processed, finished>>
      BY <3>1, <3>2 DEF promised
    <3>3. CASE call[h].phase = "commit" /\ WriteFinished(h)
      BY <3>1, <3>3, CommitFinishes
    <3>4. QED
      BY <2>6, <3>2, <3>3 DEF CommitUnanswered
  <2>7. QED
    BY <2>1, <2>2, <2>3, <2>4, <2>5, <2>6 DEF Proceed
<1>3. QED
  BY <1>1, <1>2

\* The handler, with its two transactions, its loop and every fault, implements
\* the promise: one execution per task, one recorded event, and no
\* acknowledgement of an event that is not recorded.
THEOREM Refinement == Spec => Promise
<1>1. Init => Single!Init
  BY DEF Init, Single!Init
<1>2. TypeOK /\ RInv /\ [Next]_vars => [Single!Next]_promised
  BY StepRefines
<1>3. QED
  BY <1>1, <1>2, Inductive, PTL DEF Spec, Promise, Single!Spec, Single!state, promised
=============================================================================
