---------------------- MODULE WorkflowService_proofs ----------------------
(***************************************************************************)
(* Theorems about the workflow service, for every set of tasks, instances  *)
(* and requests, every dependency graph and every choice of operations.    *)
(***************************************************************************)
EXTENDS WorkflowProperties, TLAPS

(***************************************************************************)
(* The vocabulary.                                                         *)
(***************************************************************************)

\* An operation assigns a status of the state machine.
LEMMA TaskAssignedType ==
    ASSUME NEW op \in TaskOp, NEW s \in TaskStatus
    PROVE  TaskAssigned(op, s) \in TaskStatus
BY DEF TaskAssigned, TaskOp, TaskAllowed, TaskStatus

\* An operation assigns a status of a workflow instance.
LEMMA InstanceAssignedType ==
    ASSUME NEW op \in InstanceOp, NEW s \in WorkflowStatus
    PROVE  InstanceAssigned(op, s) \in WorkflowStatus
BY DEF InstanceAssigned, InstanceOp, WorkflowStatus

\* The rows staged for a task carry known event types.
LEMMA TaskEventsType ==
    ASSUME NEW op \in TaskOp, NEW e \in TaskEvents[op]
    PROVE  e \in EventType
BY Zenon DEF EventType

\* The row staged for an instance carries a known event type.
LEMMA InstanceEventType ==
    ASSUME NEW op \in DOMAIN InstanceEvent
    PROVE  InstanceEvent[op] \in EventType
BY Zenon DEF EventType

\* An unlock and the row of a started task carry known event types.
LEMMA EngineEventType == UnlockEvent \in EventType /\ "task.ready" \in EventType
<1>1. UnlockEvent \in EventType
  BY DEF EventType
<1>2. "mark_task_ready" \in TaskOp /\ "task.ready" \in TaskEvents["mark_task_ready"]
  BY DEF TaskOp, TaskAllowed, TaskEvents
<1>3. QED
  BY <1>1, <1>2, TaskEventsType

\* A session that was never opened, or is closed with an answer, is a session.
LEMMA FreshType ==
    /\ Fresh \in Session
    /\ \A code \in Reply : Answered(code) \in Session
BY DEF Fresh, Answered, Session, Phase, Reply

\* What Changed leaves to flush is a status or nothing.
LEMMA ChangedType ==
    ASSUME NEW S, NEW new \in S, NEW old
    PROVE  Changed(new, old) \in S \cup {Clean}
BY DEF Changed

-----------------------------------------------------------------------------
(***************************************************************************)
(* Type correctness: one lemma per handler step, then the theorem.         *)
(***************************************************************************)

\* Replacing one request's session by a session keeps the type of them all.
LEMMA SessionUpdate ==
    ASSUME TypeOK, NEW r \in Req, NEW s \in Session,
           session' = [session EXCEPT ![r] = s], UNCHANGED store
    PROVE  TypeOK'
BY DEF TypeOK, store

\* A task handler stages a well-typed change and well-typed rows.
LEMMA StageTaskType ==
    ASSUME TypeOK, NEW r \in Req, NEW op \in TaskOp, NEW t \in Task,
           StageTask(r, op, t)
    PROVE  TypeOK'
<1> DEFINE old  == taskStatus[t]
           new  == TaskAssigned(op, old)
           rows == {[event |-> e, subject |-> t] : e \in TaskEvents[op]}
           s    == [Fresh EXCEPT
                      !.phase   = IF op = "complete_task" THEN "children" ELSE "staged",
                      !.subject = t,
                      !.dirty   = [Fresh.dirty EXCEPT ![t] = Changed(new, old)],
                      !.staged  = rows]
<1>1. old \in TaskStatus
  BY DEF TypeOK, DbTaskStatus
<1>2. Changed(new, old) \in TaskStatus \cup {Clean}
  <2>1. new \in TaskStatus
    BY <1>1, TaskAssignedType
  <2>2. QED
    BY <2>1, ChangedType
<1>3. rows \subseteq StagedRow
  BY TaskEventsType DEF StagedRow, Subject
<1>4. s \in Session
  <2>1. [Fresh.dirty EXCEPT ![t] = Changed(new, old)] \in [Task -> TaskStatus \cup {Clean}]
    BY <1>2 DEF Fresh
  <2>2. QED
    BY <1>3, <2>1 DEF Fresh, Session, Phase, Reply, Subject
<1>5. session' = [session EXCEPT ![r] = s] /\ UNCHANGED store
  BY DEF StageTask
<1>6. QED
  BY <1>4, <1>5, SessionUpdate

\* Reading the pending children keeps the types.
LEMMA ReadChildrenType ==
    ASSUME TypeOK, NEW r \in Req, ReadChildren(r)
    PROVE  TypeOK'
<1> DEFINE pending == PendingChildren(session[r].subject)
           s == [session[r] EXCEPT
                   !.phase  = IF pending = {} THEN "staged" ELSE "parents",
                   !.unread = pending]
<1>1. pending \subseteq Task
  BY DEF PendingChildren, Children
<1>2. session[r] \in Session
  BY DEF TypeOK
<1>3. s \in Session
  BY <1>1, <1>2 DEF Session, Phase
<1>4. session' = [session EXCEPT ![r] = s] /\ UNCHANGED store
  BY DEF ReadChildren
<1>5. QED
  BY <1>3, <1>4, SessionUpdate

\* Looking at one child's parents keeps the types.
LEMMA ReadParentsType ==
    ASSUME TypeOK, NEW r \in Req, NEW c \in Task, ReadParents(r, c)
    PROVE  TypeOK'
<1> DEFINE old  == session[r]
           left == old.unread \ {c}
           row  == [event |-> UnlockEvent, subject |-> c]
           dirty  == IF AllDependenciesCompleted(c)
                     THEN [old.dirty EXCEPT ![c] = "READY"] ELSE old.dirty
           staged == IF AllDependenciesCompleted(c)
                     THEN old.staged \cup {row} ELSE old.staged
           s == [old EXCEPT
                   !.phase  = IF left = {} THEN "staged" ELSE "parents",
                   !.unread = left,
                   !.dirty  = dirty,
                   !.staged = staged]
<1>1. old \in Session
  BY DEF TypeOK
<1>2. staged \subseteq StagedRow
  BY <1>1, EngineEventType DEF Session, StagedRow, Subject
<1>3. dirty \in [Task -> TaskStatus \cup {Clean}]
  BY <1>1 DEF Session, TaskStatus
<1>4. s \in Session
  BY <1>1, <1>2, <1>3 DEF Session, Phase
<1>5. session' = [session EXCEPT ![r] = s] /\ UNCHANGED store
  BY DEF ReadParents
<1>6. QED
  BY <1>4, <1>5, SessionUpdate

\* Creating an instance keeps the types.
LEMMA CreateInstanceType ==
    ASSUME TypeOK, NEW r \in Req, NEW i \in Instance, CreateInstance(r, i)
    PROVE  TypeOK'
<1> DEFINE rows == {[event |-> InstanceEvent["create_instance"], subject |-> i]}
           s == [Fresh EXCEPT !.phase = "staged", !.subject = i,
                              !.instance = "PENDING", !.staged = rows]
<1>1. rows \subseteq StagedRow
  <2>1. "create_instance" \in DOMAIN InstanceEvent
    BY DEF InstanceEvent
  <2>2. QED
    BY <2>1, InstanceEventType DEF StagedRow, Subject
<1>2. s \in Session
  BY <1>1 DEF Fresh, Session, Phase, Reply, Subject, WorkflowStatus
<1>3. session' = [session EXCEPT ![r] = s] /\ UNCHANGED store
  BY DEF CreateInstance
<1>4. QED
  BY <1>2, <1>3, SessionUpdate

\* An instance handler stages a well-typed change and row.
LEMMA StageInstanceType ==
    ASSUME TypeOK, NEW r \in Req, NEW op \in InstanceOp, NEW i \in Instance,
           StageInstance(r, op, i)
    PROVE  TypeOK'
<1> DEFINE old  == instanceStatus[i]
           new  == InstanceAssigned(op, old)
           rows == {[event |-> InstanceEvent[op], subject |-> i]}
           s == [Fresh EXCEPT
                   !.phase    = IF op = "start_instance" THEN "roots" ELSE "staged",
                   !.subject  = i,
                   !.instance = Changed(new, old),
                   !.staged   = rows]
<1>1. old \in WorkflowStatus
  BY DEF StageInstance, TypeOK
<1>2. Changed(new, old) \in WorkflowStatus \cup {Clean}
  <2>1. new \in WorkflowStatus
    BY <1>1, InstanceAssignedType
  <2>2. QED
    BY <2>1, ChangedType
<1>3. rows \subseteq StagedRow
  <2>1. op \in DOMAIN InstanceEvent
    BY DEF InstanceEvent, InstanceOp
  <2>2. QED
    BY <2>1, InstanceEventType DEF StagedRow, Subject
<1>4. s \in Session
  BY <1>2, <1>3 DEF Fresh, Session, Phase, Reply, Subject
<1>5. session' = [session EXCEPT ![r] = s] /\ UNCHANGED store
  BY DEF StageInstance
<1>6. QED
  BY <1>4, <1>5, SessionUpdate

\* Reading the tasks an instance starts keeps the types.
LEMMA ReadRootsType ==
    ASSUME TypeOK, NEW r \in Req, ReadRoots(r)
    PROVE  TypeOK'
<1> DEFINE old   == session[r]
           roots == RootTasks(old.subject)
           dirty == [t \in Task |-> IF t \in roots THEN "READY" ELSE old.dirty[t]]
           staged == old.staged \cup {[event |-> "task.ready", subject |-> t] : t \in roots}
           s == [old EXCEPT !.phase = "staged", !.dirty = dirty, !.staged = staged]
<1>1. old \in Session
  BY DEF TypeOK
<1>2. roots \subseteq Task
  BY DEF RootTasks
<1>3. dirty \in [Task -> TaskStatus \cup {Clean}]
  BY <1>1 DEF Session, TaskStatus
<1>4. staged \subseteq StagedRow
  BY <1>1, <1>2, EngineEventType DEF Session, StagedRow, Subject
<1>5. s \in Session
  BY <1>1, <1>3, <1>4 DEF Session, Phase
<1>6. session' = [session EXCEPT ![r] = s] /\ UNCHANGED store
  BY DEF ReadRoots
<1>7. QED
  BY <1>5, <1>6, SessionUpdate

\* A commit writes well-typed columns and rows.
LEMMA CommitType ==
    ASSUME TypeOK, NEW r \in Req, Commit(r)
    PROVE  TypeOK'
<1>1. session[r] \in Session
  BY DEF TypeOK
<1>2. taskStatus' \in [Task -> DbTaskStatus]
  BY <1>1 DEF Commit, Flushable, TypeOK, Session
<1>3. instanceStatus' \in [Instance -> WorkflowStatus \cup {Absent}]
  BY <1>1 DEF Commit, TypeOK, Session
<1>4. Rows(r) \subseteq OutboxRow
  BY <1>1 DEF Rows, OutboxRow, Session, StagedRow
<1>5. outbox' \subseteq OutboxRow /\ timeline' \subseteq OutboxRow
  BY <1>4 DEF Commit, TypeOK
<1>6. session' \in [Req -> Session]
  <2>1. PICK code \in Outcome : session' = [session EXCEPT ![r] = Answered(code)]
    BY DEF Commit
  <2>2. Answered(code) \in Session
    BY FreshType DEF Reply, Outcome
  <2>3. QED
    BY <2>1, <2>2 DEF TypeOK
<1>7. everCompleted' \subseteq Task
  BY DEF Commit, TypeOK
<1>8. QED
  BY <1>2, <1>3, <1>5, <1>6, <1>7 DEF TypeOK

\* A request that is refused, fails or dies leaves everything but its session.
LEMMA AnsweredType ==
    ASSUME TypeOK, NEW r \in Req, NEW code \in Reply,
           session' = [session EXCEPT ![r] = Answered(code)], UNCHANGED store
    PROVE  TypeOK'
BY FreshType, SessionUpdate

\* The program's tables and sessions start with their types.
LEMMA InitType == Init => TypeOK
<1> SUFFICES ASSUME Init PROVE TypeOK
  OBVIOUS
<1>1. taskStatus \in [Task -> DbTaskStatus]
  BY ServiceAssumption DEF Init
<1>2. instanceStatus \in [Instance -> WorkflowStatus \cup {Absent}]
  BY ServiceAssumption DEF Init
<1>3. session \in [Req -> Session]
  BY FreshType DEF Init
<1>4. QED
  BY <1>1, <1>2, <1>3 DEF Init, TypeOK

\* No step of any request breaks a type.
LEMMA NextType == TypeOK /\ [Next]_vars => TypeOK'
<1> SUFFICES ASSUME TypeOK, [Next]_vars PROVE TypeOK'
  OBVIOUS
<1>1. CASE UNCHANGED vars
  BY <1>1 DEF TypeOK, vars, store
<1>2. ASSUME NEW r \in Req, Begin(r) PROVE TypeOK'
  <2>1. ASSUME NEW op \in TaskOp, NEW t \in Task, StageTask(r, op, t) PROVE TypeOK'
    BY <2>1, StageTaskType
  <2>2. ASSUME NEW op \in TaskOp, NEW t \in Task, RejectTask(r, op, t) PROVE TypeOK'
    BY <2>2, AnsweredType DEF RejectTask, Reply
  <2>3. ASSUME NEW op \in TaskOp, TaskMissing(r, op) PROVE TypeOK'
    <3>1. TaskMissingReply(op) \in Reply
      BY DEF TaskMissingReply, Reply
    <3>2. QED
      BY <2>3, <3>1, AnsweredType DEF TaskMissing
  <2>4. ASSUME NEW i \in Instance, CreateInstance(r, i) PROVE TypeOK'
    BY <2>4, CreateInstanceType
  <2>5. ASSUME NEW op \in InstanceOp, NEW i \in Instance, StageInstance(r, op, i)
        PROVE TypeOK'
    BY <2>5, StageInstanceType
  <2>6. ASSUME NEW op \in InstanceOp \cup {"create_instance"}, InstanceMissing(r, op) PROVE TypeOK'
    BY <2>6, AnsweredType DEF InstanceMissing, Reply
  <2>7. ASSUME NEW op \in UnbuildableEvent, BuildError(r, op) PROVE TypeOK'
    BY <2>7, AnsweredType DEF BuildError, Reply
  <2>8. QED
    BY <1>2, <2>1, <2>2, <2>3, <2>4, <2>5, <2>6, <2>7 DEF Begin
<1>3. ASSUME NEW r \in Req, Proceed(r) PROVE TypeOK'
  <2>1. ASSUME NEW c \in Task, ReadParents(r, c) PROVE TypeOK'
    BY <2>1, ReadParentsType
  <2>2. CASE FlushError(r)
    BY <2>2, AnsweredType DEF FlushError, Reply
  <2>3. QED
    BY <1>3, <2>1, <2>2, ReadChildrenType, ReadRootsType, CommitType DEF Proceed
<1>4. ASSUME NEW r \in Req, Crash(r) PROVE TypeOK'
  BY <1>4, AnsweredType DEF Crash, Reply
<1>5. QED
  BY <1>1, <1>2, <1>3, <1>4 DEF Next

\* In every reachable state of the service every variable has its type: no
\* handler stores a status the column cannot hold, whatever it loaded.
THEOREM TypeCorrect == Spec => []TypeOK
<1>1. Init => TypeOK
  BY InitType
<1>2. TypeOK /\ [Next]_vars => TypeOK'
  BY NextType
<1>3. QED
  BY <1>1, <1>2, PTL DEF Spec

-----------------------------------------------------------------------------
(***************************************************************************)
(* The outbox: IInv is inductive.                                          *)
(***************************************************************************)

\* Only the dependency engine stages an unlock, and every operation on a task
\* stages something.
LEMMA NoOtherUnlock ==
    /\ \A op \in TaskOp : UnlockEvent \notin TaskEvents[op] /\ TaskEvents[op] # {}
    /\ \A op \in DOMAIN InstanceEvent : InstanceEvent[op] # UnlockEvent
BY DEF TaskOp, TaskAllowed, TaskEvents, InstanceEvent, UnlockEvent

\* A step that touches one session and not the store preserves IInv when the
\* session was not over, has not been answered with 200, and stages only
\* justified unlocks.
LEMMA SessionStep ==
    ASSUME TypeOK, IInv, NEW r \in Req, NEW s \in Session,
           session[r].phase # "done",
           session' = [session EXCEPT ![r] = s], UNCHANGED store,
           s.reply # "200",
           s.phase # "done" => s.reply = "none",
           s.phase \notin {"idle", "done"} => s.staged # {},
           \A e \in s.staged : e.event = UnlockEvent => Parents(e.subject) \subseteq everCompleted
    PROVE  IInv'
<1>1. session'[r] = s /\ \A q \in Req \ {r} : session'[q] = session[q]
  BY DEF TypeOK
<1>2. outbox' = outbox /\ everCompleted' = everCompleted /\ taskStatus' = taskStatus
  BY DEF store
<1>3. \A row \in outbox : row.req # r
  BY DEF IInv, InFlight
<1>4. OutboxAtomic'
  <2>1. ASSUME NEW q \in Req
        PROVE  LET wrote == \E row \in outbox' : row.req = q
               IN /\ session'[q].reply = "200" => wrote
                  /\ wrote => session'[q].reply \in Outcome
    <3>1. CASE q = r
      BY <1>1, <1>2, <1>3, <3>1
    <3>2. CASE q # r
      BY <1>1, <1>2, <3>2 DEF IInv, OutboxAtomic
    <3>3. QED
      BY <3>1, <3>2
  <2>2. QED
    BY <2>1 DEF OutboxAtomic
<1>5. UnlockJustified'
  BY <1>2 DEF IInv, UnlockJustified, Parents
<1>6. InFlight'
  <2>1. ASSUME NEW q \in Req
        PROVE  /\ session'[q].phase # "done" =>
                     /\ session'[q].reply = "none"
                     /\ \A row \in outbox' : row.req # q
               /\ session'[q].phase \notin {"idle", "done"} => session'[q].staged # {}
               /\ \A e \in session'[q].staged :
                     e.event = UnlockEvent => Parents(e.subject) \subseteq everCompleted'
    <3>1. CASE q = r
      BY <1>1, <1>2, <1>3, <3>1
    <3>2. CASE q # r
      BY <1>1, <1>2, <3>2 DEF IInv, InFlight
    <3>3. QED
      BY <3>1, <3>2
  <2>2. QED
    BY <2>1 DEF InFlight, Parents
<1>7. CompletedRemembered'
  BY <1>2 DEF IInv, CompletedRemembered
<1>8. QED
  BY <1>4, <1>5, <1>6, <1>7 DEF IInv

\* A request that is refused, fails or dies before its commit leaves no rows.
LEMMA AnsweredStep ==
    ASSUME TypeOK, IInv, NEW r \in Req, NEW code \in Reply \ {"200"},
           session[r].phase # "done",
           session' = [session EXCEPT ![r] = Answered(code)], UNCHANGED store
    PROVE  IInv'
<1>1. Answered(code) \in Session
  BY FreshType
<1>2. /\ Answered(code).phase = "done"
      /\ Answered(code).reply = code
      /\ Answered(code).staged = {}
  BY DEF Answered, Fresh
<1>3. QED
  BY <1>1, <1>2, SessionStep

\* A task handler stages rows of its own, none of them an unlock.
LEMMA StageTaskStep ==
    ASSUME TypeOK, IInv, NEW r \in Req, NEW op \in TaskOp, NEW t \in Task,
           StageTask(r, op, t)
    PROVE  IInv'
<1>1. TypeOK'
  BY StageTaskType
<1>2. session'[r] \in Session
  BY <1>1 DEF TypeOK
<1>3. session[r].phase = "idle"
  BY DEF StageTask, MayBegin
<1>4. /\ session' = [session EXCEPT ![r] = session'[r]]
      /\ session'[r].reply = "none"
      /\ session'[r].staged = {[event |-> e, subject |-> t] : e \in TaskEvents[op]}
  BY DEF StageTask, TypeOK, Fresh
<1>5. session'[r].staged # {} /\ \A e \in session'[r].staged : e.event # UnlockEvent
  <2>1. PICK e \in TaskEvents[op] : TRUE
    BY NoOtherUnlock
  <2>2. [event |-> e, subject |-> t] \in session'[r].staged
    BY <1>4, <2>1
  <2>3. \A x \in session'[r].staged : x.event \in TaskEvents[op]
    BY <1>4
  <2>4. QED
    BY <2>2, <2>3, NoOtherUnlock
<1>6. UNCHANGED store
  BY DEF StageTask
<1>7. QED
  BY <1>2, <1>3, <1>4, <1>5, <1>6, SessionStep

\* Selecting the pending children stages nothing.
LEMMA ReadChildrenStep ==
    ASSUME TypeOK, IInv, NEW r \in Req, ReadChildren(r)
    PROVE  IInv'
<1>1. TypeOK'
  BY ReadChildrenType
<1>2. session'[r] \in Session
  BY <1>1 DEF TypeOK
<1>3. session[r].phase = "children"
  BY DEF ReadChildren
<1>4. /\ session' = [session EXCEPT ![r] = session'[r]]
      /\ session'[r].reply = session[r].reply
      /\ session'[r].staged = session[r].staged
  BY DEF ReadChildren, TypeOK, Session
<1>5. session[r].reply = "none" /\ session[r].staged # {}
  BY <1>3 DEF IInv, InFlight
<1>6. \A e \in session[r].staged :
          e.event = UnlockEvent => Parents(e.subject) \subseteq everCompleted
  BY DEF IInv, InFlight
<1>7. UNCHANGED store
  BY DEF ReadChildren
<1>8. QED
  BY <1>2, <1>3, <1>4, <1>5, <1>6, <1>7, SessionStep

\* An unlock is staged only for a child all of whose parents are COMPLETED in
\* what the engine reads.
LEMMA ReadParentsStep ==
    ASSUME TypeOK, IInv, NEW r \in Req, NEW c \in Task, ReadParents(r, c)
    PROVE  IInv'
<1> DEFINE row == [event |-> UnlockEvent, subject |-> c]
<1>1. TypeOK'
  BY ReadParentsType
<1>2. session'[r] \in Session
  BY <1>1 DEF TypeOK
<1>3. session[r].phase = "parents"
  BY DEF ReadParents
<1>4. /\ session' = [session EXCEPT ![r] = session'[r]]
      /\ session'[r].reply = session[r].reply
      /\ session'[r].staged = IF AllDependenciesCompleted(c)
                               THEN session[r].staged \cup {row}
                               ELSE session[r].staged
  BY DEF ReadParents, TypeOK, Session
<1>5. session[r].reply = "none" /\ session[r].staged # {}
  BY <1>3 DEF IInv, InFlight
<1>6. AllDependenciesCompleted(c) => Parents(c) \subseteq everCompleted
  BY DEF AllDependenciesCompleted, IInv, CompletedRemembered, Parents
<1>7. \A e \in session'[r].staged :
          e.event = UnlockEvent => Parents(e.subject) \subseteq everCompleted
  <2>1. \A e \in session[r].staged :
            e.event = UnlockEvent => Parents(e.subject) \subseteq everCompleted
    BY DEF IInv, InFlight
  <2>2. row.subject = c
    OBVIOUS
  <2>3. QED
    BY <1>4, <1>6, <2>1, <2>2
<1>8. session'[r].staged # {}
  BY <1>4, <1>5
<1>9. UNCHANGED store
  BY DEF ReadParents
<1>10. QED
  BY <1>2, <1>3, <1>4, <1>5, <1>7, <1>8, <1>9, SessionStep

\* Creating an instance stages one row, no unlock.
LEMMA CreateInstanceStep ==
    ASSUME TypeOK, IInv, NEW r \in Req, NEW i \in Instance, CreateInstance(r, i)
    PROVE  IInv'
<1>1. TypeOK'
  BY CreateInstanceType
<1>2. session'[r] \in Session
  BY <1>1 DEF TypeOK
<1>3. session[r].phase = "idle"
  BY DEF CreateInstance, MayBegin
<1>4. /\ session' = [session EXCEPT ![r] = session'[r]]
      /\ session'[r].reply = "none"
      /\ session'[r].staged = {[event |-> InstanceEvent["create_instance"], subject |-> i]}
  BY DEF CreateInstance, TypeOK, Fresh
<1>5. InstanceEvent["create_instance"] # UnlockEvent
  BY DEF InstanceEvent, UnlockEvent
<1>6. session'[r].staged # {} /\ \A e \in session'[r].staged : e.event # UnlockEvent
  BY <1>4, <1>5
<1>7. UNCHANGED store
  BY DEF CreateInstance
<1>8. QED
  BY <1>2, <1>3, <1>4, <1>6, <1>7, SessionStep

\* An instance handler stages one row, no unlock.
LEMMA StageInstanceStep ==
    ASSUME TypeOK, IInv, NEW r \in Req, NEW op \in InstanceOp, NEW i \in Instance,
           StageInstance(r, op, i)
    PROVE  IInv'
<1>1. TypeOK'
  BY StageInstanceType
<1>2. session'[r] \in Session
  BY <1>1 DEF TypeOK
<1>3. session[r].phase = "idle"
  BY DEF StageInstance, MayBegin
<1>4. /\ session' = [session EXCEPT ![r] = session'[r]]
      /\ session'[r].reply = "none"
      /\ session'[r].staged = {[event |-> InstanceEvent[op], subject |-> i]}
  BY DEF StageInstance, TypeOK, Fresh
<1>5. InstanceEvent[op] # UnlockEvent
  <2>1. op \in DOMAIN InstanceEvent
    BY DEF InstanceEvent, InstanceOp
  <2>2. QED
    BY <2>1, NoOtherUnlock
<1>6. session'[r].staged # {} /\ \A e \in session'[r].staged : e.event # UnlockEvent
  BY <1>4, <1>5
<1>7. UNCHANGED store
  BY DEF StageInstance
<1>8. QED
  BY <1>2, <1>3, <1>4, <1>6, <1>7, SessionStep

\* start_instance stages rows that are no unlocks.
LEMMA ReadRootsStep ==
    ASSUME TypeOK, IInv, NEW r \in Req, ReadRoots(r)
    PROVE  IInv'
<1> DEFINE rows == {[event |-> "task.ready", subject |-> t] : t \in RootTasks(session[r].subject)}
<1>1. TypeOK'
  BY ReadRootsType
<1>2. session'[r] \in Session
  BY <1>1 DEF TypeOK
<1>3. session[r].phase = "roots"
  BY DEF ReadRoots
<1>4. /\ session' = [session EXCEPT ![r] = session'[r]]
      /\ session'[r].reply = session[r].reply
      /\ session'[r].staged = session[r].staged \cup rows
  BY DEF ReadRoots, TypeOK, Session
<1>5. session[r].reply = "none" /\ session[r].staged # {}
  BY <1>3 DEF IInv, InFlight
<1>6. \A e \in session'[r].staged :
          e.event = UnlockEvent => Parents(e.subject) \subseteq everCompleted
  <2>1. \A e \in rows : e.event # UnlockEvent
    BY DEF UnlockEvent
  <2>2. \A e \in session[r].staged :
            e.event = UnlockEvent => Parents(e.subject) \subseteq everCompleted
    BY DEF IInv, InFlight
  <2>3. QED
    BY <1>4, <2>1, <2>2
<1>7. session'[r].staged # {}
  BY <1>4, <1>5
<1>8. UNCHANGED store
  BY DEF ReadRoots
<1>9. QED
  BY <1>2, <1>3, <1>4, <1>5, <1>6, <1>7, <1>8, SessionStep

\* A commit turns what was staged into rows: all of them justified, all of them
\* its own, and answered with 200 or not at all.
LEMMA CommitStep ==
    ASSUME TypeOK, IInv, NEW r \in Req, Commit(r)
    PROVE  IInv'
<1>1. session[r].phase = "staged"
  BY DEF Commit
<1>2. PICK code \in Outcome : session' = [session EXCEPT ![r] = Answered(code)]
  BY DEF Commit
<1>3. /\ session'[r].phase = "done"
      /\ session'[r].reply = code
      /\ session'[r].staged = {}
      /\ \A q \in Req \ {r} : session'[q] = session[q]
  BY <1>2 DEF TypeOK, Answered, Fresh
<1>4. /\ outbox' = outbox \cup Rows(r)
      /\ everCompleted \subseteq everCompleted'
  BY DEF Commit
<1>5. session[r].staged # {}
  BY <1>1 DEF IInv, InFlight
<1>6. Rows(r) # {} /\ \A row \in Rows(r) : row.req = r
  <2>1. PICK e \in session[r].staged : TRUE
    BY <1>5
  <2>2. [req |-> r, event |-> e.event, subject |-> e.subject] \in Rows(r)
    BY <2>1 DEF Rows
  <2>3. QED
    BY <2>2 DEF Rows
<1>7. OutboxAtomic'
  <2>1. ASSUME NEW q \in Req
        PROVE  LET wrote == \E row \in outbox' : row.req = q
               IN /\ session'[q].reply = "200" => wrote
                  /\ wrote => session'[q].reply \in Outcome
    <3>1. CASE q = r
      BY <1>3, <1>4, <1>6, <3>1
    <3>2. CASE q # r
      <4>1. \A row \in outbox' : row.req = q => row \in outbox
        BY <1>4, <1>6, <3>2
      <4>2. outbox \subseteq outbox' /\ session'[q] = session[q]
        BY <1>3, <1>4, <3>2
      <4>3. QED
        BY <4>1, <4>2 DEF IInv, OutboxAtomic
    <3>3. QED
      BY <3>1, <3>2
  <2>2. QED
    BY <2>1 DEF OutboxAtomic
<1>8. UnlockJustified'
  <2>1. ASSUME NEW row \in outbox', row.event = UnlockEvent
        PROVE  Parents(row.subject) \subseteq everCompleted'
    <3>1. CASE row \in outbox
      BY <1>4, <2>1, <3>1 DEF IInv, UnlockJustified
    <3>2. CASE row \in Rows(r)
      <4>1. PICK e \in session[r].staged : row = [req |-> r, event |-> e.event, subject |-> e.subject]
        BY <3>2 DEF Rows
      <4>2. e.event = UnlockEvent /\ row.subject = e.subject
        BY <2>1, <4>1
      <4>3. QED
        BY <1>4, <4>2 DEF IInv, InFlight
    <3>3. QED
      BY <1>4, <3>1, <3>2
  <2>2. QED
    BY <2>1 DEF UnlockJustified, Parents
<1>9. InFlight'
  <2>1. ASSUME NEW q \in Req
        PROVE  /\ session'[q].phase # "done" =>
                     /\ session'[q].reply = "none"
                     /\ \A row \in outbox' : row.req # q
               /\ session'[q].phase \notin {"idle", "done"} => session'[q].staged # {}
               /\ \A e \in session'[q].staged :
                     e.event = UnlockEvent => Parents(e.subject) \subseteq everCompleted'
    <3>1. CASE q = r
      BY <1>3, <3>1
    <3>2. CASE q # r
      <4>1. session'[q] = session[q]
        BY <1>3, <3>2
      <4>2. session[q].phase # "done" => \A row \in outbox' : row.req # q
        BY <1>4, <1>6, <3>2 DEF IInv, InFlight
      <4>3. QED
        BY <1>4, <4>1, <4>2 DEF IInv, InFlight
    <3>3. QED
      BY <3>1, <3>2
  <2>2. QED
    BY <2>1 DEF InFlight, Parents
<1>10. CompletedRemembered'
  BY DEF Commit, IInv, CompletedRemembered
<1>11. QED
  BY <1>7, <1>8, <1>9, <1>10 DEF IInv

\* Nothing is in flight when the service starts.
LEMMA InitInductive == Init => IInv
BY DEF Init, IInv, OutboxAtomic, UnlockJustified, InFlight, CompletedRemembered, Fresh

\* No step of any request breaks the inductive invariant.
LEMMA NextInductive == TypeOK /\ IInv /\ [Next]_vars => IInv'
<1> SUFFICES ASSUME TypeOK, IInv, [Next]_vars PROVE IInv'
  OBVIOUS
<1>1. CASE UNCHANGED vars
  BY <1>1 DEF IInv, OutboxAtomic, UnlockJustified, InFlight, CompletedRemembered,
              Parents, vars, store
<1>2. ASSUME NEW r \in Req, Begin(r) PROVE IInv'
  <2>1. ASSUME NEW op \in TaskOp, NEW t \in Task, StageTask(r, op, t) PROVE IInv'
    BY <2>1, StageTaskStep
  <2>2. ASSUME NEW op \in TaskOp, NEW t \in Task, RejectTask(r, op, t) PROVE IInv'
    BY <2>2, AnsweredStep DEF RejectTask, MayBegin, Reply
  <2>3. ASSUME NEW op \in TaskOp, TaskMissing(r, op) PROVE IInv'
    <3>1. TaskMissingReply(op) \in Reply \ {"200"}
      BY DEF TaskMissingReply, Reply
    <3>2. QED
      BY <2>3, <3>1, AnsweredStep DEF TaskMissing, MayBegin
  <2>4. ASSUME NEW i \in Instance, CreateInstance(r, i) PROVE IInv'
    BY <2>4, CreateInstanceStep
  <2>5. ASSUME NEW op \in InstanceOp, NEW i \in Instance, StageInstance(r, op, i)
        PROVE IInv'
    BY <2>5, StageInstanceStep
  <2>6. ASSUME NEW op \in InstanceOp \cup {"create_instance"}, InstanceMissing(r, op) PROVE IInv'
    BY <2>6, AnsweredStep DEF InstanceMissing, MayBegin, Reply
  <2>7. ASSUME NEW op \in UnbuildableEvent, BuildError(r, op) PROVE IInv'
    BY <2>7, AnsweredStep DEF BuildError, MayBegin, Reply
  <2>8. QED
    BY <1>2, <2>1, <2>2, <2>3, <2>4, <2>5, <2>6, <2>7 DEF Begin
<1>3. ASSUME NEW r \in Req, Proceed(r) PROVE IInv'
  <2>1. ASSUME NEW c \in Task, ReadParents(r, c) PROVE IInv'
    BY <2>1, ReadParentsStep
  <2>2. CASE FlushError(r)
    BY <2>2, AnsweredStep DEF FlushError, Reply
  <2>3. QED
    BY <1>3, <2>1, <2>2, ReadChildrenStep, ReadRootsStep, CommitStep DEF Proceed
<1>4. ASSUME NEW r \in Req, Crash(r) PROVE IInv'
  BY <1>4, AnsweredStep DEF Crash, Open, Reply
<1>5. QED
  BY <1>1, <1>2, <1>3, <1>4 DEF Next

\* What the service stages and what it has stored always agree.
THEOREM Inductive == Spec => []IInv
<1>1. Init => TypeOK /\ IInv
  BY InitType, InitInductive
<1>2. TypeOK /\ IInv /\ [Next]_vars => TypeOK' /\ IInv'
  BY NextType, NextInductive
<1>3. QED
  BY <1>1, <1>2, PTL DEF Spec

\* Transactional outbox, for any number of overlapping requests and crashes.
THEOREM OutboxCorrect == Spec => []OutboxAtomic
<1>1. IInv => OutboxAtomic
  BY DEF IInv
<1>2. QED
  BY <1>1, Inductive, PTL

\* The engine never announces a child before its parents have completed, for
\* every dependency graph, cyclic ones included.
THEOREM UnlockCorrect == Spec => []UnlockJustified
<1>1. IInv => UnlockJustified
  BY DEF IInv
<1>2. QED
  BY <1>1, Inductive, PTL
=============================================================================
