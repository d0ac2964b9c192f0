----------------------- MODULE WorkflowChanges_proofs -----------------------
(***************************************************************************)
(* Proofs about what the commits of the workflow service change: that each *)
(* change is announced, however requests overlap; and, of requests that do *)
(* not overlap, that each commit is one change of AtomicWorkflow.          *)
(***************************************************************************)
EXTENDS WorkflowService_proofs

-----------------------------------------------------------------------------
(***************************************************************************)
(* ChangesAnnounced: whatever a session has changed, it has staged a row   *)
(* that says so.                                                           *)
(***************************************************************************)

\* Each operation announces the status it assigns, if the column can hold it.
LEMMA AssignedAnnounced ==
    ASSUME NEW op \in TaskOp, op \notin UnbuildableEvent, NEW status \in TaskAllowed[op],
           TaskAssigned(op, status) \in DbTaskStatus, TaskAssigned(op, status) # status
    PROVE  \E e \in TaskEvents[op] : e \in TaskAnnouncement[TaskAssigned(op, status)]
BY DEF TaskOp, TaskAllowed, UnbuildableEvent, TaskAssigned, TaskEvents, TaskAnnouncement,
       DbTaskStatus, TaskStatus

\* The same of the operations on instances,
LEMMA InstanceAssignedAnnounced ==
    ASSUME NEW op \in InstanceOp, op \notin UnbuildableEvent, NEW status,
           InstanceAssigned(op, status) # status
    PROVE  InstanceEvent[op] \in InstanceAnnouncement[InstanceAssigned(op, status)]
BY DEF InstanceOp, UnbuildableEvent, InstanceAssigned, InstanceEvent, InstanceAnnouncement

\* and of the tasks that the engine and start_instance make ready.
LEMMA EngineAnnounced ==
    UnlockEvent \in TaskAnnouncement["READY"] /\ "task.ready" \in TaskAnnouncement["READY"]
BY DEF UnlockEvent, TaskAnnouncement

\* One session announces what it has changed.
Names(s) ==
    /\ \A t \in Task : s.dirty[t] \in DbTaskStatus =>
          \E e \in s.staged : e.subject = t /\ e.event \in TaskAnnouncement[s.dirty[t]]
    /\ s.instance # Clean =>
          \E e \in s.staged : /\ e.subject = s.subject
                             /\ e.event \in InstanceAnnouncement[s.instance]

\* StagedAnnounces is about each session alone.
LEMMA NamesAll == StagedAnnounces <=> \A r \in Req : Names(session[r])
BY DEF StagedAnnounces, Names

\* So a step of one session has to be looked at in that session only.
LEMMA SessionNames ==
    ASSUME TypeOK, StagedAnnounces, NEW r \in Req, NEW s,
           session' = [session EXCEPT ![r] = s], Names(s)
    PROVE  StagedAnnounces'
<1>1. session'[r] = s /\ \A q \in Req \ {r} : session'[q] = session[q]
  BY DEF TypeOK
<1>2. \A q \in Req : Names(session[q])
  BY NamesAll
<1>3. \A q \in Req : Names(session'[q])
  BY <1>1, <1>2
<1>4. QED
  BY <1>3 DEF StagedAnnounces, Names

\* A session that is over has changed nothing.
LEMMA AnsweredNames ==
    ASSUME NEW code PROVE Names(Answered(code))
<1>1. Answered(code).instance = Clean /\ \A t \in Task : Answered(code).dirty[t] = Clean
  BY DEF Answered, Fresh
<1>2. Clean \notin DbTaskStatus
  BY ServiceAssumption DEF DbTaskStatus
<1>3. QED
  BY <1>1, <1>2 DEF Names

\* A handler stages the event of the status it assigns.
LEMMA StageTaskNames ==
    ASSUME TypeOK, NEW r \in Req, NEW op \in TaskOp, NEW t \in Task, StageTask(r, op, t)
    PROVE  Names(session'[r])
<1>1. /\ op \notin UnbuildableEvent /\ taskStatus[t] \in TaskAllowed[op]
      /\ session'[r].instance = Clean
      /\ session'[r].dirty =
           [Fresh.dirty EXCEPT ![t] = Changed(TaskAssigned(op, taskStatus[t]), taskStatus[t])]
      /\ session'[r].staged = {[event |-> e, subject |-> t] : e \in TaskEvents[op]}
  BY DEF StageTask, TypeOK, Fresh
<1>2. /\ session'[r].dirty[t] = Changed(TaskAssigned(op, taskStatus[t]), taskStatus[t])
      /\ \A u \in Task : u # t => session'[r].dirty[u] = Clean
  BY <1>1 DEF Fresh
<1>3. Clean \notin DbTaskStatus
  BY ServiceAssumption DEF DbTaskStatus
<1>4. ASSUME session'[r].dirty[t] \in DbTaskStatus
      PROVE  \E e \in session'[r].staged :
                e.subject = t /\ e.event \in TaskAnnouncement[session'[r].dirty[t]]
  <2>1. /\ session'[r].dirty[t] = TaskAssigned(op, taskStatus[t])
        /\ TaskAssigned(op, taskStatus[t]) # taskStatus[t]
    BY <1>2, <1>3, <1>4 DEF Changed
  <2>2. PICK e \in TaskEvents[op] : e \in TaskAnnouncement[TaskAssigned(op, taskStatus[t])]
    BY <1>1, <1>4, <2>1, AssignedAnnounced
  <2>3. [event |-> e, subject |-> t] \in session'[r].staged
    BY <1>1, <2>2
  <2>4. QED
    BY <2>1, <2>2, <2>3
<1>5. QED
  BY <1>1, <1>2, <1>3, <1>4 DEF Names

\* Looking for the children changes nothing that is to be written.
LEMMA ReadChildrenNames ==
    ASSUME TypeOK, StagedAnnounces, NEW r \in Req, ReadChildren(r)
    PROVE  Names(session'[r])
<1>1. /\ session'[r].dirty = session[r].dirty /\ session'[r].instance = session[r].instance
      /\ session'[r].staged = session[r].staged /\ session'[r].subject = session[r].subject
  BY DEF ReadChildren, TypeOK, Session
<1>2. QED
  BY <1>1, NamesAll DEF Names

\* The engine stages a row for each child it makes READY.
LEMMA ReadParentsNames ==
    ASSUME TypeOK, StagedAnnounces, NEW r \in Req, NEW c \in Task, ReadParents(r, c)
    PROVE  Names(session'[r])
<1> DEFINE s == session[r]
<1>1. /\ s.dirty \in [Task -> TaskStatus \cup {Clean}] /\ Names(s)
  BY NamesAll DEF TypeOK, Session
<1>2. /\ session'[r].instance = s.instance /\ session'[r].subject = s.subject
      /\ \/ session'[r].dirty = s.dirty /\ session'[r].staged = s.staged
         \/ /\ session'[r].dirty = [s.dirty EXCEPT ![c] = "READY"]
            /\ session'[r].staged = s.staged \cup {[event |-> UnlockEvent, subject |-> c]}
  BY DEF ReadParents, TypeOK, Session
<1>3. PICK z : z = session'[r]
  OBVIOUS
<1>4. PICK y : y = s
  OBVIOUS
<1> HIDE DEF s
<1>5. CASE z.dirty = y.dirty /\ z.staged = y.staged
  BY <1>1, <1>2, <1>3, <1>4, <1>5 DEF Names
<1>6. CASE /\ z.dirty = [y.dirty EXCEPT ![c] = "READY"]
           /\ z.staged = y.staged \cup {[event |-> UnlockEvent, subject |-> c]}
  <2>1. /\ z.dirty[c] = "READY" /\ \A t \in Task : t # c => z.dirty[t] = y.dirty[t]
        /\ [event |-> UnlockEvent, subject |-> c] \in z.staged
        /\ \A e \in y.staged : e \in z.staged
    BY <1>1, <1>4, <1>6
  <2>2. \E e \in z.staged : e.subject = c /\ e.event \in TaskAnnouncement[z.dirty[c]]
    BY <2>1, EngineAnnounced
  <2>3. QED
    BY <1>1, <1>2, <1>3, <1>4, <2>1, <2>2 DEF Names
<1>7. QED
  BY <1>2, <1>3, <1>4, <1>5, <1>6

\* start_instance stages a row for each task it makes READY.
LEMMA ReadRootsNames ==
    ASSUME TypeOK, StagedAnnounces, NEW r \in Req, ReadRoots(r)
    PROVE  Names(session'[r])
<1>1. PICK y : y = session[r] /\ Names(y)
  BY NamesAll
<1>2. PICK z : z = session'[r]
  OBVIOUS
<1>3. PICK roots \in SUBSET Task :
        /\ z.instance = y.instance /\ z.subject = y.subject
        /\ z.dirty = [t \in Task |-> IF t \in roots THEN "READY" ELSE y.dirty[t]]
        /\ z.staged = y.staged \cup {[event |-> "task.ready", subject |-> t] : t \in roots}
  <2>1. RootTasks(session[r].subject) \in SUBSET Task
    BY DEF RootTasks
  <2>2. QED
    BY <1>1, <1>2, <2>1 DEF ReadRoots, TypeOK, Session
<1>4. \A t \in roots : \E e \in z.staged : e.subject = t /\ e.event \in TaskAnnouncement["READY"]
  <2> TAKE t \in roots
  <2>1. [event |-> "task.ready", subject |-> t] \in z.staged
    BY <1>3
  <2>2. QED
    BY <2>1, EngineAnnounced
<1>5. \A t \in Task : z.dirty[t] = IF t \in roots THEN "READY" ELSE y.dirty[t]
  BY <1>3
<1>6. \A e \in y.staged : e \in z.staged
  BY <1>3
<1>7. Names(z)
  BY <1>1, <1>3, <1>4, <1>5, <1>6 DEF Names
<1>8. QED
  BY <1>2, <1>7

\* A new instance is announced as created.
LEMMA CreateInstanceNames ==
    ASSUME TypeOK, NEW r \in Req, NEW i \in Instance, CreateInstance(r, i)
    PROVE  Names(session'[r])
<1>1. /\ session'[r].instance = "PENDING" /\ session'[r].subject = i
      /\ session'[r].dirty = Fresh.dirty
      /\ session'[r].staged = {[event |-> InstanceEvent["create_instance"], subject |-> i]}
  BY DEF CreateInstance, TypeOK, Fresh
<1>2. \A t \in Task : session'[r].dirty[t] \notin DbTaskStatus
  BY <1>1, ServiceAssumption DEF Fresh, DbTaskStatus
<1>3. InstanceEvent["create_instance"] \in InstanceAnnouncement["PENDING"]
  BY DEF InstanceEvent, InstanceAnnouncement
<1>4. QED
  BY <1>1, <1>2, <1>3 DEF Names

\* An instance handler stages the event of the status it assigns.
LEMMA StageInstanceNames ==
    ASSUME TypeOK, NEW r \in Req, NEW op \in InstanceOp, NEW i \in Instance,
           StageInstance(r, op, i)
    PROVE  Names(session'[r])
<1>1. /\ op \notin UnbuildableEvent
      /\ session'[r].instance =
           Changed(InstanceAssigned(op, instanceStatus[i]), instanceStatus[i])
      /\ session'[r].subject = i /\ session'[r].dirty = Fresh.dirty
      /\ session'[r].staged = {[event |-> InstanceEvent[op], subject |-> i]}
  BY DEF StageInstance, TypeOK, Fresh
<1>2. \A t \in Task : session'[r].dirty[t] \notin DbTaskStatus
  BY <1>1, ServiceAssumption DEF Fresh, DbTaskStatus
<1>3. session'[r].instance # Clean =>
         InstanceEvent[op] \in InstanceAnnouncement[session'[r].instance]
  BY <1>1, InstanceAssignedAnnounced DEF Changed
<1>4. QED
  BY <1>1, <1>2, <1>3 DEF Names

\* Every step of a request is a step of its session alone.
LEMMA OneSession ==
    ASSUME TypeOK, NEW r \in Req, Begin(r) \/ Proceed(r) \/ Crash(r)
    PROVE  session' = [session EXCEPT ![r] = session'[r]]
<1>1. \E s : session' = [session EXCEPT ![r] = s]
  BY DEF Begin, Proceed, Crash, StageTask, RejectTask, TaskMissing, CreateInstance,
         StageInstance, InstanceMissing, BuildError, ReadChildren, ReadParents, ReadRoots,
         Commit, FlushError
<1>2. QED
  BY <1>1 DEF TypeOK

\* A request that is over, however it ended, has a session with nothing in it.
Over(r) == \E code : session' = [session EXCEPT ![r] = Answered(code)]

\* Every step of a request preserves StagedAnnounces.
LEMMA StepNames ==
    ASSUME TypeOK, StagedAnnounces, NEW r \in Req, Begin(r) \/ Proceed(r) \/ Crash(r)
    PROVE  StagedAnnounces'
<1>1. CASE Over(r)
  <2>1. PICK code : session' = [session EXCEPT ![r] = Answered(code)]
    BY <1>1 DEF Over
  <2>2. QED
    BY <2>1, AnsweredNames, SessionNames
<1>2. CASE Begin(r)
  <2>1. ASSUME NEW op \in TaskOp, NEW t \in Task, StageTask(r, op, t)
        PROVE  Names(session'[r])
    BY <2>1, StageTaskNames
  <2>2. ASSUME NEW i \in Instance, CreateInstance(r, i)
        PROVE  Names(session'[r])
    BY <2>2, CreateInstanceNames
  <2>3. ASSUME NEW op \in InstanceOp, NEW i \in Instance, StageInstance(r, op, i)
        PROVE  Names(session'[r])
    BY <2>3, StageInstanceNames
  <2>4. Over(r) \/ Names(session'[r])
    BY <1>2, <2>1, <2>2, <2>3
       DEF Begin, RejectTask, TaskMissing, InstanceMissing, BuildError, Over
  <2>5. QED
    BY <1>1, <2>4, OneSession, SessionNames
<1>3. CASE Proceed(r)
  <2>1. Over(r) \/ Names(session'[r])
    BY <1>3, ReadChildrenNames, ReadParentsNames, ReadRootsNames
       DEF Proceed, Commit, FlushError, Over
  <2>2. QED
    BY <1>1, <2>1, OneSession, SessionNames
<1>4. CASE Crash(r)
  BY <1>1, <1>4 DEF Crash, Over
<1>5. QED
  BY <1>2, <1>3, <1>4

\* Every change that a session has made and not yet committed is named by a row that
\* it has staged, whatever other requests do meanwhile.
LEMMA StagedCorrect == Spec => []StagedAnnounces
<1>1. Init => TypeOK /\ StagedAnnounces
  <2>1. ASSUME Init PROVE StagedAnnounces
    <3>1. Clean \notin DbTaskStatus
      BY ServiceAssumption DEF DbTaskStatus
    <3>2. QED
      BY <2>1, <3>1 DEF Init, StagedAnnounces, Fresh
  <2>2. QED
    BY <2>1, InitType
<1>2. TypeOK /\ StagedAnnounces /\ [Next]_vars => TypeOK' /\ StagedAnnounces'
  <2>1. ASSUME TypeOK, StagedAnnounces, Next PROVE StagedAnnounces'
    BY <2>1, StepNames DEF Next
  <2>2. ASSUME StagedAnnounces, UNCHANGED vars PROVE StagedAnnounces'
    BY <2>2 DEF StagedAnnounces, vars
  <2>3. QED
    BY <2>1, <2>2, NextType
<1>3. QED
  BY <1>1, <1>2, PTL DEF Spec

\* Whatever requests overlap, what a session is about to commit is not in the outbox
\* yet, justifies its unlocks and names all its changes.
THEOREM SessionsCorrect == Spec => []SessionInv
<1>1. IInv /\ StagedAnnounces => SessionInv
  BY DEF SessionInv
<1>2. QED
  BY <1>1, Inductive, StagedCorrect, PTL

\* Only a commit changes a stored row.
LEMMA OnlyCommits ==
    ASSUME NEW r \in Req, Begin(r) \/ Proceed(r) \/ Crash(r)
    PROVE  Commit(r) \/ UNCHANGED store
BY DEF Begin, Proceed, Crash, StageTask, RejectTask, TaskMissing, CreateInstance,
       StageInstance, InstanceMissing, BuildError, ReadChildren, ReadParents, ReadRoots,
       FlushError

\* A status never changes silently: the commit that changes it also adds an outbox
\* row, one that was not there before, with an event for the new status.
THEOREM ChangesCorrect == Spec => ChangesAnnounced
<1> DEFINE added == outbox' \ outbox
           TasksTold == \A t \in Task : taskStatus'[t] # taskStatus[t] =>
                          \E row \in added : /\ row.subject = t
                                             /\ row.event \in TaskAnnouncement[taskStatus'[t]]
           InstancesTold == \A i \in Instance : instanceStatus'[i] # instanceStatus[i] =>
                          \E row \in added :
                            /\ row.subject = i
                            /\ row.event \in InstanceAnnouncement[instanceStatus'[i]]
<1>1. ASSUME TypeOK, IInv, StagedAnnounces, NEW r \in Req, Commit(r)
      PROVE  TasksTold /\ InstancesTold
  <2>1. PICK s : s = session[r] /\ Names(s)
    BY <1>1, NamesAll
  <2>2. /\ s.phase = "staged"
        /\ \A t \in Task : s.dirty[t] \in DbTaskStatus \cup {Clean}
        /\ taskStatus' = [t \in Task |-> IF s.dirty[t] = Clean THEN taskStatus[t] ELSE s.dirty[t]]
        /\ instanceStatus' = [i \in Instance |->
              IF i = s.subject /\ s.instance # Clean THEN s.instance ELSE instanceStatus[i]]
        /\ outbox' = outbox \cup Rows(r)
    BY <1>1, <2>1 DEF Commit, Flushable
  <2>3. \A row \in outbox : row.req # r
    BY <1>1, <2>1, <2>2 DEF IInv, InFlight
  <2>4. ASSUME NEW e \in s.staged
        PROVE  \E row \in added : row.subject = e.subject /\ row.event = e.event
    <3>1. [req |-> r, event |-> e.event, subject |-> e.subject] \in Rows(r)
      BY <2>1 DEF Rows
    <3>2. QED
      BY <2>2, <2>3, <3>1
  <2>5. TasksTold
    <3>1. ASSUME NEW t \in Task, taskStatus'[t] # taskStatus[t]
          PROVE  \E row \in added : /\ row.subject = t
                                    /\ row.event \in TaskAnnouncement[taskStatus'[t]]
      <4>1. s.dirty[t] \in DbTaskStatus /\ taskStatus'[t] = s.dirty[t]
        BY <2>2, <3>1
      <4>2. PICK e \in s.staged : e.subject = t /\ e.event \in TaskAnnouncement[s.dirty[t]]
        BY <2>1, <4>1 DEF Names
      <4>3. QED
        BY <2>4, <4>1, <4>2
    <3>2. QED
      BY <3>1
  <2>6. InstancesTold
    <3>1. ASSUME NEW i \in Instance, instanceStatus'[i] # instanceStatus[i]
          PROVE  \E row \in added : /\ row.subject = i
                                    /\ row.event \in InstanceAnnouncement[instanceStatus'[i]]
      <4>1. i = s.subject /\ s.instance # Clean /\ instanceStatus'[i] = s.instance
        BY <2>2, <3>1
      <4>2. PICK e \in s.staged : e.subject = i /\ e.event \in InstanceAnnouncement[s.instance]
        BY <2>1, <4>1 DEF Names
      <4>3. QED
        BY <2>4, <4>1, <4>2
    <3>2. QED
      BY <3>1
  <2>7. QED
    BY <2>5, <2>6
<1>2. ASSUME UNCHANGED store PROVE TasksTold /\ InstancesTold
  BY <1>2 DEF store
<1>3. TypeOK /\ IInv /\ StagedAnnounces /\ [Next]_vars =>
        [TasksTold /\ InstancesTold]_vars
  <2>1. ASSUME TypeOK, IInv, StagedAnnounces, Next PROVE TasksTold /\ InstancesTold
    BY <1>1, <1>2, <2>1, OnlyCommits DEF Next
  <2>2. QED
    BY <2>1
<1>4. QED
  BY <1>3, TypeCorrect, Inductive, StagedCorrect, PTL DEF Spec, ChangesAnnounced

-----------------------------------------------------------------------------
(***************************************************************************)
(* Requests that do not overlap: each is about to make one change.         *)
(***************************************************************************)

\* Which children are found ready depends on committed rows only.
LEMMA FoundReadyKept ==
    ASSUME NEW q \in Req, NEW s, s = session'[q], NEW t \in Task, UNCHANGED store
    PROVE  FoundReady(session[q], t)' = FoundReady(s, t)
<1>1. taskStatus' = taskStatus
  BY DEF store
<1>2. PendingChildren(t)' = PendingChildren(t) /\ PendingChildren(t) \subseteq Task
  BY <1>1 DEF PendingChildren, Children
<1>3. \A c \in Task : AllDependenciesCompleted(c)' = AllDependenciesCompleted(c)
  BY <1>1 DEF AllDependenciesCompleted, Parents
<1>4. QED
  BY <1>2, <1>3 DEF FoundReady

\* What one request is about to do does not change while the store does not.
LEMMA OneChangeKept ==
    ASSUME NEW q \in Req, NEW s, s = session'[q], UNCHANGED store, OneChange(s)
    PROVE  OneChange(session[q])'
<1>1. taskStatus' = taskStatus /\ instanceStatus' = instanceStatus
  BY DEF store
<1>2. ASSUME NEW op \in TaskOp, NEW t \in Task, Changes(s, op, t)
      PROVE  Changes(session[q], op, t)'
  BY <1>1, <1>2 DEF Changes
<1>3. ASSUME NEW t \in Task, Completes(s, t)
      PROVE  Completes(session[q], t)'
  <2>1. FoundReady(session[q], t)' = FoundReady(s, t)
    BY FoundReadyKept
  <2>2. PendingChildren(t)' = PendingChildren(t)
    BY <1>1 DEF PendingChildren, Children
  <2>3. QED
    BY <1>1, <1>3, <2>1, <2>2 DEF Completes
<1>4. ASSUME NEW i \in Instance PROVE RootTasks(i)' = RootTasks(i)
  BY <1>1 DEF RootTasks, Parents
<1>5. ASSUME NEW op \in InstanceOp, NEW i \in Instance, ChangesInstance(s, op, i)
      PROVE  ChangesInstance(session[q], op, i)'
  BY <1>1, <1>4, <1>5 DEF ChangesInstance
<1>6. ASSUME NEW i \in Instance, Creates(s, i) PROVE Creates(session[q], i)'
  BY <1>1, <1>6 DEF Creates
<1>7. QED
  BY <1>2, <1>3, <1>5, <1>6 DEF OneChange

\* A step of the one open request, short of its commit.
LEMMA SerialSession ==
    ASSUME TypeOK, SerialInv, NEW r \in Req, NEW s,
           session' = [session EXCEPT ![r] = s], UNCHANGED store,
           \A q \in Req : Open(q) => q = r,
           s.phase \notin {"idle", "done"} => OneChange(s)
    PROVE  SerialInv'
<1>1. session'[r] = s /\ \A q \in Req \ {r} : session'[q] = session[q]
  BY DEF TypeOK
<1>2. \A q \in Req : Open(q)' => q = r /\ s.phase \notin {"idle", "done"}
  BY <1>1 DEF Open
<1>3. \A q, p \in Req : Open(q)' /\ Open(p)' => q = p
  BY <1>2
<1>4. \A q \in Req : Open(q)' => OneChange(session[q])'
  <2>1. ASSUME NEW q \in Req, Open(q)' PROVE OneChange(session[q])'
    <3>1. q = r /\ OneChange(s)
      BY <1>2, <2>1
    <3>2. QED
      BY <1>1, <3>1, OneChangeKept
  <2>2. QED
    BY <2>1
<1>5. outbox' = outbox /\ taskStatus' = taskStatus
  BY DEF store
<1>6. QED
  BY <1>3, <1>4, <1>5 DEF SerialInv, UnlockedOnce

\* A task handler is about to make the change of its operation.
LEMMA SerialStageTask ==
    ASSUME TypeOK, NEW r \in Req, NEW op \in TaskOp, NEW t \in Task, StageTask(r, op, t)
    PROVE  OneChange(session'[r])
<1>1. PICK s : s = session'[r]
  OBVIOUS
<1>2. /\ op \notin UnbuildableEvent /\ taskStatus[t] \in TaskAllowed[op]
      /\ s.phase = IF op = "complete_task" THEN "children" ELSE "staged"
      /\ s.subject = t /\ s.instance = Clean
      /\ s.dirty = [Fresh.dirty EXCEPT ![t] = Changed(TaskAssigned(op, taskStatus[t]), taskStatus[t])]
      /\ s.staged = {[event |-> e, subject |-> t] : e \in TaskEvents[op]}
  BY <1>1 DEF StageTask, TypeOK, Fresh
<1>3. CASE op # "complete_task"
  <2>1. op \in TaskOp \ {"complete_task", "fail_task"}
    BY <1>2, <1>3 DEF UnbuildableEvent
  <2>2. Changes(s, op, t)
    BY <1>2, <1>3 DEF Changes
  <2>3. QED
    BY <1>1, <2>1, <2>2 DEF OneChange
<1>4. CASE op = "complete_task"
  <2>1. TaskAssigned(op, taskStatus[t]) = "COMPLETED" /\ TaskEvents[op] = {"task.completed"}
    BY <1>4 DEF TaskAssigned, TaskEvents
  <2>2. s.dirty = [u \in Task |-> IF u = t THEN Changed("COMPLETED", taskStatus[t]) ELSE Clean]
    BY <1>2, <2>1 DEF Fresh
  <2>3. s.staged = {[event |-> "task.completed", subject |-> t]}
    BY <1>2, <2>1
  <2>4. FoundReady(s, t) = {}
    BY <1>2, <1>4 DEF FoundReady
  <2>5. s.phase = "children"
    BY <1>2, <1>4
  <2>6. Completes(s, t)
    BY <1>2, <2>2, <2>3, <2>4, <2>5 DEF Completes
  <2>7. QED
    BY <1>1, <2>6 DEF OneChange
<1>5. QED
  BY <1>3, <1>4

\* The two handlers that create and change an instance are, too.
LEMMA SerialCreateInstance ==
    ASSUME TypeOK, NEW r \in Req, NEW i \in Instance, CreateInstance(r, i)
    PROVE  OneChange(session'[r])
<1>1. Creates(session'[r], i)
  BY DEF CreateInstance, Creates, TypeOK, Fresh
<1>2. QED
  BY <1>1 DEF OneChange

LEMMA SerialStageInstance ==
    ASSUME TypeOK, NEW r \in Req, NEW op \in InstanceOp, NEW i \in Instance,
           StageInstance(r, op, i)
    PROVE  OneChange(session'[r])
<1>1. PICK s : s = session'[r]
  OBVIOUS
<1>2. /\ op \notin UnbuildableEvent /\ instanceStatus[i] # Absent
      /\ s.phase = IF op = "start_instance" THEN "roots" ELSE "staged"
      /\ s.subject = i /\ s.dirty = Fresh.dirty
      /\ s.instance = Changed(InstanceAssigned(op, instanceStatus[i]), instanceStatus[i])
      /\ s.staged = {[event |-> InstanceEvent[op], subject |-> i]}
  BY <1>1 DEF StageInstance, TypeOK, Fresh
<1>3. op \in InstanceOp \ {"fail_instance"}
  BY <1>2 DEF UnbuildableEvent
<1>4. ChangesInstance(s, op, i)
  BY <1>2 DEF ChangesInstance, Fresh
<1>5. QED
  BY <1>1, <1>3, <1>4 DEF OneChange

\* Of the sessions that make one change only one that completes a task looks at
\* children, and only one that starts an instance looks for tasks.
LEMMA WhoReads ==
    ASSUME NEW s, OneChange(s)
    PROVE  /\ s.phase \in {"children", "parents"} => \E t \in Task : s.subject = t /\ Completes(s, t)
           /\ s.phase = "roots" =>
                \E i \in Instance : s.subject = i /\ ChangesInstance(s, "start_instance", i)
BY DEF OneChange, Changes, Completes, ChangesInstance, Creates

\* When the children have been selected none has been found ready yet.
LEMMA SerialReadChildren ==
    ASSUME TypeOK, NEW r \in Req, OneChange(session[r]), ReadChildren(r)
    PROVE  OneChange(session'[r])
<1>1. PICK y : y = session[r]
  OBVIOUS
<1>2. PICK z : z = session'[r]
  OBVIOUS
<1>3. PICK t \in Task : y.subject = t /\ Completes(y, t) /\ y.phase = "children"
  BY <1>1, WhoReads DEF ReadChildren
<1>4. /\ z.phase = IF PendingChildren(t) = {} THEN "staged" ELSE "parents"
      /\ z.unread = PendingChildren(t)
      /\ z.subject = y.subject /\ z.instance = y.instance
      /\ z.dirty = y.dirty /\ z.staged = y.staged
  BY <1>1, <1>2, <1>3 DEF ReadChildren, TypeOK, Session
<1>5. FoundReady(y, t) = {} /\ FoundReady(z, t) = {}
  BY <1>3, <1>4 DEF FoundReady
<1>6. z.phase \in {"parents", "staged"} /\ (z.phase = "staged" => z.unread = {})
  BY <1>4
<1>7. Completes(z, t)
  BY <1>3, <1>4, <1>5, <1>6 DEF Completes
<1>8. QED
  BY <1>2, <1>7 DEF OneChange

\* A child whose parents are COMPLETED is found ready, one more than before.
LEMMA SerialReadParents ==
    ASSUME TypeOK, NEW r \in Req, OneChange(session[r]), NEW c \in Task, ReadParents(r, c)
    PROVE  OneChange(session'[r])
<1>1. PICK y : y = session[r]
  OBVIOUS
<1>2. PICK z : z = session'[r]
  OBVIOUS
<1>3. PICK t \in Task : y.subject = t /\ Completes(y, t) /\ y.phase = "parents" /\ c \in y.unread
  BY <1>1, WhoReads DEF ReadParents
<1> DEFINE unlocked == AllDependenciesCompleted(c)
           left == y.unread \ {c}
<1>4. /\ z.phase = IF left = {} THEN "staged" ELSE "parents"
      /\ z.unread = left
      /\ z.subject = t /\ z.instance = Clean
      /\ z.dirty = IF unlocked THEN [y.dirty EXCEPT ![c] = "READY"] ELSE y.dirty
      /\ z.staged = IF unlocked THEN y.staged \cup {[event |-> UnlockEvent, subject |-> c]}
                                ELSE y.staged
  BY <1>1, <1>2, <1>3 DEF ReadParents, TypeOK, Session, Completes
<1> DEFINE ready(s) == FoundReady(s, t)
<1>5. /\ y.dirty = [u \in Task |-> IF u \in ready(y) THEN "READY"
                                ELSE IF u = t THEN Changed("COMPLETED", taskStatus[t]) ELSE Clean]
      /\ y.staged = {[event |-> "task.completed", subject |-> t]}
                      \cup {[event |-> UnlockEvent, subject |-> d] : d \in ready(y)}
      /\ c \in PendingChildren(t)
  BY <1>3 DEF Completes
<1>6. PendingChildren(t) \subseteq Task
  BY DEF PendingChildren, Children
<1>7. ready(z) = IF unlocked THEN ready(y) \cup {c} ELSE ready(y)
  <2>1. PendingChildren(t) \ z.unread = (PendingChildren(t) \ y.unread) \cup {c}
    BY <1>4, <1>5
  <2>2. QED
    BY <1>3, <1>4, <2>1 DEF FoundReady
<1>8. ready(y) \subseteq Task
  BY <1>6 DEF FoundReady
<1>9. c \in Task /\ y.dirty \in [Task -> TaskStatus \cup {Clean}]
  BY <1>1 DEF TypeOK, Session
<1> HIDE DEF ready, unlocked
<1>10. z.dirty = [u \in Task |-> IF u \in ready(z) THEN "READY"
                             ELSE IF u = t THEN Changed("COMPLETED", taskStatus[t]) ELSE Clean]
  BY <1>4, <1>5, <1>7, <1>9
<1>11. z.staged = {[event |-> "task.completed", subject |-> t]}
                     \cup {[event |-> UnlockEvent, subject |-> d] : d \in ready(z)}
  BY <1>4, <1>5, <1>7
<1>12. z.phase = "parents" => z.unread \subseteq PendingChildren(t)
  BY <1>3, <1>4 DEF Completes
<1>13. Completes(z, t)
  BY <1>4, <1>10, <1>11, <1>12 DEF Completes, ready
<1>14. QED
  BY <1>2, <1>13 DEF OneChange

\* The tasks that an instance starts are those selected now.
LEMMA SerialReadRoots ==
    ASSUME TypeOK, NEW r \in Req, OneChange(session[r]), ReadRoots(r)
    PROVE  OneChange(session'[r])
<1>1. PICK y : y = session[r]
  OBVIOUS
<1>2. PICK z : z = session'[r]
  OBVIOUS
<1>3. PICK i \in Instance : y.subject = i /\ ChangesInstance(y, "start_instance", i) /\ y.phase = "roots"
  BY <1>1, WhoReads DEF ReadRoots
<1>4. /\ z.phase = "staged" /\ z.subject = i /\ z.instance = y.instance
      /\ z.dirty = [t \in Task |-> IF t \in RootTasks(i) THEN "READY" ELSE y.dirty[t]]
      /\ z.staged = y.staged \cup {[event |-> "task.ready", subject |-> t] : t \in RootTasks(i)}
  BY <1>1, <1>2, <1>3 DEF ReadRoots, TypeOK, Session
<1>5. /\ \A t \in Task : y.dirty[t] = Clean
      /\ y.staged = {[event |-> InstanceEvent["start_instance"], subject |-> i]}
      /\ instanceStatus[i] # Absent
      /\ y.instance = Changed(InstanceAssigned("start_instance", instanceStatus[i]), instanceStatus[i])
  BY <1>3 DEF ChangesInstance
<1>6. ChangesInstance(z, "start_instance", i)
  BY <1>4, <1>5 DEF ChangesInstance
<1>7. "start_instance" \in InstanceOp \ {"fail_instance"}
  BY DEF InstanceOp
<1>8. QED
  BY <1>2, <1>6, <1>7 DEF OneChange

-----------------------------------------------------------------------------
(***************************************************************************)
(* The commit of the one open request.                                     *)
(***************************************************************************)

\* What a session writes, to the rows and to the outbox.
Writes(s) ==
    /\ taskStatus' = [t \in Task |-> IF s.dirty[t] = Clean THEN taskStatus[t] ELSE s.dirty[t]]
    /\ instanceStatus' = [i \in Instance |->
          IF i = s.subject /\ s.instance # Clean THEN s.instance ELSE instanceStatus[i]]

\* What a commit does, in the terms of the session that commits.
LEMMA CommitWrites ==
    ASSUME NEW r \in Req, Commit(r), NEW s, s = session[r]
    PROVE  /\ Writes(s) /\ s.phase = "staged"
           /\ \A t \in Task : s.dirty[t] \in DbTaskStatus \cup {Clean}
           /\ outbox' = outbox \cup Rows(r)
           /\ \A row \in Rows(r) : row.req = r /\ \E e \in s.staged :
                 row.event = e.event /\ row.subject = e.subject
           /\ \E code \in Outcome : session' = [session EXCEPT ![r] = Answered(code)]
<1>1. \A row \in Rows(r) : row.req = r /\ \E e \in s.staged :
         row.event = e.event /\ row.subject = e.subject
  BY DEF Rows
<1>2. Writes(s) /\ s.phase = "staged"
  BY DEF Commit, Writes
<1>3. \A t \in Task : s.dirty[t] \in DbTaskStatus \cup {Clean}
  BY DEF Commit, Flushable
<1>4. outbox' = outbox \cup Rows(r)
      /\ \E code \in Outcome : session' = [session EXCEPT ![r] = Answered(code)]
  BY DEF Commit
<1>5. QED
  BY <1>1, <1>2, <1>3, <1>4

\* The rows that a step leaves, told apart by what the step was asked to do.
TaskWritten(op, t) ==
    /\ taskStatus[t] \in TaskAllowed[op]
    /\ TaskAssigned(op, taskStatus[t]) \in DbTaskStatus
    /\ taskStatus' = [taskStatus EXCEPT ![t] = TaskAssigned(op, taskStatus[t])]
    /\ instanceStatus' = instanceStatus

\* A session that changes one task writes the status its operation assigns.
LEMMA ChangeWritten ==
    ASSUME TypeOK, NEW s, Writes(s), NEW op \in TaskOp, NEW t \in Task, Changes(s, op, t),
           s.dirty[t] \in DbTaskStatus \cup {Clean}
    PROVE  TaskWritten(op, t)
<1>1. /\ taskStatus \in [Task -> DbTaskStatus]
      /\ instanceStatus \in [Instance -> WorkflowStatus \cup {Absent}]
      /\ Clean \notin DbTaskStatus
  BY ServiceAssumption DEF TypeOK, DbTaskStatus
<1> DEFINE new == TaskAssigned(op, taskStatus[t])
<1>2. /\ taskStatus[t] \in TaskAllowed[op] /\ s.instance = Clean
      /\ s.dirty = [Fresh.dirty EXCEPT ![t] = Changed(new, taskStatus[t])]
  BY DEF Changes
<1> HIDE DEF new
<1>3. /\ s.dirty[t] = IF new = taskStatus[t] THEN Clean ELSE new
      /\ \A u \in Task : u # t => s.dirty[u] = Clean
  BY <1>2 DEF Fresh, Changed
<1>4. new \in DbTaskStatus
  <2>1. CASE new = taskStatus[t]
    BY <1>1, <2>1
  <2>2. CASE new # taskStatus[t]
    <3>1. new \in TaskStatus
      <4>1. taskStatus[t] \in TaskStatus
        BY <1>1 DEF DbTaskStatus
      <4>2. QED
        BY <4>1, TaskAssignedType DEF new
    <3>2. new # Clean
      BY <3>1, ServiceAssumption
    <3>3. QED
      BY <1>3, <2>2, <3>2
  <2>3. QED
    BY <2>1, <2>2
<1>5. new # Clean
  BY <1>1, <1>4
<1>6. taskStatus' = [taskStatus EXCEPT ![t] = new]
  <2>1. taskStatus' = [u \in Task |-> IF s.dirty[u] = Clean THEN taskStatus[u] ELSE s.dirty[u]]
    BY DEF Writes
  <2>2. \A u \in Task : taskStatus'[u] = IF u = t THEN new ELSE taskStatus[u]
    BY <1>3, <1>5, <2>1
  <2>3. QED
    BY <1>1, <2>1, <2>2
<1>7. instanceStatus' = instanceStatus
  BY <1>1, <1>2 DEF Writes
<1>8. QED
  BY <1>2, <1>4, <1>6, <1>7 DEF TaskWritten, new
\* AtomicWorkflow's own copy of the vocabulary is the vocabulary.
LEMMA SameDomain ==
    /\ Atomic!TaskOp = TaskOp /\ Atomic!TaskAllowed = TaskAllowed
    /\ Atomic!InstanceOp = InstanceOp /\ Atomic!DbTaskStatus = DbTaskStatus
    /\ \A op, status : /\ Atomic!TaskAssigned(op, status) = TaskAssigned(op, status)
                       /\ Atomic!InstanceAssigned(op, status) = InstanceAssigned(op, status)
    /\ \A t : Atomic!ParentsOf(t) = Parents(t)
<1>1. Atomic!TaskAllowed = TaskAllowed
  BY DEF Atomic!TaskAllowed, TaskAllowed, Atomic!TaskStatus, TaskStatus
<1>2. Atomic!TaskOp = TaskOp
  BY <1>1 DEF Atomic!TaskOp, TaskOp
<1>3. Atomic!InstanceOp = InstanceOp /\ Atomic!DbTaskStatus = DbTaskStatus
  BY DEF Atomic!InstanceOp, InstanceOp, Atomic!DbTaskStatus, DbTaskStatus,
         Atomic!TaskStatus, TaskStatus
<1>4. \A op, status : Atomic!TaskAssigned(op, status) = TaskAssigned(op, status)
  BY DEF Atomic!TaskAssigned, TaskAssigned
<1>5. \A op, status : Atomic!InstanceAssigned(op, status) = InstanceAssigned(op, status)
  BY DEF Atomic!InstanceAssigned, InstanceAssigned
<1>6. \A t : Atomic!ParentsOf(t) = Parents(t)
  BY DEF Atomic!ParentsOf, Parents
<1>7. QED
  BY <1>1, <1>2, <1>3, <1>4, <1>5, <1>6

\* When every child has been looked at, those found ready are the ones that the
\* completion of the task is to unlock.
LEMMA FoundAll ==
    ASSUME NEW t \in Task, NEW s, s.phase = "staged", s.unread = {}
    PROVE  /\ FoundReady(s, t) = Atomic!Unlockable(t) /\ t \notin Atomic!Unlockable(t)
           /\ FoundReady(s, t) \subseteq {c \in Task : taskStatus[c] = "PENDING"}
<1>1. FoundReady(s, t) = {c \in PendingChildren(t) : AllDependenciesCompleted(c)}
  BY DEF FoundReady
<1>2. \A c \in Task : c \in Children(t) <=> t \in Parents(c)
  BY DEF Children, Parents
<1>3. t \notin Parents(t)
  BY ServiceAssumption DEF Parents
<1>4. FoundReady(s, t) = Atomic!Unlockable(t)
  BY <1>1, <1>2, SameDomain
     DEF PendingChildren, Children, AllDependenciesCompleted, Atomic!Unlockable
<1>5. QED
  BY <1>1, <1>3, <1>4, SameDomain DEF PendingChildren, Children, Atomic!Unlockable

\* A session that completes a task writes the completion of AtomicWorkflow.
LEMMA CompletionWritten ==
    ASSUME TypeOK, NEW s, Writes(s), s.phase = "staged", NEW t \in Task, Completes(s, t)
    PROVE  Atomic!CompleteTask(t)
<1>1. /\ taskStatus \in [Task -> DbTaskStatus]
      /\ instanceStatus \in [Instance -> WorkflowStatus \cup {Absent}]
      /\ Clean # "READY" /\ Clean # "COMPLETED"
  BY ServiceAssumption DEF TypeOK, TaskStatus
<1>2. FoundReady(s, t) = Atomic!Unlockable(t) /\ t \notin Atomic!Unlockable(t)
  BY FoundAll DEF Completes
<1>3. /\ s.instance = Clean
      /\ s.dirty = [u \in Task |-> IF u \in Atomic!Unlockable(t) THEN "READY"
                                   ELSE IF u = t THEN Changed("COMPLETED", taskStatus[t])
                                   ELSE Clean]
  BY <1>2 DEF Completes
<1>4. taskStatus' = [u \in Task |-> IF u \in Atomic!Unlockable(t) THEN "READY"
                                    ELSE IF u = t THEN "COMPLETED" ELSE taskStatus[u]]
  <2>1. taskStatus' = [u \in Task |-> IF s.dirty[u] = Clean THEN taskStatus[u] ELSE s.dirty[u]]
    BY DEF Writes
  <2>2. ASSUME NEW u \in Task
        PROVE  taskStatus'[u] = IF u \in Atomic!Unlockable(t) THEN "READY"
                                ELSE IF u = t THEN "COMPLETED" ELSE taskStatus[u]
    BY <1>1, <1>3, <2>1 DEF Changed
  <2>3. QED
    BY <2>1, <2>2
<1>5. instanceStatus' = instanceStatus
  BY <1>1, <1>3 DEF Writes
<1>6. QED
  BY <1>4, <1>5 DEF Atomic!CompleteTask

\* A session that changes an instance writes that change, or the start.
LEMMA InstanceWritten ==
    ASSUME TypeOK, NEW s, Writes(s), s.phase = "staged", NEW op \in InstanceOp,
           NEW i \in Instance, ChangesInstance(s, op, i)
    PROVE  IF op = "start_instance" THEN Atomic!StartInstance(i) ELSE Atomic!ChangeInstance(op, i)
<1> DEFINE new == InstanceAssigned(op, instanceStatus[i])
           roots == IF op = "start_instance" THEN RootTasks(i) ELSE {}
<1>1. /\ taskStatus \in [Task -> DbTaskStatus]
      /\ instanceStatus \in [Instance -> WorkflowStatus \cup {Absent}]
      /\ Clean # "READY"
  BY ServiceAssumption DEF TypeOK, TaskStatus
<1>2. /\ instanceStatus[i] # Absent /\ s.subject = i
      /\ s.instance = Changed(new, instanceStatus[i])
      /\ s.dirty = [t \in Task |-> IF t \in roots THEN "READY" ELSE Clean]
  BY DEF ChangesInstance
<1>3. new # Clean
  BY <1>1, <1>2, InstanceAssignedType, ServiceAssumption
<1> HIDE DEF new, roots
<1>4. instanceStatus' = [instanceStatus EXCEPT ![i] = new]
  <2>1. instanceStatus' = [j \in Instance |->
          IF j = s.subject /\ s.instance # Clean THEN s.instance ELSE instanceStatus[j]]
    BY DEF Writes
  <2>2. \A j \in Instance : instanceStatus'[j] = IF j = i THEN new ELSE instanceStatus[j]
    BY <1>2, <1>3, <2>1 DEF Changed
  <2>3. QED
    BY <1>1, <2>1, <2>2
<1>5. taskStatus' = [t \in Task |-> IF t \in roots THEN "READY" ELSE taskStatus[t]]
  <2>1. taskStatus' = [t \in Task |-> IF s.dirty[t] = Clean THEN taskStatus[t] ELSE s.dirty[t]]
    BY DEF Writes
  <2>2. \A t \in Task : taskStatus'[t] = IF t \in roots THEN "READY" ELSE taskStatus[t]
    BY <1>1, <1>2, <2>1
  <2>3. QED
    BY <2>1, <2>2
<1>6. CASE op = "start_instance"
  <2>1. new = "RUNNING" /\ roots = RootTasks(i)
    BY <1>6 DEF new, roots, InstanceAssigned
  <2>2. \A t \in Task : t \in roots <=>
           InstanceOf[t] = i /\ taskStatus[t] = "PENDING" /\ Atomic!ParentsOf(t) # {}
    BY <2>1, SameDomain DEF RootTasks
  <2>3. taskStatus' = [t \in Task |->
           IF InstanceOf[t] = i /\ taskStatus[t] = "PENDING" /\ Atomic!ParentsOf(t) # {}
           THEN "READY" ELSE taskStatus[t]]
    BY <1>5, <2>2
  <2>4. QED
    BY <1>2, <1>4, <1>6, <2>1, <2>3 DEF Atomic!StartInstance
<1>7. CASE op # "start_instance"
  <2>1. taskStatus' = taskStatus
    BY <1>1, <1>5, <1>7 DEF roots
  <2>2. QED
    BY <1>2, <1>4, <1>7, <2>1, SameDomain DEF Atomic!ChangeInstance, new
<1>8. QED
  BY <1>6, <1>7

\* A session that creates an instance writes it.
LEMMA CreationWritten ==
    ASSUME TypeOK, NEW s, Writes(s), NEW i \in Instance, Creates(s, i)
    PROVE  Atomic!CreateInstance(i)
<1>1. /\ taskStatus \in [Task -> DbTaskStatus]
      /\ instanceStatus \in [Instance -> WorkflowStatus \cup {Absent}]
      /\ Clean # "PENDING"
  BY ServiceAssumption DEF TypeOK, TaskStatus
<1>2. /\ instanceStatus[i] = Absent /\ s.subject = i /\ s.instance = "PENDING"
      /\ \A t \in Task : s.dirty[t] = Clean
  BY DEF Creates, Fresh
<1>3. taskStatus' = taskStatus
  BY <1>1, <1>2 DEF Writes
<1>4. instanceStatus' = [instanceStatus EXCEPT ![i] = "PENDING"]
  BY <1>1, <1>2 DEF Writes
<1>5. QED
  BY <1>2, <1>3, <1>4 DEF Atomic!CreateInstance

\* The four changes a lone request can commit.
LEMMA CommittedChange ==
    ASSUME TypeOK, NEW r \in Req, Commit(r), NEW s, s = session[r], OneChange(s)
    PROVE  \/ \E op \in TaskOp \ {"complete_task", "fail_task"}, t \in Task :
                Changes(s, op, t) /\ TaskWritten(op, t)
           \/ \E t \in Task : Completes(s, t) /\ Atomic!CompleteTask(t)
           \/ \E op \in InstanceOp \ {"fail_instance"}, i \in Instance :
                /\ ChangesInstance(s, op, i)
                /\ IF op = "start_instance" THEN Atomic!StartInstance(i)
                                            ELSE Atomic!ChangeInstance(op, i)
           \/ \E i \in Instance : Creates(s, i) /\ Atomic!CreateInstance(i)
<1>1. Writes(s) /\ s.phase = "staged" /\ \A t \in Task : s.dirty[t] \in DbTaskStatus \cup {Clean}
  BY CommitWrites
<1>2. ASSUME NEW op \in TaskOp \ {"complete_task", "fail_task"}, NEW t \in Task, Changes(s, op, t)
      PROVE  TaskWritten(op, t)
  BY <1>1, <1>2, ChangeWritten
<1>3. ASSUME NEW t \in Task, Completes(s, t) PROVE Atomic!CompleteTask(t)
  BY <1>1, <1>3, CompletionWritten
<1>4. ASSUME NEW op \in InstanceOp \ {"fail_instance"}, NEW i \in Instance, ChangesInstance(s, op, i)
      PROVE  IF op = "start_instance" THEN Atomic!StartInstance(i) ELSE Atomic!ChangeInstance(op, i)
  BY <1>1, <1>4, InstanceWritten
<1>5. ASSUME NEW i \in Instance, Creates(s, i) PROVE Atomic!CreateInstance(i)
  BY <1>1, <1>5, CreationWritten
<1>6. QED
  BY <1>2, <1>3, <1>4, <1>5 DEF OneChange

\* So every commit of a lone request is a step of AtomicWorkflow.
LEMMA CommitAtomic ==
    ASSUME TypeOK, NEW r \in Req, Commit(r), OneChange(session[r])
    PROVE  Atomic!Next
<1>1. PICK s : s = session[r]
  OBVIOUS
<1>2. ASSUME NEW op \in TaskOp \ {"complete_task", "fail_task"}, NEW t \in Task, TaskWritten(op, t)
      PROVE  Atomic!Next
  <2>1. Atomic!ChangeTask(op, t)
    BY <1>2, SameDomain DEF TaskWritten, Atomic!ChangeTask
  <2>2. QED
    BY <2>1, SameDomain DEF Atomic!Next
<1>3. ASSUME NEW op \in InstanceOp \ {"fail_instance"}, NEW i \in Instance,
             IF op = "start_instance" THEN Atomic!StartInstance(i) ELSE Atomic!ChangeInstance(op, i)
      PROVE  Atomic!Next
  BY <1>3, SameDomain DEF Atomic!Next
<1>4. QED
  BY <1>1, <1>2, <1>3, CommittedChange DEF Atomic!Next
\* No operation on a task assigns PENDING.
LEMMA NeverPending ==
    ASSUME NEW op \in TaskOp, NEW status, TaskAssigned(op, status) = "PENDING"
    PROVE  status = "PENDING"
BY DEF TaskOp, TaskAllowed, TaskAssigned

\* What an operation announces of its task's status is the status it assigns.
Announces(event) ==
    /\ \E status \in TaskStatus : event \in TaskAnnouncement[status]
    /\ event # "ApprovalRequested"

\* A row that an operation stages for its task names the status it assigns, or none.
LEMMA EventsTrue ==
    ASSUME NEW op \in TaskOp \ {"fail_task"}, NEW status \in TaskStatus,
           NEW event \in TaskEvents[op], Announces(event)
    PROVE  event \in TaskAnnouncement[TaskAssigned(op, status)]
BY DEF TaskOp, TaskAllowed, TaskEvents, TaskAssigned, TaskAnnouncement, Announces, TaskStatus,
       UnlockEvent

\* The rows that a lone request commits: an unlock is of a task that was PENDING and
\* is no more, and a row that announces a status of a task tells the truth.
UnlockTrue(row) ==
    row.event = UnlockEvent => /\ row.subject \in Task
                               /\ taskStatus[row.subject] = "PENDING"
                               /\ taskStatus'[row.subject] # "PENDING"

RowTrue(row) ==
    row.subject \in Task /\ Announces(row.event) =>
        row.event \in TaskAnnouncement[taskStatus'[row.subject]]

\* No row that a lone request commits is false, and none of its tasks becomes PENDING.
LEMMA CommittedRows ==
    ASSUME TypeOK, NEW r \in Req, Commit(r), OneChange(session[r])
    PROVE  /\ \A row \in Rows(r) : UnlockTrue(row) /\ RowTrue(row)
           /\ \A t \in Task : taskStatus'[t] = "PENDING" => taskStatus[t] = "PENDING"
<1> DEFINE Kept == \A t \in Task : taskStatus'[t] = "PENDING" => taskStatus[t] = "PENDING"
<1>1. PICK s : s = session[r]
  OBVIOUS
<1>2. /\ \A row \in Rows(r) : \E e \in s.staged : row.event = e.event /\ row.subject = e.subject
      /\ s.phase = "staged"
      /\ taskStatus \in [Task -> DbTaskStatus]
      /\ DbTaskStatus \subseteq TaskStatus
  BY <1>1, CommitWrites DEF TypeOK, DbTaskStatus
<1>3. SUFFICES (\A e \in s.staged : UnlockTrue(e) /\ RowTrue(e)) /\ Kept
  BY <1>2 DEF UnlockTrue, RowTrue
<1>4. ASSUME NEW op \in TaskOp \ {"complete_task", "fail_task"}, NEW t \in Task,
             Changes(s, op, t), TaskWritten(op, t)
      PROVE  (\A e \in s.staged : UnlockTrue(e) /\ RowTrue(e)) /\ Kept
  <2>1. taskStatus'[t] = TaskAssigned(op, taskStatus[t])
        /\ \A u \in Task : u # t => taskStatus'[u] = taskStatus[u]
    BY <1>2, <1>4 DEF TaskWritten
  <2>2. \A e \in s.staged : e.subject = t /\ e.event \in TaskEvents[op]
    BY <1>4 DEF Changes
  <2>3. \A e \in s.staged : UnlockTrue(e)
    BY <2>2, NoOtherUnlock DEF UnlockTrue
  <2>4. ASSUME NEW e \in s.staged, Announces(e.event)
        PROVE  e.event \in TaskAnnouncement[taskStatus'[e.subject]]
    <3>1. e.event \in TaskEvents[op] /\ taskStatus[t] \in TaskStatus
      BY <1>2, <2>2
    <3>2. e.event \in TaskAnnouncement[TaskAssigned(op, taskStatus[t])]
      BY <2>4, <3>1, EventsTrue
    <3>3. QED
      BY <2>1, <2>2, <3>2
  <2>5. Kept
    BY <2>1, NeverPending
  <2>6. QED
    BY <2>3, <2>4, <2>5 DEF RowTrue
<1>5. ASSUME NEW t \in Task, Completes(s, t), Atomic!CompleteTask(t)
      PROVE  (\A e \in s.staged : UnlockTrue(e) /\ RowTrue(e)) /\ Kept
  <2>1. /\ FoundReady(s, t) = Atomic!Unlockable(t) /\ t \notin Atomic!Unlockable(t)
        /\ FoundReady(s, t) \subseteq {c \in Task : taskStatus[c] = "PENDING"}
    BY <1>2, <1>5, FoundAll DEF Completes
  <2>2. /\ taskStatus'[t] = "COMPLETED"
        /\ \A c \in FoundReady(s, t) : taskStatus'[c] = "READY"
        /\ \A u \in Task : taskStatus'[u] \in {"READY", "COMPLETED", taskStatus[u]}
    BY <1>5, <2>1 DEF Atomic!CompleteTask
  <2>3. ASSUME NEW e \in s.staged PROVE UnlockTrue(e) /\ RowTrue(e)
    <3>1. CASE e.event = "task.completed" /\ e.subject = t
      <4>1. "task.completed" # UnlockEvent
        BY DEF UnlockEvent
      <4>2. "task.completed" \in TaskAnnouncement["COMPLETED"]
        BY DEF TaskAnnouncement
      <4>3. QED
        BY <2>2, <3>1, <4>1, <4>2 DEF UnlockTrue, RowTrue
    <3>2. CASE e.event = UnlockEvent /\ e.subject \in FoundReady(s, t)
      BY <2>1, <2>2, <3>2, EngineAnnounced DEF UnlockTrue, RowTrue
    <3>3. QED
      BY <1>5, <3>1, <3>2 DEF Completes
  <2>4. Kept
    BY <2>2
  <2>5. QED
    BY <2>3, <2>4
<1>6. ASSUME NEW op \in InstanceOp, NEW i \in Instance, ChangesInstance(s, op, i),
             IF op = "start_instance" THEN Atomic!StartInstance(i) ELSE Atomic!ChangeInstance(op, i)
      PROVE  (\A e \in s.staged : UnlockTrue(e) /\ RowTrue(e)) /\ Kept
  <2> DEFINE roots == IF op = "start_instance" THEN RootTasks(i) ELSE {}
  <2>1. \A t \in roots : t \in Task /\ taskStatus'[t] = "READY"
    BY <1>6, SameDomain DEF RootTasks, Atomic!StartInstance
  <2>2. Kept
    BY <1>6 DEF Atomic!StartInstance, Atomic!ChangeInstance
  <2>3. InstanceEvent[op] # UnlockEvent /\ "task.ready" # UnlockEvent /\ i \notin Task
    BY NoOtherUnlock, ServiceAssumption DEF InstanceOp, InstanceEvent, UnlockEvent
  <2>4. s.staged = {[event |-> InstanceEvent[op], subject |-> i]}
                      \cup {[event |-> "task.ready", subject |-> t] : t \in roots}
    BY <1>2, <1>6 DEF ChangesInstance
  <2> HIDE DEF roots
  <2>5. ASSUME NEW e \in s.staged PROVE UnlockTrue(e) /\ RowTrue(e)
    BY <2>1, <2>3, <2>4, EngineAnnounced DEF UnlockTrue, RowTrue
  <2>6. QED
    BY <2>2, <2>5
<1>7. ASSUME NEW i \in Instance, Creates(s, i), Atomic!CreateInstance(i)
      PROVE  (\A e \in s.staged : UnlockTrue(e) /\ RowTrue(e)) /\ Kept
  <2>1. InstanceEvent["create_instance"] # UnlockEvent /\ i \notin Task
    BY NoOtherUnlock, ServiceAssumption DEF InstanceEvent
  <2>2. \A e \in s.staged : e.event = InstanceEvent["create_instance"] /\ e.subject = i
    BY <1>7 DEF Creates
  <2>3. Kept
    BY <1>7 DEF Atomic!CreateInstance
  <2>4. QED
    BY <2>1, <2>2, <2>3 DEF UnlockTrue, RowTrue
<1>8. QED
  BY <1>1, <1>4, <1>5, <1>6, <1>7, CommittedChange

\* The commit of the one open request preserves SerialInv.
LEMMA SerialCommit ==
    ASSUME TypeOK, SerialInv, NEW r \in Req, Commit(r), \A q \in Req : Open(q) => q = r
    PROVE  SerialInv'
<1>1. Open(r) /\ OneChange(session[r])
  BY DEF Commit, Open, SerialInv
<1>2. /\ outbox' = outbox \cup Rows(r)
      /\ \A row \in Rows(r) : row.req = r
      /\ \E code \in Outcome : session' = [session EXCEPT ![r] = Answered(code)]
  BY CommitWrites
<1>3. /\ \A row \in Rows(r) : UnlockTrue(row)
      /\ \A t \in Task : taskStatus'[t] = "PENDING" => taskStatus[t] = "PENDING"
  BY <1>1, CommittedRows
<1>4. \A q \in Req : ~Open(q)'
  BY <1>2 DEF Open, Answered, Fresh, TypeOK
<1>5. \A row \in outbox' : row.event = UnlockEvent =>
         row.subject \in Task /\ taskStatus'[row.subject] # "PENDING"
  BY <1>2, <1>3 DEF UnlockTrue, SerialInv
<1>6. UnlockedOnce'
  <2>1. SUFFICES ASSUME NEW row1 \in outbox', NEW row2 \in outbox',
                        row1.event = UnlockEvent, row2.event = UnlockEvent,
                        row1.subject = row2.subject
                 PROVE  row1.req = row2.req
    BY DEF UnlockedOnce
  <2>2. CASE row1 \in outbox /\ row2 \in outbox
    BY <2>1, <2>2 DEF SerialInv, UnlockedOnce
  <2>3. CASE row1 \in Rows(r) /\ row2 \in Rows(r)
    BY <1>2, <2>3
  <2>4. CASE row1 \in outbox /\ row2 \in Rows(r)
    BY <1>3, <2>1, <2>4 DEF SerialInv, UnlockTrue
  <2>5. CASE row1 \in Rows(r) /\ row2 \in outbox
    BY <1>3, <2>1, <2>5 DEF SerialInv, UnlockTrue
  <2>6. QED
    BY <1>2, <2>2, <2>3, <2>4, <2>5
<1>7. QED
  BY <1>4, <1>5, <1>6 DEF SerialInv

-----------------------------------------------------------------------------
(***************************************************************************)
(* The theorems about requests that do not overlap.                        *)
(***************************************************************************)

\* And so does every step, when requests do not overlap.
LEMMA SerialStep ==
    ASSUME Overlap = FALSE, TypeOK, SerialInv, NEW r \in Req, Begin(r) \/ Proceed(r) \/ Crash(r)
    PROVE  SerialInv'
<1>1. \A q \in Req : Open(q) => q = r
  BY DEF Begin, Proceed, Crash, StageTask, RejectTask, TaskMissing, CreateInstance,
         StageInstance, InstanceMissing, BuildError, ReadChildren, ReadParents, ReadRoots,
         Commit, FlushError, MayBegin, SerialInv, Open
<1>2. CASE Commit(r)
  BY <1>1, <1>2, SerialCommit
<1>3. CASE ~Commit(r)
  <2>1. UNCHANGED store
    BY <1>3, OnlyCommits
  <2>2. session' = [session EXCEPT ![r] = session'[r]]
    BY OneSession
  <2>3. session'[r].phase = "done" \/ OneChange(session'[r])
    <3>1. ASSUME Over(r) PROVE session'[r].phase = "done"
      BY <3>1 DEF Over, Answered, Fresh, TypeOK
    <3>2. CASE Begin(r)
      <4>1. ASSUME NEW op \in TaskOp, NEW t \in Task, StageTask(r, op, t)
            PROVE  OneChange(session'[r])
        BY <4>1, SerialStageTask
      <4>2. ASSUME NEW i \in Instance, CreateInstance(r, i) PROVE OneChange(session'[r])
        BY <4>2, SerialCreateInstance
      <4>3. ASSUME NEW op \in InstanceOp, NEW i \in Instance, StageInstance(r, op, i)
            PROVE  OneChange(session'[r])
        BY <4>3, SerialStageInstance
      <4>4. QED
        BY <3>1, <3>2, <4>1, <4>2, <4>3
           DEF Begin, RejectTask, TaskMissing, InstanceMissing, BuildError, Over
    <3>3. CASE Proceed(r)
      <4>1. Open(r)
        BY <3>3 DEF Proceed, ReadChildren, ReadParents, ReadRoots, Commit, FlushError, Open
      <4>2. OneChange(session[r])
        BY <4>1 DEF SerialInv
      <4>3. QED
        BY <1>3, <3>1, <3>3, <4>2, SerialReadChildren, SerialReadParents, SerialReadRoots
           DEF Proceed, FlushError, Over
    <3>4. CASE Crash(r)
      BY <3>1, <3>4 DEF Crash, Over
    <3>5. QED
      BY <3>2, <3>3, <3>4
  <2>4. QED
    BY <1>1, <2>1, <2>2, <2>3, SerialSession
<1>4. QED
  BY <1>2, <1>3

\* When no two requests overlap, one request is open at a time, it is about to make
\* one change of AtomicWorkflow, and no task that was unlocked is PENDING again.
THEOREM SerialCorrect ==
    ASSUME Overlap = FALSE PROVE Spec => []SerialInv
<1>1. Init => SerialInv
  BY DEF Init, SerialInv, UnlockedOnce, Open, Fresh
<1>2. TypeOK /\ SerialInv /\ [Next]_vars => SerialInv'
  <2>1. ASSUME TypeOK, SerialInv, Next PROVE SerialInv'
    BY <2>1, SerialStep DEF Next
  <2>2. ASSUME SerialInv, UNCHANGED vars PROVE SerialInv'
    <3>1. session' = session /\ UNCHANGED store
      BY <2>2 DEF vars
    <3>2. \A q \in Req : Open(q)' = Open(q)
      BY <3>1 DEF Open
    <3>3. ASSUME NEW q \in Req, Open(q)' PROVE OneChange(session[q])'
      <4>1. OneChange(session[q])
        BY <2>2, <3>2, <3>3 DEF SerialInv
      <4>2. QED
        BY <3>1, <4>1, OneChangeKept
    <3>4. outbox' = outbox /\ taskStatus' = taskStatus
      BY <3>1 DEF store
    <3>5. QED
      BY <2>2, <3>2, <3>3, <3>4 DEF SerialInv, UnlockedOnce
  <2>3. QED
    BY <2>1, <2>2
<1>3. QED
  BY <1>1, <1>2, TypeCorrect, PTL DEF Spec

\* When no two requests overlap the dependency engine unlocks a task at most once.
THEOREM UnlockedOnceCorrect ==
    ASSUME Overlap = FALSE PROVE Spec => []UnlockedOnce
<1>1. SerialInv => UnlockedOnce
  BY DEF SerialInv
<1>2. QED
  BY <1>1, SerialCorrect, PTL
\* Requests that do not overlap implement AtomicWorkflow: each commit is the change its
\* request asks for, and every other step of a request is invisible.
THEOREM AtomicallyCorrect ==
    ASSUME Overlap = FALSE PROVE Spec => Atomically
<1>1. Init => Atomic!Init
  BY DEF Init, Atomic!Init
<1>2. TypeOK /\ SerialInv /\ [Next]_vars => [Atomic!Next]_(Atomic!rows)
  <2>1. ASSUME TypeOK, SerialInv, NEW r \in Req, Begin(r) \/ Proceed(r) \/ Crash(r)
        PROVE  Atomic!Next \/ UNCHANGED Atomic!rows
    <3>1. CASE Commit(r)
      <4>1. Open(r)
        BY <3>1 DEF Commit, Open
      <4>2. OneChange(session[r])
        BY <2>1, <4>1 DEF SerialInv
      <4>3. QED
        BY <2>1, <3>1, <4>2, CommitAtomic
    <3>2. CASE UNCHANGED store
      BY <3>2 DEF store, Atomic!rows
    <3>3. QED
      BY <2>1, <3>1, <3>2, OnlyCommits
  <2>2. ASSUME UNCHANGED vars PROVE UNCHANGED Atomic!rows
    BY <2>2 DEF vars, store, Atomic!rows
  <2>3. QED
    BY <2>1, <2>2 DEF Next
<1>3. QED
  BY <1>1, <1>2, TypeCorrect, SerialCorrect, PTL DEF Spec, Atomically, Atomic!Spec

\* A change of AtomicWorkflow leaves a cancelled task cancelled or, when the task is
\* reported done after all, completes it.
LEMMA CancelledStays ==
    ASSUME TypeOK, Atomic!Next, NEW t \in Task, taskStatus[t] = "CANCELLED"
    PROVE  taskStatus'[t] \in {"CANCELLED", "COMPLETED"}
<1>1. taskStatus \in [Task -> DbTaskStatus]
  BY DEF TypeOK
<1>2. ASSUME NEW op \in TaskOp \ {"complete_task", "fail_task"}, NEW u \in Task,
             Atomic!ChangeTask(op, u)
      PROVE  taskStatus'[t] = "CANCELLED"
  <2>1. /\ taskStatus[u] \in TaskAllowed[op]
        /\ taskStatus' = [taskStatus EXCEPT ![u] = TaskAssigned(op, taskStatus[u])]
    BY <1>2, SameDomain DEF Atomic!ChangeTask
  <2>2. "CANCELLED" \in TaskAllowed[op] => TaskAssigned(op, "CANCELLED") = "CANCELLED"
    BY DEF TaskOp, TaskAllowed, TaskAssigned
  <2>3. QED
    BY <1>1, <2>1, <2>2
<1>3. ASSUME NEW u \in Task, Atomic!CompleteTask(u)
      PROVE  taskStatus'[t] \in {"CANCELLED", "COMPLETED"}
  BY <1>3 DEF Atomic!CompleteTask, Atomic!Unlockable
<1>4. ASSUME NEW i \in Instance, Atomic!CreateInstance(i) \/ Atomic!StartInstance(i)
      PROVE  taskStatus'[t] = "CANCELLED"
  BY <1>4 DEF Atomic!CreateInstance, Atomic!StartInstance
<1>5. ASSUME NEW op, NEW i \in Instance, Atomic!ChangeInstance(op, i)
      PROVE  taskStatus'[t] = "CANCELLED"
  BY <1>5 DEF Atomic!ChangeInstance
<1>6. QED
  BY <1>2, <1>3, <1>4, <1>5, SameDomain DEF Atomic!Next

\* When no two requests overlap a cancelled task is never made ready or run again.
THEOREM CancelledCorrect ==
    ASSUME Overlap = FALSE PROVE Spec => CancelledNeverRuns
<1> DEFINE Stays == \A t \in Task : taskStatus[t] = "CANCELLED" =>
                       taskStatus'[t] \notin {"READY", "RUNNING", "PENDING"}
<1>1. TypeOK /\ [Atomic!Next]_(Atomic!rows) => [Stays]_vars
  <2>1. ASSUME TypeOK, Atomic!Next PROVE Stays
    BY <2>1, CancelledStays
  <2>2. ASSUME UNCHANGED Atomic!rows PROVE Stays
    BY <2>2 DEF Atomic!rows
  <2>3. QED
    BY <2>1, <2>2
<1>2. QED
  BY <1>1, AtomicallyCorrect, TypeCorrect, PTL
     DEF Atomically, Atomic!Spec, CancelledNeverRuns

\* When no two requests overlap an outbox row that names a status of a task is committed
\* with that status: no consumer is told of a change that did not happen.
THEOREM AnnouncedTrulyCorrect ==
    ASSUME Overlap = FALSE PROVE Spec => AnnouncedTruly
<1> DEFINE Truly == \A row \in outbox' \ outbox :
                       /\ row.subject \in Task
                       /\ \E s \in TaskStatus : row.event \in TaskAnnouncement[s]
                       /\ row.event # "ApprovalRequested"
                       => row.event \in TaskAnnouncement[taskStatus'[row.subject]]
<1>1. ASSUME TypeOK, SerialInv, NEW r \in Req, Commit(r)
      PROVE  Truly
  <2>1. Open(r)
    BY <1>1 DEF Commit, Open
  <2>2. OneChange(session[r])
    BY <1>1, <2>1 DEF SerialInv
  <2>3. \A row \in Rows(r) : RowTrue(row)
    BY <1>1, <2>2, CommittedRows
  <2>4. outbox' = outbox \cup Rows(r)
    BY <1>1 DEF Commit
  <2>5. QED
    BY <2>3, <2>4 DEF RowTrue, Announces
<1>2. TypeOK /\ SerialInv /\ [Next]_vars => [Truly]_vars
  <2>1. ASSUME UNCHANGED store PROVE Truly
    BY <2>1 DEF store
  <2>2. ASSUME TypeOK, SerialInv, Next PROVE Truly
    BY <1>1, <2>1, <2>2, OnlyCommits DEF Next
  <2>3. QED
    BY <2>2
<1>3. QED
  BY <1>2, TypeCorrect, SerialCorrect, PTL DEF Spec, AnnouncedTruly
=============================================================================
