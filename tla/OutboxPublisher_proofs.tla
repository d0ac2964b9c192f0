---------------------- MODULE OutboxPublisher_proofs ----------------------
(***************************************************************************)
(* Theorems about the outbox publisher, for any number of rows, workers,   *)
(* retries and faults and any batch size.                                  *)
(***************************************************************************)
EXTENDS OutboxPublisher, TLAPS

(***************************************************************************)
(* Small facts.                                                            *)
(***************************************************************************)

\* An idle worker is a worker state that holds nothing.
LEMMA IdleFacts ==
    ASSUME NEW b \in BOOLEAN
    PROVE  /\ Idle(b) \in WorkerState
           /\ Idle(b).running = b /\ Idle(b).phase = "idle"
           /\ Idle(b).todo = {} /\ Idle(b).ok = {} /\ Idle(b).failed = {}
           /\ Idle(b).dead = Nothing
BY DEF Idle, WorkerState

\* Publishing adds a copy, up to the bound on what is counted, to one row.
LEMMA CopiedFacts ==
    ASSUME TypeOK, NEW e \in Event
    PROVE  /\ Copied(e) \in [Event -> 0..MaxCopies]
           /\ \A f \in Event : Copied(e)[f] >= stream[f] /\ Copied(e)[f] <= stream[f] + 1
           /\ \A f \in Event \ {e} : Copied(e)[f] = stream[f]
           /\ Copied(e)[e] > 0
           /\ Copied(e)[e] = stream[e] + 1 \/ Copied(e) = stream
BY PublisherAssumption DEF TypeOK, Copied

\* What a publish that raises does: at most one more copy of its row, and only
\* when a fault paid for it.
LEMMA RaisesFacts ==
    ASSUME TypeOK, NEW e \in Event, PublishRaises(e)
    PROVE  /\ stream' \in [Event -> 0..MaxCopies]
           /\ faults' \in 0..MaxFaults
           /\ e \in Poison => stream' = stream /\ faults' = faults
           /\ e \notin Poison => faults' = faults + 1 /\ stream' \in {stream, Copied(e)}
           /\ \A f \in Event : stream'[f] >= stream[f]
BY CopiedFacts, PublisherAssumption DEF TypeOK, PublishRaises, Fault

-----------------------------------------------------------------------------
(***************************************************************************)
(* Type correctness.  MaxRetries bounds retry_count because a row whose    *)
(* count reaches it is closed, which is part of RetriesPaid; types and     *)
(* invariant are therefore shown to be inductive together.                 *)
(***************************************************************************)

\* The state of the service when it has just been deployed.
LEMMA InitInductive == Init => TypeOK /\ PInv
<1> SUFFICES ASSUME Init PROVE TypeOK /\ PInv
  OBVIOUS
<1>1. \A w \in Worker :
          /\ worker[w].phase = "idle" /\ worker[w].dead = Nothing
          /\ worker[w].todo = {} /\ worker[w].ok = {} /\ worker[w].failed = {}
          /\ Batch(w) = {}
  BY IdleFacts DEF Init, Batch
<1>2. worker \in [Worker -> WorkerState]
  BY IdleFacts DEF Init
<1>3. TypeOK
  <2>1. 0 \in 0..MaxRetries /\ 0 \in 0..MaxCopies /\ 0 \in 0..MaxFaults
    BY PublisherAssumption
  <2>2. QED
    BY <1>2, <2>1 DEF Init, TypeOK, Status
<1>4. Exclusive /\ SessionsWellFormed
  BY <1>1 DEF Exclusive, SessionsWellFormed
<1>5. PublishedIsInStream
  BY <1>1 DEF Init, PublishedIsInStream
<1>6. RetriesPaid
  <2>1. 0 < MaxRetries
    BY PublisherAssumption
  <2>2. \A e \in Event : status[e] = "ABSENT" /\ retries[e] = 0 /\ faults = 0
    BY DEF Init
  <2>3. QED
    BY <1>1, <2>1, <2>2 DEF RetriesPaid
<1>7. CopiesPaid
  BY DEF Init, CopiesPaid
<1>8. QED
  BY <1>3, <1>4, <1>5, <1>6, <1>7 DEF PInv

\* A service commits a row that no worker can hold yet.
LEMMA StageStep ==
    ASSUME TypeOK, PInv, NEW e \in Event, Stage(e)
    PROVE  TypeOK' /\ PInv'
<1>1. /\ status[e] = "ABSENT"
      /\ status' = [status EXCEPT ![e] = "PENDING"]
      /\ UNCHANGED <<retries, stream, deadLetters, worker, rowModel, faults>>
  BY DEF Stage
<1>2. TypeOK'
  BY <1>1 DEF TypeOK, Status
<1>3. Exclusive'
  BY <1>1 DEF PInv, Exclusive, Batch, TypeOK
<1>4. SessionsWellFormed'
  BY <1>1 DEF PInv, SessionsWellFormed, Batch
<1>5. PublishedIsInStream'
  BY <1>1 DEF PInv, PublishedIsInStream, TypeOK
<1>6. RetriesPaid'
  BY <1>1 DEF PInv, RetriesPaid, TypeOK
<1>7. CopiesPaid'
  BY <1>1 DEF PInv, CopiesPaid, TypeOK
<1>8. QED
  BY <1>2, <1>3, <1>4, <1>5, <1>6, <1>7 DEF PInv

\* A worker that lets go of its batch, or starts without one: nothing is lost
\* but what its session had marked, and that was paid for by a fault when the
\* rows count their retries.
LEMMA ReleaseStep ==
    ASSUME TypeOK, PInv, NEW w \in Worker, NEW b \in BOOLEAN,
           worker' = [worker EXCEPT ![w] = Idle(b)],
           UNCHANGED <<rows, deadLetters, rowModel>>,
           stream' \in [Event -> 0..MaxCopies],
           \A e \in Event : stream'[e] >= stream[e],
           faults' \in 0..MaxFaults,
           faults' >= faults,
           rowModel = "takes_limit" =>
               stream' = stream /\ (worker[w].ok = {} \/ faults' = faults + 1)
    PROVE  TypeOK' /\ PInv'
<1>1. /\ \A v \in Worker : v # w => worker'[v] = worker[v]
      /\ worker'[w] = Idle(b)
      /\ Batch(w)' = {}
      /\ \A v \in Worker : v # w => Batch(v)' = Batch(v)
  BY IdleFacts DEF TypeOK, Batch
<1>2. status' = status /\ retries' = retries /\ rowModel' = rowModel /\ deadLetters' = deadLetters
  BY DEF rows
<1>3. TypeOK'
  BY <1>2, IdleFacts DEF TypeOK
<1>4. Exclusive'
  BY <1>1, <1>2 DEF PInv, Exclusive
<1>5. SessionsWellFormed'
  <2>1. /\ Idle(b).todo \cap Idle(b).ok = {}
        /\ Idle(b).todo \cap Idle(b).failed = {}
        /\ Idle(b).ok \cap Idle(b).failed = {}
        /\ Idle(b).phase # "dlq"
        /\ Idle(b).dead = Nothing
    BY IdleFacts
  <2>2. QED
    BY <1>1, <2>1 DEF PInv, SessionsWellFormed
<1>6. PublishedIsInStream'
  <2>1. \A e \in Event : stream[e] > 0 => stream'[e] > 0
    BY DEF TypeOK
  <2>2. \A v \in Worker : worker'[v].ok \subseteq worker[v].ok /\ worker[v].ok \subseteq Event
    BY <1>1, IdleFacts DEF TypeOK, WorkerState
  <2>3. QED
    BY <1>2, <2>1, <2>2 DEF PInv, PublishedIsInStream
<1>7. RetriesPaid'
  <2>1. \A v \in Worker : worker'[v].failed \subseteq worker[v].failed /\ worker[v].failed \subseteq Event
    BY <1>1, IdleFacts DEF TypeOK, WorkerState
  <2>2. QED
    BY <1>2, <2>1 DEF PInv, RetriesPaid, TypeOK
<1>8. CopiesPaid'
  <2> SUFFICES ASSUME rowModel = "takes_limit", NEW e \in Event
               PROVE  \/ stream'[e] <= faults'
                      \/ /\ stream'[e] = faults' + 1
                         /\ status'[e] = "PUBLISHED" \/ \E v \in Worker : e \in worker'[v].ok
    BY <1>2 DEF CopiesPaid
  <2>1. stream'[e] = stream[e]
    OBVIOUS
  <2>2. CASE faults' = faults + 1
    BY <2>1, <2>2 DEF PInv, CopiesPaid, TypeOK
  <2>3. CASE faults' # faults + 1
    <3>1. worker[w].ok = {}
      BY <2>3
    <3>2. \A v \in Worker : worker'[v].ok = worker[v].ok
      BY <1>1, <3>1, IdleFacts
    <3>3. QED
      BY <1>2, <2>1, <3>2 DEF PInv, CopiesPaid, TypeOK
  <2>4. QED
    BY <2>2, <2>3
<1>9. QED
  BY <1>3, <1>4, <1>5, <1>6, <1>7, <1>8 DEF PInv

\* Stopping a worker only clears its flag.
LEMMA StopStep ==
    ASSUME TypeOK, PInv, NEW w \in Worker, Stop(w)
    PROVE  TypeOK' /\ PInv'
<1> DEFINE s == [worker[w] EXCEPT !.running = FALSE]
<1>1. worker[w] \in WorkerState
  BY DEF TypeOK
<1>2. /\ s \in WorkerState
      /\ s.todo = worker[w].todo /\ s.ok = worker[w].ok /\ s.failed = worker[w].failed
      /\ s.phase = worker[w].phase /\ s.dead = worker[w].dead /\ s.running = FALSE
  BY <1>1 DEF WorkerState
<1>3. worker' = [worker EXCEPT ![w] = s]
  BY DEF Stop
<1>4. \A v \in Worker : /\ worker'[v].todo = worker[v].todo
                        /\ worker'[v].ok = worker[v].ok
                        /\ worker'[v].failed = worker[v].failed
                        /\ worker'[v].phase = worker[v].phase
                        /\ worker'[v].dead = worker[v].dead
                        /\ v # w => worker'[v] = worker[v]
  BY <1>2, <1>3 DEF TypeOK
<1>5. UNCHANGED <<status, retries, stream, deadLetters, rowModel, faults>>
  BY DEF Stop, rows
<1>6. TypeOK'
  BY <1>2, <1>3, <1>5 DEF TypeOK
<1>7. SessionsWellFormed'
  BY <1>4 DEF PInv, SessionsWellFormed, Batch
<1>8. Exclusive' /\ PublishedIsInStream' /\ RetriesPaid' /\ CopiesPaid'
  BY <1>4, <1>5 DEF PInv, Exclusive, PublishedIsInStream, RetriesPaid, CopiesPaid, Batch
<1>9. QED
  BY <1>6, <1>7, <1>8 DEF PInv

\* Locking a batch of rows that are PENDING and that nobody holds.
LEMMA PollStep ==
    ASSUME TypeOK, PInv, NEW w \in Worker, Poll(w)
    PROVE  TypeOK' /\ PInv'
<1> DEFINE batch == First(BatchSize, Unlocked)
           s == [Idle(TRUE) EXCEPT !.phase = "batch", !.todo = batch]
<1>1. batch \subseteq Event /\ \A e \in batch : status[e] = "PENDING" /\ e \notin Locked
  BY DEF First, Unlocked
<1>2. /\ s \in WorkerState
      /\ s.todo = batch /\ s.ok = {} /\ s.failed = {}
      /\ s.phase = "batch" /\ s.dead = Nothing
  BY <1>1 DEF Idle, WorkerState
<1>3. worker' = [worker EXCEPT ![w] = s]
  BY DEF Poll, TypeOK
<1>4. /\ worker'[w] = s
      /\ \A v \in Worker : v # w => worker'[v] = worker[v]
      /\ Batch(w)' = batch
      /\ \A v \in Worker : v # w => Batch(v)' = Batch(v)
  BY <1>2, <1>3 DEF TypeOK, Batch
<1>5. UNCHANGED <<status, retries, stream, deadLetters, rowModel, faults>>
  BY DEF Poll, rows
<1>6. worker[w].ok = {} /\ worker[w].failed = {}
  BY DEF Poll, Idle
<1>7. \A v \in Worker : worker'[v].ok = worker[v].ok /\ worker'[v].failed = worker[v].failed
  BY <1>2, <1>4, <1>6
<1>8. TypeOK'
  BY <1>2, <1>3, <1>5 DEF TypeOK
<1>9. Exclusive'
  <2>1. \A v \in Worker : Batch(v) \cap batch = {}
    BY <1>1 DEF Locked
  <2>2. QED
    BY <1>1, <1>4, <1>5, <2>1 DEF PInv, Exclusive
<1>10. SessionsWellFormed'
  <2>1. /\ s.todo \cap s.ok = {} /\ s.todo \cap s.failed = {} /\ s.ok \cap s.failed = {}
        /\ s.phase = "dlq" <=> s.dead # Nothing
        /\ s.phase # "idle"
    BY <1>2
  <2>2. QED
    BY <1>4, <2>1 DEF PInv, SessionsWellFormed
<1>11. PublishedIsInStream' /\ RetriesPaid' /\ CopiesPaid'
  BY <1>5, <1>7 DEF PInv, PublishedIsInStream, RetriesPaid, CopiesPaid
<1>12. QED
  BY <1>8, <1>9, <1>10, <1>11 DEF PInv

\* Publishing a row of the batch: its first copy is covered by its new mark.
LEMMA PublishStep ==
    ASSUME TypeOK, PInv, NEW w \in Worker, NEW e \in Event, Publish(w, e)
    PROVE  TypeOK' /\ PInv'
<1> DEFINE old == worker[w]
           s == [old EXCEPT !.todo = old.todo \ {e}, !.ok = old.ok \cup {e}]
<1>1. old \in WorkerState /\ e \in old.todo /\ old.phase = "batch"
  BY DEF TypeOK, Publish, Turn
<1>2. /\ s \in WorkerState
      /\ s.todo = old.todo \ {e} /\ s.ok = old.ok \cup {e} /\ s.failed = old.failed
      /\ s.phase = old.phase /\ s.dead = old.dead
  BY <1>1 DEF WorkerState
<1>3. worker' = [worker EXCEPT ![w] = s]
  BY DEF Publish, TypeOK
<1>4. /\ worker'[w] = s
      /\ \A v \in Worker : v # w => worker'[v] = worker[v]
      /\ \A v \in Worker : Batch(v)' = Batch(v)
  BY <1>1, <1>2, <1>3 DEF TypeOK, Batch
<1>5. UNCHANGED <<status, retries, deadLetters, rowModel, faults>> /\ stream' = Copied(e)
  BY DEF Publish, rows
<1>6. \A v \in Worker : worker'[v].failed = worker[v].failed
  BY <1>2, <1>4
<1>7. TypeOK'
  BY <1>2, <1>3, <1>5, CopiedFacts DEF TypeOK
<1>8. Exclusive'
  BY <1>4, <1>5 DEF PInv, Exclusive
<1>9. SessionsWellFormed'
  <2>1. /\ s.todo \cap s.ok = {} /\ s.todo \cap s.failed = {} /\ s.ok \cap s.failed = {}
        /\ s.phase = "dlq" <=> s.dead # Nothing
        /\ s.phase # "idle"
    BY <1>1, <1>2 DEF PInv, SessionsWellFormed
  <2>2. QED
    BY <1>4, <2>1 DEF PInv, SessionsWellFormed
<1>10. PublishedIsInStream'
  <2>1. \A f \in Event : stream[f] > 0 => stream'[f] > 0
    BY <1>5, CopiedFacts DEF TypeOK
  <2>2. stream'[e] > 0
    BY <1>5, CopiedFacts
  <2>3. \A v \in Worker : worker'[v].ok \subseteq worker[v].ok \cup {e} /\ worker[v].ok \subseteq Event
    BY <1>2, <1>4 DEF TypeOK, WorkerState
  <2>4. QED
    BY <1>5, <2>1, <2>2, <2>3 DEF PInv, PublishedIsInStream
<1>11. RetriesPaid'
  BY <1>5, <1>6 DEF PInv, RetriesPaid
<1>12. CopiesPaid'
  <2> SUFFICES ASSUME rowModel = "takes_limit", NEW f \in Event
               PROVE  \/ stream'[f] <= faults
                      \/ /\ stream'[f] = faults + 1
                         /\ status[f] = "PUBLISHED" \/ \E v \in Worker : f \in worker'[v].ok
    BY <1>5 DEF CopiesPaid
  <2>1. CASE f = e
    <3>1. status[e] = "PENDING"
      BY <1>1 DEF PInv, Exclusive, Batch
    <3>2. \A v \in Worker : e \notin worker[v].ok
      <4>1. e \notin worker[w].ok
        BY <1>1 DEF PInv, SessionsWellFormed
      <4>2. \A v \in Worker : v # w => e \notin Batch(v)
        BY <1>1 DEF PInv, Exclusive, Batch
      <4>3. QED
        BY <4>1, <4>2 DEF Batch
    <3>3. stream[e] <= faults
      BY <3>1, <3>2 DEF PInv, CopiesPaid
    <3>4. stream'[e] <= faults + 1
      BY <1>5, <3>3, CopiedFacts DEF TypeOK
    <3>5. e \in worker'[w].ok
      BY <1>2, <1>4
    <3>6. stream'[e] \in Nat /\ faults \in Nat
      BY <1>5, CopiedFacts DEF TypeOK
    <3>7. QED
      BY <2>1, <3>4, <3>5, <3>6
  <2>2. CASE f # e
    <3>1. stream'[f] = stream[f]
      BY <1>5, <2>2, CopiedFacts
    <3>2. \A v \in Worker : worker[v].ok \subseteq worker'[v].ok
      BY <1>2, <1>4
    <3>3. QED
      BY <3>1, <3>2 DEF PInv, CopiesPaid
  <2>3. QED
    BY <2>1, <2>2
<1>13. QED
  BY <1>7, <1>8, <1>9, <1>10, <1>11, <1>12 DEF PInv

\* A publish that raised: the row is marked as failed, at the price of a fault
\* unless no publish of it can succeed.
LEMMA MarkFailedStep ==
    ASSUME TypeOK, PInv, NEW w \in Worker, NEW e \in Event, MarkFailed(w, e)
    PROVE  TypeOK' /\ PInv'
<1> DEFINE old == worker[w]
           phase == IF Exhausted(e) THEN "dlq" ELSE old.phase
           dead  == IF Exhausted(e) THEN e ELSE old.dead
           s == [old EXCEPT !.todo = old.todo \ {e}, !.failed = old.failed \cup {e},
                            !.phase = phase, !.dead = dead]
<1>1. old \in WorkerState /\ e \in old.todo /\ old.phase = "batch"
  BY DEF TypeOK, MarkFailed, Turn
<1>2. /\ s \in WorkerState
      /\ s.todo = old.todo \ {e} /\ s.failed = old.failed \cup {e} /\ s.ok = old.ok
      /\ s.phase = phase /\ s.dead = dead
  BY <1>1 DEF WorkerState
<1>3. worker' = [worker EXCEPT ![w] = s]
  BY DEF MarkFailed, TypeOK
<1>4. /\ worker'[w] = s
      /\ \A v \in Worker : v # w => worker'[v] = worker[v]
      /\ \A v \in Worker : Batch(v)' = Batch(v)
  BY <1>1, <1>2, <1>3 DEF TypeOK, Batch
<1>5. UNCHANGED <<status, retries, deadLetters, rowModel>>
  BY DEF MarkFailed, rows
<1>6. /\ stream' \in [Event -> 0..MaxCopies]
      /\ faults' \in 0..MaxFaults
      /\ e \in Poison => stream' = stream /\ faults' = faults
      /\ e \notin Poison => faults' = faults + 1 /\ stream' \in {stream, Copied(e)}
      /\ \A f \in Event : stream'[f] >= stream[f]
  BY RaisesFacts DEF MarkFailed
<1>7. faults \in Nat /\ faults' \in Nat /\ faults' >= faults
  BY <1>6 DEF TypeOK
<1>8. \A v \in Worker : worker'[v].ok = worker[v].ok
  BY <1>2, <1>4
<1>9. TypeOK'
  BY <1>2, <1>3, <1>5, <1>6 DEF TypeOK
<1>10. Exclusive'
  BY <1>4, <1>5 DEF PInv, Exclusive
<1>11. SessionsWellFormed'
  <2>1. old.dead = Nothing
    BY <1>1 DEF PInv, SessionsWellFormed
  <2>2. /\ s.todo \cap s.ok = {} /\ s.todo \cap s.failed = {} /\ s.ok \cap s.failed = {}
        /\ s.phase = "dlq" <=> s.dead # Nothing
        /\ s.phase # "idle"
    BY <1>1, <1>2, <2>1, PublisherAssumption DEF PInv, SessionsWellFormed
  <2>3. QED
    BY <1>4, <2>2 DEF PInv, SessionsWellFormed
<1>12. PublishedIsInStream'
  <2>1. \A f \in Event : stream[f] > 0 => stream'[f] > 0
    BY <1>6 DEF TypeOK
  <2>2. \A v \in Worker : worker[v].ok \subseteq Event
    BY DEF TypeOK, WorkerState
  <2>3. QED
    BY <1>5, <1>8, <2>1, <2>2 DEF PInv, PublishedIsInStream
<1>13. RetriesPaid'
  <2>1. \A f \in Event : retries[f] \in Nat
    BY PublisherAssumption DEF TypeOK
  <2>2. \A f \in Event :
            /\ status[f] \in {"ABSENT", "PENDING"} => retries[f] < MaxRetries
            /\ status[f] = "FAILED" => retries[f] = MaxRetries
            /\ f \notin Poison => retries[f] <= faults'
    BY <1>7, <2>1 DEF PInv, RetriesPaid
  <2>3. \A v \in Worker : \A f \in worker'[v].failed \ Poison : retries[f] < faults'
    <3>1. ASSUME NEW v \in Worker, NEW f \in worker[v].failed \ Poison
          PROVE  retries[f] < faults'
      <4>1. f \in Event
        BY DEF TypeOK, WorkerState
      <4>2. QED
        BY <1>7, <2>1, <3>1, <4>1 DEF PInv, RetriesPaid
    <3>2. e \notin Poison => retries[e] < faults'
      BY <1>6, <1>7, <2>1 DEF PInv, RetriesPaid
    <3>3. ASSUME NEW v \in Worker, NEW f \in worker'[v].failed \ Poison
          PROVE  f \in worker[v].failed \/ f = e
      BY <1>2, <1>4
    <3>4. QED
      BY <3>1, <3>2, <3>3
  <2>4. QED
    BY <1>5, <2>2, <2>3 DEF RetriesPaid
<1>14. CopiesPaid'
  <2> SUFFICES ASSUME rowModel = "takes_limit", NEW f \in Event
               PROVE  \/ stream'[f] <= faults'
                      \/ /\ stream'[f] = faults' + 1
                         /\ status[f] = "PUBLISHED" \/ \E v \in Worker : f \in worker[v].ok
    BY <1>5, <1>8 DEF CopiesPaid
  <2>1. stream[f] \in Nat /\ stream'[f] \in Nat
    BY <1>6 DEF TypeOK
  <2>2. CASE e \in Poison
    BY <1>6, <2>2 DEF PInv, CopiesPaid
  <2>3. CASE e \notin Poison /\ f # e
    <3>1. stream'[f] = stream[f]
      BY <1>6, <2>3, CopiedFacts
    <3>2. faults' = faults + 1
      BY <1>6, <2>3
    <3>3. QED
      BY <1>7, <2>1, <3>1, <3>2 DEF PInv, CopiesPaid
  <2>4. CASE e \notin Poison /\ f = e
    <3>1. status[e] = "PENDING"
      BY <1>1 DEF PInv, Exclusive, Batch
    <3>2. \A v \in Worker : e \notin worker[v].ok
      <4>1. e \notin worker[w].ok
        BY <1>1 DEF PInv, SessionsWellFormed
      <4>2. \A v \in Worker : v # w => e \notin Batch(v)
        BY <1>1 DEF PInv, Exclusive, Batch
      <4>3. QED
        BY <4>1, <4>2 DEF Batch
    <3>3. stream[e] <= faults
      BY <2>4, <3>1, <3>2 DEF PInv, CopiesPaid
    <3>4. stream'[e] <= stream[e] + 1
      BY <1>6, <2>1, <2>4, CopiedFacts
    <3>5. QED
      BY <1>6, <1>7, <2>1, <2>4, <3>3, <3>4
  <2>5. QED
    BY <2>2, <2>3, <2>4
<1>15. QED
  BY <1>9, <1>10, <1>11, <1>12, <1>13, <1>14 DEF PInv

\* A row that cannot take the limit: the whole batch is rolled back.
LEMMA MarkFailedRaisesStep ==
    ASSUME TypeOK, PInv, NEW w \in Worker, NEW e \in Event, MarkFailedRaises(w, e)
    PROVE  TypeOK' /\ PInv'
<1>1. worker[w].running \in BOOLEAN
  BY DEF TypeOK, WorkerState
<1>2. worker' = [worker EXCEPT ![w] = Idle(worker[w].running)]
  BY DEF MarkFailedRaises, Rollback
<1>3. /\ stream' \in [Event -> 0..MaxCopies] /\ faults' \in 0..MaxFaults
      /\ faults' >= faults /\ \A f \in Event : stream'[f] >= stream[f]
  BY RaisesFacts DEF MarkFailedRaises, TypeOK
<1>4. rowModel # "takes_limit" /\ UNCHANGED <<rows, deadLetters, rowModel>>
  BY DEF MarkFailedRaises
<1>5. QED
  BY <1>1, <1>2, <1>3, <1>4, ReleaseStep

\* Telling dlq.events, or failing to: only the worker's position changes.
LEMMA DeadLetterStep ==
    ASSUME TypeOK, PInv, NEW w \in Worker, PublishDeadLetter(w) \/ DeadLetterRaises(w)
    PROVE  TypeOK' /\ PInv'
<1> DEFINE old == worker[w]
           s == [old EXCEPT !.phase = "batch", !.dead = Nothing]
<1>1. old \in WorkerState /\ old.phase = "dlq" /\ old.dead \in Event
  BY DEF TypeOK, PublishDeadLetter, DeadLetterRaises, WorkerState, PInv, SessionsWellFormed
<1>2. /\ s \in WorkerState
      /\ s.todo = old.todo /\ s.failed = old.failed /\ s.ok = old.ok
      /\ s.phase = "batch" /\ s.dead = Nothing
  BY <1>1 DEF WorkerState
<1>3. worker' = [worker EXCEPT ![w] = s]
  BY DEF PublishDeadLetter, DeadLetterRaises, TypeOK
<1>4. /\ \A v \in Worker : v # w => worker'[v] = worker[v]
      /\ worker'[w] = s
      /\ \A v \in Worker : /\ worker'[v].todo = worker[v].todo
                           /\ worker'[v].ok = worker[v].ok
                           /\ worker'[v].failed = worker[v].failed
                           /\ Batch(v)' = Batch(v)
  BY <1>2, <1>3 DEF TypeOK, Batch
<1>5. UNCHANGED <<status, retries, stream, rowModel>> /\ deadLetters' \subseteq Event
  BY <1>1 DEF PublishDeadLetter, DeadLetterRaises, rows, TypeOK
<1>6. faults \in Nat /\ faults' \in 0..MaxFaults /\ (faults' = faults \/ faults' = faults + 1)
  BY PublisherAssumption DEF PublishDeadLetter, DeadLetterRaises, Fault, TypeOK
<1>7. TypeOK'
  BY <1>2, <1>3, <1>5, <1>6 DEF TypeOK
<1>8. Exclusive' /\ PublishedIsInStream'
  BY <1>4, <1>5 DEF PInv, Exclusive, PublishedIsInStream
<1>9. SessionsWellFormed'
  <2>1. /\ s.todo \cap s.ok = {} /\ s.todo \cap s.failed = {} /\ s.ok \cap s.failed = {}
        /\ s.phase = "dlq" <=> s.dead # Nothing
        /\ s.phase # "idle"
    BY <1>2 DEF PInv, SessionsWellFormed
  <2>2. QED
    BY <1>4, <2>1 DEF PInv, SessionsWellFormed
<1>10. RetriesPaid'
  <2>1. \A f \in Event : retries[f] \in Nat
    BY PublisherAssumption DEF TypeOK
  <2>2. \A v \in Worker : worker[v].failed \subseteq Event
    BY DEF TypeOK, WorkerState
  <2>3. QED
    BY <1>4, <1>5, <1>6, <2>1, <2>2 DEF PInv, RetriesPaid
<1>11. CopiesPaid'
  <2>1. \A f \in Event : stream[f] \in Nat
    BY DEF TypeOK
  <2>2. QED
    BY <1>4, <1>5, <1>6, <2>1 DEF PInv, CopiesPaid
<1>12. QED
  BY <1>7, <1>8, <1>9, <1>10, <1>11 DEF PInv

\* The commit of a batch: what was marked as published is in the stream, and
\* what is closed as failed used its retries up.
LEMMA CommitStep ==
    ASSUME TypeOK, PInv, NEW w \in Worker, Commit(w)
    PROVE  TypeOK' /\ PInv'
<1> DEFINE old == worker[w]
<1>1. old \in WorkerState /\ old.running \in BOOLEAN
  BY DEF TypeOK, WorkerState
<1>2. /\ \A v \in Worker : v # w => worker'[v] = worker[v]
      /\ worker'[w] = Idle(old.running)
      /\ worker' \in [Worker -> WorkerState]
  BY <1>1, IdleFacts DEF Commit, TypeOK
<1>3. /\ Batch(w)' = {}
      /\ \A v \in Worker : v # w => Batch(v)' = Batch(v)
  BY <1>1, <1>2, IdleFacts DEF Batch
<1>4. UNCHANGED <<stream, deadLetters, rowModel, faults>>
  BY DEF Commit
<1>5. \A e \in Event :
          /\ e \in old.ok => status'[e] = "PUBLISHED" /\ retries'[e] = retries[e]
          /\ e \in old.failed =>
                /\ status[e] = "PENDING" /\ retries'[e] = retries[e] + 1
                /\ status'[e] = IF Exhausted(e) THEN "FAILED" ELSE "PENDING"
          /\ e \notin old.ok \cup old.failed =>
                status'[e] = status[e] /\ retries'[e] = retries[e]
  <2>1. \A e \in old.failed : e \notin old.ok /\ status[e] = "PENDING"
    BY DEF PInv, SessionsWellFormed, Exclusive, Batch
  <2>2. QED
    BY <2>1 DEF Commit
<1>6. \A e \in Event : retries[e] \in Nat /\ retries[e] <= MaxRetries
  BY PublisherAssumption DEF TypeOK
<1>7. \A e \in old.failed : retries[e] < MaxRetries
  BY <1>1, <1>5 DEF PInv, RetriesPaid, WorkerState
<1>8. \A e \in old.failed : Exhausted(e) <=> retries[e] + 1 = MaxRetries
  BY <1>1, <1>6, <1>7, PublisherAssumption DEF Exhausted, WorkerState
<1>9. TypeOK'
  <2>1. status' \in [Event -> Status]
    BY DEF Commit, TypeOK, Status
  <2>2. retries' \in [Event -> 0..MaxRetries]
    BY <1>6, <1>7, PublisherAssumption DEF Commit
  <2>3. QED
    BY <1>2, <1>4, <2>1, <2>2 DEF TypeOK
<1>10. Exclusive'
  <2>1. \A v \in Worker : v # w => Batch(v) \cap Batch(w) = {} /\ Batch(v) \subseteq Event
    BY DEF PInv, Exclusive, TypeOK, WorkerState, Batch
  <2>2. \A v \in Worker : v # w => \A e \in Batch(v) : status'[e] = status[e]
    BY <1>5, <2>1 DEF Batch
  <2>3. QED
    BY <1>3, <2>2 DEF PInv, Exclusive
<1>11. SessionsWellFormed'
  <2>1. /\ Idle(old.running).todo \cap Idle(old.running).ok = {}
        /\ Idle(old.running).todo \cap Idle(old.running).failed = {}
        /\ Idle(old.running).ok \cap Idle(old.running).failed = {}
        /\ Idle(old.running).phase # "dlq"
        /\ Idle(old.running).dead = Nothing
    BY <1>1, IdleFacts
  <2>2. QED
    BY <1>2, <1>3, <2>1 DEF PInv, SessionsWellFormed
<1>12. \A v \in Worker : /\ worker'[v].ok \subseteq worker[v].ok
                         /\ worker'[v].failed \subseteq worker[v].failed
                         /\ worker[v].failed \subseteq Event
                         /\ v # w => worker'[v].failed \cap old.failed = {}
  <2>1. \A v \in Worker : worker[v].failed \subseteq Event
    BY DEF TypeOK, WorkerState
  <2>2. \A v \in Worker : v # w => worker[v].failed \cap old.failed = {}
    BY DEF PInv, Exclusive, Batch
  <2>3. QED
    BY <1>1, <1>2, <2>1, <2>2, IdleFacts
<1>13. PublishedIsInStream'
  BY <1>4, <1>5, <1>12 DEF PInv, PublishedIsInStream
<1>14. RetriesPaid'
  <2>1. ASSUME NEW e \in Event
        PROVE  /\ status'[e] \in {"ABSENT", "PENDING"} => retries'[e] < MaxRetries
               /\ status'[e] = "FAILED" => retries'[e] = MaxRetries
               /\ e \notin Poison => retries'[e] <= faults
    <3>1. CASE e \in old.failed
      <4>1. status'[e] \in {"ABSENT", "PENDING"} => retries'[e] < MaxRetries
        BY <1>5, <1>6, <1>7, <1>8, <3>1, PublisherAssumption
      <4>2. status'[e] = "FAILED" => retries'[e] = MaxRetries
        BY <1>5, <1>8, <3>1
      <4>3. e \notin Poison => retries'[e] <= faults
        <5>1. e \notin Poison => retries[e] < faults
          BY <3>1 DEF PInv, RetriesPaid
        <5>2. faults \in Nat
          BY DEF TypeOK
        <5>3. QED
          BY <1>5, <1>6, <3>1, <5>1, <5>2
      <4>4. QED
        BY <4>1, <4>2, <4>3
    <3>2. CASE e \in old.ok
      BY <1>5, <3>2 DEF PInv, RetriesPaid
    <3>3. CASE e \notin old.ok \cup old.failed
      BY <1>5, <3>3 DEF PInv, RetriesPaid
    <3>4. QED
      BY <3>1, <3>2, <3>3
  <2>2. ASSUME NEW v \in Worker, NEW e \in worker'[v].failed \ Poison
        PROVE  retries'[e] < faults
    <3>1. v # w
      BY <1>1, <1>2, <2>2, IdleFacts
    <3>2. e \in Event /\ e \in worker[v].failed /\ e \notin old.failed
      BY <1>12, <3>1
    <3>3. retries'[e] = retries[e]
      BY <1>5, <3>2
    <3>4. QED
      BY <3>2, <3>3 DEF PInv, RetriesPaid
  <2>3. QED
    BY <1>4, <2>1, <2>2 DEF RetriesPaid
<1>15. CopiesPaid'
  <2> SUFFICES ASSUME rowModel = "takes_limit", NEW e \in Event,
                      ~(stream[e] <= faults)
               PROVE  /\ stream[e] = faults + 1
                      /\ status'[e] = "PUBLISHED" \/ \E v \in Worker : e \in worker'[v].ok
    BY <1>4 DEF CopiesPaid
  <2>1. stream[e] = faults + 1
    BY DEF PInv, CopiesPaid
  <2>2. CASE status[e] = "PUBLISHED"
    BY <1>5, <2>1, <2>2
  <2>3. CASE e \in old.ok
    BY <1>5, <2>1, <2>3
  <2>4. CASE \E v \in Worker \ {w} : e \in worker[v].ok
    BY <1>2, <2>1, <2>4
  <2>5. QED
    BY <2>2, <2>3, <2>4 DEF PInv, CopiesPaid
<1>16. QED
  BY <1>9, <1>10, <1>11, <1>13, <1>14, <1>15 DEF PInv

\* A worker starts, fails to commit or dies.
LEMMA LetGoStep ==
    ASSUME TypeOK, PInv, NEW w \in Worker, Start(w) \/ CommitFails(w) \/ Crash(w)
    PROVE  TypeOK' /\ PInv'
<1>1. PICK b \in BOOLEAN : worker' = [worker EXCEPT ![w] = Idle(b)]
  BY DEF Start, CommitFails, Rollback, Crash, TypeOK, WorkerState
<1>2. UNCHANGED <<rows, deadLetters, rowModel, stream>>
  BY DEF Start, CommitFails, Crash
<1>3. /\ faults' \in 0..MaxFaults /\ faults' >= faults
      /\ worker[w].ok = {} \/ faults' = faults + 1
  <2>1. CASE Start(w)
    <3>1. worker[w].ok = {}
      BY <2>1, IdleFacts DEF Start
    <3>2. faults' = faults
      BY <2>1 DEF Start
    <3>3. QED
      BY <3>1, <3>2, PublisherAssumption DEF TypeOK
  <2>2. CASE Fault
    BY <2>2, PublisherAssumption DEF Fault, TypeOK
  <2>3. QED
    BY <2>1, <2>2 DEF CommitFails, Crash
<1>4. stream' \in [Event -> 0..MaxCopies] /\ \A e \in Event : stream'[e] >= stream[e]
  BY <1>2 DEF TypeOK
<1>5. QED
  BY <1>1, <1>2, <1>3, <1>4, ReleaseStep

\* No step of a service or a worker breaks the types or the invariant.
LEMMA NextInductive == TypeOK /\ PInv /\ [Next]_vars => TypeOK' /\ PInv'
<1> SUFFICES ASSUME TypeOK, PInv, [Next]_vars PROVE TypeOK' /\ PInv'
  OBVIOUS
<1>1. CASE UNCHANGED vars
  BY <1>1 DEF vars, rows, TypeOK, PInv, Exclusive, SessionsWellFormed, Batch,
              PublishedIsInStream, RetriesPaid, CopiesPaid
<1>2. ASSUME NEW e \in Event, Stage(e) PROVE TypeOK' /\ PInv'
  BY <1>2, StageStep
<1>3. ASSUME NEW w \in Worker, Work(w) PROVE TypeOK' /\ PInv'
  <2>1. ASSUME NEW e \in Event, Publish(w, e) \/ MarkFailed(w, e) \/ MarkFailedRaises(w, e)
        PROVE  TypeOK' /\ PInv'
    BY <2>1, PublishStep, MarkFailedStep, MarkFailedRaisesStep
  <2>2. CASE Poll(w) \/ Commit(w)
    BY <2>2, PollStep, CommitStep
  <2>3. CASE PublishDeadLetter(w) \/ DeadLetterRaises(w)
    BY <2>3, DeadLetterStep
  <2>4. CASE CommitFails(w)
    BY <2>4, LetGoStep
  <2>5. QED
    BY <1>3, <2>1, <2>2, <2>3, <2>4 DEF Work
<1>4. ASSUME NEW w \in Worker, Start(w) \/ Stop(w) \/ Crash(w) PROVE TypeOK' /\ PInv'
  BY <1>4, LetGoStep, StopStep
<1>5. QED
  BY <1>1, <1>2, <1>3, <1>4 DEF Next

\* The types and the inductive invariant hold in every reachable state.
THEOREM Inductive == Spec => [](TypeOK /\ PInv)
<1>1. Init => TypeOK /\ PInv
  BY InitInductive
<1>2. TypeOK /\ PInv /\ [Next]_vars => TypeOK' /\ PInv'
  BY NextInductive
<1>3. QED
  BY <1>1, <1>2, PTL DEF Spec

\* Every reachable state is well typed: no row is retried beyond its limit.
THEOREM TypeCorrect == Spec => []TypeOK
BY Inductive, PTL

\* Concurrent publishers never hold the same row.
THEOREM ExclusiveCorrect == Spec => []Exclusive
<1>1. TypeOK /\ PInv => Exclusive
  BY DEF PInv
<1>2. QED
  BY <1>1, Inductive, PTL

\* A row that can be published is never given up for less than MaxRetries faults.
THEOREM GivenUpCorrect == Spec => []GivenUpJustly
<1>1. TypeOK /\ PInv => GivenUpJustly
  <2> SUFFICES ASSUME TypeOK, PInv, NEW e \in Event \ Poison, status[e] = "FAILED"
               PROVE  faults >= MaxRetries
    BY DEF GivenUpJustly
  <2>1. retries[e] = MaxRetries /\ retries[e] <= faults
    BY DEF PInv, RetriesPaid
  <2>2. QED
    BY <2>1, PublisherAssumption DEF TypeOK
<1>2. QED
  BY <1>1, Inductive, PTL

\* Every duplicate in the stream is paid for by a fault.
THEOREM CopiesCorrect == Spec => []CopiesNeedFaults
<1>1. TypeOK /\ PInv => CopiesNeedFaults
  <2> SUFFICES ASSUME TypeOK, PInv, rowModel = "takes_limit", NEW e \in Event
               PROVE  stream[e] <= 1 + faults
    BY DEF CopiesNeedFaults
  <2>1. stream[e] <= faults \/ stream[e] = faults + 1
    BY DEF PInv, CopiesPaid
  <2>2. stream[e] \in Nat /\ faults \in Nat
    BY DEF TypeOK
  <2>3. QED
    BY <2>1, <2>2
<1>2. QED
  BY <1>1, Inductive, PTL

-----------------------------------------------------------------------------
(***************************************************************************)
(* Refinement: every step of the publisher is a step of ReliableDelivery,  *)
(* or changes nothing that specification can see.                          *)
(***************************************************************************)

\* One more copy of a row that is PENDING is a Send, or is not counted.
LEMMA CopySends ==
    ASSUME TypeOK, NEW e \in Event, status[e] = "PENDING", status' = status,
           stream' = stream \/ stream' = Copied(e)
    PROVE  [Abstract!Next]_<<status, stream>>
<1>1. CASE stream' = stream
  BY <1>1
<1>2. CASE stream' = Copied(e) /\ stream' # stream
  <2>1. stream' = [stream EXCEPT ![e] = stream[e] + 1]
    BY <1>2 DEF Copied, TypeOK
  <2>2. Abstract!Send(e)
    BY <2>1 DEF Abstract!Send, Abstract!Pending
  <2>3. QED
    BY <2>2 DEF Abstract!Next
<1>3. QED
  BY <1>1, <1>2

\* A commit closes the rows its session had marked.
LEMMA CommitCloses ==
    ASSUME TypeOK, PInv, NEW w \in Worker, Commit(w)
    PROVE  [Abstract!Next]_<<status, stream>>
<1> DEFINE published == worker[w].ok
           failed == {e \in worker[w].failed : Exhausted(e)}
<1>1. published \subseteq Event /\ failed \subseteq Event
  BY DEF TypeOK, WorkerState
<1>2. published \subseteq {e \in Abstract!Pending : stream[e] > 0}
  BY <1>1 DEF PInv, Exclusive, Batch, PublishedIsInStream, Abstract!Pending
<1>3. failed \subseteq Abstract!Pending \ published
  BY <1>1 DEF PInv, Exclusive, Batch, SessionsWellFormed, Abstract!Pending
<1>4. /\ status' = [e \in Event |-> IF e \in published THEN "PUBLISHED"
                                    ELSE IF e \in failed THEN "FAILED" ELSE status[e]]
      /\ stream' = stream
  BY DEF Commit
<1>5. Abstract!Close(published, failed)
  BY <1>2, <1>3, <1>4 DEF Abstract!Close
<1>6. QED
  BY <1>1, <1>5 DEF Abstract!Next

\* Every step maps to a step of the abstract specification or to a stutter.
LEMMA StepRefines ==
    TypeOK /\ PInv /\ [Next]_vars => [Abstract!Next]_<<status, stream>>
<1> SUFFICES ASSUME TypeOK, PInv, [Next]_vars
             PROVE  [Abstract!Next]_<<status, stream>>
  OBVIOUS
<1>1. CASE UNCHANGED vars
  BY <1>1 DEF vars, rows
<1>2. ASSUME NEW e \in Event, Stage(e) PROVE [Abstract!Next]_<<status, stream>>
  <2>1. Abstract!Accept(e)
    BY <1>2 DEF Stage, Abstract!Accept
  <2>2. QED
    BY <2>1 DEF Abstract!Next
<1>3. ASSUME NEW w \in Worker, Work(w) PROVE [Abstract!Next]_<<status, stream>>
  <2>1. ASSUME NEW e \in Event, Publish(w, e) \/ MarkFailed(w, e) \/ MarkFailedRaises(w, e)
        PROVE  [Abstract!Next]_<<status, stream>>
    <3>1. status[e] = "PENDING"
      <4>1. e \in Batch(w)
        BY <2>1 DEF Publish, MarkFailed, MarkFailedRaises, Turn, Batch
      <4>2. QED
        BY <4>1 DEF PInv, Exclusive
    <3>2. status' = status /\ (stream' = stream \/ stream' = Copied(e))
      BY <2>1 DEF Publish, MarkFailed, MarkFailedRaises, PublishRaises, rows
    <3>3. QED
      BY <3>1, <3>2, CopySends
  <2>2. CASE Poll(w) \/ PublishDeadLetter(w) \/ DeadLetterRaises(w) \/ CommitFails(w)
    BY <2>2 DEF Poll, PublishDeadLetter, DeadLetterRaises, CommitFails, rows
  <2>3. CASE Commit(w)
    BY <2>3, CommitCloses
  <2>4. QED
    BY <1>3, <2>1, <2>2, <2>3 DEF Work
<1>4. ASSUME NEW w \in Worker, Start(w) \/ Stop(w) \/ Crash(w)
      PROVE  [Abstract!Next]_<<status, stream>>
  BY <1>4 DEF Start, Stop, Crash, rows
<1>5. QED
  BY <1>1, <1>2, <1>3, <1>4 DEF Next

\* The publisher, with any number of workers and faults, delivers what the
\* transactional outbox promises.
THEOREM Refinement == Spec => Delivers
<1>1. Init => Abstract!Init
  BY DEF Init, Abstract!Init
<1>2. TypeOK /\ PInv /\ [Next]_vars => [Abstract!Next]_<<status, stream>>
  BY StepRefines
<1>3. QED
  BY <1>1, <1>2, Inductive, PTL DEF Spec, Delivers, Abstract!Spec, Abstract!evs
=============================================================================
