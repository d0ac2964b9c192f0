-------------------------- MODULE OutboxPublisher --------------------------
(***************************************************************************)
(* The background workers that move outbox rows to NATS JetStream.  A      *)
(* worker opens a transaction, locks a batch of PENDING rows that no other *)
(* worker has locked, publishes them one by one (each publish is awaited,  *)
(* so other workers and the services that stage rows run in between),      *)
(* marks every row in its session and commits once at the end.             *)
(*                                                                         *)
(* Rows are numbered by created_at, which a service takes before its own   *)
(* commit: rows may become visible in another order.  Every publish has a  *)
(* Nats-Msg-Id of its own, so the stream keeps every copy it is sent.      *)
(***************************************************************************)
EXTENDS Naturals, FiniteSets

CONSTANTS
    Event,       \* outbox rows, numbered in the order of created_at
    Worker,      \* publishers, one per process of the service
    Poison,      \* rows that no publish can succeed for
    BatchSize,   \* batch_size
    MaxRetries,  \* MAX_OUTBOX_RETRIES, and the column max_retries
    RowModels,   \* which row classes the publisher may be constructed with
    MaxFaults,   \* bound: faults in a behaviour
    MaxCopies,   \* bound: copies of a row counted in the stream
    Nothing

ASSUME PublisherAssumption ==
    /\ Event \subseteq Nat
    /\ Poison \subseteq Event
    /\ BatchSize \in Nat \ {0}
    /\ MaxRetries \in Nat \ {0}
    /\ RowModels \subseteq {"takes_limit", "no_limit"}
    /\ MaxFaults \in Nat
    /\ MaxCopies \in Nat \ {0}
    /\ Nothing \notin Event

VARIABLES
    status,       \* outbox_events.status
    retries,      \* outbox_events.retry_count
    stream,       \* copies of each row that the JetStream stream holds
    deadLetters,  \* rows with a message on dlq.events
    worker,       \* per worker: its loop and the batch of its session
    rowModel,     \* the class of the rows: whether mark_failed takes max_retries
    faults        \* faults so far

rows == <<status, retries>>
vars == <<rows, stream, deadLetters, worker, rowModel, faults>>

Status == {"ABSENT", "PENDING", "PUBLISHED", "FAILED"}

WorkerState ==
    [running : BOOLEAN,                        \* _is_running
     phase   : {"idle", "batch", "dlq"},
     todo    : SUBSET Event,                   \* locked, not tried yet
     ok      : SUBSET Event,                   \* mark_processed called
     failed  : SUBSET Event,                   \* mark_failed called
     dead    : Event \cup {Nothing}]           \* about to go to dlq.events

Idle(running) == [running |-> running, phase |-> "idle", todo |-> {},
                  ok |-> {}, failed |-> {}, dead |-> Nothing]

Batch(w) == worker[w].todo \cup worker[w].ok \cup worker[w].failed
Locked   == UNION {Batch(w) : w \in Worker}

Init ==
    /\ status = [e \in Event |-> "ABSENT"]
    /\ retries = [e \in Event |-> 0]
    /\ stream = [e \in Event |-> 0]
    /\ deadLetters = {}
    /\ worker = [w \in Worker |-> Idle(FALSE)]
    /\ rowModel \in RowModels
    /\ faults = 0

\* A fault is something the program did not cause; a behaviour has finitely many.
Fault == faults < MaxFaults /\ faults' = faults + 1

Copied(e) == [stream EXCEPT ![e] = IF @ < MaxCopies THEN @ + 1 ELSE @]

\* A service commits a row with its own change.
Stage(e) ==
    /\ status[e] = "ABSENT"
    /\ status' = [status EXCEPT ![e] = "PENDING"]
    /\ UNCHANGED <<retries, stream, deadLetters, worker, rowModel, faults>>

-----------------------------------------------------------------------------
Start(w) ==
    /\ worker[w] = Idle(FALSE)
    /\ worker' = [worker EXCEPT ![w] = Idle(TRUE)]
    /\ UNCHANGED <<rows, stream, deadLetters, rowModel, faults>>

\* The loop ends after the batch it is in.
Stop(w) ==
    /\ worker[w].running
    /\ worker' = [worker EXCEPT ![w].running = FALSE]
    /\ UNCHANGED <<rows, stream, deadLetters, rowModel, faults>>

First(n, S) == {e \in S : Cardinality({f \in S : f < e}) < n}

\* Mutant: the SELECT takes no locks and sees none.
AnyPending == {e \in Event : status[e] = "PENDING"}

\* Rows another session has locked are skipped.
Unlocked == {e \in Event : status[e] = "PENDING"} \ Locked

Poll(w) ==
    /\ worker[w] = Idle(TRUE)
    /\ Unlocked # {}
    /\ worker' = [worker EXCEPT ![w].phase = "batch",
                                ![w].todo = First(BatchSize, Unlocked)]
    /\ UNCHANGED <<rows, stream, deadLetters, rowModel, faults>>

\* The rows of a batch are taken in the order of created_at.
Turn(w, e) ==
    /\ worker[w].phase = "batch"
    /\ e \in worker[w].todo
    /\ \A f \in worker[w].todo : e <= f

Publish(w, e) ==
    /\ Turn(w, e)
    /\ e \notin Poison
    /\ stream' = Copied(e)
    /\ worker' = [worker EXCEPT ![w].todo = @ \ {e}, ![w].ok = @ \cup {e}]
    /\ UNCHANGED <<rows, deadLetters, rowModel, faults>>

\* publish raises: for ever, or because of a fault; when only the ack was lost
\* the stream holds the message all the same.
PublishRaises(e) ==
    \/ e \in Poison /\ UNCHANGED <<stream, faults>>
    \/ e \notin Poison /\ Fault /\ stream' \in {stream, Copied(e)}

\* Mutants: a row is given up one failure too early, or too late.
ExhaustedEarly(e) == retries[e] + 2 >= MaxRetries
ExhaustedLate(e)  == retries[e] >= MaxRetries

Exhausted(e) == retries[e] + 1 >= MaxRetries

MarkFailed(w, e) ==
    /\ rowModel = "takes_limit"
    /\ Turn(w, e)
    /\ PublishRaises(e)
    /\ worker' = [worker EXCEPT ![w].todo   = @ \ {e},
                                ![w].failed = @ \cup {e},
                                ![w].phase  = IF Exhausted(e) THEN "dlq" ELSE @,
                                ![w].dead   = IF Exhausted(e) THEN e ELSE @]
    /\ UNCHANGED <<rows, deadLetters, rowModel>>

\* Releases the locks; what was marked in the session is forgotten.
Rollback(w) == worker' = [worker EXCEPT ![w] = Idle(@.running)]

\* The row's mark_failed has no max_retries parameter: the call raises
\* TypeError, which only the handler around the whole batch catches.
MarkFailedRaises(w, e) ==
    /\ rowModel = "no_limit"
    /\ Turn(w, e)
    /\ PublishRaises(e)
    /\ Rollback(w)
    /\ UNCHANGED <<rows, deadLetters, rowModel>>

PublishDeadLetter(w) ==
    /\ worker[w].phase = "dlq"
    /\ deadLetters' = deadLetters \cup {worker[w].dead}
    /\ worker' = [worker EXCEPT ![w].phase = "batch", ![w].dead = Nothing]
    /\ UNCHANGED <<rows, stream, rowModel, faults>>

\* An error of the publish to dlq.events is logged and swallowed.
DeadLetterRaises(w) ==
    /\ worker[w].phase = "dlq"
    /\ Fault
    /\ worker' = [worker EXCEPT ![w].phase = "batch", ![w].dead = Nothing]
    /\ UNCHANGED <<rows, stream, deadLetters, rowModel>>

Done(w) == worker[w].phase = "batch" /\ worker[w].todo = {}

\* Mutants: a failed row is committed as published, or not written at all.
CommitAll(w) ==
    /\ Done(w)
    /\ status' = [e \in Event |-> IF e \in Batch(w) THEN "PUBLISHED" ELSE status[e]]
    /\ Rollback(w)
    /\ UNCHANGED <<retries, stream, deadLetters, rowModel, faults>>

CommitPublished(w) ==
    /\ Done(w)
    /\ status' = [e \in Event |-> IF e \in worker[w].ok THEN "PUBLISHED" ELSE status[e]]
    /\ Rollback(w)
    /\ UNCHANGED <<retries, stream, deadLetters, rowModel, faults>>

Commit(w) ==
    /\ Done(w)
    /\ status' = [e \in Event |->
         IF e \in worker[w].ok THEN "PUBLISHED"
         ELSE IF e \in worker[w].failed /\ Exhausted(e) THEN "FAILED" ELSE status[e]]
    /\ retries' = [e \in Event |->
         IF e \in worker[w].failed THEN retries[e] + 1 ELSE retries[e]]
    /\ worker' = [worker EXCEPT ![w] = Idle(@.running)]
    /\ UNCHANGED <<stream, deadLetters, rowModel, faults>>

CommitFails(w) ==
    /\ Done(w)
    /\ Fault
    /\ Rollback(w)
    /\ UNCHANGED <<rows, stream, deadLetters, rowModel>>

\* The process is killed, or its task cancelled, wherever it is.
Crash(w) ==
    /\ worker[w] # Idle(FALSE)
    /\ Fault
    /\ worker' = [worker EXCEPT ![w] = Idle(FALSE)]
    /\ UNCHANGED <<rows, stream, deadLetters, rowModel>>

-----------------------------------------------------------------------------
\* What the loop does by itself.
Work(w) ==
    \/ Poll(w)
    \/ \E e \in Event : Publish(w, e) \/ MarkFailed(w, e) \/ MarkFailedRaises(w, e)
    \/ PublishDeadLetter(w) \/ DeadLetterRaises(w)
    \/ Commit(w) \/ CommitFails(w)

Next ==
    \/ \E e \in Event : Stage(e)
    \/ \E w \in Worker : Start(w) \/ Stop(w) \/ Work(w) \/ Crash(w)

Spec == Init /\ [][Next]_vars

\* The event loop of a live process runs its publisher task; nobody has to
\* start a worker, and a dead one need not come back.
FairSpec == Spec /\ \A w \in Worker : WF_vars(Work(w))

-----------------------------------------------------------------------------
\* Every variable has its type.
TypeOK ==
    /\ status \in [Event -> Status]
    /\ retries \in [Event -> 0..MaxRetries]
    /\ stream \in [Event -> 0..MaxCopies]
    /\ deadLetters \subseteq Event
    /\ worker \in [Worker -> WorkerState]
    /\ rowModel \in RowModels
    /\ faults \in 0..MaxFaults

\* While a worker holds a row no other worker holds it, and the row is PENDING:
\* the SELECT ... FOR UPDATE SKIP LOCKED of concurrent publishers.
Exclusive ==
    /\ \A w \in Worker : \A e \in Batch(w) : status[e] = "PENDING"
    /\ \A v, w \in Worker : v # w => Batch(v) \cap Batch(w) = {}

\* A row that can be published is given up only after MaxRetries faults.
GivenUpJustly ==
    \A e \in Event \ Poison : status[e] = "FAILED" => faults >= MaxRetries

\* Without faults no row is published twice, however many workers poll and
\* however often they are stopped and started.
CopiesNeedFaults ==
    rowModel = "takes_limit" =>
        \A e \in Event : stream[e] <= 1 + faults

-----------------------------------------------------------------------------
(***************************************************************************)
(* The inductive form of these invariants: what a worker holds in its      *)
(* session, against what the table, the stream and the faults say.         *)
(***************************************************************************)

SessionsWellFormed ==
    \A w \in Worker :
        /\ worker[w].phase = "idle" => Batch(w) = {}
        /\ worker[w].phase = "dlq" <=> worker[w].dead # Nothing
        /\ worker[w].todo \cap worker[w].ok = {}
        /\ worker[w].todo \cap worker[w].failed = {}
        /\ worker[w].ok \cap worker[w].failed = {}

\* A row is marked, and later stored, as published only once it is in the stream.
PublishedIsInStream ==
    /\ \A e \in Event : status[e] = "PUBLISHED" => stream[e] > 0
    /\ \A w \in Worker : \A e \in worker[w].ok : stream[e] > 0

\* Failures of a row that can be published are paid for by faults, and only a
\* row that used up its retries is closed as FAILED.
RetriesPaid ==
    /\ \A e \in Event :
          /\ status[e] \in {"ABSENT", "PENDING"} => retries[e] < MaxRetries
          /\ status[e] = "FAILED" => retries[e] = MaxRetries
          /\ e \notin Poison => retries[e] <= faults
    /\ \A w \in Worker : \A e \in worker[w].failed \ Poison : retries[e] < faults

\* A copy beyond the first, or the first of a row that is not marked as
\* published, is paid for by a fault.
CopiesPaid ==
    rowModel = "takes_limit" =>
        \A e \in Event :
            \/ stream[e] <= faults
            \/ /\ stream[e] = faults + 1
               /\ status[e] = "PUBLISHED" \/ \E w \in Worker : e \in worker[w].ok

PInv == Exclusive /\ SessionsWellFormed /\ PublishedIsInStream
        /\ RetriesPaid /\ CopiesPaid

Abstract == INSTANCE ReliableDelivery WITH state <- status, sent <- stream

\* The publisher implements the promise of the outbox: a row is sent only while
\* it is PENDING, PUBLISHED only when the stream holds it, and closed for good.
Delivers == Abstract!Spec

SomeWorkerStays == \E w \in Worker : <>[]worker[w].running

\* As long as one worker stays up every committed row is closed: no row waits
\* for ever behind rows that cannot be published.
RowsSettle ==
    SomeWorkerStays =>
        \A e \in Event : [](status[e] = "PENDING" /\ rowModel = "takes_limit"
                            => <>(status[e] \in {"PUBLISHED", "FAILED"}))

\* The same, whatever class the rows are of.
AnyRowSettles ==
    SomeWorkerStays =>
        \A e \in Event : [](status[e] = "PENDING" =>
                            <>(status[e] \in {"PUBLISHED", "FAILED"}))
=============================================================================
