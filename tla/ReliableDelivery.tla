-------------------------- MODULE ReliableDelivery --------------------------
(***************************************************************************)
(* What the transactional outbox promises the rest of the platform about   *)
(* the events it is handed: an event is sent while it is pending and only  *)
(* then, possibly more than once; it is closed as PUBLISHED only after it  *)
(* was sent, or closed as FAILED; a closed event stays closed.  Workers,   *)
(* batches, locks and transactions are absent.                             *)
(***************************************************************************)
EXTENDS Naturals

CONSTANT Event

VARIABLES state,  \* of each event
          sent    \* how often it is known to be in the stream

evs == <<state, sent>>

Pending == {e \in Event : state[e] = "PENDING"}

Init ==
    /\ state = [e \in Event |-> "ABSENT"]
    /\ sent = [e \in Event |-> 0]

Accept(e) ==
    /\ state[e] = "ABSENT"
    /\ state' = [state EXCEPT ![e] = "PENDING"]
    /\ UNCHANGED sent

Send(e) ==
    /\ e \in Pending
    /\ sent' = [sent EXCEPT ![e] = @ + 1]
    /\ UNCHANGED state

\* Several events are closed by one commit.
Close(published, failed) ==
    /\ published \subseteq {e \in Pending : sent[e] > 0}
    /\ failed \subseteq Pending \ published
    /\ state' = [e \in Event |-> IF e \in published THEN "PUBLISHED"
                                ELSE IF e \in failed THEN "FAILED" ELSE state[e]]
    /\ UNCHANGED sent

Next ==
    \/ \E e \in Event : Accept(e) \/ Send(e)
    \/ \E published, failed \in SUBSET Event : Close(published, failed)

Spec == Init /\ [][Next]_evs
=============================================================================
