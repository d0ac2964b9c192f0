---------------------------- MODULE NatsConsumer ----------------------------
(***************************************************************************)
(* A durable JetStream consumer as Subscriber.subscribe configures it:     *)
(* explicit acks, ack_wait, at most MaxDeliver deliveries of a message,    *)
(* pushed to one member of the queue group.  nats-py hands a member its    *)
(* messages one after the other; the callback awaits the handler, then     *)
(* sends the ack, which nobody confirms.                                   *)
(*                                                                         *)
(* The server side is modelled from the configuration the code gives it:   *)
(* an ack takes the message off however late it comes; a message not acked *)
(* within ack_wait is delivered again, until its deliveries are used up.   *)
(***************************************************************************)
EXTENDS Naturals, Sequences, FiniteSets

CONSTANTS
    Msg,
    Member,      \* processes that register the listener under the durable name
    Poison,      \* messages whose handler always raises
    MaxDeliver,  \* max_deliver
    MaxFaults    \* bound: faults in a behaviour

VARIABLES
    message,  \* the consumer's state on the server, per message
    member,   \* per process: whether it is subscribed, and what it was handed
    effects,  \* history: how often the handler had its effect
    faults

nats == <<message, member, effects>>

MessageState == [state : {"absent", "ready", "pending", "acked", "exhausted"},
                 count : 0..MaxDeliver]

MemberState == [up      : BOOLEAN,
                inbox   : Seq(Msg),
                handled : BOOLEAN]   \* the handler returned for the first of inbox

Down == [up |-> FALSE, inbox |-> <<>>, handled |-> FALSE]

Init ==
    /\ message = [m \in Msg |-> [state |-> "absent", count |-> 0]]
    /\ member = [c \in Member |-> Down]
    /\ effects = [m \in Msg |-> 0]

Fault == faults < MaxFaults /\ faults' = faults + 1

Publish(m) ==
    /\ message[m].state = "absent"
    /\ message' = [message EXCEPT ![m].state = "ready"]
    /\ UNCHANGED <<member, effects, faults>>

Subscribe(c) ==
    /\ member[c] = Down
    /\ member' = [member EXCEPT ![c].up = TRUE]
    /\ UNCHANGED <<message, effects, faults>>

\* The process ends, orderly or not: what it was handed is lost to it.
Leave(c) ==
    /\ member[c].up
    /\ Fault
    /\ member' = [member EXCEPT ![c] = Down]
    /\ UNCHANGED <<message, effects>>

Deliver(c, m) ==
    /\ member[c].up
    /\ message[m].state = "ready"
    /\ message' = [message EXCEPT ![m].state = "pending", ![m].count = @ + 1]
    /\ member' = [member EXCEPT ![c].inbox = Append(@, m)]
    /\ UNCHANGED <<effects, faults>>

Held(m) == \E c \in Member : \E i \in DOMAIN member[c].inbox : member[c].inbox[i] = m

\* Mutants: one delivery too few, one too many, and no redelivery at all.
AfterAckWaitEarly(m) ==
    IF message[m].count + 1 >= MaxDeliver THEN "exhausted" ELSE "ready"
AfterAckWaitLate(m) == IF message[m].count > MaxDeliver THEN "exhausted" ELSE "ready"
AfterAckWaitOnce(m) == "exhausted"

AfterAckWait(m) == IF message[m].count = MaxDeliver THEN "exhausted" ELSE "ready"

\* ack_wait ends without an ack; while a process still holds the message this
\* takes a handler, or a queue of messages, slower than ack_wait.
AckWaitExpires(m) ==
    /\ message[m].state = "pending"
    /\ IF Held(m) THEN Fault ELSE UNCHANGED faults
    /\ message' = [message EXCEPT ![m].state = AfterAckWait(m)]
    /\ UNCHANGED <<member, effects>>

-----------------------------------------------------------------------------
\* The callback of one process.
Current(c) == Head(member[c].inbox)

Handling(c) == member[c].inbox # <<>> /\ ~member[c].handled

Took(m) == effects' = [effects EXCEPT ![m] = @ + 1]

HandlerReturns(c) ==
    /\ Handling(c)
    /\ Current(c) \notin Poison
    /\ Took(Current(c))
    /\ member' = [member EXCEPT ![c].handled = TRUE]
    /\ UNCHANGED <<message, faults>>

NextMessage(c) ==
    member' = [member EXCEPT ![c].inbox = Tail(@), ![c].handled = FALSE]

\* The except block: "await msg.metadata()" raises TypeError, metadata being a
\* property, before the count is looked at.  The message is neither naked nor
\* dead-lettered; ack_wait runs out.
Except(c) ==
    /\ NextMessage(c)
    /\ UNCHANGED message

\* The handler raises, before or after its effect.
HandlerRaises(c) ==
    /\ Handling(c)
    /\ IF Current(c) \in Poison
       THEN UNCHANGED <<effects, faults>>
       ELSE Fault /\ (UNCHANGED effects \/ Took(Current(c)))
    /\ Except(c)

\* Mutant: the ack is never sent.
SkipAck(m) == UNCHANGED message

TakeOff(m) ==
    message' = [message EXCEPT ![m].state =
                  IF @ \in {"pending", "ready"} THEN "acked" ELSE @]

Ack(c) ==
    /\ member[c].handled
    /\ TakeOff(Current(c))
    /\ NextMessage(c)
    /\ UNCHANGED <<effects, faults>>

\* The ack is lost, or sending it raises.
AckLost(c) ==
    /\ member[c].handled
    /\ Fault
    /\ Except(c)
    /\ UNCHANGED effects

-----------------------------------------------------------------------------
Callback(c) == HandlerReturns(c) \/ HandlerRaises(c) \/ Ack(c) \/ AckLost(c)

Server(m) == AckWaitExpires(m) \/ \E c \in Member : Deliver(c, m)

Next ==
    \/ \E m \in Msg : Publish(m) \/ Server(m)
    \/ \E c \in Member : Subscribe(c) \/ Leave(c) \/ Callback(c)

Spec == Init /\ faults = 0 /\ [][Next]_<<nats, faults>>

-----------------------------------------------------------------------------
\* Every variable has its type.
TypeOK ==
    /\ message \in [Msg -> MessageState]
    /\ member \in [Member -> MemberState]
    /\ effects \in [Msg -> Nat]
    /\ faults \in 0..MaxFaults

\* The consumer is done with a message whose handler never had its effect only
\* after every one of its deliveries met a fault of its own: no ack takes such a
\* message off, and fewer restarts than max_deliver lose nothing.
LossNeedsFaults ==
    \A m \in Msg \ Poison :
        /\ effects[m] = 0 /\ ~Held(m)
        /\ message[m].state \in {"acked", "exhausted"}
        => faults >= MaxDeliver

\* Every effect beyond the first is due to a fault: to a lost ack, a crash
\* between handler and ack, an error after the effect, a slow handler.
RepeatsNeedFaults == \A m \in Msg : effects[m] <= 1 + faults

\* What the server knows of a message agrees with what was done with it.
CountsAgree ==
    \A m \in Msg :
        /\ message[m].state = "absent" => message[m].count = 0 /\ effects[m] = 0
        /\ message[m].state = "ready" => message[m].count < MaxDeliver
        /\ message[m].state = "exhausted" => message[m].count = MaxDeliver
        /\ message[m].state = "acked" => effects[m] > 0

\* What a process has was delivered to it, and what it handled had its effect.
HandedAgree ==
    \A c \in Member :
        /\ \A i \in DOMAIN member[c].inbox : message[member[c].inbox[i]].state # "absent"
        /\ member[c].handled => member[c].inbox # <<>> /\ effects[Current(c)] > 0

\* A delivery without an effect is under way, or has met a fault.
LossesPaid ==
    \A m \in Msg \ Poison :
        effects[m] = 0 =>
            \/ message[m].count <= faults
            \/ Held(m) /\ message[m].state = "pending" /\ message[m].count = faults + 1

\* Where a process has a message that its handler has not returned for.
Unhandled(m) ==
    UNION {{<<c, i>> : i \in {j \in DOMAIN member[c].inbox :
                                member[c].inbox[j] = m /\ (j = 1 => ~member[c].handled)}}
           : c \in Member}

\* A delivery the server may still make, now or when ack_wait ends.
Due(m) ==
    IF message[m].state \in {"ready", "pending"} /\ (message[m].state = "pending" => ~Held(m))
    THEN 1 ELSE 0

\* Effects, and what may still lead to one, are paid for by faults, but for one.
RepeatsPaid ==
    \A m \in Msg : effects[m] + Cardinality(Unhandled(m)) + Due(m) <= 1 + faults

\* The inductive form of LossNeedsFaults and RepeatsNeedFaults.
ConsumerInv ==
    /\ CountsAgree
    /\ HandedAgree
    /\ LossesPaid
    /\ RepeatsPaid

\* A handler that always raises has its message routed to the dead-letter
\* subject and acked, before the server uses up its deliveries.
DeadLettered ==
    \A m \in Poison : message[m].state = "exhausted" => faults > 0
=============================================================================
