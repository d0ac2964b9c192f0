----------------------------- MODULE Onboarding -----------------------------
(***************************************************************************)
(* A user is invited, and the organization service announces a default     *)
(* department: the identity service stages an event with its commit, the   *)
(* publisher copies it to the stream identity_events, and the durable      *)
(* listener of the organization service publishes department.created.      *)
(*                                                                         *)
(* The publisher is taken as what OutboxPublisher is proved to implement,  *)
(* ReliableDelivery: every send puts another copy in the stream.  The      *)
(* organization service also answers requests of its own; it starts no     *)
(* publisher, so the rows these stage stay where they are.                 *)
(***************************************************************************)
EXTENDS Naturals, FiniteSets

CONSTANTS
    User, Before, Other, Role,
    Org, Department, Project,
    Member,                   \* processes of the organization service
    MaxDeliver,
    MaxCopies,                \* bound: copies of one event sent
    MaxRequests, MaxFaults    \* bounds, of all services together

ASSUME OnboardingAssumption ==
    /\ MaxDeliver \in Nat \ {0}
    /\ MaxCopies \in Nat
    /\ MaxRequests \in Nat
    /\ MaxFaults \in Nat

VARIABLES
    users, account, link, email, roles, member, request, heard, granted, patched, lent,
    outbox,    \* of the invitation of each user: status of its outbox row
    sent,      \* copies of it in the stream
    message, listener, announced,
    row, home, told,
    requests, faults

Copy == User \X (1..MaxCopies)

Identity     == INSTANCE Identity
Outbox       == INSTANCE ReliableDelivery WITH Event <- User, state <- outbox
Consumer     == INSTANCE NatsConsumer WITH
                    Msg <- Copy, Poison <- {}, member <- listener, effects <- announced
Organization == INSTANCE Organization

identity     == <<users, account, link, email, roles, member, request,
                  heard, granted, patched, lent>>
outboxRows   == <<outbox, sent>>
consumer     == <<message, listener, announced>>
organization == <<row, home, told>>

vars == <<identity, outboxRows, consumer, organization, requests, faults>>

Init ==
    /\ Identity!Init
    /\ Outbox!Init
    /\ Consumer!Init
    /\ Organization!Init
    /\ requests = 0
    /\ faults = 0

\* Mutant: the event is on its way before the user is committed.
InvitesEarly(u) ==
    /\ Identity!CallKeycloak
    /\ request.op = "invite" /\ request.user = u /\ account[u] = "NONE"

Invites(u) == Identity!Commit /\ Identity!CommitInvite /\ request.user = u

\* The outbox row is written by the commit that creates the user.
Invite(u) ==
    /\ Invites(u)
    /\ Outbox!Accept(u)
    /\ UNCHANGED <<consumer, organization>>

Identify ==
    /\ Identity!Next
    /\ \A u \in User : ~Invites(u)
    /\ UNCHANGED <<outboxRows, consumer, organization>>

Relay(u) ==
    /\ sent[u] < MaxCopies
    /\ Outbox!Send(u)
    /\ Consumer!Publish(<<u, sent[u] + 1>>)
    /\ UNCHANGED <<identity, organization, requests>>

CloseRows(published, failed) ==
    /\ published \cup failed # {}
    /\ Outbox!Close(published, failed)
    /\ UNCHANGED <<identity, consumer, organization, requests, faults>>

Organize ==
    /\ Organization!Next
    /\ UNCHANGED <<identity, outboxRows, consumer, faults>>

ListenerOnly ==
    UNCHANGED <<identity, outboxRows, organization, requests>>

Listen(c)  == Consumer!Subscribe(c) /\ ListenerOnly
Restart(c) == Consumer!Leave(c) /\ ListenerOnly
Handle(c)  == Consumer!Callback(c) /\ ListenerOnly
Serve(m)   == Consumer!Server(m) /\ ListenerOnly

Next ==
    \/ Identify
    \/ Organize
    \/ \E u \in User : Invite(u) \/ Relay(u)
    \/ \E published, failed \in SUBSET User : CloseRows(published, failed)
    \/ \E c \in Member : Listen(c) \/ Restart(c) \/ Handle(c)
    \/ \E m \in Copy : Serve(m)

Spec == Init /\ [][Next]_vars

\* The publisher's loop keeps trying a row it has not sent, the server keeps
\* delivering, a listener comes back and runs its callback.
FairSpec ==
    /\ Spec
    /\ \A u \in User : WF_vars(sent[u] = 0 /\ Relay(u))
    /\ \A c \in Member : WF_vars(Listen(c) \/ Handle(c))
    /\ WF_vars(\E m \in Copy : Serve(m))

-----------------------------------------------------------------------------
\* Every variable of every service has its type.
TypeOK ==
    /\ Identity!TypeOK
    /\ Consumer!TypeOK
    /\ row \in [Org \cup Department \cup Project -> Organization!Status \cup {"NONE", "GONE"}]
    /\ home \in [Department \cup Project -> Org \cup {"NONE"}]
    /\ told \in [Org \cup Department \cup Project -> Organization!Status \cup {"NONE"}]
    /\ requests \in 0..MaxRequests
    /\ faults \in 0..MaxFaults

\* Every user has a Keycloak account; an account without a user, who nobody can
\* invite again, is left only by a failure in the middle of invite_user.  A PATCH
\* that gives ids or addresses to other rows is the exception to both.
RowsHaveAccounts == Identity!RowsHaveAccounts

\* Who is DISABLED cannot log in and who is ACTIVE can, but for failures half way
\* through a request and for PATCH /users/{id}.
LockedOut == Identity!LockedOut

\* The listener misses an invitation only when each of the deliveries of its
\* message met a fault.
LossNeedsFaults == Consumer!LossNeedsFaults

\* The listener repeats an announcement only after a fault.
RepeatsNeedFaults == Consumer!RepeatsNeedFaults

\* Whatever the listener has announced, and however late, is about a user whose
\* invitation was committed.
NoPhantom ==
    \A m \in Copy : announced[m] > 0 => users[m[1]] # "NONE"

\* Whoever follows the staged events knows the users and their roles, but for what
\* PATCH and the deletion of a role change without an event.
FollowersAgree == Identity!FollowersAgree

\* An event is in the stream only if it was staged, and staged only with its user.
StagedWithUser ==
    /\ \A u \in User : outbox[u] # "ABSENT" => users[u] # "NONE"
    /\ \A m \in Copy : message[m].state # "absent" => outbox[m[1]] # "ABSENT"

\* The inductive form of the invariants above.
OInv ==
    /\ Identity!IdentityInv
    /\ Consumer!ConsumerInv
    /\ StagedWithUser

\* Every user who is invited has a department announced, unless the publisher
\* gave the row up or all deliveries of a copy met a fault.
Onboarded ==
    \A u \in User \ Before :
        users[u] # "NONE" ~> \/ \E m \in Copy : m[1] = u /\ announced[m] > 0
                            \/ outbox[u] = "FAILED"
                            \/ faults >= MaxDeliver
=============================================================================
