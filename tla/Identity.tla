------------------------------ MODULE Identity ------------------------------
(***************************************************************************)
(* The identity service: a user is a row of the service's database and an  *)
(* account in Keycloak, changed one after the other without a common       *)
(* transaction.                                                            *)
(*                                                                         *)
(* The handlers of IdentityService await nothing between their first query *)
(* and their commit, Keycloak's client blocks: the event loop runs one of  *)
(* them at a time.  The handlers declared with def (PATCH, DELETE of a     *)
(* role) run in threads, between any two of its statements.                *)
(***************************************************************************)
EXTENDS Naturals

CONSTANTS
    User,         \* by the address invited; also the Keycloak account of that address
    Before,       \* users who were invited and became ACTIVE before
    Other,        \* Keycloak ids without an account
    Role,         \* rows the database was seeded with: create_role never commits
    MaxRequests,  \* bound: requests of a behaviour
    MaxFaults     \* bound: faults in a behaviour

VARIABLES
    users,     \* users.status, "NONE" without a row
    account,   \* in Keycloak
    link,      \* users.keycloak_user_id
    email,     \* users.email, as far as it matters to invitations
    roles,     \* rows of roles
    member,    \* rows of user_roles
    request,   \* the handler the event loop is in
    heard,     \* history: the status a user's last staged event carries
    granted,   \* history: the memberships the staged events amount to
    patched,   \* history: what PATCH /users/{id} has changed of whom
    lent,      \* history: the Keycloak ids and addresses it has put into rows
    requests,
    faults

identity == <<users, account, link, email, roles, member, request,
              heard, granted, patched, lent>>

UserStatus == {"ACTIVE", "INVITED", "DISABLED"}
Account    == User \cup Other
Attribute  == {"status", "id", "roles"}

NoRequest == [op |-> "none", phase |-> "none"]

\* A handler keeps what it has loaded: the status, the Keycloak id, whether the role
\* was there already.  It is lost when the id it has loaded is the row's no longer.
RequestState ==
    {NoRequest}
    \cup [op : {"invite"}, phase : {"account", "commit"}, user : User]
    \cup [op : {"status"}, phase : {"account", "commit"}, user : User, id : Account,
          seen : UserStatus, status : UserStatus, lost : BOOLEAN]
    \cup [op : {"assign", "remove"}, phase : {"commit"}, user : User, role : Role,
          had : BOOLEAN, lost : BOOLEAN]

Init ==
    /\ users = [u \in User |-> IF u \in Before THEN "ACTIVE" ELSE "NONE"]
    /\ account = [a \in Account |-> IF a \in User \cap Before THEN "ENABLED" ELSE "NONE"]
    /\ link = [u \in User |-> u]
    /\ email = [u \in User |-> u]
    /\ roles = Role
    /\ member = {}
    /\ request = NoRequest
    /\ heard = users
    /\ granted = {}
    /\ patched = {}
    /\ lent = {}

Fault   == faults < MaxFaults /\ faults' = faults + 1
Request == requests < MaxRequests /\ requests' = requests + 1

database == <<users, link, email, roles, member, heard, granted, patched, lent>>

-----------------------------------------------------------------------------
\* Requests: what is loaded, and what is rejected before anything changes.
Begin(r) ==
    /\ request = NoRequest
    /\ Request
    /\ request' = r
    /\ UNCHANGED <<database, account, faults>>

\* Mutant: the row is committed without a call to Keycloak.
BeginInviteRow(u) == Begin([op |-> "invite", phase |-> "commit", user |-> u])

BeginInvite(u) == Begin([op |-> "invite", phase |-> "account", user |-> u])

\* Keycloak has no state for INVITED: a user set back to it keeps the account
\* as it is, and no event is staged.
BeginStatus(u, status) ==
    /\ users[u] # "NONE"
    /\ Begin([op |-> "status", user |-> u, id |-> link[u], seen |-> users[u],
              status |-> status, lost |-> FALSE,
              phase |-> IF status = "INVITED" THEN "commit" ELSE "account"])

\* DELETE /users/{id} keeps the row and the account.
BeginDelete(u) == BeginStatus(u, "DISABLED")

BeginRole(op, u, r) ==
    Begin([op |-> op, phase |-> "commit", user |-> u, role |-> r,
           had |-> <<u, r>> \in member, lost |-> FALSE])

BeginAssign(u, r) ==
    /\ users[u] # "NONE"
    /\ r \in roles
    /\ BeginRole("assign", u, r)

BeginRemove(u, r) ==
    /\ <<u, r>> \in member
    /\ BeginRole("remove", u, r)

-----------------------------------------------------------------------------
\* The call to Keycloak.
\* Mutant: the account of a disabled user stays enabled.
NewAccountEnabled == "ENABLED"

NewAccount ==
    IF request.op = "invite" THEN "ENABLED"
    ELSE IF request.status = "ACTIVE" THEN "ENABLED" ELSE "DISABLED"

\* The account the call is about.
Target == IF request.op = "invite" THEN request.user ELSE request.id

\* Creating an account that exists is answered with 409, changing one that does not
\* with 404; nobody catches either.
KeycloakRefuses == request.op = "invite" <=> account[Target] # "NONE"

CallKeycloak ==
    /\ request.phase = "account"
    /\ IF KeycloakRefuses
       THEN request' = NoRequest /\ UNCHANGED account
       ELSE /\ account' = [account EXCEPT ![Target] = NewAccount]
            /\ request' = [request EXCEPT !.phase = "commit"]
    /\ UNCHANGED <<database, requests, faults>>

\* The call fails, or the process dies, before or after Keycloak did it.
KeycloakFails ==
    /\ request.phase = "account"
    /\ Fault
    /\ \/ UNCHANGED account
       \/ ~KeycloakRefuses /\ account' = [account EXCEPT ![Target] = NewAccount]
    /\ request' = NoRequest
    /\ UNCHANGED <<database, requests>>

-----------------------------------------------------------------------------
\* The commit: the row and its event together.

\* A column that is unique takes a value no other row has.
Free(column, u, value) ==
    \A v \in User \ {u} : users[v] # "NONE" => column[v] # value

Pair == <<request.user, request.role>>

\* Mutant: user_roles has no foreign key to roles.
RefusedKeysOnly ==
    \/ request.op = "invite" /\ ~(Free(link, request.user, request.user)
                                  /\ Free(email, request.user, request.user))
    \/ request.op = "status" /\ request.lost /\ request.status # request.seen
    \/ request.op = "assign" /\ ~request.had /\ request.lost
    \/ request.op = "remove" /\ Pair \notin member

\* What makes the commit fail: a Keycloak id or an address that another row has, an
\* UPDATE of an id that is gone, a membership whose role or user is gone, the DELETE
\* of a membership that is gone.
Refused ==
    \/ request.op = "invite" /\ ~(Free(link, request.user, request.user)
                                  /\ Free(email, request.user, request.user))
    \/ request.op = "status" /\ request.lost /\ request.status # request.seen
    \/ request.op = "assign" /\ ~request.had /\ (request.lost \/ request.role \notin roles)
    \/ request.op = "remove" /\ Pair \notin member

CommitInvite ==
    /\ request.op = "invite"
    /\ users' = [users EXCEPT ![request.user] = "INVITED"]
    /\ link' = [link EXCEPT ![request.user] = request.user]
    /\ email' = [email EXCEPT ![request.user] = request.user]
    /\ heard' = [heard EXCEPT ![request.user] = "INVITED"]
    /\ UNCHANGED <<roles, member, granted, patched, lent>>

\* The row is written if the assigned status differs from the one loaded.
CommitStatus ==
    /\ request.op = "status"
    /\ users' = [users EXCEPT ![request.user] =
                   IF request.status = request.seen THEN @ ELSE request.status]
    /\ heard' = [heard EXCEPT ![request.user] =
                   IF request.status = "INVITED" THEN @ ELSE request.status]
    /\ UNCHANGED <<link, email, roles, member, granted, patched, lent>>

\* A role that was there when it was loaded is not inserted, but announced.
CommitAssign ==
    /\ request.op = "assign"
    /\ member' = IF request.had THEN member ELSE member \cup {Pair}
    /\ granted' = granted \cup {Pair}
    /\ UNCHANGED <<users, link, email, roles, heard, patched, lent>>

CommitRemove ==
    /\ request.op = "remove"
    /\ member' = member \ {Pair}
    /\ granted' = granted \ {Pair}
    /\ UNCHANGED <<users, link, email, roles, heard, patched, lent>>

Commits == CommitInvite \/ CommitStatus \/ CommitAssign \/ CommitRemove

Commit ==
    /\ request.phase = "commit"
    /\ ~Refused
    /\ Commits
    /\ request' = NoRequest
    /\ UNCHANGED <<account, requests, faults>>

CommitRejected ==
    /\ request.phase = "commit"
    /\ Refused
    /\ request' = NoRequest
    /\ UNCHANGED <<database, account, requests, faults>>

\* The commit fails, or the process dies before it.
CommitFails ==
    /\ request.phase = "commit"
    /\ Fault
    /\ request' = NoRequest
    /\ UNCHANGED <<database, account, requests>>

-----------------------------------------------------------------------------
\* Threads.
About(u) == request # NoRequest /\ request.user = u

\* The handler has loaded the user's row, and will write or refer to it by its id.
Loaded(u) == About(u) /\ request.op # "invite"

RolesOf(u) == {p \in member : p[1] = u}

\* PATCH /users/{id} sets any attributes, past Keycloak and the outbox: the status,
\* the Keycloak id (one that Keycloak has given out, or has not), the address, roles
\* (only [] is a collection it accepts), and id, to which user_roles must not refer.
\* Display name, locale and the like are left out.
Patch(u, status, id, address) ==
    /\ users[u] # "NONE"
    /\ Request
    /\ id \in User => account[id] # "NONE"
    /\ Free(link, u, id) /\ Free(email, u, address)
    /\ users' = [users EXCEPT ![u] = status]
    /\ link' = [link EXCEPT ![u] = id]
    /\ email' = [email EXCEPT ![u] = address]
    /\ \E emptied, renamed \in BOOLEAN :
          /\ renamed => RolesOf(u) = {}
          /\ member' = IF emptied THEN member \ RolesOf(u) ELSE member
          /\ request' = IF renamed /\ Loaded(u) THEN [request EXCEPT !.lost = TRUE] ELSE request
          /\ patched' = patched \cup {c \in {u} \X Attribute :
                \/ c[2] = "status" /\ status # users[u]
                \/ c[2] = "id" /\ renamed
                \/ c[2] = "roles" /\ member' # member}
    /\ lent' = lent \cup ({id} \ {link[u]}) \cup ({address} \ {email[u]})
    /\ UNCHANGED <<account, roles, heard, granted, faults>>

\* The memberships go with the role; no event is staged.
DeleteRole(r) ==
    /\ r \in roles
    /\ Request
    /\ roles' = roles \ {r}
    /\ member' = {p \in member : p[2] # r}
    /\ UNCHANGED <<users, account, link, email, request, heard, granted, patched, lent, faults>>

-----------------------------------------------------------------------------
\* What the event loop does by itself.
Proceed == CallKeycloak \/ KeycloakFails \/ Commit \/ CommitRejected \/ CommitFails

Next ==
    \/ \E u \in User :
          \/ BeginInvite(u) \/ BeginDelete(u)
          \/ \E status \in UserStatus :
                \/ BeginStatus(u, status)
                \/ \E id \in Account, address \in User : Patch(u, status, id, address)
          \/ \E r \in Role : BeginAssign(u, r) \/ BeginRemove(u, r)
    \/ \E r \in Role : DeleteRole(r)
    \/ Proceed

-----------------------------------------------------------------------------
\* Every variable has its type.
TypeOK ==
    /\ users \in [User -> UserStatus \cup {"NONE"}]
    /\ account \in [Account -> {"NONE", "ENABLED", "DISABLED"}]
    /\ link \in [User -> Account]
    /\ email \in [User -> User]
    /\ roles \subseteq Role
    /\ member \subseteq User \X Role
    /\ request \in RequestState
    /\ heard \in [User -> UserStatus \cup {"NONE"}]
    /\ granted \subseteq User \X Role
    /\ patched \subseteq User \X Attribute
    /\ lent \subseteq Account

\* The Keycloak id of every row has its account, unless a PATCH has put it there; and
\* an account without a row, which nobody can invite again, is left only by a failure
\* between Keycloak and the commit, or by a PATCH that gave its id or address away.
RowsHaveAccounts ==
    \A u \in User :
        /\ users[u] # "NONE" => account[link[u]] # "NONE" \/ link[u] \in lent
        /\ users[u] = "NONE" /\ account[u] # "NONE" => About(u) \/ faults > 0 \/ u \in lent

\* The account agrees with the status.
Agrees(u) ==
    /\ users[u] = "DISABLED" => account[link[u]] = "DISABLED"
    /\ users[u] = "ACTIVE" => account[link[u]] = "ENABLED"

\* A PATCH has gone past Keycloak: it has set the status, the id under which a request
\* would write it, or the Keycloak id.
Bypassed(u) == <<u, "status">> \in patched \/ <<u, "id">> \in patched \/ link[u] \in lent

\* A user who is DISABLED cannot log in, and one who is ACTIVE can, unless a
\* call failed half way or a PATCH has gone past Keycloak.
LockedOut ==
    \A u \in User : About(u) \/ faults > 0 \/ Bypassed(u) \/ Agrees(u)

\* Whoever follows the events knows every user's status and roles, whatever
\* fails, but for what is changed without an event: a status or an id by PATCH, a
\* status back to INVITED, memberships by PATCH or by deleting their role.
FollowersAgree ==
    /\ \A u \in User :
          users[u] \in {"ACTIVE", "DISABLED"} =>
             \/ heard[u] = users[u]
             \/ <<u, "status">> \in patched \/ <<u, "id">> \in patched
    /\ member \subseteq {p \in granted : p[2] \in roles}
    /\ \A p \in granted \ member : p[2] \notin roles \/ <<p[1], "roles">> \in patched

\* The handler is between its call to Keycloak and its commit.
Committing(u, op) == request.op = op /\ request.phase = "commit" /\ request.user = u

\* What a handler has loaded or called is what it will meet at its commit: a user
\* to be invited has an account and no row; a status and a Keycloak id were loaded
\* from the row, but for a PATCH, and Keycloak has been told; a role was there or not.
RequestAgrees(u) ==
    /\ Committing(u, "invite") => users[u] = "NONE" /\ account[u] # "NONE"
    /\ request.op = "status" /\ request.user = u =>
         /\ users[u] # "NONE"
         /\ request.id \in {u} \cup lent
         /\ <<u, "status">> \in patched \/ users[u] = request.seen
         /\ link[u] \in lent \/ link[u] = request.id
         /\ request.lost => <<u, "id">> \in patched
         /\ request.phase = "account" => request.status # "INVITED"
         /\ request.phase = "commit" /\ request.status # "INVITED"
              => account[request.id] = NewAccount
    /\ request.op = "assign" /\ request.user = u /\ request.had =>
         \/ Pair \in member
         \/ request.role \notin roles
         \/ <<u, "roles">> \in patched

\* A row's Keycloak id and address are its own, or were put there by a PATCH; every
\* user keeps the account of the invitation.  Only a commit that is still to come
\* excuses a handler, not its mere presence.
RowAgrees(u) ==
    /\ link[u] \in {u} \cup lent
    /\ email[u] \in {u} \cup lent
    /\ users[u] # "NONE" => account[u] # "NONE"
    /\ users[u] = "NONE" /\ account[u] # "NONE" =>
         Committing(u, "invite") \/ faults > 0 \/ u \in lent
    /\ Committing(u, "status") \/ faults > 0 \/ Bypassed(u) \/ Agrees(u)

\* The inductive form of RowsHaveAccounts, LockedOut and FollowersAgree.
IdentityInv ==
    /\ \A u \in User : RequestAgrees(u) /\ RowAgrees(u)
    /\ FollowersAgree
=============================================================================
