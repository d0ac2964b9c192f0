------------------------- MODULE Onboarding_proofs -------------------------
(***************************************************************************)
(* Proofs about Onboarding, for any users, copies, listeners and faults:   *)
(* what the identity service and the organization service keep.  What the  *)
(* stream's listener keeps is proved in OnboardingDelivery_proofs.         *)
(***************************************************************************)
EXTENDS Onboarding, FiniteSetTheorems, TLAPS

USE OnboardingAssumption

-----------------------------------------------------------------------------
(***************************************************************************)
(* The identity service.                                                   *)
(***************************************************************************)

\* Counting a fault or a request keeps the counters in their range.
LEMMA CountersBounded ==
    ASSUME requests \in 0..MaxRequests, faults \in 0..MaxFaults
    PROVE  /\ Identity!Fault => faults' \in 0..MaxFaults /\ faults' > faults /\ faults' > 0
           /\ Identity!Request => requests' \in 0..MaxRequests
  BY DEF Identity!Fault, Identity!Request

\* A request begins: nothing is changed but the handler the event loop is in.
LEMMA BeginStep ==
    ASSUME Identity!TypeOK, Identity!IdentityInv, NEW r \in Identity!RequestState,
           Identity!Begin(r), r.op = "invite" => r.phase = "account",
           r.op = "status" =>
             /\ users[r.user] # "NONE" /\ users[r.user] = r.seen
             /\ r.id = link[r.user] /\ r.lost = FALSE
             /\ r.phase = "account" => r.status # "INVITED"
             /\ r.phase = "commit" => r.status = "INVITED",
           r.op = "assign" /\ r.had => <<r.user, r.role>> \in member
    PROVE  Identity!TypeOK' /\ Identity!IdentityInv'
<1>1. /\ request' = r
      /\ UNCHANGED <<users, account, link, email, roles, member, heard, granted, patched, lent,
                     faults>>
      /\ request = Identity!NoRequest
  BY DEF Identity!Begin, Identity!database
<1>2. Identity!TypeOK'
  BY <1>1 DEF Identity!TypeOK
<1>3. \A u \in User : Identity!RowAgrees(u)
  BY DEF Identity!IdentityInv
<1>4. \A u \in User : Identity!RequestAgrees(u)'
  BY <1>1, <1>3 DEF Identity!RequestAgrees, Identity!RowAgrees, Identity!Committing, Identity!Pair
<1>5. \A u \in User : ~Identity!Committing(u, "invite") /\ ~Identity!Committing(u, "status")
  BY <1>1 DEF Identity!Committing, Identity!NoRequest
<1>6. \A u \in User : Identity!RowAgrees(u)'
  BY <1>1, <1>3, <1>5 DEF Identity!RowAgrees, Identity!Bypassed, Identity!Agrees
<1>7. Identity!FollowersAgree'
  BY <1>1 DEF Identity!IdentityInv, Identity!FollowersAgree
<1> QED
  BY <1>2, <1>4, <1>6, <1>7 DEF Identity!IdentityInv

\* An invitation calls Keycloak first.
LEMMA BeginInviteStep ==
    ASSUME Identity!TypeOK, Identity!IdentityInv, NEW u \in User, Identity!BeginInvite(u)
    PROVE  Identity!TypeOK' /\ Identity!IdentityInv'
<1> DEFINE r == [op |-> "invite", phase |-> "account", user |-> u]
<1>1. r \in Identity!RequestState /\ r.op = "invite" /\ r.phase = "account"
  BY DEF Identity!RequestState
<1>2. Identity!Begin(r)
  BY DEF Identity!BeginInvite
<1> HIDE DEF r
<1> QED
  BY <1>1, <1>2, BeginStep

\* A change of status knows the row it has loaded.
LEMMA BeginStatusStep ==
    ASSUME Identity!TypeOK, Identity!IdentityInv, NEW u \in User,
           NEW status \in Identity!UserStatus, Identity!BeginStatus(u, status)
    PROVE  Identity!TypeOK' /\ Identity!IdentityInv'
<1> DEFINE r == [op |-> "status", user |-> u, id |-> link[u], seen |-> users[u],
                 status |-> status, lost |-> FALSE,
                 phase |-> IF status = "INVITED" THEN "commit" ELSE "account"]
<1>1. users[u] # "NONE" /\ users[u] \in Identity!UserStatus /\ link[u] \in Identity!Account
  BY DEF Identity!BeginStatus, Identity!TypeOK
<1>2. r \in Identity!RequestState
  BY <1>1 DEF Identity!RequestState
<1>3. /\ r.op = "status" /\ r.user = u /\ r.seen = users[u] /\ r.status = status
      /\ r.id = link[u] /\ r.lost = FALSE
      /\ r.phase = IF status = "INVITED" THEN "commit" ELSE "account"
  OBVIOUS
<1>4. Identity!Begin(r)
  BY DEF Identity!BeginStatus
<1> HIDE DEF r
<1> QED
  BY <1>1, <1>2, <1>3, <1>4, BeginStep

\* A change of a membership calls no Keycloak.
LEMMA BeginRoleStep ==
    ASSUME Identity!TypeOK, Identity!IdentityInv, NEW u \in User, NEW r \in Role,
           Identity!BeginAssign(u, r) \/ Identity!BeginRemove(u, r)
    PROVE  Identity!TypeOK' /\ Identity!IdentityInv'
<1>1. PICK op \in {"assign", "remove"} : Identity!BeginRole(op, u, r)
  BY DEF Identity!BeginAssign, Identity!BeginRemove
<1> DEFINE had == <<u, r>> \in member
<1> DEFINE q == [op |-> op, phase |-> "commit", user |-> u, role |-> r,
                 had |-> had, lost |-> FALSE]
<1>2. Identity!Begin(q)
  BY <1>1 DEF Identity!BeginRole
<1>3. had \in BOOLEAN
  OBVIOUS
<1>4. had => <<u, r>> \in member
  OBVIOUS
<1> HIDE DEF had
<1>5. q \in Identity!RequestState
  BY <1>3 DEF Identity!RequestState
<1>6. q.op \in {"assign", "remove"} /\ q.user = u /\ q.role = r /\ q.had = had
  OBVIOUS
<1> HIDE DEF q
<1> QED
  BY <1>2, <1>4, <1>5, <1>6, BeginStep

\* The call to Keycloak is made, or fails before or after Keycloak did it.
LEMMA KeycloakStep ==
    ASSUME Identity!TypeOK, faults \in Nat, Identity!IdentityInv,
           Identity!CallKeycloak \/ Identity!KeycloakFails, faults' \in Nat, faults' >= faults
    PROVE  Identity!TypeOK' /\ Identity!IdentityInv'
<1>0. PICK x, t : x = request.user /\ t = Identity!Target
  OBVIOUS
<1> DEFINE Called == account' = [account EXCEPT ![t] = Identity!NewAccount]
<1>1. /\ request \in Identity!RequestState /\ request.phase = "account"
      /\ UNCHANGED <<users, link, email, roles, member, heard, granted, patched, lent>>
      /\ account \in [Identity!Account -> {"NONE", "ENABLED", "DISABLED"}]
      /\ link \in [User -> Identity!Account]
  BY DEF Identity!CallKeycloak, Identity!KeycloakFails, Identity!database, Identity!TypeOK
<1>2. /\ x \in User /\ request.op \in {"invite", "status"}
      /\ request.op = "invite" => t = x
      /\ request.op = "status" => t = request.id /\ t \in Identity!Account
      /\ t \in Identity!Account
  BY <1>0, <1>1 DEF Identity!RequestState, Identity!NoRequest, Identity!Target, Identity!Account
<1>3. /\ \A u \in User : Identity!RowAgrees(u)
      /\ Identity!RequestAgrees(x)
      /\ Identity!FollowersAgree
  BY <1>2 DEF Identity!IdentityInv
<1>4. /\ Identity!NewAccount \in {"ENABLED", "DISABLED"}
      /\ request.op = "status" =>
           /\ request.status \in {"ACTIVE", "DISABLED"}
           /\ request.status = "ACTIVE" <=> Identity!NewAccount = "ENABLED"
           /\ users[x] # "NONE"
           /\ t \in {x} \cup lent
           /\ <<x, "status">> \in patched \/ users[x] = request.seen
           /\ link[x] \in lent \/ link[x] = t
           /\ request.lost => <<x, "id">> \in patched
  BY <1>0, <1>1, <1>2, <1>3 DEF Identity!NewAccount, Identity!RequestState, Identity!NoRequest,
       Identity!RequestAgrees, Identity!UserStatus
<1>5. \/ UNCHANGED account /\ request' = Identity!NoRequest
      \/ Called /\ ~Identity!KeycloakRefuses /\ request' = [request EXCEPT !.phase = "commit"]
      \/ Called /\ ~Identity!KeycloakRefuses /\ request' = Identity!NoRequest /\ faults' > 0
  BY <1>0 DEF Identity!CallKeycloak, Identity!KeycloakFails, Identity!Fault
<1>6. request' \in Identity!RequestState
  <2>1. [request EXCEPT !.phase = "commit"] \in Identity!RequestState
    BY <1>1, <1>2 DEF Identity!RequestState, Identity!NoRequest
  <2> QED
    BY <1>5, <2>1 DEF Identity!RequestState
<1>7. Identity!TypeOK'
  BY <1>1, <1>2, <1>4, <1>5, <1>6 DEF Identity!TypeOK
<1>8. Identity!FollowersAgree'
  BY <1>1, <1>3 DEF Identity!FollowersAgree
<1>9. \A u \in User : ~Identity!Committing(u, "invite") /\ ~Identity!Committing(u, "status")
  BY <1>1 DEF Identity!Committing
<1>10. ASSUME Called, ~Identity!KeycloakRefuses
       PROVE  /\ account'[t] = Identity!NewAccount
              /\ \A a \in Identity!Account : a # t => account'[a] = account[a]
              /\ request.op = "invite" => users[x] = "NONE"
              /\ request.op = "status" => account[t] # "NONE"
              /\ \A u \in User : account[u] # "NONE" => account'[u] # "NONE"
              /\ User \subseteq Identity!Account
  <2>1. request.op = "invite" <=> account[t] = "NONE"
    BY <1>0, <1>2, <1>10 DEF Identity!KeycloakRefuses
  <2>2. User \subseteq Identity!Account
    BY DEF Identity!Account
  <2>3. request.op = "invite" => users[x] = "NONE"
    BY <1>2, <1>3, <2>1 DEF Identity!RowAgrees
  <2>4. /\ account'[t] = Identity!NewAccount
        /\ \A a \in Identity!Account : a # t => account'[a] = account[a]
    BY <1>1, <1>2, <1>10
  <2> QED
    BY <1>1, <1>2, <1>4, <2>1, <2>2, <2>3, <2>4
\* Of another row than the handler's, only a PATCH can have made the account the same.
<1>11. ASSUME Called, ~Identity!KeycloakRefuses, NEW u \in User, u # x
       PROVE  /\ Identity!Bypassed(u) \/ (Identity!Agrees(u) => Identity!Agrees(u)')
              /\ users[u] = "NONE" /\ account'[u] # "NONE" => account[u] # "NONE" \/ u \in lent
  <2>1. link[u] = t => link[u] \in lent
    BY <1>2, <1>3, <1>4, <1>11 DEF Identity!RowAgrees
  <2>2. link[u] # t => account'[link[u]] = account[link[u]]
    BY <1>1, <1>10, <1>11
  <2>3. u = t => u \in lent
    BY <1>2, <1>4, <1>11
  <2>4. u # t => account'[u] = account[u]
    BY <1>10, <1>11
  <2> QED
    BY <1>1, <2>1, <2>2, <2>3, <2>4 DEF Identity!Bypassed, Identity!Agrees
<1>12. CASE UNCHANGED account /\ request' = Identity!NoRequest
  <2>1. \A u \in User : Identity!RequestAgrees(u)'
    BY <1>12 DEF Identity!RequestAgrees, Identity!Committing, Identity!NoRequest
  <2>2. \A u \in User : Identity!RowAgrees(u)'
    <3>1. \A u \in User : Identity!Agrees(u)' = Identity!Agrees(u)
      BY <1>1, <1>12 DEF Identity!Agrees
    <3>2. \A u \in User : Identity!Bypassed(u)' = Identity!Bypassed(u)
      BY <1>1 DEF Identity!Bypassed
    <3>3. faults > 0 => faults' > 0
      OBVIOUS
    <3> QED
      BY <1>1, <1>3, <1>9, <1>12, <3>1, <3>2, <3>3 DEF Identity!RowAgrees
  <2> QED
    BY <1>7, <1>8, <2>1, <2>2 DEF Identity!IdentityInv
<1>13. CASE Called /\ ~Identity!KeycloakRefuses /\ request' = [request EXCEPT !.phase = "commit"]
  <2>1. /\ request'.op = request.op /\ request'.phase = "commit" /\ request'.user = x
        /\ request.op = "status" =>
             /\ request'.status = request.status
             /\ request'.seen = request.seen
             /\ request'.id = t
             /\ request'.lost = request.lost
    BY <1>0, <1>1, <1>2, <1>13 DEF Identity!RequestState, Identity!NoRequest
  <2>2. Identity!NewAccount' = Identity!NewAccount
    BY <1>2, <2>1 DEF Identity!NewAccount
  <2>3. /\ request.op = "invite" => Identity!Committing(x, "invite")'
        /\ request.op = "status" => Identity!Committing(x, "status")'
    BY <2>1 DEF Identity!Committing
  <2>4. \A u \in User : Identity!RequestAgrees(u)'
    BY <1>1, <1>2, <1>4, <1>10, <1>13, <2>1, <2>2
       DEF Identity!RequestAgrees, Identity!Committing
  <2>5. ASSUME NEW u \in User, u # x PROVE Identity!RowAgrees(u)'
    <3>1. Identity!Bypassed(u)' = Identity!Bypassed(u)
      BY <1>1 DEF Identity!Bypassed
    <3> QED
      BY <1>1, <1>3, <1>9, <1>10, <1>11, <1>13, <2>5, <3>1 DEF Identity!RowAgrees
  <2>6. Identity!RowAgrees(x)'
    <3>1. CASE request.op = "invite"
      <4>1. users'[x] = "NONE" /\ Identity!Committing(x, "invite")'
        BY <1>1, <1>10, <1>13, <2>3, <3>1
      <4> QED
        BY <1>1, <1>2, <1>3, <4>1 DEF Identity!RowAgrees, Identity!Agrees
    <3>2. CASE request.op = "status"
      <4>1. users'[x] # "NONE" /\ Identity!Committing(x, "status")' /\ account'[x] # "NONE"
        BY <1>1, <1>2, <1>3, <1>4, <1>10, <1>13, <2>3, <3>2 DEF Identity!RowAgrees
      <4> QED
        BY <1>1, <1>2, <1>3, <4>1 DEF Identity!RowAgrees
    <3> QED
      BY <1>2, <3>1, <3>2
  <2> QED
    BY <1>7, <1>8, <2>4, <2>5, <2>6 DEF Identity!IdentityInv
<1>14. CASE Called /\ ~Identity!KeycloakRefuses /\ request' = Identity!NoRequest /\ faults' > 0
  <2>1. \A u \in User : Identity!RequestAgrees(u)'
    BY <1>14 DEF Identity!RequestAgrees, Identity!Committing, Identity!NoRequest
  <2>2. \A u \in User : Identity!RowAgrees(u)'
    BY <1>1, <1>3, <1>10, <1>14 DEF Identity!RowAgrees
  <2> QED
    BY <1>7, <1>8, <2>1, <2>2 DEF Identity!IdentityInv
<1> QED
  BY <1>5, <1>12, <1>13, <1>14

\* The commit of a handler, of whatever operation.
LEMMA CommitStep ==
    ASSUME Identity!TypeOK, faults \in Nat, Identity!IdentityInv, Identity!Commit
    PROVE  Identity!TypeOK' /\ Identity!IdentityInv'
<1>0. PICK x : x = request.user
  OBVIOUS
<1>1. /\ request \in Identity!RequestState /\ request.phase = "commit"
      /\ request' = Identity!NoRequest
      /\ UNCHANGED <<account, faults>>
      /\ users \in [User -> Identity!UserStatus \cup {"NONE"}]
      /\ heard \in [User -> Identity!UserStatus \cup {"NONE"}]
      /\ link \in [User -> Identity!Account]
      /\ email \in [User -> User]
      /\ ~Identity!Refused
  BY DEF Identity!Commit, Identity!TypeOK
<1>2. /\ x \in User
      /\ request.op \in {"invite", "status", "assign", "remove"}
  BY <1>0, <1>1 DEF Identity!RequestState, Identity!NoRequest
<1>3. /\ \A u \in User : Identity!RowAgrees(u)
      /\ Identity!RequestAgrees(x)
      /\ Identity!FollowersAgree
  BY <1>2 DEF Identity!IdentityInv
<1>4. \A u \in User : Identity!RequestAgrees(u)'
  BY <1>1 DEF Identity!RequestAgrees, Identity!Committing, Identity!NoRequest
<1>5. \A u \in User : u # x => ~Identity!Committing(u, "invite") /\ ~Identity!Committing(u, "status")
  BY <1>0 DEF Identity!Committing
<1>6. CASE Identity!CommitInvite
  <2>1. /\ request.op = "invite"
        /\ users' = [users EXCEPT ![x] = "INVITED"]
        /\ link' = [link EXCEPT ![x] = x]
        /\ email' = [email EXCEPT ![x] = x]
        /\ heard' = [heard EXCEPT ![x] = "INVITED"]
        /\ UNCHANGED <<roles, member, granted, patched, lent>>
    BY <1>0, <1>6 DEF Identity!CommitInvite
  <2>2. Identity!TypeOK'
    BY <1>1, <1>2, <2>1 DEF Identity!TypeOK, Identity!UserStatus, Identity!RequestState,
         Identity!Account
  <2>3. users[x] = "NONE" /\ account[x] # "NONE"
    BY <1>0, <1>1, <1>3, <2>1 DEF Identity!RequestAgrees, Identity!Committing
  <2>4. Identity!FollowersAgree'
    BY <1>1, <1>2, <1>3, <2>1 DEF Identity!FollowersAgree
  <2>5. ASSUME NEW u \in User, u # x PROVE Identity!RowAgrees(u)'
    <3>1. users'[u] = users[u] /\ link'[u] = link[u] /\ email'[u] = email[u]
      BY <1>1, <2>1, <2>5
    <3> QED
      BY <1>1, <1>3, <1>5, <2>1, <2>5, <3>1
         DEF Identity!RowAgrees, Identity!Bypassed, Identity!Agrees
  <2>6. Identity!RowAgrees(x)'
    <3>1. users'[x] = "INVITED" /\ link'[x] = x /\ email'[x] = x
      BY <1>1, <1>2, <2>1
    <3> QED
      BY <1>1, <2>3, <3>1 DEF Identity!RowAgrees, Identity!Agrees
  <2> QED
    BY <1>4, <2>2, <2>4, <2>5, <2>6 DEF Identity!IdentityInv
<1>7. CASE Identity!CommitStatus
  <2>1. /\ request.op = "status"
        /\ request.seen \in Identity!UserStatus /\ request.status \in Identity!UserStatus
        /\ users' = [users EXCEPT ![x] =
                       IF request.status = request.seen THEN @ ELSE request.status]
        /\ heard' = [heard EXCEPT ![x] =
                       IF request.status = "INVITED" THEN @ ELSE request.status]
        /\ UNCHANGED <<link, email, roles, member, granted, patched, lent>>
    BY <1>0, <1>1, <1>7 DEF Identity!CommitStatus, Identity!RequestState, Identity!NoRequest
  <2>2. Identity!TypeOK'
    BY <1>1, <1>2, <2>1 DEF Identity!TypeOK, Identity!UserStatus, Identity!RequestState
  <2>3. /\ users[x] # "NONE"
        /\ <<x, "status">> \in patched \/ users[x] = request.seen
        /\ link[x] \in lent \/ link[x] = request.id
        /\ request.status # "INVITED" => account[request.id] = Identity!NewAccount
    BY <1>0, <1>1, <1>3, <2>1 DEF Identity!RequestAgrees
  <2>4. <<x, "status">> \in patched \/ users'[x] = request.status
    BY <1>1, <1>2, <2>1, <2>3
  <2>5. \A u \in User : u # x => users'[u] = users[u] /\ heard'[u] = heard[u]
    BY <1>1, <2>1
  <2>6. Identity!FollowersAgree'
    <3>1. heard'[x] = IF request.status = "INVITED" THEN heard[x] ELSE request.status
      BY <1>1, <1>2, <2>1
    <3>2. ASSUME NEW u \in User, users'[u] \in {"ACTIVE", "DISABLED"}
          PROVE  heard'[u] = users'[u] \/ <<u, "status">> \in patched \/ <<u, "id">> \in patched
      BY <1>3, <2>4, <2>5, <3>1, <3>2 DEF Identity!FollowersAgree
    <3> QED
      BY <1>3, <2>1, <3>2 DEF Identity!FollowersAgree
  <2>7. ASSUME NEW u \in User, u # x PROVE Identity!RowAgrees(u)'
    BY <1>1, <1>3, <1>5, <2>1, <2>5, <2>7
       DEF Identity!RowAgrees, Identity!Bypassed, Identity!Agrees
  <2>8. Identity!RowAgrees(x)'
    <3>1. users'[x] # "NONE"
      BY <1>1, <1>2, <2>1, <2>3 DEF Identity!UserStatus
    <3>2. /\ <<x, "status">> \in patched => Identity!Bypassed(x)'
          /\ link[x] \in lent => Identity!Bypassed(x)'
      BY <2>1 DEF Identity!Bypassed
    <3>3. ASSUME users'[x] = request.status, link[x] = request.id
          PROVE  Identity!Agrees(x)'
      BY <1>1, <2>1, <2>3, <3>3 DEF Identity!Agrees, Identity!NewAccount
    <3> QED
      BY <1>1, <1>2, <1>3, <2>1, <2>3, <2>4, <3>1, <3>2, <3>3 DEF Identity!RowAgrees
  <2> QED
    BY <1>4, <2>2, <2>6, <2>7, <2>8 DEF Identity!IdentityInv
<1>8. CASE Identity!CommitAssign \/ Identity!CommitRemove
  <2> DEFINE p == Identity!Pair
  <2>1. /\ UNCHANGED <<users, link, email, roles, heard, patched, lent>>
        /\ request.op \in {"assign", "remove"}
        /\ p \in User \X Role /\ p[1] = x /\ p[2] = request.role
    BY <1>0, <1>1, <1>2, <1>8 DEF Identity!CommitAssign, Identity!CommitRemove, Identity!RequestState,
         Identity!NoRequest, Identity!Pair
  <2>2. \/ /\ member' = member \cup {p} /\ granted' = granted \cup {p}
           /\ p[2] \in roles
        \/ /\ member' = member /\ granted' = granted \cup {p}
           /\ p \in member \/ p[2] \notin roles \/ <<p[1], "roles">> \in patched
        \/ member' = member \ {p} /\ granted' = granted \ {p}
    <3>1. CASE Identity!CommitAssign /\ request.had
      BY <1>0, <1>3, <2>1, <3>1 DEF Identity!CommitAssign, Identity!RequestAgrees
    <3>2. CASE Identity!CommitAssign /\ ~request.had
      BY <1>1, <2>1, <3>2 DEF Identity!CommitAssign, Identity!Refused
    <3>3. CASE Identity!CommitRemove
      BY <3>3 DEF Identity!CommitRemove
    <3> QED
      BY <1>8, <3>1, <3>2, <3>3
  <2> HIDE DEF p
  <2>3. Identity!TypeOK'
    BY <1>1, <2>1, <2>2 DEF Identity!TypeOK, Identity!RequestState
  <2>4. Identity!FollowersAgree'
    <3>1. member' \subseteq {q \in granted' : q[2] \in roles'}
      BY <1>3, <2>1, <2>2 DEF Identity!FollowersAgree
    <3>2. \A q \in granted' \ member' : q[2] \notin roles' \/ <<q[1], "roles">> \in patched'
      BY <1>3, <2>1, <2>2 DEF Identity!FollowersAgree
    <3> QED
      BY <1>3, <2>1, <3>1, <3>2 DEF Identity!FollowersAgree
  <2>5. \A u \in User : ~Identity!Committing(u, "invite") /\ ~Identity!Committing(u, "status")
    BY <2>1 DEF Identity!Committing
  <2>6. \A u \in User : Identity!RowAgrees(u)'
    BY <1>1, <1>3, <2>1, <2>5 DEF Identity!RowAgrees, Identity!Bypassed, Identity!Agrees
  <2> QED
    BY <1>4, <2>3, <2>4, <2>6 DEF Identity!IdentityInv
<1> QED
  BY <1>6, <1>7, <1>8 DEF Identity!Commit, Identity!Commits

\* A handler that ends without a commit: the database refuses it, which without a
\* fault takes a PATCH of the user or of another, or the commit fails.
LEMMA AbandonStep ==
    ASSUME Identity!TypeOK, faults \in Nat, Identity!IdentityInv,
           Identity!CommitRejected \/ Identity!CommitFails, faults' \in Nat, faults' >= faults
    PROVE  Identity!TypeOK' /\ Identity!IdentityInv'
<1>1. /\ UNCHANGED <<users, account, link, email, roles, member, heard, granted, patched, lent>>
      /\ request' = Identity!NoRequest
      /\ Identity!Refused \/ faults' > 0
      /\ request.phase = "commit"
  BY DEF Identity!CommitRejected, Identity!CommitFails, Identity!database, Identity!Fault
<1>2. Identity!TypeOK'
  BY <1>1 DEF Identity!TypeOK, Identity!RequestState
<1>3. \A u \in User : Identity!RequestAgrees(u)'
  BY <1>1 DEF Identity!RequestAgrees, Identity!Committing, Identity!NoRequest
<1>4. Identity!FollowersAgree'
  BY <1>1 DEF Identity!IdentityInv, Identity!FollowersAgree
<1>5. ASSUME NEW u \in User, Identity!Committing(u, "invite") PROVE u \in lent \/ faults' > 0
  <2>1. request.op = "invite" /\ request.user = u
    BY <1>5 DEF Identity!Committing
  <2>2. ASSUME Identity!Refused PROVE u \in lent
    <3>1. PICK v \in User \ {u} : link[v] = u \/ email[v] = u
      BY <2>1, <2>2 DEF Identity!Refused, Identity!Free
    <3> QED
      BY <3>1 DEF Identity!IdentityInv, Identity!RowAgrees
  <2> QED
    BY <1>1, <2>2
<1>6. ASSUME NEW u \in User, Identity!Committing(u, "status") PROVE Identity!Bypassed(u) \/ faults' > 0
  <2>1. request.op = "status" /\ request.user = u
    BY <1>6 DEF Identity!Committing
  <2>2. Identity!Refused => request.lost
    BY <2>1 DEF Identity!Refused
  <2> QED
    BY <1>1, <2>1, <2>2 DEF Identity!IdentityInv, Identity!RequestAgrees, Identity!Bypassed
<1>7. ASSUME NEW u \in User PROVE Identity!RowAgrees(u)'
  BY <1>1, <1>5, <1>6 DEF Identity!IdentityInv, Identity!RowAgrees, Identity!Bypassed,
       Identity!Agrees
<1> QED
  BY <1>2, <1>3, <1>4, <1>7 DEF Identity!IdentityInv

\* PATCH, in a thread: whatever it sets is recorded, and excused.
LEMMA PatchStep ==
    ASSUME Identity!TypeOK, faults \in Nat, Identity!IdentityInv, NEW u \in User,
           NEW status \in Identity!UserStatus, NEW id \in Identity!Account, NEW address \in User,
           Identity!Patch(u, status, id, address)
    PROVE  Identity!TypeOK' /\ Identity!IdentityInv'
<1>1. PICK emptied \in BOOLEAN, renamed \in BOOLEAN :
          /\ member' = IF emptied THEN member \ Identity!RolesOf(u) ELSE member
          /\ request' = IF renamed /\ Identity!Loaded(u) THEN [request EXCEPT !.lost = TRUE]
                        ELSE request
          /\ patched' = patched \cup {c \in {u} \X Identity!Attribute :
                \/ c[2] = "status" /\ status # users[u]
                \/ c[2] = "id" /\ renamed
                \/ c[2] = "roles" /\ member' # member}
  BY DEF Identity!Patch
<1>2. /\ users[u] # "NONE" /\ status # "NONE"
      /\ users' = [users EXCEPT ![u] = status]
      /\ link' = [link EXCEPT ![u] = id]
      /\ email' = [email EXCEPT ![u] = address]
      /\ lent' = lent \cup ({id} \ {link[u]}) \cup ({address} \ {email[u]})
      /\ UNCHANGED <<account, roles, heard, granted, faults>>
      /\ users \in [User -> Identity!UserStatus \cup {"NONE"}]
      /\ link \in [User -> Identity!Account]
      /\ email \in [User -> User]
      /\ request \in Identity!RequestState
  BY DEF Identity!Patch, Identity!TypeOK, Identity!UserStatus
<1>3. /\ users'[u] = status /\ link'[u] = id /\ email'[u] = address
      /\ \A v \in User : v # u =>
           users'[v] = users[v] /\ link'[v] = link[v] /\ email'[v] = email[v]
  BY <1>2
<1>4. /\ lent \subseteq lent'
      /\ id = link[u] \/ id \in lent'
      /\ address = email[u] \/ address \in lent'
  BY <1>2
<1>5. /\ patched \subseteq patched'
      /\ status # users[u] => <<u, "status">> \in patched'
      /\ renamed => <<u, "id">> \in patched'
      /\ member' # member => <<u, "roles">> \in patched'
  BY <1>1 DEF Identity!Attribute
<1>6. /\ \A v \in User : Identity!RowAgrees(v)
      /\ \A v \in User : Identity!RequestAgrees(v)
      /\ Identity!FollowersAgree
  BY DEF Identity!IdentityInv
\* Of the handler only the row it will write can be lost.
<1>7. \/ UNCHANGED request
      \/ /\ renamed /\ request.user = u /\ request'.user = u
         /\ request'.op = request.op /\ request.op \in {"status", "assign", "remove"}
         /\ request'.phase = request.phase
         /\ request.op = "status" =>
              /\ request'.id = request.id
              /\ request'.seen = request.seen
              /\ request'.status = request.status
         /\ request.op # "status" => request'.role = request.role /\ (request'.had => request.had)
         /\ request' \in Identity!RequestState
  BY <1>1, <1>2 DEF Identity!Loaded, Identity!About, Identity!RequestState
<1>8. Identity!TypeOK'
  <2>1. request' \in Identity!RequestState
    BY <1>2, <1>7
  <2>2. member' \subseteq User \X Role /\ patched' \subseteq User \X Identity!Attribute
        /\ lent' \subseteq Identity!Account
    BY <1>1, <1>2 DEF Identity!TypeOK, Identity!RolesOf, Identity!Account
  <2> QED
    BY <1>2, <2>1, <2>2 DEF Identity!TypeOK
<1>9. /\ \A v \in User : Identity!Committing(v, "invite")' = Identity!Committing(v, "invite")
      /\ \A v \in User : Identity!Committing(v, "status")' = Identity!Committing(v, "status")
      /\ request'.op = request.op
      /\ request.op \in {"status", "assign"} =>
           request'.user = request.user /\ request'.phase = request.phase
  BY <1>7 DEF Identity!Committing
<1>10. ASSUME NEW v \in User PROVE Identity!RequestAgrees(v)'
  <2>1. Identity!RequestAgrees(v)
    BY <1>6
  <2>2. Identity!Committing(v, "invite")' => users'[v] = "NONE" /\ account'[v] # "NONE"
    BY <1>2, <1>3, <1>9, <2>1 DEF Identity!RequestAgrees
  <2>3. ASSUME request'.op = "status", request'.user = v
        PROVE  /\ users'[v] # "NONE"
               /\ request'.id \in {v} \cup lent'
               /\ <<v, "status">> \in patched' \/ users'[v] = request'.seen
               /\ link'[v] \in lent' \/ link'[v] = request'.id
               /\ request'.lost => <<v, "id">> \in patched'
               /\ request'.phase = "account" => request'.status # "INVITED"
               /\ request'.phase = "commit" /\ request'.status # "INVITED"
                    => account'[request'.id] = Identity!NewAccount'
    <3>1. /\ users[v] # "NONE"
          /\ request.id \in {v} \cup lent
          /\ <<v, "status">> \in patched \/ users[v] = request.seen
          /\ link[v] \in lent \/ link[v] = request.id
          /\ request.lost => <<v, "id">> \in patched
          /\ request.phase = "account" => request.status # "INVITED"
          /\ request.phase = "commit" /\ request.status # "INVITED"
               => account[request.id] = Identity!NewAccount
      BY <1>9, <2>1, <2>3 DEF Identity!RequestAgrees
    <3>2. /\ request'.id = request.id /\ request'.seen = request.seen
          /\ request'.status = request.status /\ request'.phase = request.phase
          /\ request'.lost => request.lost \/ <<v, "id">> \in patched'
      BY <1>5, <1>7, <2>3
    <3>3. Identity!NewAccount' = Identity!NewAccount
      BY <1>9, <3>2 DEF Identity!NewAccount
    <3>4. /\ users'[v] # "NONE"
          /\ <<v, "status">> \in patched' \/ users'[v] = request.seen
          /\ link'[v] \in lent' \/ link'[v] = request.id
      BY <1>2, <1>3, <1>4, <1>5, <3>1
    <3> QED
      BY <1>2, <1>4, <1>5, <3>1, <3>2, <3>3, <3>4
  <2>4. ASSUME request'.op = "assign", request'.user = v, request'.had
        PROVE  \/ Identity!Pair' \in member'
               \/ request'.role \notin roles'
               \/ <<v, "roles">> \in patched'
    <3>1. request.op = "assign" /\ request'.user = request.user /\ request'.role = request.role
          /\ request.had
      BY <1>7, <1>9, <2>4
    <3>2. Identity!Pair' = Identity!Pair
      BY <3>1 DEF Identity!Pair
    <3>3. \/ Identity!Pair \in member
          \/ request.role \notin roles
          \/ <<v, "roles">> \in patched
      <4>1. request.user = v
        BY <2>4, <3>1
      <4> QED
        BY <2>1, <3>1, <4>1 DEF Identity!RequestAgrees
    <3>4. Identity!Pair \in member => Identity!Pair \in member' \/ <<v, "roles">> \in patched'
      <4>1. Identity!Pair[1] = v
        BY <2>4, <3>1 DEF Identity!Pair
      <4>2. CASE v = u
        BY <1>5, <4>2
      <4>3. CASE v # u
        BY <1>1, <4>1, <4>3 DEF Identity!RolesOf
      <4> QED
        BY <4>2, <4>3
    <3> QED
      BY <1>2, <1>5, <3>1, <3>2, <3>3, <3>4
  <2> QED
    BY <2>2, <2>3, <2>4 DEF Identity!RequestAgrees
<1>11. Identity!FollowersAgree'
  <2>1. ASSUME NEW v \in User, users'[v] \in {"ACTIVE", "DISABLED"}
        PROVE  \/ heard'[v] = users'[v]
               \/ <<v, "status">> \in patched' \/ <<v, "id">> \in patched'
    BY <1>2, <1>3, <1>5, <1>6, <2>1 DEF Identity!FollowersAgree
  <2>2. member' \subseteq member /\ \A p \in member \ member' : p[1] = u
    BY <1>1 DEF Identity!RolesOf
  <2>3. /\ member' \subseteq {p \in granted' : p[2] \in roles'}
        /\ \A p \in granted' \ member' : p[2] \notin roles' \/ <<p[1], "roles">> \in patched'
    BY <1>2, <1>5, <1>6, <2>2 DEF Identity!FollowersAgree
  <2> QED
    BY <2>1, <2>3 DEF Identity!FollowersAgree
<1>12. ASSUME NEW v \in User PROVE Identity!RowAgrees(v)'
  <2>1. Identity!RowAgrees(v)
    BY <1>6
  <2>2. /\ link'[v] \in {v} \cup lent' /\ email'[v] \in {v} \cup lent'
        /\ users'[v] = "NONE" <=> users[v] = "NONE"
    BY <1>2, <1>3, <1>4, <2>1 DEF Identity!RowAgrees
  <2>3. Identity!Bypassed(v) => Identity!Bypassed(v)'
    BY <1>3, <1>4, <1>5 DEF Identity!Bypassed
  <2>4. Identity!Agrees(v) => Identity!Agrees(v)' \/ Identity!Bypassed(v)'
    BY <1>2, <1>3, <1>4, <1>5 DEF Identity!Agrees, Identity!Bypassed
  <2> QED
    BY <1>2, <1>4, <1>9, <2>1, <2>2, <2>3, <2>4 DEF Identity!RowAgrees
<1> QED
  BY <1>8, <1>10, <1>11, <1>12 DEF Identity!IdentityInv

\* The deletion of a role, in a thread.
LEMMA DeleteRoleStep ==
    ASSUME Identity!TypeOK, Identity!IdentityInv, NEW r \in Role, Identity!DeleteRole(r)
    PROVE  Identity!TypeOK' /\ Identity!IdentityInv'
<1>1. /\ roles' = roles \ {r} /\ member' = {p \in member : p[2] # r}
      /\ UNCHANGED <<users, account, link, email, request, heard, granted, patched, lent, faults>>
  BY DEF Identity!DeleteRole
<1>2. Identity!TypeOK'
  BY <1>1 DEF Identity!TypeOK
<1>3. ASSUME NEW u \in User PROVE Identity!RequestAgrees(u)' /\ Identity!RowAgrees(u)'
  <2>1. Identity!RequestAgrees(u) /\ Identity!RowAgrees(u)
    BY DEF Identity!IdentityInv
  <2>2. Identity!RequestAgrees(u)'
    BY <1>1, <2>1 DEF Identity!RequestAgrees, Identity!Committing, Identity!NewAccount,
         Identity!Pair
  <2>3. Identity!RowAgrees(u)'
    BY <1>1, <2>1 DEF Identity!RowAgrees, Identity!Committing, Identity!Bypassed, Identity!Agrees
  <2> QED
    BY <2>2, <2>3
<1>4. Identity!FollowersAgree'
  BY <1>1 DEF Identity!IdentityInv, Identity!FollowersAgree
<1> QED
  BY <1>2, <1>3, <1>4 DEF Identity!IdentityInv

\* Every step of the identity service keeps its invariant, and no user's row goes.
LEMMA IdentityStep ==
    ASSUME Identity!TypeOK, requests \in 0..MaxRequests, faults \in 0..MaxFaults,
           Identity!IdentityInv, Identity!Next
    PROVE  /\ Identity!TypeOK' /\ Identity!IdentityInv'
           /\ requests' \in 0..MaxRequests
           /\ faults' \in 0..MaxFaults /\ faults' >= faults
           /\ \A u \in User : users[u] # "NONE" => users'[u] # "NONE"
<1>1. ASSUME NEW u \in User, NEW status \in Identity!UserStatus, Identity!BeginStatus(u, status)
      PROVE  /\ Identity!TypeOK' /\ Identity!IdentityInv'
             /\ Identity!Request /\ UNCHANGED <<users, faults>>
  BY <1>1, BeginStatusStep DEF Identity!BeginStatus, Identity!Begin, Identity!database
<1>2. ASSUME NEW u \in User, Identity!BeginInvite(u) \/ Identity!BeginDelete(u)
      PROVE  /\ Identity!TypeOK' /\ Identity!IdentityInv'
             /\ Identity!Request /\ UNCHANGED <<users, faults>>
  <2>1. CASE Identity!BeginInvite(u)
    BY <2>1, BeginInviteStep DEF Identity!BeginInvite, Identity!Begin, Identity!database
  <2>2. CASE Identity!BeginDelete(u)
    BY <1>1, <2>2 DEF Identity!BeginDelete, Identity!UserStatus
  <2> QED
    BY <1>2, <2>1, <2>2
<1>3. ASSUME NEW u \in User, NEW r \in Role, Identity!BeginAssign(u, r) \/ Identity!BeginRemove(u, r)
      PROVE  /\ Identity!TypeOK' /\ Identity!IdentityInv'
             /\ Identity!Request /\ UNCHANGED <<users, faults>>
  BY <1>3, BeginRoleStep DEF Identity!BeginAssign, Identity!BeginRemove,
       Identity!BeginRole, Identity!Begin, Identity!database
<1>4. ASSUME NEW u \in User, NEW status \in Identity!UserStatus,
             NEW id \in Identity!Account, NEW address \in User,
             Identity!Patch(u, status, id, address)
      PROVE  /\ Identity!TypeOK' /\ Identity!IdentityInv'
             /\ Identity!Request /\ UNCHANGED faults
             /\ \A v \in User : users[v] # "NONE" => users'[v] # "NONE"
  <2>1. Identity!TypeOK' /\ Identity!IdentityInv'
    BY <1>4, PatchStep
  <2>2. /\ Identity!Request /\ UNCHANGED faults
        /\ users' = [users EXCEPT ![u] = status]
    BY <1>4 DEF Identity!Patch
  <2> QED
    BY <2>1, <2>2 DEF Identity!UserStatus, Identity!TypeOK
<1>8. ASSUME NEW r \in Role, Identity!DeleteRole(r)
      PROVE  /\ Identity!TypeOK' /\ Identity!IdentityInv'
             /\ Identity!Request /\ UNCHANGED <<users, faults>>
  BY <1>8, DeleteRoleStep DEF Identity!DeleteRole
<1>5. CASE Identity!CallKeycloak \/ Identity!KeycloakFails
  <2>1. UNCHANGED <<users, requests>> /\ (UNCHANGED faults \/ Identity!Fault)
    BY <1>5 DEF Identity!CallKeycloak, Identity!KeycloakFails, Identity!database
  <2>2. faults' \in 0..MaxFaults /\ faults' >= faults
    BY <2>1, CountersBounded
  <2> QED
    BY <1>5, <2>1, <2>2, KeycloakStep
<1>6. CASE Identity!CommitRejected \/ Identity!CommitFails
  <2>1. UNCHANGED <<users, requests>> /\ (UNCHANGED faults \/ Identity!Fault)
    BY <1>6 DEF Identity!CommitRejected, Identity!CommitFails, Identity!database
  <2>2. faults' \in 0..MaxFaults /\ faults' >= faults
    BY <2>1, CountersBounded
  <2> QED
    BY <1>6, <2>1, <2>2, AbandonStep
<1>7. CASE Identity!Commit
  <2>1. UNCHANGED <<requests, faults>>
    BY <1>7 DEF Identity!Commit
  <2>2. ASSUME NEW u \in User, users[u] # "NONE"
        PROVE  users'[u] # "NONE"
    <3>1. users \in [User -> Identity!UserStatus \cup {"NONE"}] /\ request \in Identity!RequestState
      BY DEF Identity!TypeOK
    <3>2. CASE Identity!CommitInvite
      BY <2>2, <3>1, <3>2 DEF Identity!CommitInvite
    <3>3. CASE Identity!CommitStatus
      BY <2>2, <3>1, <3>3 DEF Identity!CommitStatus, Identity!RequestState, Identity!NoRequest,
           Identity!UserStatus
    <3>4. CASE Identity!CommitAssign \/ Identity!CommitRemove
      BY <2>2, <3>4 DEF Identity!CommitAssign, Identity!CommitRemove
    <3> QED
      BY <1>7, <3>2, <3>3, <3>4 DEF Identity!Commit, Identity!Commits
  <2> QED
    BY <1>7, <2>1, <2>2, CommitStep
<1> QED
  BY <1>1, <1>2, <1>3, <1>4, <1>5, <1>6, <1>7, <1>8, CountersBounded
     DEF Identity!Next, Identity!Proceed

\* What the other services do, faults included, is nothing to the identity service.
LEMMA IdentityKept ==
    ASSUME Identity!TypeOK, Identity!IdentityInv, UNCHANGED identity,
           faults \in Nat, faults' \in Nat, faults' >= faults
    PROVE  Identity!TypeOK' /\ Identity!IdentityInv'
<1>1. UNCHANGED <<users, account, link, email, roles, member, request, heard, granted,
                  patched, lent>>
  BY DEF identity
<1>2. Identity!TypeOK'
  BY <1>1 DEF Identity!TypeOK
<1>3. Identity!FollowersAgree'
  BY <1>1 DEF Identity!IdentityInv, Identity!FollowersAgree
<1>4. faults > 0 => faults' > 0
  OBVIOUS
<1>5. ASSUME NEW u \in User PROVE Identity!RequestAgrees(u)' /\ Identity!RowAgrees(u)'
  <2>1. Identity!RequestAgrees(u) /\ Identity!RowAgrees(u)
    BY DEF Identity!IdentityInv
  <2>2. Identity!RequestAgrees(u)'
    BY <1>1, <2>1 DEF Identity!RequestAgrees, Identity!Committing, Identity!NewAccount,
         Identity!Pair
  <2>3. Identity!RowAgrees(u)'
    BY <1>1, <1>4, <2>1 DEF Identity!RowAgrees, Identity!Committing, Identity!Bypassed,
         Identity!Agrees
  <2> QED
    BY <2>2, <2>3
<1> QED
  BY <1>2, <1>3, <1>5 DEF Identity!IdentityInv

-----------------------------------------------------------------------------
(***************************************************************************)
(* The organization service.                                               *)
(***************************************************************************)

Rows == [Org \cup Department \cup Project -> Organization!Status \cup {"NONE", "GONE"}]
Homes == [Department \cup Project -> Org \cup {"NONE"}]
Told == [Org \cup Department \cup Project -> Organization!Status \cup {"NONE"}]

\* Every request of the organization service keeps the types of its rows.
LEMMA OrganizationStep ==
    ASSUME row \in Rows, home \in Homes, told \in Told, requests \in 0..MaxRequests,
           Organization!Next
    PROVE  row' \in Rows /\ home' \in Homes /\ told' \in Told /\ requests' \in 0..MaxRequests
<1>1. requests' \in 0..MaxRequests
  BY DEF Organization!Next, Organization!Request
<1>2. ASSUME NEW x \in Org \cup Department \cup Project, NEW status \in Organization!Status,
             Organization!Tell(x, status)
      PROVE  told' \in Told
  BY <1>2 DEF Organization!Tell, Told
<1>3. ASSUME NEW parts, Organization!Delete(parts)
      PROVE  row' \in Rows
  BY <1>3 DEF Organization!Delete, Organization!Part, Rows
<1>4. ASSUME NEW x \in Org \cup Department \cup Project, Organization!There(x)
      PROVE  row[x] \in Organization!Status
  BY <1>4 DEF Organization!There, Rows
<1>5. ASSUME NEW x \in Department \cup Project, NEW o \in Org, Organization!CreatePart(x, o)
      PROVE  row' \in Rows /\ home' \in Homes /\ told' \in Told
  BY <1>2, <1>5 DEF Organization!CreatePart, Organization!Status, Organization!PartStatus,
       Rows, Homes
<1>6. ASSUME NEW x \in Department \cup Project, Organization!UpdatePart(x)
      PROVE  row' \in Rows /\ home' \in Homes /\ told' \in Told
  <2>1. told' \in Told
    BY <1>2, <1>4, <1>6 DEF Organization!UpdatePart
  <2>2. row' \in Rows /\ home' \in Homes
    BY <1>3, <1>6 DEF Organization!UpdatePart, Homes
  <2> QED
    BY <2>1, <2>2
<1>7. ASSUME NEW x \in Org \cup Department \cup Project, NEW status \in Organization!Status,
             NEW committed, Organization!UpdateStatus(x, status, committed)
      PROVE  row' \in Rows /\ home' \in Homes /\ told' \in Told
  BY <1>2, <1>7 DEF Organization!UpdateStatus, Rows
<1>8. ASSUME NEW o \in Org, Organization!CreateOrganization(o) \/ Organization!UpdateOrganization(o)
      PROVE  row' \in Rows /\ home' \in Homes /\ told' \in Told
  <2>1. CASE Organization!CreateOrganization(o)
    BY <1>2, <2>1 DEF Organization!CreateOrganization, Organization!Status,
         Organization!OrgStatus, Rows
  <2>2. CASE Organization!UpdateOrganization(o)
    BY <1>2, <1>3, <1>4, <2>2 DEF Organization!UpdateOrganization
  <2> QED
    BY <1>8, <2>1, <2>2
<1>9. ASSUME NEW o \in Org,
             \/ Organization!SuspendOrganization(o)
             \/ \E status \in Organization!OrgStatus :
                   Organization!UpdateOrganizationStatus(o, status)
      PROVE  row' \in Rows /\ home' \in Homes /\ told' \in Told
  BY <1>7, <1>9 DEF Organization!SuspendOrganization, Organization!UpdateOrganizationStatus,
       Organization!Status, Organization!OrgStatus
<1>10. ASSUME NEW p \in Project, NEW status \in Organization!PartStatus,
              Organization!UpdateProjectStatus(p, status)
       PROVE  row' \in Rows /\ home' \in Homes /\ told' \in Told
  BY <1>7, <1>10 DEF Organization!UpdateProjectStatus, Organization!Status
<1>11. ASSUME NEW o \in Org,
              \/ \E d \in Department : Organization!CreateDepartment(d, o)
              \/ \E p \in Project : Organization!CreateProjects(p, o)
       PROVE  row' \in Rows /\ home' \in Homes /\ told' \in Told
  BY <1>5, <1>11 DEF Organization!CreateDepartment, Organization!CreateProjects
<1>12. ASSUME \/ \E d \in Department : Organization!UpdateDepartmentData(d)
              \/ \E p \in Project : Organization!UpdateProjectData(p)
       PROVE  row' \in Rows /\ home' \in Homes /\ told' \in Told
  BY <1>6, <1>12 DEF Organization!UpdateDepartmentData, Organization!UpdateProjectData
<1> QED
  BY <1>1, <1>8, <1>9, <1>10, <1>11, <1>12 DEF Organization!Next

-----------------------------------------------------------------------------
(***************************************************************************)
(* The two services together.                                              *)
(***************************************************************************)

\* A step of the listener or of the stream's server is due to a fault or to none.
LEMMA ConsumerFaults ==
    ASSUME \/ \E m \in Copy : Consumer!Publish(m) \/ Consumer!Server(m)
           \/ \E c \in Member : Consumer!Subscribe(c) \/ Consumer!Leave(c) \/ Consumer!Callback(c)
    PROVE  UNCHANGED faults \/ Consumer!Fault
  BY DEF Consumer!Publish, Consumer!Server, Consumer!Subscribe, Consumer!Leave,
     Consumer!Callback, Consumer!Deliver, Consumer!AckWaitExpires, Consumer!HandlerReturns,
     Consumer!HandlerRaises, Consumer!Ack, Consumer!AckLost

\* What the two services keep, whatever the publisher and the stream do.
Known ==
    /\ Identity!TypeOK
    /\ Identity!IdentityInv
    /\ row \in Rows /\ home \in Homes /\ told \in Told
    /\ requests \in 0..MaxRequests
    /\ faults \in 0..MaxFaults

\* In the beginning there are only the users who were invited before, active, each
\* with an enabled account.
LEMMA KnownInit == Init => Known
<1> SUFFICES ASSUME Init PROVE Known
  OBVIOUS
<1>1. /\ users = [u \in User |-> IF u \in Before THEN "ACTIVE" ELSE "NONE"]
      /\ account = [a \in Identity!Account |->
                      IF a \in User \cap Before THEN "ENABLED" ELSE "NONE"]
      /\ link = [u \in User |-> u] /\ email = [u \in User |-> u]
      /\ roles = Role /\ member = {} /\ request = Identity!NoRequest /\ heard = users
      /\ granted = {} /\ patched = {} /\ lent = {}
  BY DEF Init, Identity!Init
<1>2. User \subseteq Identity!Account
  BY DEF Identity!Account
<1>3. Identity!TypeOK
  BY <1>1, <1>2 DEF Identity!TypeOK, Identity!UserStatus, Identity!RequestState
<1>4. \A u \in User : Identity!RequestAgrees(u)
  BY <1>1 DEF Identity!RequestAgrees, Identity!Committing, Identity!NoRequest
<1>5. \A u \in User : Identity!RowAgrees(u)
  BY <1>1, <1>2 DEF Identity!RowAgrees, Identity!Agrees
<1>6. Identity!FollowersAgree
  BY <1>1 DEF Identity!FollowersAgree
<1> QED
  BY <1>3, <1>4, <1>5, <1>6
     DEF Init, Known, Identity!IdentityInv, Rows, Homes, Told, Organization!Init, Organization!Part

\* Kept too: what a step of the listener, of the stream or of the publisher may change.
LEMMA KnownNext ==
    ASSUME Known, [Next]_vars
    PROVE  /\ Known'
           /\ faults' >= faults
           /\ \A u \in User : users[u] # "NONE" => users'[u] # "NONE"
<1>1. /\ Identity!TypeOK /\ Identity!IdentityInv
      /\ row \in Rows /\ home \in Homes /\ told \in Told
      /\ requests \in 0..MaxRequests /\ faults \in 0..MaxFaults
  BY DEF Known
<1>2. ASSUME Identity!Next, UNCHANGED organization
      PROVE  /\ Known' /\ faults' >= faults
             /\ \A u \in User : users[u] # "NONE" => users'[u] # "NONE"
  BY <1>1, <1>2, IdentityStep DEF Known, organization
<1>3. CASE Organize
  <2>1. UNCHANGED identity /\ UNCHANGED faults /\ UNCHANGED users
    BY <1>3 DEF Organize, identity
  <2> QED
    BY <1>1, <1>3, <2>1, OrganizationStep, IdentityKept DEF Organize, Known
<1>4. ASSUME UNCHANGED identity, UNCHANGED organization, UNCHANGED requests,
             UNCHANGED faults \/ Consumer!Fault
      PROVE  /\ Known' /\ faults' >= faults
             /\ \A u \in User : users[u] # "NONE" => users'[u] # "NONE"
  <2>1. faults' \in 0..MaxFaults /\ faults' >= faults
    BY <1>1, <1>4 DEF Consumer!Fault
  <2>2. UNCHANGED <<users, row, home, told>>
    BY <1>4 DEF identity, organization
  <2> QED
    BY <1>1, <1>4, <2>1, <2>2, IdentityKept DEF Known
<1>5. CASE Identify \/ \E u \in User : Invite(u)
  BY <1>2, <1>5 DEF Identify, Invite, Invites, Identity!Next, Identity!Proceed
<1>6. CASE \/ \E u \in User : Relay(u)
           \/ \E c \in Member : Listen(c) \/ Restart(c) \/ Handle(c)
           \/ \E m \in Copy : Serve(m)
  <2>1. ASSUME NEW u \in User, Relay(u)
        PROVE  UNCHANGED identity /\ UNCHANGED organization /\ UNCHANGED <<requests, faults>>
    BY <2>1 DEF Relay, Consumer!Publish
  <2> QED
    BY <1>4, <1>6, <2>1, ConsumerFaults DEF Listen, Restart, Handle, Serve, ListenerOnly
<1>7. CASE \E published, failed \in SUBSET User : CloseRows(published, failed)
  BY <1>4, <1>7 DEF CloseRows
<1>8. CASE UNCHANGED vars
  BY <1>4, <1>8 DEF vars
<1> QED
  BY <1>3, <1>5, <1>6, <1>7, <1>8 DEF Next

\* What the two services keep is an invariant.
LEMMA KnownAlways == Spec => []Known
  BY KnownInit, KnownNext, PTL DEF Spec

\* Every user has a Keycloak account, and an account without a user is left only by
\* a failure between the call to Keycloak and the commit of invite_user; but for the
\* ids and addresses that PATCH /users/{id} puts into other rows.
THEOREM RowsHaveAccountsCorrect == Spec => []RowsHaveAccounts
<1>1. Known => RowsHaveAccounts
  <2> SUFFICES ASSUME Known, NEW u \in User
               PROVE  /\ users[u] # "NONE" => account[link[u]] # "NONE" \/ link[u] \in lent
                      /\ users[u] = "NONE" /\ account[u] # "NONE" =>
                           Identity!About(u) \/ faults > 0 \/ u \in lent
    BY DEF RowsHaveAccounts, Identity!RowsHaveAccounts
  <2>1. Identity!RowAgrees(u)
    BY DEF Known, Identity!IdentityInv
  <2>2. Identity!Committing(u, "invite") => Identity!About(u)
    BY DEF Identity!About, Identity!Committing, Identity!NoRequest
  <2> QED
    BY <2>1, <2>2 DEF Identity!RowAgrees
<1> QED
  BY <1>1, KnownAlways, PTL

\* A user who is DISABLED cannot log in and one who is ACTIVE can, unless a request
\* about the user is under way or failed half way, or a PATCH went past Keycloak.
THEOREM LockedOutCorrect == Spec => []LockedOut
<1>1. Known => LockedOut
  <2> SUFFICES ASSUME Known, NEW u \in User
               PROVE  Identity!About(u) \/ faults > 0 \/ Identity!Bypassed(u) \/ Identity!Agrees(u)
    BY DEF LockedOut, Identity!LockedOut
  <2>1. Identity!RowAgrees(u)
    BY DEF Known, Identity!IdentityInv
  <2>2. Identity!Committing(u, "status") => Identity!About(u)
    BY DEF Identity!About, Identity!Committing, Identity!NoRequest
  <2> QED
    BY <2>1, <2>2 DEF Identity!RowAgrees
<1> QED
  BY <1>1, KnownAlways, PTL

\* Whoever follows the staged events of the identity service knows every user's status
\* and roles, but for what PATCH and the deletion of a role change without an event.
THEOREM FollowersCorrect == Spec => []FollowersAgree
<1>1. Known => FollowersAgree
  BY DEF Known, FollowersAgree, Identity!IdentityInv
<1> QED
  BY <1>1, KnownAlways, PTL
=============================================================================
