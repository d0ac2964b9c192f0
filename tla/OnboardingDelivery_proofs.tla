--------------------- MODULE OnboardingDelivery_proofs ---------------------
(***************************************************************************)
(* Proofs about the listener of Onboarding, for any number of listeners,   *)
(* copies, deliveries and faults: every delivery without an effect and     *)
(* every effect beyond the first is paid for by a fault.                   *)
(***************************************************************************)
EXTENDS Onboarding_proofs, SequenceTheorems

-----------------------------------------------------------------------------
(***************************************************************************)
(* Queues.                                                                 *)
(***************************************************************************)

QueueTypes == listener \in [Member -> Consumer!MemberState]

\* The head and the tail of a queue, by position.
LEMMA QueueFacts ==
    ASSUME QueueTypes, NEW c \in Member
    PROVE  /\ listener[c] \in Consumer!MemberState
           /\ listener[c].inbox \in Seq(Copy)
           /\ Len(listener[c].inbox) \in Nat
           /\ DOMAIN listener[c].inbox = 1..Len(listener[c].inbox)
           /\ listener[c].handled \in BOOLEAN /\ listener[c].up \in BOOLEAN
           /\ listener[c].inbox # <<>> =>
                /\ 1 \in DOMAIN listener[c].inbox
                /\ Consumer!Current(c) = listener[c].inbox[1]
                /\ Consumer!Current(c) \in Copy
<1>1. /\ listener[c] \in Consumer!MemberState /\ listener[c].inbox \in Seq(Copy)
      /\ listener[c].handled \in BOOLEAN /\ listener[c].up \in BOOLEAN
  BY DEF QueueTypes, Consumer!MemberState
<1> DEFINE s == listener[c].inbox
<1>2. s \in Seq(Copy)
  BY <1>1
<1> HIDE DEF s
<1>3. Len(s) \in Nat /\ DOMAIN s = 1..Len(s)
  BY <1>2
<1>4. s # <<>> => 1 \in DOMAIN s /\ Head(s) = s[1] /\ s[1] \in Copy
  BY <1>2
<1> QED
  BY <1>1, <1>3, <1>4 DEF s, Consumer!Current

\* The next message of a queue: what a process was handed moves up by one.
LEMMA NextMessageShifts ==
    ASSUME QueueTypes, NEW c \in Member, listener[c].inbox # <<>>, Consumer!NextMessage(c)
    PROVE  /\ QueueTypes'
           /\ \A d \in Member : d # c => listener'[d] = listener[d]
           /\ listener'[c].handled = FALSE
           /\ Len(listener'[c].inbox) = Len(listener[c].inbox) - 1
           /\ DOMAIN listener'[c].inbox = 1..(Len(listener[c].inbox) - 1)
           /\ \A i \in 1..(Len(listener[c].inbox) - 1) :
                 listener'[c].inbox[i] = listener[c].inbox[i + 1]
<1> DEFINE s == listener[c].inbox
<1>1. s \in Seq(Copy) /\ s # <<>> /\ listener[c] \in Consumer!MemberState
  BY QueueFacts
<1>2. listener' = [listener EXCEPT ![c].inbox = Tail(s), ![c].handled = FALSE]
  BY DEF Consumer!NextMessage
<1>3. /\ listener'[c] = [listener[c] EXCEPT !.inbox = Tail(s), !.handled = FALSE]
      /\ \A d \in Member : d # c => listener'[d] = listener[d]
      /\ listener' = [listener EXCEPT ![c] = [listener[c] EXCEPT !.inbox = Tail(s), !.handled = FALSE]]
  BY <1>2 DEF QueueTypes
<1>4. /\ listener'[c].inbox = Tail(s) /\ listener'[c].handled = FALSE
  BY <1>1, <1>3 DEF Consumer!MemberState
<1> HIDE DEF s
<1>5. /\ Tail(s) \in Seq(Copy) /\ Len(Tail(s)) = Len(s) - 1
      /\ DOMAIN Tail(s) = 1..(Len(s) - 1)
      /\ \A i \in 1..(Len(s) - 1) : Tail(s)[i] = s[i + 1]
  BY <1>1
<1>6. [listener[c] EXCEPT !.inbox = Tail(s), !.handled = FALSE] \in Consumer!MemberState
  BY <1>1, <1>5 DEF Consumer!MemberState
<1> QED
  BY <1>3, <1>4, <1>5, <1>6 DEF s, QueueTypes

\* A delivery: the message is the last of the queue.
LEMMA DeliverAppends ==
    ASSUME QueueTypes, NEW c \in Member, NEW m \in Copy, Consumer!Deliver(c, m)
    PROVE  /\ QueueTypes'
           /\ \A d \in Member : d # c => listener'[d] = listener[d]
           /\ listener'[c].handled = listener[c].handled
           /\ DOMAIN listener'[c].inbox = 1..(Len(listener[c].inbox) + 1)
           /\ \A i \in 1..Len(listener[c].inbox) :
                 listener'[c].inbox[i] = listener[c].inbox[i]
           /\ listener'[c].inbox[Len(listener[c].inbox) + 1] = m
<1> DEFINE s == listener[c].inbox
<1>1. s \in Seq(Copy) /\ listener[c] \in Consumer!MemberState
  BY QueueFacts
<1>2. listener' = [listener EXCEPT ![c].inbox = Append(s, m)]
  BY DEF Consumer!Deliver
<1>3. /\ listener'[c] = [listener[c] EXCEPT !.inbox = Append(s, m)]
      /\ \A d \in Member : d # c => listener'[d] = listener[d]
      /\ listener' = [listener EXCEPT ![c] = [listener[c] EXCEPT !.inbox = Append(s, m)]]
  BY <1>2 DEF QueueTypes
<1>4. listener'[c].inbox = Append(s, m) /\ listener'[c].handled = listener[c].handled
  BY <1>1, <1>3 DEF Consumer!MemberState
<1> HIDE DEF s
<1>5. /\ Append(s, m) \in Seq(Copy)
      /\ DOMAIN Append(s, m) = 1..(Len(s) + 1)
      /\ \A i \in 1..Len(s) : Append(s, m)[i] = s[i]
      /\ Append(s, m)[Len(s) + 1] = m
  BY <1>1
<1>6. [listener[c] EXCEPT !.inbox = Append(s, m)] \in Consumer!MemberState
  BY <1>1, <1>5 DEF Consumer!MemberState
<1> QED
  BY <1>3, <1>4, <1>5, <1>6 DEF s, QueueTypes

-----------------------------------------------------------------------------
(***************************************************************************)
(* Who holds a message, and where its handler has yet to return.           *)
(***************************************************************************)

Waits(c, i, m) ==
    /\ i \in DOMAIN listener[c].inbox
    /\ listener[c].inbox[i] = m
    /\ i = 1 => ~listener[c].handled

Places == Member \X Int

\* A delivery in front of a member is a place in its inbox.
LEMMA UnhandledIsWaiting ==
    ASSUME NEW m, QueueTypes
    PROVE  Consumer!Unhandled(m) = {p \in Places : Waits(p[1], p[2], m)}
<1> DEFINE Of(c) == {<<c, i>> : i \in {j \in DOMAIN listener[c].inbox :
                        listener[c].inbox[j] = m /\ (j = 1 => ~listener[c].handled)}}
<1>1. Consumer!Unhandled(m) = UNION {Of(c) : c \in Member}
  BY DEF Consumer!Unhandled
<1>2. \A c \in Member : \A p : p \in Of(c) <=> \E i : p = <<c, i>> /\ Waits(c, i, m)
  BY DEF Waits
<1>3. \A c \in Member : \A i : Waits(c, i, m) => i \in Int
  BY QueueFacts DEF Waits
<1> HIDE DEF Of
<1>4. ASSUME NEW p, p \in Consumer!Unhandled(m)
      PROVE  p \in Places /\ Waits(p[1], p[2], m)
  <2>1. PICK c \in Member : p \in Of(c)
    BY <1>1, <1>4
  <2>2. PICK i : p = <<c, i>> /\ Waits(c, i, m)
    BY <1>2, <2>1
  <2> QED
    BY <1>3, <2>1, <2>2 DEF Places
<1>5. ASSUME NEW p \in Places, Waits(p[1], p[2], m)
      PROVE  p \in Consumer!Unhandled(m)
  <2>1. p = <<p[1], p[2]>> /\ p[1] \in Member
    BY DEF Places
  <2>2. p \in Of(p[1])
    BY <1>2, <1>5, <2>1
  <2> QED
    BY <1>1, <2>1, <2>2
<1> QED
  BY <1>4, <1>5

\* The same after a step.
LEMMA UnhandledIsWaitingNext ==
    ASSUME NEW m, QueueTypes'
    PROVE  Consumer!Unhandled(m)' = {p \in Places : Waits(p[1], p[2], m)'}
<1> DEFINE Of(c) == {<<c, i>> : i \in {j \in DOMAIN listener'[c].inbox :
                        listener'[c].inbox[j] = m /\ (j = 1 => ~listener'[c].handled)}}
<1>1. Consumer!Unhandled(m)' = UNION {Of(c) : c \in Member}
  BY DEF Consumer!Unhandled
<1>2. \A c \in Member : \A p : p \in Of(c) <=> \E i : p = <<c, i>> /\ Waits(c, i, m)'
  BY DEF Waits
<1>3. ASSUME NEW c \in Member
      PROVE  DOMAIN listener'[c].inbox \subseteq Int
  BY DEF QueueTypes, Consumer!MemberState
<1>4. \A c \in Member : \A i : Waits(c, i, m)' => i \in Int
  BY <1>3 DEF Waits
<1> HIDE DEF Of
<1>5. ASSUME NEW p, p \in Consumer!Unhandled(m)'
      PROVE  p \in Places /\ Waits(p[1], p[2], m)'
  <2>1. PICK c \in Member : p \in Of(c)
    BY <1>1, <1>5
  <2>2. PICK i : p = <<c, i>> /\ Waits(c, i, m)'
    BY <1>2, <2>1
  <2> QED
    BY <1>4, <2>1, <2>2 DEF Places
<1>6. ASSUME NEW p \in Places, Waits(p[1], p[2], m)'
      PROVE  p \in Consumer!Unhandled(m)'
  <2>1. p = <<p[1], p[2]>> /\ p[1] \in Member
    BY DEF Places
  <2>2. p \in Of(p[1])
    BY <1>2, <1>6, <2>1
  <2> QED
    BY <1>1, <2>1, <2>2
<1> QED
  BY <1>5, <1>6

HasFew(m) == IsFiniteSet(Consumer!Unhandled(m))
Size(m)   == Cardinality(Consumer!Unhandled(m))

\* The messages whose handlers wait stay as many when their queue moves up, but for
\* the first of the queue, if it is one of them.
LEMMA NextMessageCounts ==
    ASSUME QueueTypes, NEW c \in Member, listener[c].inbox # <<>>, Consumer!NextMessage(c),
           NEW m, HasFew(m)
    PROVE  /\ HasFew(m)' /\ Size(m)' \in Nat /\ Size(m) \in Nat
           /\ Size(m)' = IF Waits(c, 1, m) THEN Size(m) - 1 ELSE Size(m)
<1> DEFINE U == Consumer!Unhandled(m)
           V == Consumer!Unhandled(m)'
           S == U \ {<<c, 1>>}
           Up(p) == IF p[1] = c THEN <<c, p[2] - 1>> ELSE p
           f == [p \in S |-> Up(p)]
           n == Len(listener[c].inbox)
<1>1. /\ QueueTypes' /\ n \in Nat
      /\ \A d \in Member : d # c => listener'[d] = listener[d]
      /\ listener'[c].handled = FALSE
      /\ DOMAIN listener'[c].inbox = 1..(n - 1)
      /\ DOMAIN listener[c].inbox = 1..n
      /\ \A i \in 1..(n - 1) : listener'[c].inbox[i] = listener[c].inbox[i + 1]
  BY NextMessageShifts, QueueFacts
<1>2. U = {p \in Places : Waits(p[1], p[2], m)}
  BY UnhandledIsWaiting
<1>3. V = {p \in Places : Waits(p[1], p[2], m)'}
  BY <1>1, UnhandledIsWaitingNext
<1>4. \A i \in Int : i # 1 => (Waits(c, i, m) <=> Waits(c, i - 1, m)')
  BY <1>1 DEF Waits
<1>5. \A d \in Member : d # c => \A i : Waits(d, i, m) <=> Waits(d, i, m)'
  BY <1>1 DEF Waits
<1> HIDE DEF U, V, n
<1>6. \A p \in S : Up(p) \in V
  <2> TAKE p \in S
  <2>1. p \in Places /\ Waits(p[1], p[2], m) /\ p # <<c, 1>>
    BY <1>2
  <2>2. CASE p[1] = c
    <3>1. p[2] \in Int /\ p[2] # 1
      BY <2>1, <2>2 DEF Places
    <3>2. Waits(c, p[2] - 1, m)'
      BY <1>4, <2>1, <2>2, <3>1
    <3>3. <<c, p[2] - 1>> \in Places
      BY <3>1 DEF Places
    <3> QED
      BY <1>3, <2>2, <3>2, <3>3
  <2>3. CASE p[1] # c
    <3>1. p[1] \in Member /\ Waits(p[1], p[2], m)'
      BY <1>5, <2>1, <2>3 DEF Places
    <3> QED
      BY <1>3, <2>1, <2>3, <3>1
  <2> QED
    BY <2>2, <2>3
<1>7. \A p, q \in S : Up(p) = Up(q) => p = q
  <2> TAKE p, q \in S
  <2> HAVE Up(p) = Up(q)
  <2>1. /\ p = <<p[1], p[2]>> /\ q = <<q[1], q[2]>> /\ p[2] \in Int /\ q[2] \in Int
    BY <1>2 DEF Places
  <2>2. Up(p)[1] = p[1] /\ Up(q)[1] = q[1]
    OBVIOUS
  <2>3. p[1] = q[1]
    BY <2>2
  <2>4. p[2] = q[2]
    BY <2>1, <2>3
  <2> QED
    BY <2>1, <2>3, <2>4
<1>8. \A q \in V : \E p \in S : Up(p) = q
  <2> TAKE q \in V
  <2>1. q \in Places /\ Waits(q[1], q[2], m)' /\ q = <<q[1], q[2]>> /\ q[1] \in Member /\ q[2] \in Int
    BY <1>3 DEF Places
  <2>2. CASE q[1] = c
    <3>1. q[2] \in 1..(n - 1)
      BY <1>1, <2>1, <2>2 DEF Waits
    <3> DEFINE p == <<c, q[2] + 1>>
    <3>2. p \in Places /\ p # <<c, 1>> /\ p[1] = c /\ p[2] = q[2] + 1
      BY <1>1, <2>1, <3>1 DEF Places
    <3>3. Waits(c, q[2] + 1, m)
      BY <1>1, <1>4, <2>1, <2>2, <3>1
    <3>4. p \in S
      BY <1>2, <3>2, <3>3
    <3>5. Up(p) = q
      BY <1>1, <2>1, <2>2, <3>1, <3>2
    <3> QED
      BY <3>4, <3>5
  <2>3. CASE q[1] # c
    <3>1. Waits(q[1], q[2], m)
      BY <1>5, <2>1, <2>3
    <3>2. q \in S /\ Up(q) = q
      BY <1>2, <2>1, <2>3, <3>1
    <3> QED
      BY <3>2
  <2> QED
    BY <2>2, <2>3
<1>9. f \in Bijection(S, V)
  BY <1>6, <1>7, <1>8 DEF Bijection, Injection, Surjection, IsInjective
<1>10. IsFiniteSet(U)
  BY DEF HasFew, U
<1>11. IsFiniteSet(S) /\ Cardinality(U) \in Nat
       /\ Cardinality(S) = IF <<c, 1>> \in U THEN Cardinality(U) - 1 ELSE Cardinality(U)
  BY <1>10, FS_RemoveElement, FS_CardinalityType
<1>12. <<c, 1>> \in U <=> Waits(c, 1, m)
  BY <1>2 DEF Places
<1>13. IsFiniteSet(V) /\ Cardinality(V) = Cardinality(S) /\ Cardinality(V) \in Nat
  <2>1. ExistsBijection(S, V)
    BY <1>9 DEF ExistsBijection
  <2> HIDE DEF S
  <2> QED
    BY <1>11, <2>1, FS_Bijection, FS_CardinalityType
<1> QED
  BY <1>11, <1>12, <1>13 DEF HasFew, Size, U, V

\* They are as many as before where nothing was handed out, returned or passed on.
LEMMA UnhandledSame ==
    ASSUME QueueTypes, QueueTypes', NEW m, HasFew(m),
           \A c \in Member : \A i : Waits(c, i, m)' = Waits(c, i, m)
    PROVE  HasFew(m)' /\ Size(m)' = Size(m) /\ Size(m) \in Nat
<1>1. Consumer!Unhandled(m) = {p \in Places : Waits(p[1], p[2], m)}
  BY UnhandledIsWaiting
<1>2. Consumer!Unhandled(m)' = {p \in Places : Waits(p[1], p[2], m)'}
  BY UnhandledIsWaitingNext
<1>3. Consumer!Unhandled(m)' = Consumer!Unhandled(m)
  BY <1>1, <1>2 DEF Places
<1> QED
  BY <1>3, FS_CardinalityType DEF HasFew, Size

\* A process that leaves takes some of them with it.
LEMMA UnhandledFewer ==
    ASSUME QueueTypes, QueueTypes', NEW m, HasFew(m),
           \A c \in Member : \A i : Waits(c, i, m)' => Waits(c, i, m)
    PROVE  HasFew(m)' /\ Size(m)' <= Size(m) /\ Size(m) \in Nat /\ Size(m)' \in Nat
<1>1. Consumer!Unhandled(m) = {p \in Places : Waits(p[1], p[2], m)}
  BY UnhandledIsWaiting
<1>2. Consumer!Unhandled(m)' = {p \in Places : Waits(p[1], p[2], m)'}
  BY UnhandledIsWaitingNext
<1>3. Consumer!Unhandled(m)' \subseteq Consumer!Unhandled(m)
  BY <1>1, <1>2 DEF Places
<1> QED
  BY <1>3, FS_Subset, FS_CardinalityType DEF HasFew, Size

\* A delivery adds one, the last of a queue.
LEMMA UnhandledAdded ==
    ASSUME QueueTypes, NEW c \in Member, NEW m \in Copy, Consumer!Deliver(c, m),
           listener[c].handled => listener[c].inbox # <<>>, HasFew(m)
    PROVE  HasFew(m)' /\ Size(m)' = Size(m) + 1 /\ Size(m) \in Nat
<1> DEFINE n == Len(listener[c].inbox)
           p0 == <<c, n + 1>>
           U == Consumer!Unhandled(m)
<1>1. /\ QueueTypes' /\ n \in Nat
      /\ \A d \in Member : d # c => listener'[d] = listener[d]
      /\ listener'[c].handled = listener[c].handled
      /\ DOMAIN listener'[c].inbox = 1..(n + 1)
      /\ DOMAIN listener[c].inbox = 1..n
      /\ \A i \in 1..n : listener'[c].inbox[i] = listener[c].inbox[i]
      /\ listener'[c].inbox[n + 1] = m
  BY DeliverAppends, QueueFacts
<1>2. n = 0 => ~listener[c].handled
  <2>1. listener[c].inbox \in Seq(Copy) /\ listener[c].handled \in BOOLEAN
    BY QueueFacts
  <2> QED
    BY <2>1
<1> HIDE DEF n
<1>3. \A i : Waits(c, i, m)' <=> i = n + 1 \/ Waits(c, i, m)
  BY <1>1, <1>2 DEF Waits
<1>4. \A d \in Member : d # c => \A i : Waits(d, i, m)' <=> Waits(d, i, m)
  BY <1>1 DEF Waits
<1>5. U = {p \in Places : Waits(p[1], p[2], m)}
  BY UnhandledIsWaiting
<1>6. Consumer!Unhandled(m)' = {p \in Places : Waits(p[1], p[2], m)'}
  BY <1>1, UnhandledIsWaitingNext
<1>7. ~Waits(c, n + 1, m)
  BY <1>1 DEF Waits
<1>8. p0 \in Places /\ p0 \notin U
  BY <1>1, <1>5, <1>7 DEF Places
<1> HIDE DEF U
<1>9. Consumer!Unhandled(m)' = U \cup {p0}
  <2>1. ASSUME NEW p \in Places PROVE Waits(p[1], p[2], m)' <=> Waits(p[1], p[2], m) \/ p = p0
    BY <1>3, <1>4, <2>1 DEF Places
  <2> QED
    BY <1>5, <1>6, <1>8, <2>1
<1> HIDE DEF p0
<1>10. IsFiniteSet(U)
  BY DEF HasFew, U
<1>11. IsFiniteSet(U \cup {p0}) /\ Cardinality(U \cup {p0}) = Cardinality(U) + 1 /\ Cardinality(U) \in Nat
  BY <1>8, <1>10, FS_AddElement, FS_CardinalityType
<1> QED
  BY <1>9, <1>11 DEF HasFew, Size, U

\* A handler that returns is one less.
LEMMA UnhandledReturned ==
    ASSUME QueueTypes, NEW c \in Member, NEW m, HasFew(m), Consumer!HandlerReturns(c)
    PROVE  /\ QueueTypes' /\ HasFew(m)' /\ Size(m) \in Nat /\ Size(m)' \in Nat
           /\ Size(m)' = IF m = Consumer!Current(c) THEN Size(m) - 1 ELSE Size(m)
<1> DEFINE U == Consumer!Unhandled(m)
<1>1. /\ listener[c].inbox # <<>> /\ ~listener[c].handled
      /\ listener' = [listener EXCEPT ![c].handled = TRUE]
      /\ listener[c] \in Consumer!MemberState
      /\ 1 \in DOMAIN listener[c].inbox /\ Consumer!Current(c) = listener[c].inbox[1]
  BY QueueFacts DEF Consumer!HandlerReturns, Consumer!Handling
<1>2. /\ \A d \in Member : d # c => listener'[d] = listener[d]
      /\ listener'[c].inbox = listener[c].inbox /\ listener'[c].handled = TRUE
      /\ QueueTypes'
  BY <1>1 DEF QueueTypes, Consumer!MemberState
<1>3. \A d \in Member : \A i : Waits(d, i, m)' <=> Waits(d, i, m) /\ <<d, i>> # <<c, 1>>
  BY <1>1, <1>2 DEF Waits
<1>4. U = {p \in Places : Waits(p[1], p[2], m)}
  BY UnhandledIsWaiting
<1>5. Consumer!Unhandled(m)' = {p \in Places : Waits(p[1], p[2], m)'}
  BY <1>2, UnhandledIsWaitingNext
<1>6. <<c, 1>> \in U <=> m = Consumer!Current(c)
  BY <1>1, <1>4 DEF Waits, Places
<1>7. Consumer!Unhandled(m)' = U \ {<<c, 1>>}
  <2>1. ASSUME NEW p \in Places
        PROVE  Waits(p[1], p[2], m)' <=> Waits(p[1], p[2], m) /\ p # <<c, 1>>
    BY <1>3 DEF Places
  <2> QED
    BY <1>4, <1>5, <2>1
<1>8. IsFiniteSet(U)
  BY DEF HasFew
<1> HIDE DEF U
<1>9. /\ IsFiniteSet(U \ {<<c, 1>>}) /\ Cardinality(U) \in Nat
      /\ Cardinality(U \ {<<c, 1>>}) \in Nat
      /\ Cardinality(U \ {<<c, 1>>}) = IF <<c, 1>> \in U THEN Cardinality(U) - 1 ELSE Cardinality(U)
  BY <1>8, FS_RemoveElement, FS_CardinalityType
<1> QED
  BY <1>2, <1>6, <1>7, <1>9 DEF HasFew, Size, U

\* Who holds a message, before and after a queue moves up.
LEMMA NextMessageHolds ==
    ASSUME QueueTypes, NEW c \in Member, listener[c].inbox # <<>>, Consumer!NextMessage(c), NEW m
    PROVE  m # Consumer!Current(c) => Consumer!Held(m)' = Consumer!Held(m)
<1> DEFINE n == Len(listener[c].inbox)
<1>1. /\ n \in Nat
      /\ \A d \in Member : d # c => listener'[d] = listener[d]
      /\ DOMAIN listener'[c].inbox = 1..(n - 1)
      /\ DOMAIN listener[c].inbox = 1..n
      /\ \A i \in 1..(n - 1) : listener'[c].inbox[i] = listener[c].inbox[i + 1]
      /\ Consumer!Current(c) = listener[c].inbox[1]
  BY NextMessageShifts, QueueFacts
<1> HIDE DEF n
<1> HAVE m # Consumer!Current(c)
<1>2. ASSUME Consumer!Held(m) PROVE Consumer!Held(m)'
  <2>1. PICK d \in Member : \E i \in DOMAIN listener[d].inbox : listener[d].inbox[i] = m
    BY <1>2 DEF Consumer!Held
  <2>2. CASE d # c
    BY <1>1, <2>1, <2>2 DEF Consumer!Held
  <2>3. CASE d = c
    <3>1. PICK i \in 1..n : listener[c].inbox[i] = m
      BY <1>1, <2>1, <2>3
    <3>2. (i - 1) \in 1..(n - 1) /\ (i - 1) + 1 = i
      BY <1>1, <3>1
    <3>3. listener'[c].inbox[i - 1] = m
      BY <1>1, <3>1, <3>2
    <3> QED
      BY <1>1, <3>2, <3>3 DEF Consumer!Held
  <2> QED
    BY <2>2, <2>3
<1>3. ASSUME Consumer!Held(m)' PROVE Consumer!Held(m)
  <2>1. PICK d \in Member : \E i \in DOMAIN listener'[d].inbox : listener'[d].inbox[i] = m
    BY <1>3 DEF Consumer!Held
  <2>2. CASE d # c
    BY <1>1, <2>1, <2>2 DEF Consumer!Held
  <2>3. CASE d = c
    <3>1. PICK i \in 1..(n - 1) : listener'[c].inbox[i] = m
      BY <1>1, <2>1, <2>3
    <3>2. (i + 1) \in 1..n /\ listener[c].inbox[i + 1] = m
      BY <1>1, <3>1
    <3> QED
      BY <1>1, <3>2 DEF Consumer!Held
  <2> QED
    BY <2>2, <2>3
<1> QED
  BY <1>2, <1>3 DEF Consumer!Held

-----------------------------------------------------------------------------
(***************************************************************************)
(* The invariant of the listener, message by message.                      *)
(***************************************************************************)

ListenerTypes ==
    /\ message \in [Copy -> Consumer!MessageState]
    /\ QueueTypes
    /\ announced \in [Copy -> Nat]
    /\ faults \in Nat

Counted(m) ==
    /\ message[m].state = "absent" => message[m].count = 0 /\ announced[m] = 0
    /\ message[m].state = "ready" => message[m].count < MaxDeliver
    /\ message[m].state = "exhausted" => message[m].count = MaxDeliver
    /\ message[m].state = "acked" => announced[m] > 0

Paid(m) ==
    /\ announced[m] = 0 =>
         \/ message[m].count <= faults
         \/ Consumer!Held(m) /\ message[m].state = "pending" /\ message[m].count = faults + 1
    /\ announced[m] + Size(m) + Consumer!Due(m) <= 1 + faults

ListenerInv ==
    /\ ListenerTypes
    /\ Consumer!HandedAgree
    /\ \A m \in Copy : HasFew(m) /\ Counted(m) /\ Paid(m)

\* The invariant of the proofs contains the one that the run checks.
LEMMA ListenerInvIs == ListenerInv => Consumer!ConsumerInv
<1> SUFFICES ASSUME ListenerInv PROVE Consumer!ConsumerInv
  OBVIOUS
<1>1. Consumer!HandedAgree /\ \A m \in Copy : Counted(m) /\ Paid(m)
  BY DEF ListenerInv
<1>2. Consumer!CountsAgree
  BY <1>1 DEF Consumer!CountsAgree, Counted
<1>3. Consumer!LossesPaid
  BY <1>1 DEF Consumer!LossesPaid, Paid
<1>4. Consumer!RepeatsPaid
  <2>1. \A m \in Copy : announced[m] + Size(m) + Consumer!Due(m) <= 1 + faults
    BY <1>1 DEF Paid
  <2> QED
    BY <2>1, Zenon DEF Consumer!RepeatsPaid, Size, Cardinality, Consumer!Cardinality
<1> QED
  BY <1>1, <1>2, <1>3, <1>4 DEF Consumer!ConsumerInv

\* What the types say of one message.
LEMMA MessageFacts ==
    ASSUME ListenerTypes, NEW m \in Copy
    PROVE  /\ message[m] \in Consumer!MessageState
           /\ message[m].state \in {"absent", "ready", "pending", "acked", "exhausted"}
           /\ message[m].count \in 0..MaxDeliver /\ message[m].count \in Nat
           /\ announced[m] \in Nat /\ faults \in Nat
           /\ Consumer!Due(m) \in {0, 1}
  BY DEF ListenerTypes, Consumer!MessageState, Consumer!Due

\* A finite number of deliveries is a number.
LEMMA SizeIsNat == ASSUME NEW m, HasFew(m) PROVE Size(m) \in Nat
  BY FS_CardinalityType DEF HasFew, Size

\* A message that a step does not concern keeps its accounts, whatever faults there are.
LEMMA AccountsKept ==
    ASSUME ListenerTypes, ListenerTypes', faults' >= faults, NEW m \in Copy,
           HasFew(m), Counted(m), Paid(m),
           message'[m] = message[m], announced'[m] = announced[m],
           Consumer!Held(m)' = Consumer!Held(m), Size(m)' = Size(m)
    PROVE  Counted(m)' /\ Paid(m)'
<1>1. /\ message[m].count \in Nat /\ announced[m] \in Nat /\ faults \in Nat /\ faults' \in Nat
      /\ Consumer!Due(m) \in {0, 1} /\ Size(m) \in Nat
  BY MessageFacts, SizeIsNat DEF ListenerTypes
<1>2. Consumer!Due(m)' = Consumer!Due(m)
  BY DEF Consumer!Due
<1>3. Counted(m)'
  BY DEF Counted
<1>4. (announced[m] = 0 =>
         \/ message[m].count <= faults
         \/ Consumer!Held(m) /\ message[m].state = "pending" /\ message[m].count = faults + 1)'
  BY <1>1 DEF Paid
<1>5. (announced[m] + Size(m) + Consumer!Due(m) <= 1 + faults)'
  BY <1>1, <1>2 DEF Paid
<1> QED
  BY <1>3, <1>4, <1>5 DEF Paid

\* A copy that comes into the stream has not been delivered yet.
LEMMA PublishStep ==
    ASSUME ListenerInv, NEW m \in Copy, Consumer!Publish(m)
    PROVE  ListenerInv'
<1>1. /\ message' = [message EXCEPT ![m].state = "ready"]
      /\ message[m].state = "absent"
      /\ UNCHANGED <<listener, announced, faults>>
      /\ ListenerTypes
  BY DEF Consumer!Publish, ListenerInv
<1>2. /\ message'[m].state = "ready" /\ message'[m].count = message[m].count
      /\ \A n \in Copy : n # m => message'[n] = message[n]
      /\ message' \in [Copy -> Consumer!MessageState]
  BY <1>1 DEF ListenerTypes, Consumer!MessageState
<1>3. ListenerTypes'
  BY <1>1, <1>2 DEF ListenerTypes, QueueTypes
<1>4. Consumer!HandedAgree'
  <2>1. \A c \in Member : Consumer!Current(c)' = Consumer!Current(c)
    BY <1>1 DEF Consumer!Current
  <2>2. \A c \in Member : \A i \in DOMAIN listener[c].inbox : listener[c].inbox[i] \in Copy
    BY <1>1, QueueFacts DEF ListenerTypes
  <2> QED
    BY <1>1, <1>2, <2>1, <2>2 DEF ListenerInv, Consumer!HandedAgree
<1>5. \A n \in Copy : HasFew(n)' /\ Size(n)' = Size(n)
  BY <1>1, <1>3, UnhandledSame DEF ListenerInv, ListenerTypes, Waits
<1>6. \A n \in Copy : Consumer!Held(n)' = Consumer!Held(n)
  BY <1>1 DEF Consumer!Held
<1>7. \A n \in Copy : n # m => Counted(n)' /\ Paid(n)'
  BY <1>1, <1>2, <1>3, <1>5, <1>6, AccountsKept DEF ListenerInv, ListenerTypes
<1>8. Counted(m)' /\ Paid(m)'
  <2>1. Counted(m) /\ announced[m] = 0 /\ message[m].count = 0
    BY <1>1 DEF ListenerInv, Counted
  <2>2. Size(m) = 0
    <3>1. \A c \in Member : \A i : ~Waits(c, i, m)
      BY <1>1 DEF Waits, ListenerInv, Consumer!HandedAgree
    <3>2. Consumer!Unhandled(m) = {}
      BY <1>1, <3>1, UnhandledIsWaiting DEF ListenerTypes, Places
    <3> QED
      BY <3>2, FS_EmptySet DEF Size
  <2>3. Consumer!Due(m)' \in {0, 1} /\ faults' \in Nat
    BY <1>3 DEF Consumer!Due, ListenerTypes
  <2>4. announced'[m] = 0 /\ message'[m].count = 0 /\ Size(m)' = 0
    BY <1>1, <1>2, <1>5, <2>1, <2>2
  <2> QED
    <3>1. (announced[m] + Size(m) + Consumer!Due(m) <= 1 + faults)'
      BY <2>3, <2>4
    <3>2. (message[m].count <= faults)'
      BY <2>3, <2>4
    <3>3. Counted(m)'
      BY <1>2, <2>4, OnboardingAssumption DEF Counted
    <3> QED
      BY <3>1, <3>2, <3>3 DEF Paid
<1> QED
  BY <1>3, <1>4, <1>5, <1>7, <1>8 DEF ListenerInv

\* A member that comes up has nothing in front of it.
LEMMA SubscribeStep ==
    ASSUME ListenerInv, NEW c \in Member, Consumer!Subscribe(c)
    PROVE  ListenerInv'
<1>1. /\ UNCHANGED <<message, announced, faults>> /\ ListenerTypes
      /\ listener[c] = Consumer!Down
      /\ listener' = [listener EXCEPT ![c].up = TRUE]
  BY DEF Consumer!Subscribe, ListenerInv
<1>2. /\ \A d \in Member : listener'[d].inbox = listener[d].inbox
                          /\ listener'[d].handled = listener[d].handled
      /\ QueueTypes'
  BY <1>1 DEF ListenerTypes, QueueTypes, Consumer!MemberState
<1>3. ListenerTypes'
  BY <1>1, <1>2 DEF ListenerTypes
<1>4. Consumer!HandedAgree'
  BY <1>1, <1>2 DEF ListenerInv, Consumer!HandedAgree, Consumer!Current
<1>5. \A n \in Copy : HasFew(n)' /\ Size(n)' = Size(n)
  BY <1>1, <1>2, UnhandledSame DEF ListenerInv, ListenerTypes, Waits
<1>6. \A n \in Copy : Consumer!Held(n)' = Consumer!Held(n)
  BY <1>2 DEF Consumer!Held
<1>7. \A n \in Copy : Counted(n)' /\ Paid(n)'
  BY <1>1, <1>3, <1>5, <1>6, AccountsKept DEF ListenerInv, ListenerTypes
<1> QED
  BY <1>3, <1>4, <1>5, <1>7 DEF ListenerInv

\* A member that leaves loses what is in front of it, and that is a fault.
LEMMA LeaveStep ==
    ASSUME ListenerInv, NEW c \in Member, Consumer!Leave(c)
    PROVE  ListenerInv'
<1>1. /\ UNCHANGED <<message, announced>> /\ ListenerTypes
      /\ faults' = faults + 1 /\ faults' \in Nat /\ faults \in Nat
      /\ listener' = [listener EXCEPT ![c] = Consumer!Down]
  BY DEF Consumer!Leave, Consumer!Fault, ListenerInv, ListenerTypes
<1>2. /\ listener'[c] = Consumer!Down
      /\ \A d \in Member : d # c => listener'[d] = listener[d]
      /\ QueueTypes' /\ QueueTypes
  BY <1>1 DEF ListenerTypes, QueueTypes, Consumer!MemberState, Consumer!Down
<1>3. ListenerTypes'
  BY <1>1, <1>2 DEF ListenerTypes
<1>4. DOMAIN listener'[c].inbox = {} /\ ~listener'[c].handled
  BY <1>2 DEF Consumer!Down
<1>5. Consumer!HandedAgree'
  BY <1>1, <1>2, <1>4 DEF ListenerInv, Consumer!HandedAgree, Consumer!Current
<1>6. ASSUME NEW n \in Copy
      PROVE  HasFew(n)' /\ Size(n)' <= Size(n) /\ Size(n) \in Nat /\ Size(n)' \in Nat
  <2>1. \A d \in Member : \A i : Waits(d, i, n)' => Waits(d, i, n)
    BY <1>2, <1>4 DEF Waits
  <2> QED
    BY <1>2, <2>1, UnhandledFewer DEF ListenerInv
<1>7. ASSUME NEW n \in Copy
      PROVE  Counted(n)' /\ Paid(n)'
  <2>1. /\ Consumer!Due(n) \in {0, 1} /\ Consumer!Due(n)' \in {0, 1}
        /\ announced[n] \in Nat /\ message[n].count \in Nat
    BY <1>1, MessageFacts DEF Consumer!Due
  <2>2. Counted(n) /\ Paid(n)
    BY DEF ListenerInv
  <2>3. Counted(n)'
    BY <1>1, <2>2 DEF Counted
  <2>4. announced'[n] = 0 => message'[n].count <= faults'
    BY <1>1, <2>1, <2>2 DEF Paid
  <2>5. announced'[n] + Size(n)' + Consumer!Due(n)' <= 1 + faults'
    BY <1>1, <1>6, <2>1, <2>2 DEF Paid
  <2> QED
    BY <2>3, <2>4, <2>5 DEF Paid
<1> QED
  BY <1>3, <1>5, <1>6, <1>7 DEF ListenerInv

\* A delivery is counted, and is at the end of one inbox.
LEMMA DeliverStep ==
    ASSUME ListenerInv, NEW c \in Member, NEW m \in Copy, Consumer!Deliver(c, m)
    PROVE  ListenerInv'
<1>1. /\ message[m].state = "ready"
      /\ message' = [message EXCEPT ![m].state = "pending", ![m].count = @ + 1]
      /\ UNCHANGED <<announced, faults>>
      /\ ListenerTypes /\ QueueTypes /\ Consumer!HandedAgree /\ faults \in Nat
  BY DEF Consumer!Deliver, ListenerInv, ListenerTypes
<1>2. /\ message[m].count < MaxDeliver /\ message[m].count \in Nat
      /\ HasFew(m) /\ Counted(m) /\ Paid(m) /\ announced[m] \in Nat
  BY <1>1, MessageFacts DEF ListenerInv, Counted
<1>3. /\ message'[m].state = "pending" /\ message'[m].count = message[m].count + 1
      /\ \A n \in Copy : n # m => message'[n] = message[n]
      /\ message' \in [Copy -> Consumer!MessageState]
  BY <1>1, <1>2 DEF ListenerTypes, Consumer!MessageState
<1> DEFINE k == Len(listener[c].inbox)
<1>4. /\ QueueTypes' /\ k \in Nat
      /\ \A d \in Member : d # c => listener'[d] = listener[d]
      /\ listener'[c].handled = listener[c].handled
      /\ DOMAIN listener'[c].inbox = 1..(k + 1)
      /\ DOMAIN listener[c].inbox = 1..k
      /\ \A i \in 1..k : listener'[c].inbox[i] = listener[c].inbox[i]
      /\ listener'[c].inbox[k + 1] = m
  BY <1>1, DeliverAppends, QueueFacts
<1>5. listener[c].handled => listener[c].inbox # <<>> /\ 1 \in 1..k
  BY <1>1, <1>4, QueueFacts DEF Consumer!HandedAgree
<1> HIDE DEF k
<1>6. ListenerTypes'
  BY <1>1, <1>3, <1>4 DEF ListenerTypes
<1>7. Consumer!HandedAgree'
  <2>1. \A d \in Member : d # c => Consumer!Current(d)' = Consumer!Current(d)
    BY <1>4 DEF Consumer!Current
  <2>2. ASSUME listener'[c].handled
        PROVE  listener'[c].inbox # <<>> /\ Consumer!Current(c)' = Consumer!Current(c)
    <3>1. 1 \in DOMAIN listener[c].inbox /\ 1 \in DOMAIN listener'[c].inbox
      BY <1>4, <1>5, <2>2
    <3>2. listener'[c].inbox \in Seq(Copy) /\ listener[c].inbox \in Seq(Copy)
      BY <1>1, <1>4 DEF QueueTypes, Consumer!MemberState
    <3>3. listener'[c].inbox # <<>> /\ listener[c].inbox # <<>>
      BY <3>1
    <3>4. Head(listener'[c].inbox) = listener'[c].inbox[1] /\ Head(listener[c].inbox) = listener[c].inbox[1]
      BY <3>2, <3>3
    <3> QED
      BY <1>4, <1>5, <2>2, <3>3, <3>4 DEF Consumer!Current
  <2>3. ASSUME NEW d \in Member, NEW i \in DOMAIN listener'[d].inbox
        PROVE  message'[listener'[d].inbox[i]].state # "absent"
    <3>1. \A e \in Member : \A j \in DOMAIN listener[e].inbox :
             listener[e].inbox[j] \in Copy /\ message'[listener[e].inbox[j]].state # "absent"
      BY <1>1, <1>3, QueueFacts DEF Consumer!HandedAgree
    <3>2. CASE d # c
      BY <1>4, <3>1, <3>2
    <3>3. CASE d = c /\ i = k + 1
      BY <1>3, <1>4, <3>3
    <3>4. CASE d = c /\ i \in 1..k
      BY <1>4, <3>1, <3>4
    <3> QED
      BY <1>4, <3>2, <3>3, <3>4
  <2>4. ASSUME NEW d \in Member, listener'[d].handled
        PROVE  listener'[d].inbox # <<>> /\ announced'[Consumer!Current(d)'] > 0
    BY <1>1, <1>4, <2>1, <2>2, <2>4 DEF Consumer!HandedAgree
  <2> QED
    BY <2>3, <2>4 DEF Consumer!HandedAgree
<1>8. ASSUME NEW n \in Copy, n # m
      PROVE  HasFew(n)' /\ Counted(n)' /\ Paid(n)'
  <2>1. \A d \in Member : \A i : Waits(d, i, n)' = Waits(d, i, n)
    BY <1>4, <1>8 DEF Waits
  <2>2. HasFew(n)' /\ Size(n)' = Size(n)
    BY <1>1, <1>4, <2>1, UnhandledSame DEF ListenerInv
  <2>3. Consumer!Held(n)' = Consumer!Held(n)
    <3>1. \A d \in Member : \A i : i \in DOMAIN listener'[d].inbox /\ listener'[d].inbox[i] = n
                                <=> i \in DOMAIN listener[d].inbox /\ listener[d].inbox[i] = n
      BY <1>4, <1>8
    <3> QED
      BY <3>1 DEF Consumer!Held
  <2> QED
    BY <1>1, <1>3, <1>6, <1>8, <2>2, <2>3, AccountsKept DEF ListenerInv
<1>9. HasFew(m)' /\ Size(m)' = Size(m) + 1 /\ Size(m) \in Nat
  BY <1>1, <1>2, <1>5, UnhandledAdded
<1>10. Consumer!Held(m)'
  BY <1>4 DEF Consumer!Held
<1>11. Counted(m)'
  BY <1>3 DEF Counted
<1>12. Paid(m)'
  <2>1. Consumer!Due(m) = 1 /\ Consumer!Due(m)' = 0
    BY <1>1, <1>3, <1>10 DEF Consumer!Due
  <2>2. announced[m] = 0 => message[m].count <= faults
    BY <1>1, <1>2 DEF Paid
  <2>3. announced'[m] = 0 => message'[m].count <= faults' \/ message'[m].count = faults' + 1
    BY <1>1, <1>2, <1>3, <2>2
  <2>4. announced'[m] + Size(m)' + Consumer!Due(m)' <= 1 + faults'
    BY <1>1, <1>2, <1>9, <2>1 DEF Paid
  <2> QED
    BY <1>3, <1>10, <2>3, <2>4 DEF Paid
<1> QED
  BY <1>6, <1>7, <1>8, <1>9, <1>11, <1>12 DEF ListenerInv

\* A message whose ack is overdue is due again, by a fault if a member still holds it.
LEMMA AckWaitStep ==
    ASSUME ListenerInv, NEW m \in Copy, Consumer!AckWaitExpires(m), faults' \in Nat
    PROVE  ListenerInv'
<1>1. /\ message[m].state = "pending"
      /\ message' = [message EXCEPT ![m].state = Consumer!AfterAckWait(m)]
      /\ UNCHANGED <<listener, announced>>
      /\ ListenerTypes /\ QueueTypes /\ faults \in Nat
      /\ IF Consumer!Held(m) THEN faults' = faults + 1 ELSE faults' = faults
  BY DEF Consumer!AckWaitExpires, Consumer!Fault, ListenerInv, ListenerTypes
<1>2. /\ message[m].count \in 0..MaxDeliver /\ message[m].count \in Nat /\ announced[m] \in Nat
      /\ HasFew(m) /\ Counted(m) /\ Paid(m) /\ Size(m) \in Nat
      /\ Consumer!Due(m) \in {0, 1} /\ MaxDeliver \in Nat
  BY <1>1, MessageFacts, SizeIsNat, OnboardingAssumption DEF ListenerInv
<1>3. /\ message'[m].state \in {"ready", "exhausted"}
      /\ message'[m].state = "ready" <=> message[m].count # MaxDeliver
      /\ message'[m].count = message[m].count
      /\ \A n \in Copy : n # m => message'[n] = message[n]
      /\ message' \in [Copy -> Consumer!MessageState]
  BY <1>1 DEF ListenerTypes, Consumer!MessageState, Consumer!AfterAckWait
<1>4. ListenerTypes'
  BY <1>1, <1>3 DEF ListenerTypes, QueueTypes
<1>5. Consumer!HandedAgree'
  <2>1. \A c \in Member : Consumer!Current(c)' = Consumer!Current(c)
    BY <1>1 DEF Consumer!Current
  <2>2. \A c \in Member : \A i \in DOMAIN listener[c].inbox : listener[c].inbox[i] \in Copy
    BY <1>1, QueueFacts
  <2> QED
    BY <1>1, <1>3, <2>1, <2>2 DEF ListenerInv, Consumer!HandedAgree
<1>6. \A n \in Copy : HasFew(n)' /\ Size(n)' = Size(n)
  BY <1>1, <1>4, UnhandledSame DEF ListenerInv, ListenerTypes, Waits
<1>7. \A n \in Copy : Consumer!Held(n)' = Consumer!Held(n)
  BY <1>1 DEF Consumer!Held
<1>8. faults' >= faults
  BY <1>1
<1>9. \A n \in Copy : n # m => Counted(n)' /\ Paid(n)'
  BY <1>1, <1>3, <1>4, <1>6, <1>7, <1>8, AccountsKept DEF ListenerInv
<1>10. Counted(m)'
  BY <1>2, <1>3 DEF Counted
<1>11. Paid(m)'
  <2>1. Consumer!Due(m) = IF Consumer!Held(m) THEN 0 ELSE 1
    BY <1>1 DEF Consumer!Due
  <2>2. Consumer!Due(m)' \in {0, 1}
    BY DEF Consumer!Due
  <2>3. announced'[m] = announced[m] /\ Size(m)' = Size(m)
    BY <1>1, <1>6
  <2>4. (announced[m] + Size(m) + Consumer!Due(m) <= 1 + faults)'
    <3>1. announced[m] + Size(m) + Consumer!Due(m) <= 1 + faults
      BY <1>2 DEF Paid
    <3> QED
      BY <1>1, <1>2, <2>1, <2>2, <2>3, <3>1
  <2>5. (announced[m] = 0 => message[m].count <= faults)'
    BY <1>1, <1>2, <1>3 DEF Paid
  <2> QED
    BY <2>4, <2>5 DEF Paid
<1> QED
  BY <1>4, <1>5, <1>6, <1>9, <1>10, <1>11 DEF ListenerInv

\* An effect replaces the delivery that had it.
LEMMA HandlerReturnsStep ==
    ASSUME ListenerInv, NEW c \in Member, Consumer!HandlerReturns(c)
    PROVE  ListenerInv'
<1>1. /\ UNCHANGED <<message, faults>>
      /\ listener[c].inbox # <<>> /\ ~listener[c].handled
      /\ listener' = [listener EXCEPT ![c].handled = TRUE]
      /\ announced' = [announced EXCEPT ![Consumer!Current(c)] = @ + 1]
      /\ ListenerTypes /\ QueueTypes /\ faults \in Nat /\ Consumer!HandedAgree
  BY DEF Consumer!HandlerReturns, Consumer!Handling, Consumer!Took, ListenerInv, ListenerTypes
<1>2. PICK m \in Copy : /\ m = Consumer!Current(c) /\ m = listener[c].inbox[1]
                         /\ 1 \in DOMAIN listener[c].inbox
  BY <1>1, QueueFacts
<1>3. \A n \in Copy :
        /\ QueueTypes' /\ HasFew(n)' /\ Size(n) \in Nat /\ Size(n)' \in Nat
        /\ Size(n)' = IF n = m THEN Size(n) - 1 ELSE Size(n)
  BY <1>1, <1>2, UnhandledReturned DEF ListenerInv
<1>4. /\ announced'[m] = announced[m] + 1 /\ announced[m] \in Nat
      /\ \A n \in Copy : n # m => announced'[n] = announced[n]
      /\ announced' \in [Copy -> Nat]
  BY <1>1, <1>2 DEF ListenerTypes
<1>5. ListenerTypes'
  BY <1>1, <1>2, <1>3, <1>4 DEF ListenerTypes
<1>6. \A d \in Member : /\ listener'[d].inbox = listener[d].inbox
                        /\ d # c => listener'[d].handled = listener[d].handled
  BY <1>1 DEF QueueTypes, Consumer!MemberState
<1>7. Consumer!HandedAgree'
  <2>1. \A d \in Member : Consumer!Current(d)' = Consumer!Current(d)
    BY <1>6 DEF Consumer!Current
  <2>2. ASSUME NEW d \in Member, listener'[d].handled
        PROVE  listener'[d].inbox # <<>> /\ announced'[Consumer!Current(d)'] > 0
    <3>1. CASE d = c
      <4>1. listener'[c].inbox # <<>> /\ Consumer!Current(c)' = m
        BY <1>1, <1>2, <1>6, <2>1
      <4>2. announced'[m] > 0
        BY <1>4
      <4> QED
        BY <3>1, <4>1, <4>2
    <3>2. CASE d # c
      <4>1. /\ listener[d].inbox # <<>> /\ announced[Consumer!Current(d)] > 0
            /\ Consumer!Current(d) \in Copy
        BY <1>1, <1>6, <2>2, <3>2, QueueFacts DEF Consumer!HandedAgree
      <4>2. announced'[Consumer!Current(d)] > 0
        BY <1>4, <4>1
      <4> QED
        BY <1>6, <2>1, <4>1, <4>2
    <3> QED
      BY <3>1, <3>2
  <2> QED
    BY <1>1, <1>6, <2>2 DEF Consumer!HandedAgree
<1>8. \A n \in Copy : Consumer!Held(n)' = Consumer!Held(n)
  BY <1>6 DEF Consumer!Held
<1>9. \A n \in Copy : n # m => Counted(n)' /\ Paid(n)'
  BY <1>1, <1>3, <1>4, <1>5, <1>8, AccountsKept DEF ListenerInv
<1>10. Counted(m)'
  <2>1. message[m].state # "absent"
    BY <1>1, <1>2 DEF Consumer!HandedAgree
  <2>2. Counted(m)
    BY <1>2 DEF ListenerInv
  <2> QED
    BY <1>1, <1>4, <2>1, <2>2 DEF Counted
<1>11. Paid(m)'
  <2>1. /\ Consumer!Due(m)' = Consumer!Due(m) /\ Consumer!Due(m) \in {0, 1}
    BY <1>1, <1>2, <1>8 DEF Consumer!Due
  <2>2. announced[m] + Size(m) + Consumer!Due(m) <= 1 + faults
    BY <1>2 DEF ListenerInv, Paid
  <2>3. (announced[m] + Size(m) + Consumer!Due(m) <= 1 + faults)'
    BY <1>1, <1>2, <1>3, <1>4, <2>1, <2>2
  <2>4. announced'[m] # 0
    BY <1>4
  <2> QED
    BY <2>3, <2>4 DEF Paid
<1> QED
  BY <1>3, <1>5, <1>7, <1>9, <1>10, <1>11 DEF ListenerInv

\* The callback is done with a message: the handler raised, with or without its
\* effect, or it returned and the ack was sent, or lost.
LEMMA NextMessageStep ==
    ASSUME ListenerInv, NEW c \in Member, faults' \in Nat,
           Consumer!HandlerRaises(c) \/ Consumer!AckLost(c) \/ Consumer!Ack(c)
    PROVE  ListenerInv'
<1>0. PICK m : m = listener[c].inbox[1]
  OBVIOUS
<1> DEFINE Acked == message' = [message EXCEPT ![m].state =
                        IF @ \in {"pending", "ready"} THEN "acked" ELSE @]
           Took == announced' = [announced EXCEPT ![m] = @ + 1]
<1>1. /\ ListenerTypes /\ QueueTypes /\ faults \in Nat /\ Consumer!HandedAgree
      /\ message \in [Copy -> Consumer!MessageState] /\ announced \in [Copy -> Nat]
  BY DEF ListenerInv, ListenerTypes
<1>2. /\ listener[c].inbox # <<>>
      /\ listener[c].handled => announced[Consumer!Current(c)] > 0
  BY <1>1 DEF Consumer!HandlerRaises, Consumer!AckLost, Consumer!Ack, Consumer!Handling,
       Consumer!HandedAgree
<1>3. /\ m \in Copy /\ m = Consumer!Current(c) /\ 1 \in DOMAIN listener[c].inbox
      /\ m = listener[c].inbox[1]
  BY <1>0, <1>1, <1>2, QueueFacts
<1>4. /\ Consumer!NextMessage(c)
      /\ \/ /\ ~listener[c].handled /\ faults' = faults + 1
            /\ UNCHANGED message /\ (UNCHANGED announced \/ Took)
         \/ /\ listener[c].handled /\ faults' = faults + 1
            /\ UNCHANGED message /\ UNCHANGED announced
         \/ /\ listener[c].handled /\ faults' = faults
            /\ Acked /\ UNCHANGED announced
  BY <1>3 DEF Consumer!HandlerRaises, Consumer!AckLost, Consumer!Ack, Consumer!Handling,
       Consumer!Except, Consumer!Fault, Consumer!Took, Consumer!TakeOff
<1>5. /\ QueueTypes'
      /\ \A d \in Member : d # c => listener'[d] = listener[d]
      /\ listener'[c].handled = FALSE
      /\ DOMAIN listener'[c].inbox = 1..(Len(listener[c].inbox) - 1)
      /\ \A i \in 1..(Len(listener[c].inbox) - 1) :
            listener'[c].inbox[i] = listener[c].inbox[i + 1]
      /\ Len(listener[c].inbox) \in Nat
      /\ DOMAIN listener[c].inbox = 1..Len(listener[c].inbox)
  BY <1>1, <1>2, <1>4, NextMessageShifts, QueueFacts
<1>6. \A n \in Copy :
        /\ HasFew(n)' /\ Size(n) \in Nat /\ Size(n)' \in Nat
        /\ Size(n)' = IF Waits(c, 1, n) THEN Size(n) - 1 ELSE Size(n)
  BY <1>1, <1>2, <1>4, NextMessageCounts DEF ListenerInv
<1>7. \A n \in Copy : Waits(c, 1, n) <=> n = m /\ ~listener[c].handled
  BY <1>3 DEF Waits
<1>8. \A n \in Copy : n # m => Consumer!Held(n)' = Consumer!Held(n)
  BY <1>1, <1>2, <1>3, <1>4, NextMessageHolds
<1>9. /\ announced' \in [Copy -> Nat] /\ announced[m] \in Nat
      /\ \A n \in Copy : n # m => announced'[n] = announced[n]
      /\ \A n \in Copy : announced'[n] >= announced[n] /\ announced[n] \in Nat
      /\ announced'[m] \in {announced[m], announced[m] + 1}
  BY <1>1, <1>3, <1>4
<1>10. /\ message' \in [Copy -> Consumer!MessageState]
       /\ \A n \in Copy : n # m => message'[n] = message[n]
       /\ message'[m].count = message[m].count /\ message[m].count \in Nat
       /\ \/ message'[m].state = message[m].state
          \/ message'[m].state = "acked" /\ listener[c].handled
       /\ \A n \in Copy : message[n].state # "absent" => message'[n].state # "absent"
  BY <1>1, <1>3, <1>4 DEF Consumer!MessageState
<1>11. ListenerTypes'
  BY <1>5, <1>9, <1>10 DEF ListenerTypes
<1>12. faults' >= faults
  BY <1>1, <1>4
<1>13. Consumer!HandedAgree'
  <2>1. ASSUME NEW d \in Member, NEW i \in DOMAIN listener'[d].inbox
        PROVE  message'[listener'[d].inbox[i]].state # "absent"
    <3>1. \A e \in Member : \A j \in DOMAIN listener[e].inbox :
             listener[e].inbox[j] \in Copy /\ message'[listener[e].inbox[j]].state # "absent"
      BY <1>1, <1>10, QueueFacts DEF Consumer!HandedAgree
    <3>2. CASE d # c
      BY <1>5, <3>1, <3>2
    <3>3. CASE d = c
      <4>1. i + 1 \in DOMAIN listener[c].inbox /\ listener'[c].inbox[i] = listener[c].inbox[i + 1]
        <5>1. i \in 1..(Len(listener[c].inbox) - 1)
          BY <1>5, <3>3
        <5>2. i + 1 \in 1..Len(listener[c].inbox)
          BY <1>5, <5>1
        <5> QED
          BY <1>5, <5>1, <5>2
      <4> QED
        BY <3>1, <3>3, <4>1
    <3> QED
      BY <3>2, <3>3
  <2>2. ASSUME NEW d \in Member, listener'[d].handled
        PROVE  listener'[d].inbox # <<>> /\ announced'[Consumer!Current(d)'] > 0
    <3>1. d # c
      BY <1>5, <2>2
    <3>2. listener'[d] = listener[d] /\ Consumer!Current(d)' = Consumer!Current(d)
      BY <1>5, <3>1 DEF Consumer!Current
    <3>3. /\ listener[d].inbox # <<>> /\ announced[Consumer!Current(d)] > 0
          /\ Consumer!Current(d) \in Copy
      BY <1>1, <2>2, <3>2, QueueFacts DEF Consumer!HandedAgree
    <3>4. announced'[Consumer!Current(d)] >= announced[Consumer!Current(d)]
          /\ announced'[Consumer!Current(d)] \in Nat
      BY <1>9, <3>3
    <3> QED
      BY <1>9, <3>2, <3>3, <3>4
  <2> QED
    BY <2>1, <2>2 DEF Consumer!HandedAgree
<1>14. \A n \in Copy : n # m => Counted(n)' /\ Paid(n)'
  BY <1>1, <1>6, <1>7, <1>8, <1>9, <1>10, <1>11, <1>12, AccountsKept DEF ListenerInv
<1>15. Counted(m) /\ Paid(m) /\ HasFew(m)
  BY <1>3 DEF ListenerInv
<1>16. message[m].state # "absent"
  BY <1>1, <1>3 DEF Consumer!HandedAgree
<1>17. Counted(m)'
  <2>1. listener[c].handled => announced[m] > 0
    BY <1>2, <1>3
  <2>2. announced[m] > 0 => announced'[m] > 0
    BY <1>9
  <2> QED
    BY <1>10, <1>15, <1>16, <2>1, <2>2 DEF Counted
<1>18. Paid(m)'
  <2>1. /\ Consumer!Due(m) \in {0, 1} /\ Consumer!Due(m)' \in {0, 1}
        /\ message'[m].state = "acked" => Consumer!Due(m)' = 0
    BY DEF Consumer!Due
  <2>2. Size(m) \in Nat /\ Size(m)' \in Nat
        /\ Size(m)' = IF listener[c].handled THEN Size(m) ELSE Size(m) - 1
    BY <1>3, <1>6, <1>7
  <2>3. /\ announced[m] + Size(m) + Consumer!Due(m) <= 1 + faults
        /\ announced[m] = 0 => message[m].count <= faults \/ message[m].count = faults + 1
    BY <1>15 DEF Paid
  <2>4. CASE faults' = faults + 1
    <3>1. announced'[m] = announced[m] + 1 => ~listener[c].handled
      BY <1>1, <1>4, <1>9, <2>4
    <3>2. (announced[m] + Size(m) + Consumer!Due(m) <= 1 + faults)'
      BY <1>1, <1>9, <2>1, <2>2, <2>3, <2>4, <3>1
    <3>3. (announced[m] = 0 => message[m].count <= faults)'
      BY <1>1, <1>9, <1>10, <2>3, <2>4
    <3> QED
      BY <3>2, <3>3 DEF Paid
  <2>5. CASE faults' = faults
    <3>1. /\ listener[c].handled /\ announced' = announced /\ Acked /\ announced[m] > 0
      BY <1>1, <1>2, <1>3, <1>4, <2>5
    <3>2. message'[m].state \notin {"ready", "pending"}
      BY <1>1, <1>3, <3>1 DEF Consumer!MessageState
    <3>3. Consumer!Due(m)' = 0
      BY <3>2 DEF Consumer!Due
    <3>4. (announced[m] + Size(m) + Consumer!Due(m) <= 1 + faults)'
      BY <1>1, <1>9, <2>1, <2>2, <2>3, <2>5, <3>1, <3>3
    <3> QED
      BY <1>9, <3>1, <3>4 DEF Paid
  <2> QED
    BY <1>4, <2>4, <2>5
<1> QED
  BY <1>6, <1>11, <1>13, <1>14, <1>17, <1>18 DEF ListenerInv

\* What the other services do, faults included, is nothing to the listener.
LEMMA ListenerKept ==
    ASSUME ListenerInv, UNCHANGED consumer, faults' \in Nat, faults' >= faults
    PROVE  ListenerInv'
<1>1. UNCHANGED <<message, listener, announced>> /\ ListenerTypes
  BY DEF consumer, ListenerInv
<1>2. ListenerTypes'
  BY <1>1 DEF ListenerTypes, QueueTypes
<1>3. Consumer!HandedAgree'
  BY <1>1 DEF ListenerInv, Consumer!HandedAgree, Consumer!Current
<1>4. \A n \in Copy : HasFew(n)' /\ Size(n)' = Size(n)
  BY <1>1, <1>2, UnhandledSame DEF ListenerInv, ListenerTypes, Waits
<1>5. \A n \in Copy : Consumer!Held(n)' = Consumer!Held(n)
  BY <1>1 DEF Consumer!Held
<1>6. \A n \in Copy : Counted(n)' /\ Paid(n)'
  BY <1>1, <1>2, <1>4, <1>5, AccountsKept DEF ListenerInv
<1> QED
  BY <1>2, <1>3, <1>4, <1>6 DEF ListenerInv

\* Every step of the listener and of the stream's server.
LEMMA ListenerStep ==
    ASSUME ListenerInv, faults' \in Nat,
           \/ \E m \in Copy : Consumer!Publish(m) \/ Consumer!Server(m)
           \/ \E c \in Member : Consumer!Subscribe(c) \/ Consumer!Leave(c) \/ Consumer!Callback(c)
    PROVE  ListenerInv'
<1>1. CASE \E m \in Copy : Consumer!Publish(m)
  BY <1>1, PublishStep
<1>2. CASE \E m \in Copy : Consumer!Server(m)
  BY <1>2, AckWaitStep, DeliverStep DEF Consumer!Server
<1>3. CASE \E c \in Member : Consumer!Subscribe(c)
  BY <1>3, SubscribeStep
<1>4. CASE \E c \in Member : Consumer!Leave(c)
  BY <1>4, LeaveStep
<1>5. CASE \E c \in Member : Consumer!Callback(c)
  BY <1>5, HandlerReturnsStep, NextMessageStep DEF Consumer!Callback
<1> QED
  BY <1>1, <1>2, <1>3, <1>4, <1>5

-----------------------------------------------------------------------------
(***************************************************************************)
(* The services, the publisher and the listener together.                  *)
(***************************************************************************)

OutboxTypes == outbox \in [User -> {"ABSENT", "PENDING", "PUBLISHED", "FAILED"}] /\ sent \in [User -> Nat]

Strong == Known /\ ListenerInv /\ OutboxTypes /\ StagedWithUser

\* Nothing is staged, sent or announced in the beginning.
LEMMA StrongInit == Init => Strong
<1> SUFFICES ASSUME Init PROVE Strong
  OBVIOUS
<1>1. Known
  BY KnownInit
<1>2. /\ message = [m \in Copy |-> [state |-> "absent", count |-> 0]]
      /\ listener = [c \in Member |-> Consumer!Down]
      /\ announced = [m \in Copy |-> 0] /\ faults = 0
      /\ outbox = [u \in User |-> "ABSENT"] /\ sent = [u \in User |-> 0]
  BY DEF Init, Consumer!Init, Outbox!Init
<1>3. QueueTypes
  BY <1>2 DEF QueueTypes, Consumer!MemberState, Consumer!Down
<1>4. ListenerTypes
  BY <1>2, <1>3, OnboardingAssumption DEF ListenerTypes, Consumer!MessageState
<1>5. \A c \in Member : DOMAIN listener[c].inbox = {} /\ ~listener[c].handled
  BY <1>2 DEF Consumer!Down
<1>6. Consumer!HandedAgree
  BY <1>5 DEF Consumer!HandedAgree
<1>7. ASSUME NEW m \in Copy
      PROVE  HasFew(m) /\ Counted(m) /\ Paid(m)
  <2>1. Consumer!Unhandled(m) = {}
    BY <1>3, <1>5, UnhandledIsWaiting DEF Waits, Places
  <2>2. HasFew(m) /\ Size(m) = 0
    BY <2>1, FS_EmptySet DEF HasFew, Size
  <2>3. message[m].state = "absent" /\ message[m].count = 0 /\ announced[m] = 0
    BY <1>2
  <2>4. Consumer!Due(m) = 0
    BY <2>3 DEF Consumer!Due
  <2>5. announced[m] + Size(m) + Consumer!Due(m) <= 1 + faults
    BY <1>2, <2>2, <2>3, <2>4
  <2> QED
    BY <1>2, <2>2, <2>3, <2>5 DEF Counted, Paid
<1> QED
  BY <1>1, <1>2, <1>4, <1>6, <1>7 DEF Strong, ListenerInv, OutboxTypes, StagedWithUser

\* Each step is one of the identity service, the organization, the publisher or the stream.
LEMMA StrongNext ==
    ASSUME Strong, [Next]_vars
    PROVE  Strong'
<1>1. /\ Known /\ ListenerInv /\ OutboxTypes /\ StagedWithUser
      /\ Known' /\ faults' >= faults /\ faults' \in Nat
      /\ \A u \in User : users[u] # "NONE" => users'[u] # "NONE"
  BY KnownNext DEF Strong, Known
<1>2. ASSUME UNCHANGED outboxRows, UNCHANGED consumer PROVE Strong'
  <2>1. ListenerInv'
    BY <1>1, <1>2, ListenerKept
  <2> QED
    BY <1>1, <1>2, <2>1 DEF Strong, outboxRows, consumer, OutboxTypes, StagedWithUser
<1>3. CASE Identify \/ Organize \/ UNCHANGED vars
  BY <1>2, <1>3 DEF Identify, Organize, vars
<1>4. ASSUME NEW u \in User, Invite(u)
      PROVE  Strong'
  <2>1. /\ users'[u] = "INVITED"
        /\ outbox' = [outbox EXCEPT ![u] = "PENDING"] /\ UNCHANGED sent
        /\ UNCHANGED consumer
    BY <1>1, <1>4 DEF Invite, Invites, Identity!CommitInvite, Outbox!Accept, Known, Identity!TypeOK
  <2>2. ListenerInv'
    BY <1>1, <2>1, ListenerKept
  <2>3. StagedWithUser'
    BY <1>1, <2>1 DEF StagedWithUser, OutboxTypes, consumer, Copy
  <2> QED
    BY <1>1, <2>1, <2>2, <2>3 DEF Strong, OutboxTypes
<1>5. ASSUME NEW u \in User, Relay(u)
      PROVE  Strong'
  <2> DEFINE n == sent[u] + 1
  <2>1. /\ outbox[u] = "PENDING" /\ sent[u] \in Nat /\ sent[u] < MaxCopies
        /\ sent' = [sent EXCEPT ![u] = @ + 1] /\ UNCHANGED outbox
        /\ Consumer!Publish(<<u, n>>)
        /\ UNCHANGED identity
    BY <1>1, <1>5 DEF Relay, Outbox!Send, Outbox!Pending, OutboxTypes
  <2>2. <<u, n>> \in Copy
    BY <2>1, OnboardingAssumption DEF Copy
  <2>3. ListenerInv'
    BY <1>1, <2>1, <2>2, ListenerStep
  <2>4. \A m \in Copy : m # <<u, n>> => message'[m] = message[m]
    BY <1>1, <2>1, <2>2 DEF Consumer!Publish, ListenerInv, ListenerTypes
  <2>5. StagedWithUser'
    <3>1. \A m \in Copy : m = <<u, n>> => outbox'[m[1]] # "ABSENT"
      BY <2>1
    <3>2. \A m \in Copy : message'[m].state # "absent" => outbox'[m[1]] # "ABSENT"
      BY <1>1, <2>1, <2>4, <3>1 DEF StagedWithUser
    <3> QED
      BY <1>1, <2>1, <3>2 DEF StagedWithUser
  <2> QED
    BY <1>1, <2>1, <2>3, <2>5 DEF Strong, OutboxTypes
<1>6. ASSUME NEW published \in SUBSET User, NEW failed \in SUBSET User, CloseRows(published, failed)
      PROVE  Strong'
  <2>1. /\ UNCHANGED <<consumer, sent>>
        /\ outbox' = [e \in User |-> IF e \in published THEN "PUBLISHED"
                                      ELSE IF e \in failed THEN "FAILED" ELSE outbox[e]]
        /\ \A e \in published \cup failed : outbox[e] = "PENDING"
    BY <1>6 DEF CloseRows, Outbox!Close, Outbox!Pending
  <2>2. ListenerInv'
    BY <1>1, <2>1, ListenerKept
  <2>3. \A e \in User : outbox'[e] # "ABSENT" <=> outbox[e] # "ABSENT"
    BY <2>1
  <2>4. StagedWithUser'
    BY <1>1, <2>1, <2>3 DEF StagedWithUser, consumer, Copy
  <2> QED
    BY <1>1, <2>1, <2>2, <2>4 DEF Strong, OutboxTypes
<1>7. CASE \/ \E c \in Member : Listen(c) \/ Restart(c) \/ Handle(c)
           \/ \E m \in Copy : Serve(m)
  <2>1. UNCHANGED <<outbox, sent>>
    BY <1>7 DEF Listen, Restart, Handle, Serve, ListenerOnly, outboxRows
  <2>2. ListenerInv'
    BY <1>1, <1>7, ListenerStep DEF Listen, Restart, Handle, Serve
  <2>3. \A m \in Copy : message'[m].state # "absent" => message[m].state # "absent"
    <3> SUFFICES ASSUME NEW m \in Copy, message[m].state = "absent"
                 PROVE  message'[m].state = "absent"
      OBVIOUS
    <3>1. message \in [Copy -> Consumer!MessageState]
      BY <1>1 DEF ListenerInv, ListenerTypes
    <3>2. CASE UNCHANGED message
      BY <3>2
    <3>3. CASE \E n \in Copy : Serve(n)
      BY <3>1, <3>3 DEF Serve, Consumer!Server, Consumer!AckWaitExpires, Consumer!Deliver,
           Consumer!MessageState
    <3>4. CASE \E c \in Member : Consumer!Ack(c)
      BY <3>1, <3>4 DEF Consumer!Ack, Consumer!TakeOff, Consumer!MessageState
    <3> QED
      BY <1>7, <3>2, <3>3, <3>4 DEF Listen, Restart, Handle, Consumer!Subscribe, Consumer!Leave,
           Consumer!Callback, Consumer!HandlerReturns, Consumer!HandlerRaises, Consumer!AckLost,
           Consumer!Except
  <2> QED
    BY <1>1, <2>1, <2>2, <2>3 DEF Strong, OutboxTypes, StagedWithUser
<1> QED
  BY <1>3, <1>4, <1>5, <1>6, <1>7 DEF Next

\* The invariant of the composition.
LEMMA StrongAlways == Spec => []Strong
  BY StrongInit, StrongNext, PTL DEF Spec

\* Every variable of every service keeps its type.
THEOREM TypeCorrect == Spec => []TypeOK
<1>1. Strong => TypeOK
  BY DEF Strong, Known, Rows, Homes, Told, ListenerInv, ListenerTypes, QueueTypes, TypeOK,
     Consumer!TypeOK
<1> QED
  BY <1>1, StrongAlways, PTL

\* The inductive form of what Onboarding promises: the accounts between requests and
\* commits, the ledgers of effects and losses, and what the stream may hold.
THEOREM Inductive == Spec => []OInv
<1>1. Strong => OInv
  BY ListenerInvIs DEF Strong, Known, OInv
<1> QED
  BY <1>1, StrongAlways, PTL

\* Whatever the listener announces, and however late, is about a user whose
\* invitation was committed.
THEOREM NoPhantomCorrect == Spec => []NoPhantom
<1>1. ASSUME Strong, NEW m \in Copy, announced[m] > 0
      PROVE  users[m[1]] # "NONE"
  <2>1. message[m].state # "absent"
    BY <1>1 DEF Strong, ListenerInv, Counted
  <2>2. outbox[m[1]] # "ABSENT" /\ m[1] \in User
    BY <1>1, <2>1 DEF Strong, StagedWithUser, Copy
  <2> QED
    BY <1>1, <2>2 DEF Strong, StagedWithUser
<1>2. Strong => NoPhantom
  BY <1>1 DEF NoPhantom
<1> QED
  BY <1>2, StrongAlways, PTL

\* The listener misses an invitation only when each of the deliveries of its message
\* met a fault: fewer restarts and errors than max_deliver lose nothing.
THEOREM LossCorrect == Spec => []LossNeedsFaults
<1>1. ASSUME Strong, NEW m \in Copy, announced[m] = 0, ~Consumer!Held(m),
             message[m].state \in {"acked", "exhausted"}
      PROVE  faults >= MaxDeliver
  <2>1. Counted(m) /\ Paid(m) /\ announced[m] \in Nat
    BY <1>1 DEF Strong, ListenerInv, ListenerTypes
  <2>2. message[m].state = "exhausted" /\ message[m].count = MaxDeliver
    BY <1>1, <2>1 DEF Counted
  <2> QED
    BY <1>1, <2>1, <2>2 DEF Paid
<1>2. Strong => LossNeedsFaults
  BY <1>1 DEF LossNeedsFaults, Consumer!LossNeedsFaults
<1> QED
  BY <1>2, StrongAlways, PTL

\* The listener repeats an announcement only after a fault, and no more often than
\* there were faults.
THEOREM RepeatsCorrect == Spec => []RepeatsNeedFaults
<1>1. ASSUME Strong, NEW m \in Copy
      PROVE  announced[m] <= 1 + faults
  <2>1. Paid(m) /\ Size(m) \in Nat /\ Consumer!Due(m) \in {0, 1} /\ announced[m] \in Nat /\ faults \in Nat
    BY <1>1, MessageFacts, SizeIsNat DEF Strong, ListenerInv
  <2> QED
    BY <2>1 DEF Paid
<1>2. Strong => RepeatsNeedFaults
  BY <1>1 DEF RepeatsNeedFaults, Consumer!RepeatsNeedFaults
<1> QED
  BY <1>2, StrongAlways, PTL
=============================================================================
