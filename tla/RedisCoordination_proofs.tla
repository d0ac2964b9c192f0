---------------------- MODULE RedisCoordination_proofs ----------------------
(***************************************************************************)
(* Theorems about the lock, the rate limiter and the cache, for any        *)
(* number of clients, processes and keys, any times, skews and limits.     *)
(***************************************************************************)
EXTENDS RedisCoordination, FiniteSetTheorems, TLAPS

(***************************************************************************)
(* The difference of the clocks.                                           *)
(***************************************************************************)

\* A nonempty set of naturals with a bound has a greatest element.
LEMMA GreatestExists ==
    ASSUME NEW n \in Nat, NEW S \in SUBSET (0..n), S # {}
    PROVE  \E x \in S : \A y \in S : x >= y
<1> DEFINE R == {ss \in Nat \X Nat : ss[1] < ss[2]}
           T == {n - x : x \in S}
<1>1. IsWellFoundedOn(R, Nat)
  BY NatLessThanWellFounded DEF OpToRel
<1>2. T \subseteq Nat /\ T # {}
  <2>1. \A x \in S : n - x \in Nat
    OBVIOUS
  <2>2. PICK x \in S : TRUE
    OBVIOUS
  <2>3. n - x \in T
    BY <2>2
  <2>4. QED
    BY <2>1, <2>3
<1>3. PICK u \in T : \A v \in T : ~ (<<v, u>> \in R)
  <2> HIDE DEF R, T
  <2> QED
    BY <1>1, <1>2, WFMin
<1>4. PICK x \in S : u = n - x
  BY <1>3
<1>5. ASSUME NEW y \in S PROVE x >= y
  <2>1. n - y \in T /\ n - y \in Nat /\ u \in Nat
    BY <1>2, <1>4
  <2>2. ~ (n - y < u)
    BY <1>3, <2>1
  <2>3. QED
    BY <1>4, <2>2
<1>6. QED
  BY <1>5

\* Every clock is off by at most MaxSkew, which is less than a window.
LEMMA SkewBound ==
    /\ MaxSkew \in Nat
    /\ Window - MaxSkew \in Nat \ {0}
    /\ \A p \in Process : Skew[p] \in Nat /\ Skew[p] <= MaxSkew
<1> DEFINE S == {Skew[p] : p \in Process} \cup {0}
<1>1. S \in SUBSET (0..(Window - 1)) /\ S # {} /\ Window - 1 \in Nat
  BY RedisAssumption
<1>2. \E x \in S : \A y \in S : x >= y
  <2> HIDE DEF S
  <2> QED
    BY <1>1, GreatestExists
<1>3. MaxSkew \in S /\ \A y \in S : MaxSkew >= y
  BY <1>2 DEF MaxSkew, Max
<1>4. \A p \in Process : Skew[p] \in S
  OBVIOUS
<1>5. QED
  BY <1>1, <1>3, <1>4, RedisAssumption

(***************************************************************************)
(* Type correctness.                                                       *)
(***************************************************************************)

ClientState == [phase : {"idle", "trying"}, clock : 0..Timeout]
                 \cup [phase : {"inside"}, clock : 0..Ttl]

\* The types of the lock, of the limiter and of the cache.
LockTyped ==
    /\ lockKey \in [owner : Client \cup {Nobody}, ttl : 0..Ttl]
    /\ client \in [Client -> ClientState]
    /\ robbed \subseteq Client

LimitTyped ==
    /\ zset \in [Age -> Nat]
    /\ zsetTtl \in 0..Window
    /\ passed \in [Past -> Nat]

CacheTyped ==
    /\ cached \in [Key -> {"none", "old", "new"}]
    /\ purge \in [pattern : {"none", "cache", "all"}, todo : SUBSET (Key \cup Others)]

\* The type invariant, by component; and of the next state.
LEMMA TypeParts == TypeOK <=> LockTyped /\ LimitTyped /\ CacheTyped /\ faults \in 0..MaxFaults
BY DEF TypeOK, LockTyped, LimitTyped, CacheTyped, ClientState

LEMMA TypePartsNext ==
    LockTyped' /\ LimitTyped' /\ CacheTyped' /\ faults' \in 0..MaxFaults => TypeOK'
BY DEF TypeOK, LockTyped, LimitTyped, CacheTyped, ClientState

\* The types hold in the beginning.
LEMMA InitTyped == Init => TypeOK
<1> SUFFICES ASSUME Init PROVE LockTyped /\ LimitTyped /\ CacheTyped /\ faults \in 0..MaxFaults
  BY TypeParts
<1>1. LockTyped
  BY RedisAssumption DEF Init, LockTyped, ClientState, Free, Idle
<1>2. LimitTyped /\ CacheTyped /\ faults \in 0..MaxFaults
  BY RedisAssumption DEF Init, LimitTyped, CacheTyped
<1>3. QED
  BY <1>1, <1>2

\* Age 0 is in the past, and the age of a new score is an age.
LEMMA AgesExist == 0 \in Past /\ \A p \in Process : -Skew[p] \in Age
BY SkewBound, RedisAssumption DEF Past, Age

\* A second passes.
LEMMA TickTyped == TypeOK /\ Tick => TypeOK'
<1> SUFFICES ASSUME TypeOK, Tick
             PROVE  LockTyped' /\ LimitTyped' /\ CacheTyped' /\ faults' \in 0..MaxFaults
  BY TypePartsNext
<1>1. LockTyped'
  <2>1. lockKey' \in [owner : Client \cup {Nobody}, ttl : 0..Ttl]
    BY RedisAssumption DEF TypeOK, Tick, LockAfterTick, Free
  <2>2. ASSUME NEW c \in Client PROVE client'[c] \in ClientState
    <3>1. client[c] \in ClientState
      BY DEF TypeOK, ClientState
    <3>2. CASE client[c].phase = "trying"
      BY <3>1, <3>2, RedisAssumption DEF Tick, ClientState, Waited, Least
    <3>3. CASE client[c].phase = "inside"
      BY <3>1, <3>3, RedisAssumption DEF Tick, ClientState, Least
    <3>4. CASE client[c].phase \notin {"trying", "inside"}
      BY <3>1, <3>4 DEF Tick
    <3>5. QED
      BY <3>2, <3>3, <3>4
  <2>3. QED
    BY <2>1, <2>2 DEF LockTyped, Tick, TypeOK
<1>2. LimitTyped'
  <2>1. zsetTtl' \in 0..Window
    BY RedisAssumption DEF Tick, TypeOK
  <2>2. zset' \in [Age -> Nat] /\ passed' \in [Past -> Nat]
    <3>1. \A a \in Past : a # 0 => a - 1 \in Past
      BY SkewBound, RedisAssumption DEF Past
    <3>2. zset \in [Age -> Nat] /\ passed \in [Past -> Nat]
      BY DEF TypeOK
    <3>3. QED
      BY <3>1, <3>2 DEF Tick
  <2>3. QED
    BY <2>1, <2>2 DEF LimitTyped
<1>3. CacheTyped' /\ faults' \in 0..MaxFaults
  BY DEF TypeOK, CacheTyped, Tick, cacheVars
<1>4. QED
  BY <1>1, <1>2, <1>3

\* A client of the lock moves.
LEMMA LockStepTyped ==
    ASSUME TypeOK, NEW c \in Client,
           Enter(c) \/ Acquire(c) \/ GiveUp(c) \/ AcquireFails(c) \/ Release(c) \/ ReleaseFails(c)
    PROVE  TypeOK'
<1>1. LimitTyped' /\ CacheTyped'
  BY DEF TypeOK, LimitTyped, CacheTyped, limitVars, cacheVars,
         Enter, Acquire, GiveUp, AcquireFails, Release, ReleaseFails
<1>2. faults' \in 0..MaxFaults
  BY RedisAssumption DEF TypeOK, Enter, Acquire, GiveUp, AcquireFails, Release, ReleaseFails, Fault
<1>3. PICK phase \in {"idle", "trying", "inside"} : Goto(c, phase)
  BY DEF Enter, Acquire, GiveUp, AcquireFails, Release, ReleaseFails
<1>4. client' \in [Client -> ClientState] /\ robbed' \subseteq Client
  <2>1. [phase |-> phase, clock |-> 0] \in ClientState
    BY RedisAssumption DEF ClientState
  <2>2. client \in [Client -> ClientState] /\ robbed \subseteq Client
    BY DEF TypeOK, ClientState
  <2>3. QED
    BY <1>3, <2>1, <2>2 DEF Goto
<1>5. lockKey' \in {lockKey, [owner |-> c, ttl |-> Ttl], Free}
  BY DEF Enter, Acquire, GiveUp, AcquireFails, Release, ReleaseFails, SetNx, DeleteOwn
<1>6. lockKey' \in [owner : Client \cup {Nobody}, ttl : 0..Ttl]
  BY <1>5, RedisAssumption DEF TypeOK, Free
<1>7. QED
  BY <1>1, <1>2, <1>4, <1>6, TypePartsNext DEF LockTyped

\* The limiter answers.
LEMMA LimitStepTyped ==
    ASSUME TypeOK, NEW p \in Process, Allow(p) \/ Deny(p) \/ AllowSameTime(p) \/ FailOpen(p)
    PROVE  TypeOK'
<1>1. LockTyped' /\ CacheTyped'
  BY TypeParts DEF LockTyped, CacheTyped, lockVars, cacheVars, Allow, Deny, AllowSameTime, FailOpen
<1>2. faults' \in 0..MaxFaults
  BY RedisAssumption DEF TypeOK, Allow, Deny, AllowSameTime, FailOpen, Fault
<1>3. zset \in [Age -> Nat] /\ Purged(p) \in [Age -> Nat] /\ zsetTtl \in 0..Window
      /\ passed \in [Past -> Nat]
  BY DEF TypeOK, Purged
<1>4. zset' \in [Age -> Nat]
  <2>1. [Purged(p) EXCEPT ![-Skew[p]] = @ + 1] \in [Age -> Nat]
    BY <1>3, AgesExist
  <2>2. QED
    BY <1>3, <2>1 DEF Allow, Deny, AllowSameTime, FailOpen
<1>5. passed' \in [Past -> Nat] /\ zsetTtl' \in 0..Window
  BY <1>3, AgesExist, RedisAssumption DEF Allow, Deny, AllowSameTime, FailOpen, Pass
<1>6. QED
  BY <1>1, <1>2, <1>4, <1>5, TypePartsNext DEF LimitTyped

\* A value is cached or dropped, or a purge goes on.
LEMMA CacheStepTyped ==
    ASSUME TypeOK,
           \/ \E k \in Key : CacheSet(k) \/ CacheDrop(k)
           \/ \E pattern \in {"cache", "all"} : BeginPurge(pattern)
           \/ PurgeReturns
           \/ PurgeFails
    PROVE  TypeOK'
<1>1. LockTyped' /\ LimitTyped'
  BY TypeParts DEF LockTyped, LimitTyped, lockVars, limitVars, CacheSet, CacheDrop, BeginPurge,
         PurgeReturns, PurgeFails, EndPurge
<1>2. faults' \in 0..MaxFaults
  BY RedisAssumption DEF TypeOK, CacheSet, CacheDrop, BeginPurge, PurgeReturns, PurgeFails, Fault
<1>3. \A pattern : Scan(pattern) \in SUBSET (Key \cup Others)
  BY DEF Scan, Matching
<1>4. CacheTyped'
  BY <1>3 DEF TypeOK, CacheTyped, CacheSet, CacheDrop, BeginPurge, PurgeReturns, PurgeFails, EndPurge
<1>5. QED
  BY <1>1, <1>2, <1>4, TypePartsNext

\* A purge deletes a key.
LEMMA PurgeKeyTyped == ASSUME TypeOK, NEW x \in Key \cup Others, PurgeKey(x) PROVE TypeOK'
<1>1. LockTyped'
  BY TypeParts, RedisAssumption DEF LockTyped, PurgeKey, Free
<1>2. LimitTyped'
  BY RedisAssumption DEF TypeOK, LimitTyped, PurgeKey, limitVars
<1>3. CacheTyped' /\ faults' \in 0..MaxFaults
  BY DEF TypeOK, CacheTyped, PurgeKey
<1>4. QED
  BY <1>1, <1>2, <1>3, TypePartsNext

\* Every step keeps the types.
LEMMA NextTyped == TypeOK /\ [Next]_vars => TypeOK'
<1> SUFFICES ASSUME TypeOK, [Next]_vars PROVE TypeOK'
  OBVIOUS
<1>1. CASE UNCHANGED vars
  BY <1>1 DEF TypeOK, vars, lockVars, limitVars, cacheVars
<1>2. CASE Next
  BY <1>2, TickTyped, LockStepTyped, LimitStepTyped, CacheStepTyped, PurgeKeyTyped DEF Next
<1>3. QED
  BY <1>1, <1>2

\* Every reachable state is well typed: no client waits longer than its timeout, and
\* nothing in Redis lives longer than its time to live.
THEOREM TypeCorrect == Spec => []TypeOK
BY InitTyped, NextTyped, PTL DEF Spec

-----------------------------------------------------------------------------
(***************************************************************************)
(* The lock.                                                               *)
(***************************************************************************)

\* A second passes: a lock and its holder's clock go on together.
LEMMA TickKeepsHolder == TypeOK /\ HolderOwnsKey /\ Tick => HolderOwnsKey'
<1> SUFFICES ASSUME TypeOK, HolderOwnsKey, Tick, NEW c \in Client, InTime(c)'
             PROVE  (lockKey = [owner |-> c, ttl |-> Ttl - client[c].clock])'
  BY DEF HolderOwnsKey
<1>1. client[c] \in ClientState /\ client' \in [Client -> ClientState]
  BY TickTyped DEF TypeOK, ClientState
<1>2. client'[c].phase = "inside" /\ client'[c].clock < Ttl /\ c \notin robbed
  BY DEF InTime, Tick
<1>3. client[c].phase = "inside"
  BY <1>1, <1>2 DEF Tick
<1>4. client'[c].clock = client[c].clock + 1 /\ client[c].clock + 1 < Ttl
  BY <1>1, <1>2, <1>3, RedisAssumption DEF Tick, Least, ClientState
<1>5. lockKey = [owner |-> c, ttl |-> Ttl - client[c].clock]
  BY <1>1, <1>2, <1>3, <1>4, RedisAssumption DEF HolderOwnsKey, InTime, ClientState
<1>6. lockKey' = [owner |-> c, ttl |-> Ttl - client[c].clock - 1]
  BY <1>1, <1>3, <1>4, <1>5, RedisAssumption DEF Tick, LockAfterTick, ClientState
<1>7. Ttl - client[c].clock - 1 = Ttl - client'[c].clock
  BY <1>1, <1>3, <1>4, RedisAssumption DEF ClientState
<1>8. QED
  BY <1>6, <1>7

\* What a client does leaves the lock of another one in time alone.
LEMMA LockStepKeepsHolder ==
    ASSUME TypeOK, HolderOwnsKey, NEW c \in Client,
           Enter(c) \/ Acquire(c) \/ GiveUp(c) \/ AcquireFails(c) \/ Release(c) \/ ReleaseFails(c)
    PROVE  HolderOwnsKey'
<1> SUFFICES ASSUME NEW d \in Client, InTime(d)'
             PROVE  (lockKey = [owner |-> d, ttl |-> Ttl - client[d].clock])'
  BY DEF HolderOwnsKey
<1>1. client \in [Client -> ClientState] /\ Ttl \in Nat \ {0}
  BY RedisAssumption DEF TypeOK, ClientState
<1>2. CASE d # c
  <2>1. client'[d] = client[d] /\ (d \in robbed <=> d \in robbed')
    BY <1>1, <1>2 DEF Enter, Acquire, GiveUp, AcquireFails, Release, ReleaseFails, Goto
  <2>2. lockKey = [owner |-> d, ttl |-> Ttl - client[d].clock]
    BY <2>1 DEF InTime, HolderOwnsKey
  <2>3. lockKey # Free /\ lockKey.owner # c
    BY <1>2, <2>2, RedisAssumption DEF Free
  <2>4. lockKey' = lockKey
    BY <2>3 DEF Enter, Acquire, GiveUp, AcquireFails, Release, ReleaseFails, SetNx, DeleteOwn
  <2>5. QED
    BY <2>1, <2>2, <2>4
<1>3. CASE d = c
  <2>1. Acquire(c)
    BY <1>1, <1>3 DEF InTime, Enter, GiveUp, AcquireFails, Release, ReleaseFails, Goto
  <2>2. client'[c].clock = 0 /\ lockKey' = [owner |-> c, ttl |-> Ttl]
    BY <1>1, <2>1 DEF Acquire, SetNx, Goto
  <2>3. QED
    BY <1>1, <1>3, <2>2
<1>4. QED
  BY <1>2, <1>3

\* A purge robs whoever owns the key, and nobody else changes it.
LEMMA PurgeKeyKeepsHolder ==
    ASSUME TypeOK, HolderOwnsKey, NEW x \in Key \cup Others, PurgeKey(x)
    PROVE  HolderOwnsKey'
<1> SUFFICES ASSUME NEW d \in Client, InTime(d)'
             PROVE  (lockKey = [owner |-> d, ttl |-> Ttl - client[d].clock])'
  BY DEF HolderOwnsKey
<1>1. client' = client /\ d \notin robbed' /\ d \notin robbed
  BY DEF PurgeKey, InTime
<1>2. client[d].phase = "inside" /\ lockKey = [owner |-> d, ttl |-> Ttl - client[d].clock]
  BY <1>1 DEF InTime, HolderOwnsKey
<1>3. x # "lock"
  BY <1>1, <1>2 DEF PurgeKey, Owns
<1>4. QED
  BY <1>1, <1>2, <1>3 DEF PurgeKey

\* Every step keeps the key with the client that is in time.
LEMMA NextKeepsHolder == TypeOK /\ HolderOwnsKey /\ [Next]_vars => HolderOwnsKey'
<1> SUFFICES ASSUME TypeOK, HolderOwnsKey, [Next]_vars PROVE HolderOwnsKey'
  OBVIOUS
<1>1. ASSUME UNCHANGED lockVars PROVE HolderOwnsKey'
  BY <1>1 DEF lockVars, HolderOwnsKey, InTime
<1>2. CASE UNCHANGED vars
  BY <1>1, <1>2 DEF vars
<1>3. ASSUME NEW p \in Process, Allow(p) \/ Deny(p) \/ AllowSameTime(p) \/ FailOpen(p)
      PROVE  HolderOwnsKey'
  BY <1>1, <1>3 DEF Allow, Deny, AllowSameTime, FailOpen, lockVars
<1>4. ASSUME \/ \E k \in Key : CacheSet(k) \/ CacheDrop(k)
             \/ \E pattern \in {"cache", "all"} : BeginPurge(pattern)
             \/ PurgeReturns
             \/ PurgeFails
      PROVE  HolderOwnsKey'
  BY <1>1, <1>4 DEF CacheSet, CacheDrop, BeginPurge, PurgeReturns, PurgeFails, EndPurge, lockVars
<1>5. QED
  BY <1>2, <1>3, <1>4, TickKeepsHolder, LockStepKeepsHolder, PurgeKeyKeepsHolder DEF Next

\* A client in the body of the lock owns its key until its time to live is over, for
\* as long as it thinks, unless a purge of the cache deleted it.
THEOREM HolderCorrect == Spec => []HolderOwnsKey
<1>1. Init => HolderOwnsKey
  BY DEF Init, HolderOwnsKey, InTime, Idle
<1>2. QED
  BY <1>1, NextKeepsHolder, TypeCorrect, PTL DEF Spec

\* Two clients execute the body of one lock together only if one has outlived its time
\* to live, or lost the key to a purge.
THEOREM ExclusiveCorrect == Spec => []Exclusive
<1>1. TypeOK /\ HolderOwnsKey => Exclusive
  <2> SUFFICES ASSUME HolderOwnsKey, NEW c \in Client, NEW d \in Client, InTime(c), InTime(d)
               PROVE  c = d
    BY DEF Exclusive
  <2>1. lockKey.owner = c /\ lockKey.owner = d
    BY DEF HolderOwnsKey
  <2>2. QED
    BY <2>1
<1>2. QED
  BY <1>1, HolderCorrect, TypeCorrect, PTL

-----------------------------------------------------------------------------
(***************************************************************************)
(* The purge of the cache.                                                 *)
(***************************************************************************)

\* Every step keeps what a purge has to delete in its list.
LEMMA NextKeepsOld == TypeOK /\ OldAreLeft /\ [Next]_vars => OldAreLeft'
<1> SUFFICES ASSUME TypeOK, OldAreLeft, [Next]_vars PROVE OldAreLeft'
  OBVIOUS
<1>1. cached \in [Key -> {"none", "old", "new"}]
  BY DEF TypeOK
<1>2. ASSUME UNCHANGED cacheVars PROVE OldAreLeft'
  BY <1>2 DEF cacheVars, OldAreLeft
<1>3. CASE Tick \/ UNCHANGED vars
  BY <1>2, <1>3 DEF Tick, vars
<1>4. ASSUME NEW c \in Client,
             Enter(c) \/ Acquire(c) \/ GiveUp(c) \/ AcquireFails(c) \/ Release(c) \/ ReleaseFails(c)
      PROVE  OldAreLeft'
  BY <1>2, <1>4 DEF Enter, Acquire, GiveUp, AcquireFails, Release, ReleaseFails, cacheVars
<1>5. ASSUME NEW p \in Process, Allow(p) \/ Deny(p) \/ AllowSameTime(p) \/ FailOpen(p)
      PROVE  OldAreLeft'
  BY <1>2, <1>5 DEF Allow, Deny, AllowSameTime, FailOpen, cacheVars
<1>6. ASSUME NEW k \in Key, CacheSet(k) \/ CacheDrop(k) PROVE OldAreLeft'
  BY <1>1, <1>6 DEF CacheSet, CacheDrop, OldAreLeft
<1>7. ASSUME NEW pattern \in {"cache", "all"}, BeginPurge(pattern) PROVE OldAreLeft'
  <2> SUFFICES ASSUME NEW k \in Key, cached'[k] = "old" PROVE k \in purge'.todo
    BY DEF OldAreLeft
  <2>1. cached[k] # "none"
    BY <1>1, <1>7 DEF BeginPurge
  <2>2. k \in Scan(pattern)
    BY <2>1 DEF Scan, Matching, Present
  <2>3. QED
    BY <1>7, <2>2 DEF BeginPurge
<1>8. ASSUME NEW x \in Key \cup Others, PurgeKey(x) PROVE OldAreLeft'
  <2> SUFFICES ASSUME NEW k \in Key, cached'[k] = "old" PROVE k \in purge'.todo
    BY DEF OldAreLeft
  <2>1. k # x /\ cached[k] = "old"
    BY <1>1, <1>8 DEF PurgeKey
  <2>2. k \in purge.todo
    BY <1>8, <2>1 DEF PurgeKey, OldAreLeft
  <2>3. QED
    BY <1>8, <2>1, <2>2 DEF PurgeKey, TypeOK
<1>9. CASE PurgeReturns \/ PurgeFails
  BY <1>9 DEF PurgeReturns, PurgeFails, EndPurge, OldAreLeft
<1>10. QED
  BY <1>3, <1>4, <1>5, <1>6, <1>7, <1>8, <1>9 DEF Next

\* A purge always has still to delete what is left of the old values.
LEMMA OldCorrect == Spec => []OldAreLeft
<1>1. Init => OldAreLeft
  BY DEF Init, OldAreLeft
<1>2. QED
  BY <1>1, NextKeepsOld, TypeCorrect, PTL DEF Spec

\* When delete_pattern has deleted what its scan returned, no value is left that was
\* there when it began, whatever is cached and dropped meanwhile.
THEOREM PurgeCorrect == Spec => []PurgeComplete
<1>1. OldAreLeft => PurgeComplete
  BY DEF OldAreLeft, PurgeComplete
<1>2. QED
  BY <1>1, OldCorrect, PTL

=============================================================================
