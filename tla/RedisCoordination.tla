------------------------- MODULE RedisCoordination -------------------------
(***************************************************************************)
(* What the platform keeps in Redis: a lock with a time to live, the       *)
(* sorted set of a sliding-window rate limiter, and cached values.  Redis  *)
(* executes one command or script at a time; clients are cut off, crash,   *)
(* or take longer than they meant to between two of them.  All keys begin  *)
(* with "cortexops:", which is also the prefix of a cache's patterns.      *)
(*                                                                         *)
(* Times are kept as ages in ticks, so that a behaviour may go on for      *)
(* ever.  Tick is the time of the Redis server; the clock of process p is  *)
(* ahead of it by Skew[p].                                                 *)
(***************************************************************************)
EXTENDS Integers, FiniteSets, FiniteSetsExt

CONSTANTS
    Client,     \* tasks that use the lock, each call with a new identifier
    Ttl,        \* ttl_seconds
    Timeout,    \* of acquire
    Process,    \* processes that ask the rate limiter
    Skew,       \* how far the clock of a process is ahead
    Window,     \* window_seconds
    MaxAllowed, \* max_requests
    Key,        \* of cached values
    MaxFaults,  \* bound: failed commands, crashes, equal timestamps
    Nobody

ASSUME RedisAssumption ==
    /\ Ttl \in Nat \ {0} /\ Timeout \in Nat \ {0}
    /\ Skew \in [Process -> Nat]
    /\ Window \in Nat \ {0}
    /\ \A p \in Process : Skew[p] < Window
    /\ MaxAllowed \in Nat \ {0}
    /\ MaxFaults \in Nat
    /\ Nobody \notin Client

VARIABLES
    lockKey,    \* owner and remaining time to live
    client,     \* per client: where it is in lock(), and since when
    robbed,     \* history: clients in the body whose lock a purge deleted
    zset,       \* per age of their score: members of the limiter's sorted set
    zsetTtl,
    cached,     \* per key: a value, "old" if older than the running purge
    purge,      \* delete_pattern: the keys of the scan that are left
    passed,     \* history: requests allowed since the limiter's key was last
                \* purged, per age by the server's clock
    faults

lockVars  == <<lockKey, client, robbed>>
limitVars == <<zset, zsetTtl, passed>>
cacheVars == <<cached, purge>>
vars == <<lockVars, limitVars, cacheVars, faults>>

MaxSkew == Max({Skew[p] : p \in Process} \cup {0})

Age  == (-MaxSkew)..(Window + MaxSkew - 1)   \* of a score; older ones never count
Past == 0..(Window + MaxSkew - 1)            \* by the server's clock

Free == [owner |-> Nobody, ttl |-> 0]

Idle == [phase |-> "idle", clock |-> 0]

Init ==
    /\ lockKey = Free
    /\ client = [c \in Client |-> Idle]
    /\ robbed = {}
    /\ zset = [a \in Age |-> 0]
    /\ zsetTtl = 0
    /\ cached = [k \in Key |-> "none"]
    /\ purge = [pattern |-> "none", todo |-> {}]
    /\ passed = [a \in Past |-> 0]
    /\ faults = 0

Fault == faults < MaxFaults /\ faults' = faults + 1

Least(m, n) == IF m < n THEN m ELSE n

\* Mutant: the wait for the lock is not ended in time.
WaitedOn(n) == n + 1

Waited(n) == Least(n + 1, Timeout)

\* Mutant: SET without EX.
LockKept == lockKey

LockAfterTick ==
    IF lockKey.ttl > 1 THEN [lockKey EXCEPT !.ttl = @ - 1] ELSE Free

\* A second passes: keys expire, and everybody's clock goes on.
Tick ==
    /\ lockKey' = LockAfterTick
    /\ client' = [c \in Client |->
         IF client[c].phase = "trying"
         THEN [client[c] EXCEPT !.clock = Waited(@)]
         ELSE IF client[c].phase = "inside"
         THEN [client[c] EXCEPT !.clock = Least(@ + 1, Ttl)]
         ELSE client[c]]
    /\ zsetTtl' = IF zsetTtl > 0 THEN zsetTtl - 1 ELSE 0
    /\ zset' = [a \in Age |-> IF zsetTtl' = 0 \/ a - 1 \notin Age THEN 0 ELSE zset[a - 1]]
    /\ passed' = [a \in Past |-> IF a = 0 THEN 0 ELSE passed[a - 1]]
    /\ UNCHANGED <<robbed, cacheVars, faults>>

-----------------------------------------------------------------------------
\* lock(): DistributedLock.
Goto(c, phase) ==
    /\ client' = [client EXCEPT ![c] = [phase |-> phase, clock |-> 0]]
    /\ robbed' = robbed \ {c}

Owns(c) == client[c].phase = "inside" /\ lockKey.owner = c

Enter(c) ==
    /\ client[c] = Idle
    /\ Goto(c, "trying")
    /\ UNCHANGED <<lockKey, limitVars, cacheVars, faults>>

TimeLeft(c) == client[c].phase = "trying" /\ client[c].clock < Timeout

\* SET ... NX EX.
SetNx(c) == lockKey = Free /\ lockKey' = [owner |-> c, ttl |-> Ttl]

Acquire(c) ==
    /\ TimeLeft(c)
    /\ SetNx(c)
    /\ Goto(c, "inside")
    /\ UNCHANGED <<limitVars, cacheVars, faults>>

\* acquire returns False, lock() raises LockAcquisitionError.
GiveUp(c) ==
    /\ client[c].phase = "trying"
    /\ client[c].clock = Timeout
    /\ Goto(c, "idle")
    /\ UNCHANGED <<lockKey, limitVars, cacheVars, faults>>

\* The command fails before or after Redis executed it; lock() raises.
AcquireFails(c) ==
    /\ TimeLeft(c)
    /\ Fault
    /\ UNCHANGED lockKey \/ SetNx(c)
    /\ Goto(c, "idle")
    /\ UNCHANGED <<limitVars, cacheVars>>

\* Mutant: the lock is deleted whoever owns it.
DeleteAny(c) == lockKey' = Free

\* The Lua script: a lock that meanwhile belongs to another stays.
DeleteOwn(c) == lockKey' = IF lockKey.owner = c THEN Free ELSE lockKey

\* The body has ended, by itself or with an exception.
Release(c) ==
    /\ client[c].phase = "inside"
    /\ DeleteOwn(c)
    /\ Goto(c, "idle")
    /\ UNCHANGED <<limitVars, cacheVars, faults>>

\* An error of the script is swallowed; or the process dies in the body.
ReleaseFails(c) ==
    /\ client[c].phase = "inside"
    /\ Fault
    /\ Goto(c, "idle")
    /\ UNCHANGED <<lockKey, limitVars, cacheVars>>

-----------------------------------------------------------------------------
\* is_allowed: SlidingWindowRateLimiter.
\* As many entries as f counts, for each age of S.
Entries(f, S) == UNION {{a} \X (1..f[a]) : a \in S}

Total(f, S) == Cardinality(Entries(f, S))

\* Mutant: the window is a second shorter.
InWindowShort(p) == {a \in Age : a < Window - Skew[p] - 1}

\* Scores that process p does not take for outside of the window.
InWindow(p) == {a \in Age : a < Window - Skew[p]}

\* Mutant: one request too few is allowed.
FullEarly(p) == Total(zset, InWindow(p)) + 1 >= MaxAllowed

Full(p) == Total(zset, InWindow(p)) >= MaxAllowed

Purged(p) == [a \in Age |-> IF a \in InWindow(p) THEN zset[a] ELSE 0]

Pass == passed' = [passed EXCEPT ![0] = @ + 1]

Allow(p) ==
    /\ ~Full(p)
    /\ zset' = [Purged(p) EXCEPT ![-Skew[p]] = @ + 1]
    /\ zsetTtl' = Window
    /\ Pass
    /\ UNCHANGED <<lockVars, cacheVars, faults>>

Deny(p) ==
    /\ Full(p)
    /\ zset' = Purged(p)
    /\ UNCHANGED <<zsetTtl, passed, lockVars, cacheVars, faults>>

\* The timestamp is in the set already: ZADD adds no member.
AllowSameTime(p) ==
    /\ zset[-Skew[p]] > 0
    /\ Fault
    /\ ~Full(p)
    /\ zset' = Purged(p)
    /\ zsetTtl' = Window
    /\ Pass
    /\ UNCHANGED <<lockVars, cacheVars>>

\* Redis fails: the request is let through.
FailOpen(p) ==
    /\ Fault
    /\ Pass
    /\ UNCHANGED <<zset, zsetTtl, lockVars, cacheVars>>

-----------------------------------------------------------------------------
\* RedisCache.  Values are told apart by whether a running purge is older.
CacheSet(k) ==
    /\ cached' = [cached EXCEPT ![k] = "new"]
    /\ UNCHANGED <<purge, lockVars, limitVars, faults>>

\* delete, or the end of its time to live.
CacheDrop(k) ==
    /\ cached[k] # "none"
    /\ cached' = [cached EXCEPT ![k] = "none"]
    /\ UNCHANGED <<purge, lockVars, limitVars, faults>>

Others == {"lock", "window"}

\* The keys that a pattern like "tenant:123:*", or the pattern "*", matches.
Matching(pattern) == IF pattern = "all" THEN Key \cup Others ELSE Key

Present(x) ==
    \/ x \in Key /\ cached[x] # "none"
    \/ x = "lock" /\ lockKey # Free
    \/ x = "window" /\ zsetTtl > 0

\* Mutant: SCAN is called once, not until its cursor is back.
FirstBatch(pattern) == {}

Scan(pattern) == {x \in Matching(pattern) : Present(x)}

BeginPurge(pattern) ==
    /\ purge.pattern = "none"
    /\ purge' = [pattern |-> pattern, todo |-> Scan(pattern)]
    /\ cached' = [k \in Key |-> IF cached[k] = "none" THEN "none" ELSE "old"]
    /\ UNCHANGED <<lockVars, limitVars, faults>>

\* SCAN returns every key that is there all the time; keys that were set
\* meanwhile it may return.  The DELETE follows in a command of its own.
PurgeKey(x) ==
    /\ purge.pattern # "none"
    /\ x \in Matching(purge.pattern)
    /\ purge' = [purge EXCEPT !.todo = @ \ {x}]
    /\ cached' = [k \in Key |-> IF k = x THEN "none" ELSE cached[k]]
    /\ lockKey' = IF x = "lock" THEN Free ELSE lockKey
    /\ robbed' = IF x = "lock" THEN robbed \cup {c \in Client : Owns(c)} ELSE robbed
    /\ IF x = "window"
       THEN /\ zset' = [a \in Age |-> 0] /\ zsetTtl' = 0
            /\ passed' = [a \in Past |-> 0]
       ELSE UNCHANGED limitVars
    /\ UNCHANGED <<client, faults>>

EndPurge ==
    /\ purge' = [pattern |-> "none", todo |-> {}]
    /\ cached' = [k \in Key |-> IF cached[k] = "none" THEN "none" ELSE "new"]
    /\ UNCHANGED <<lockVars, limitVars>>

PurgeReturns ==
    /\ purge.pattern # "none" /\ purge.todo = {}
    /\ EndPurge
    /\ UNCHANGED faults

\* A command fails: delete_pattern returns 0, whatever it has deleted.
PurgeFails ==
    /\ purge.pattern # "none"
    /\ Fault
    /\ EndPurge

-----------------------------------------------------------------------------
Next ==
    \/ Tick
    \/ \E c \in Client :
          Enter(c) \/ Acquire(c) \/ GiveUp(c) \/ AcquireFails(c)
          \/ Release(c) \/ ReleaseFails(c)
    \/ \E p \in Process : Allow(p) \/ Deny(p) \/ AllowSameTime(p) \/ FailOpen(p)
    \/ \E k \in Key : CacheSet(k) \/ CacheDrop(k)
    \/ \E pattern \in {"cache", "all"} : BeginPurge(pattern)
    \/ \E x \in Key \cup Others : PurgeKey(x)
    \/ PurgeReturns
    \/ PurgeFails

Spec == Init /\ [][Next]_vars

\* Time goes on, and a task in acquire is scheduled; a body may take for ever.
FairSpec ==
    /\ Spec
    /\ WF_vars(Tick)
    /\ \A c \in Client : WF_vars(Acquire(c) \/ GiveUp(c))

-----------------------------------------------------------------------------
\* Every variable has its type.
TypeOK ==
    /\ lockKey \in [owner : Client \cup {Nobody}, ttl : 0..Ttl]
    /\ client \in [Client -> [phase : {"idle", "trying"}, clock : 0..Timeout]
                            \cup [phase : {"inside"}, clock : 0..Ttl]]
    /\ zset \in [Age -> Nat]
    /\ zsetTtl \in 0..Window
    /\ cached \in [Key -> {"none", "old", "new"}]
    /\ purge \in [pattern : {"none", "cache", "all"}, todo : SUBSET (Key \cup Others)]
    /\ passed \in [Past -> Nat]
    /\ robbed \subseteq Client
    /\ faults \in 0..MaxFaults

InTime(c) == client[c].phase = "inside" /\ client[c].clock < Ttl /\ c \notin robbed

\* Two clients execute the body of one lock at the same time only if one of them
\* has outlived its time to live, or a purge of the cache took its lock away:
\* expiry, errors and a late release of an expired lock included.
Exclusive ==
    \A c, d \in Client : InTime(c) /\ InTime(d) => c = d

\* A client owns the key, for as long as it thinks.
HolderOwnsKey ==
    \A c \in Client :
        InTime(c) => lockKey = [owner |-> c, ttl |-> Ttl - client[c].clock]

\* In a window, less the difference of the processes' clocks, no more requests
\* pass than max_requests, but for Redis failures, equal timestamps and a purge.
LimitHolds ==
    Total(passed, 0..(Window - MaxSkew - 1)) <= MaxAllowed + faults

\* A request is rejected only if max_requests have passed in the window, plus
\* the difference of the clocks.
DeniedJustly ==
    \A p \in Process : Full(p) => Total(passed, Past) >= MaxAllowed

\* When delete_pattern returns, no value is left that was there when it began.
PurgeComplete ==
    purge.pattern # "none" /\ purge.todo = {} => \A k \in Key : cached[k] # "old"

\* What a running purge has still to delete it also still has to do.
OldAreLeft ==
    purge.pattern # "none" => \A k \in Key : cached[k] = "old" => k \in purge.todo

\* Of the ages up to n.
UpTo(f, n) == Total(f, {a \in DOMAIN f : a <= n})

\* Where the clocks agree that a request counts, the sorted set has it or it
\* passed by a fault; and the sorted set is never above the limit there.
PassedAreCounted ==
    \A n \in 0..(Window - MaxSkew - 1) : UpTo(passed, n) <= UpTo(zset, n) + faults

CountedWithinLimit == UpTo(zset, Window - MaxSkew - 1) <= MaxAllowed

\* EXPIRE loses nothing: what passed since the sorted set's time to live was
\* last set did so by a fault.
QuietSinceExpire ==
    \A n \in Past : n < Window - zsetTtl => UpTo(passed, n) <= faults

\* What the sorted set counts has passed, at a time no clock is farther off.
CountedHavePassed ==
    \A n \in (-MaxSkew)..(Window - 1) : UpTo(zset, n) <= UpTo(passed, n + MaxSkew)

\* The inductive form of the invariants above.
KInv ==
    /\ HolderOwnsKey
    /\ OldAreLeft
    /\ PassedAreCounted
    /\ CountedWithinLimit
    /\ QuietSinceExpire
    /\ CountedHavePassed

\* A client neither waits for the lock nor owns its key.
Resting(c) == client[c].phase # "trying" /\ lockKey.owner # c
=============================================================================
