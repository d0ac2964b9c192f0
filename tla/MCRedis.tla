------------------------------ MODULE MCRedis ------------------------------
(***************************************************************************)
(* An instance of RedisCoordination for TLC: the clock of one of the two   *)
(* processes is a tick ahead.  The clients are alike: what holds of one of *)
(* them, whatever the other does, holds of both.                           *)
(***************************************************************************)
EXTENDS RedisCoordination

CONSTANTS p1, p2, c1, c2

Skews == [p \in {p1, p2} |-> IF p = p1 THEN 0 ELSE 1]

\* DistributedLock: who waits in acquire gets the lock or an error, however often
\* others take it first, and a lock whose owner crashed, lost the answer to SET
\* or hangs is free again: a client never waits or owns the lock for ever.
ComesToRest == []<>Resting(c1)
=============================================================================
