-------------------------- MODULE MCRedisScheduler --------------------------
(* Model values for the scheduler processes: they are interchangeable.     *)
EXTENDS RedisScheduler, TLC

CONSTANTS p1, p2

OneProc == {p1}
TwoProcs == {p1, p2}
Symmetric == Permutations(TwoProcs)
=============================================================================
