---------------------------- MODULE MCRedisLimits ---------------------------
(* A small instance of RedisLimits for TLC. *)
EXTENDS RedisLimits, TLC

Alike == Permutations(Apis)
=============================================================================
