---------------------------- MODULE MCRedisLock ----------------------------
(* Small instances of RedisLock: two clients, a lease of four ticks.       *)
EXTENDS RedisLock

CONSTANTS c1, c2

MCClients == {c1, c2}
OneExtends == {c1}
=============================================================================
