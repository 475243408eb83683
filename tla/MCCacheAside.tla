---------------------------- MODULE MCCacheAside ----------------------------
(* Small instances of CacheAside: three readers, r3 of them without stampede *)
(* protection, and a writer.                                                 *)
EXTENDS CacheAside

CONSTANTS r1, r2, r3, w

MCReaders == {r1, r2, r3}
MCProtected == {r1, r2}
OneWriter == {w}
RedisDown == {"RedisError"}
=============================================================================
