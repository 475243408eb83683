--------------------------- MODULE MCIdempotency ---------------------------
(* A small instance of Idempotency: three tries of one request.            *)
EXTENDS Idempotency

CONSTANTS r1, r2, r3, k1, b1, b2

MCRequests == {r1, r2, r3}
MCRedisKeys == {k1}
MCBodies == {b1, b2}
MCKeyOf == [r \in MCRequests |-> k1]
RetryBodyOf == [r \in MCRequests |-> b1]
Nobody == {}

NoCancellation == OutcomeKinds \ {"cancelled"}
=============================================================================
