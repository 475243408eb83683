-------------------------- MODULE MCCircuitBreaker --------------------------
(* Three callers of one breaker, c1 through the context manager.           *)
EXTENDS CircuitBreaker

CONSTANTS c1, c2, c3

MCCallers == {c1, c2, c3}
ViaContext == {c1}
=============================================================================
