--------------------------- MODULE MCServiceCalls ---------------------------
(* A small instance of ServiceCalls: two callers and a rotation.             *)
EXTENDS ServiceCalls

CONSTANTS c1, c2, p1, p2, p3

MCCallers == {c1, c2}
MCClients == {p1, p2, p3}
MCCancellable == {c2}
MCMaxAttempts == [c \in MCCallers |-> IF c = c1 THEN 3 ELSE 1]
=============================================================================
