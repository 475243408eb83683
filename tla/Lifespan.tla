------------------------------ MODULE Lifespan ------------------------------
(***************************************************************************)
(* runtime/lifespan.py (build_lifespan) and GrpcServer of runtime/grpc.py: *)
(* resources are started in order, the gRPC server last, and stopped in    *)
(* reverse order, however far the start-up got.                            *)
(***************************************************************************)
EXTENDS Integers

CONSTANT N   \* resources 1 .. N; N is the gRPC server

ASSUME NAssumption == N \in Nat \ {0}

VARIABLES
    phase,     \* of the lifespan context manager
    started,   \* how many resources are in its list `started`
    up,        \* the resources that hold what their startup opened
    stuck      \* those whose shutdown raised

lifespan == <<phase, started, up, stuck>>

LifespanTypeOK ==
    /\ phase \in {"starting", "running", "stopping", "stopped"}
    /\ started \in 0 .. N
    /\ up \subseteq 1 .. N
    /\ stuck \subseteq 1 .. N

LifespanInit ==
    /\ phase = "starting"
    /\ started = 0
    /\ up = {}
    /\ stuck = {}

\* resource.startup() or grpc_server.start() returns.
StartNext ==
    /\ phase = "starting"
    /\ started' = started + 1
    /\ up' = up \cup {started + 1}
    /\ phase' = IF started' = N THEN "running" ELSE "starting"
    /\ UNCHANGED stuck

\* It raises: what was started so far is unwound.
StartFails ==
    /\ phase = "starting"
    /\ phase' = IF started = 0 THEN "stopped" ELSE "stopping"
    /\ UNCHANGED <<started, up, stuck>>

\* The server leaves the `yield`, or its task is cancelled there.
BeginStop ==
    /\ phase = "running"
    /\ phase' = "stopping"
    /\ UNCHANGED <<started, up, stuck>>

\* Mutant: a shutdown that raises ends the unwinding.
StopNextGivesUp ==
    /\ phase = "stopping"
    /\ \/ /\ up' = up \ {started}
          /\ started' = started - 1
          /\ phase' = IF started' = 0 THEN "stopped" ELSE "stopping"
          /\ UNCHANGED stuck
       \/ /\ stuck' = stuck \cup {started}
          /\ phase' = "stopped"
          /\ UNCHANGED <<up, started>>

\* The last resource started is stopped; an exception is logged and the next
\* one is stopped all the same.
StopNext ==
    /\ phase = "stopping"
    /\ \/ up' = up \ {started} /\ UNCHANGED stuck
       \/ stuck' = stuck \cup {started} /\ UNCHANGED up
    /\ started' = started - 1
    /\ phase' = IF started' = 0 THEN "stopped" ELSE "stopping"

\* "starts resources in order and unwinds on failure/shutdown": a resource that
\* is up has under it everything that was started before it.
StackDiscipline ==
    \A i, j \in 1 .. N : i < j /\ j \in up /\ j \notin stuck => i \in up

\* When the lifespan is over nothing is left up but what refused to stop.
NothingLeftUp == phase = "stopped" => up \subseteq stuck

LifespanNext == StartNext \/ StartFails \/ BeginStop \/ StopNext

LifespanSpec == LifespanInit /\ [][LifespanNext]_lifespan
=============================================================================
