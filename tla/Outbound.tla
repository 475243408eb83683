------------------------------ MODULE Outbound ------------------------------
(***************************************************************************)
(* Two clients of other services as resources of the lifespan: the         *)
(* ObjectStorageClient of storage, opened by its startup and closed by its *)
(* shutdown, and the GrpcChannelPool of runtime/grpc_client.py, filled by  *)
(* the handlers that ask it for channels and emptied by its shutdown.      *)
(*                                                                         *)
(* get_channel has no await inside its lock, and one that comes while      *)
(* aclose holds the lock finds the pool empty: aclose is one step.         *)
(***************************************************************************)
EXTENDS Serving

CONSTANTS
    Storage, Pool,   \* the resources
    Targets          \* services that are called over gRPC

ASSUME OutboundAssumption ==
    /\ Storage \in 1 .. N - 1
    /\ Pool \in 1 .. N - 1
    /\ Storage # Pool

VARIABLES
    opened,    \* the storage's _client is set
    channels,  \* the targets in _channels, whose channels are open
    notOpen    \* history: a handler was told that the storage is not open

clients == <<opened, channels, notOpen>>
outboundVars == <<vars, clients>>

ClientsTypeOK ==
    /\ opened \in BOOLEAN
    /\ channels \subseteq Targets
    /\ notOpen \in BOOLEAN

OutboundInit ==
    /\ Init
    /\ opened = FALSE
    /\ channels = {}
    /\ notOpen = FALSE

\* open, the startup of the storage; and close, its shutdown: if leaving the S3
\* client raises, _client stays.
OpenOrClose ==
    opened' = IF Storage \in up' \ up THEN TRUE
              ELSE IF Storage \in up \ up' THEN FALSE
              ELSE opened

Unwinding(r) == phase = "stopping" /\ started = r /\ started' = r - 1

\* Mutant: a channel that fails to close ends the loop.
ACloseGivesUp ==
    /\ channels' \in IF Unwinding(Pool) THEN SUBSET channels ELSE {channels}
    /\ Pool \notin stuck'

\* aclose, the shutdown of the pool: a channel that fails to close stops neither
\* the others nor the shutdown.
AClose ==
    /\ channels' = IF Unwinding(Pool) THEN {} ELSE channels
    /\ Pool \notin stuck'

\* What a step of the process does to its clients.
Resources ==
    /\ OpenOrClose
    /\ AClose
    /\ UNCHANGED notOpen

Handling == inFlight > 0 \/ rpcs > 0

\* A handler asks for the S3 client.
Client ==
    /\ Handling
    /\ notOpen' = (notOpen \/ ~opened)
    /\ UNCHANGED <<vars, opened, channels>>

GetChannel(target) ==
    /\ Handling
    /\ channels' = channels \cup {target}
    /\ UNCHANGED <<vars, opened, notOpen>>

OutboundNext ==
    \/ Next /\ Resources
    \/ Client
    \/ \E target \in Targets : GetChannel(target)

OutboundSpec == OutboundInit /\ [][OutboundNext]_outboundVars

\* The fairness of Serving; handlers need not use the clients.
OutboundFairness ==
    /\ WF_outboundVars(ServerStep /\ Resources)
    /\ WF_outboundVars(Drained /\ Resources)
    /\ WF_outboundVars(ChecksDone /\ Resources)
    /\ WF_outboundVars(nextProbe = 0 /\ Ready /\ Resources)
    /\ WF_outboundVars(Reroute /\ Resources)
    /\ WF_outboundVars(Finish /\ Resources)
    /\ WF_outboundVars(Tick /\ Resources)

OutboundFairSpec == OutboundSpec /\ OutboundFairness

-----------------------------------------------------------------------------
(* Properties                                                              *)

\* Docstrings of ObjectStorageClient, "open it once at startup and close it on
\* shutdown", and of aclose, "Close all pooled channels": handlers find the
\* storage open, and nothing is open when the lifespan is over, unless closing
\* it failed or RPCs went on because the gRPC server failed to stop.
ClientsSpanTheirHandlers ==
    /\ notOpen => N \in stuck
    /\ phase = "stopped" =>
        /\ opened => Storage \in stuck
        /\ channels # {} => N \in stuck
=============================================================================
