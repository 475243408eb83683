----------------------------- MODULE MCServing -----------------------------
(* Instance for TLC: the storage, the channel pool and the gRPC server;    *)
(* probes, checks and routing of one tick each, and the shortest drain     *)
(* longer than all three.                                                  *)
EXTENDS Outbound
=============================================================================
