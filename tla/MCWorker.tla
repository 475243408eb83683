------------------------------ MODULE MCWorker ------------------------------
(* Instance for TLC: two processes, a job of a locked task and one without  *)
(* a lock, one retry each.                                                  *)
EXTENDS Worker
=============================================================================
