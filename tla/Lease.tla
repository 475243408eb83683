------------------------------- MODULE Lease -------------------------------
(***************************************************************************)
(* What a lock key in Redis promises, whatever the clients do: a session   *)
(* (one use of redis_lock, one token) asks once, holds the key at most     *)
(* once, and only while no other session holds it.  RedisLock implements   *)
(* it (RedisLock!LeaseSpec).                                               *)
(***************************************************************************)
CONSTANT Sessions

VARIABLE status

TypeOK == status \in [Sessions -> {"new", "waiting", "held", "over"}]

Init == status = [s \in Sessions |-> "new"]

Move(s, from, to) == /\ status[s] = from
                     /\ status' = [status EXCEPT ![s] = to]

Request(s) == Move(s, "new", "waiting")

Grant(s) == /\ \A other \in Sessions : status[other] # "held"
            /\ Move(s, "waiting", "held")

\* The session gives up, or its request is lost, before it was granted.
Abandon(s) == Move(s, "waiting", "over")

\* Released by its holder, or expired.
End(s) == Move(s, "held", "over")

Next == \E s \in Sessions : Request(s) \/ Grant(s) \/ Abandon(s) \/ End(s)

Spec == Init /\ [][Next]_status
=============================================================================
