------------------------------- MODULE Worker -------------------------------
(***************************************************************************)
(* worker/worker.py and worker/runtime.py: tasks in a pool of processes,   *)
(* with retries, late acknowledgement, the lock of scheduled jobs and dead *)
(* letters.                                                                *)
(*                                                                         *)
(* The broker keeps a message until its run has ended and been             *)
(* acknowledged, so the run of a killed process is delivered again.  The   *)
(* lock extends itself (RedisLock), so it is kept while its run lasts and  *)
(* outlives a killed run for a while.                                      *)
(***************************************************************************)
EXTENDS DeadLetters, FiniteSets

CONSTANTS
    Slots,        \* pool processes
    Locked,       \* jobs of one task declared with lock=True
    MaxRetries,   \* WORKER__MAX_RETRIES
    RedisFails,   \* whether Redis calls may fail
    MaxKills,     \* bound: how many runs are killed
    MaxRequeues,  \* bound: how many letters are popped
    Idle, Free, Orphan   \* no run; no lock; a lock nobody holds any more

ASSUME WorkerAssumption ==
    /\ Locked \subseteq Jobs
    /\ {MaxRetries, MaxKills, MaxRequeues} \subseteq Nat
    /\ RedisFails \in BOOLEAN
    /\ Free \notin Slots /\ Orphan \notin Slots /\ Free # Orphan

VARIABLES
    queue,      \* the broker: how many copies of each message wait
    run,        \* what each process runs
    lock,       \* job:<name>
    done,       \* jobs that ran to their end
    skipped,    \* jobs a run returned from because the lock was taken
    lost,       \* jobs whose dead letter could not be written, or was lost
    attempts,   \* history: how often each job was tried
    failures,   \* history: how often each job ran out of retries
    requeued,   \* history: how often each job's letter was sent again
    killed,     \* history: jobs whose run was killed
    kills, pops \* how often that happened, how many letters were popped

history == <<attempts, failures, requeued, killed>>
vars == <<queue, run, lock, done, skipped, lost, history, kills, pops, deadLetters>>

Messages == [job : Jobs, tries : 0 .. MaxRetries]
Runs == [msg : Messages, step : {"start", "body", "failed", "end"}]

ASSUME IdleAssumption == Idle \notin Runs

TypeOK ==
    /\ LettersTypeOK
    /\ queue \in [Messages -> Nat]
    /\ run \in [Slots -> Runs \cup {Idle}]
    /\ lock \in Slots \cup {Free, Orphan}
    /\ done \subseteq Jobs /\ skipped \subseteq Jobs
    /\ lost \subseteq Jobs /\ killed \subseteq Jobs
    /\ attempts \in [Jobs -> Nat]
    /\ failures \in [Jobs -> Nat]
    /\ requeued \in [Jobs -> Nat]
    /\ kills \in 0 .. MaxKills
    /\ pops \in 0 .. MaxRequeues

Init ==
    /\ LettersInit
    /\ queue = [m \in Messages |-> IF m.tries = 0 THEN 1 ELSE 0]
    /\ run = [s \in Slots |-> Idle]
    /\ lock = Free
    /\ done = {} /\ skipped = {} /\ lost = {} /\ killed = {}
    /\ attempts = [j \in Jobs |-> 0]
    /\ failures = [j \in Jobs |-> 0]
    /\ requeued = [j \in Jobs |-> 0]
    /\ kills = 0 /\ pops = 0

-----------------------------------------------------------------------------
At(s, step) == run[s] # Idle /\ run[s].step = step
Goto(s, step) == run' = [run EXCEPT ![s].step = step]
Job(s) == run[s].msg.job
Send(message) == queue' = [queue EXCEPT ![message] = @ + 1]

Tried(s) == attempts' = [attempts EXCEPT ![Job(s)] = @ + 1]

\* The broker delivers a message and keeps it, unacknowledged.
Deliver(s, m) ==
    /\ run[s] = Idle
    /\ queue[m] > 0
    /\ queue' = [queue EXCEPT ![m] = @ - 1]
    /\ run' = [run EXCEPT ![s] = [msg |-> m, step |-> "start"]]
    /\ UNCHANGED <<lock, done, skipped, lost, history, kills, pops, deadLetters>>

\* Mutant: the body runs whether or not the lock was got.
ExecuteAnyway(s) ==
    /\ At(s, "start")
    /\ Tried(s) /\ Goto(s, "body") /\ UNCHANGED skipped
    /\ lock' = IF Job(s) \in Locked /\ lock = Free THEN s ELSE lock
    /\ UNCHANGED <<queue, done, lost, failures, requeued, killed, kills, pops,
                   deadLetters>>

\* _execute: the body runs if the task has no lock or the lock is free; the
\* loser returns None, which counts as success.
Execute(s) ==
    /\ At(s, "start")
    /\ \/ /\ Job(s) \notin Locked
          /\ Tried(s) /\ Goto(s, "body") /\ UNCHANGED <<lock, skipped>>
       \/ /\ Job(s) \in Locked /\ lock = Free
          /\ Tried(s) /\ Goto(s, "body") /\ lock' = s /\ UNCHANGED skipped
       \/ /\ Job(s) \in Locked /\ lock # Free
          /\ skipped' = skipped \cup {Job(s)}
          /\ Goto(s, "end") /\ UNCHANGED <<lock, attempts>>
    /\ UNCHANGED <<queue, done, lost, failures, requeued, killed, kills, pops,
                   deadLetters>>

\* scheduled_lock: acquiring raises RedisError, which is retried like any
\* exception; the SET may have been applied.
AcquireFails(s) ==
    /\ RedisFails
    /\ At(s, "start") /\ Job(s) \in Locked
    /\ lock' \in {lock} \cup (IF lock = Free THEN {Orphan} ELSE {})
    /\ Tried(s) /\ Goto(s, "failed")
    /\ UNCHANGED <<queue, done, skipped, lost, failures, requeued, killed, kills,
                   pops, deadLetters>>

\* The body returns or raises.  The lock is released on the way out; a release
\* that fails leaves it to its time to live.
BodyEnds(s) ==
    /\ At(s, "body")
    /\ \/ done' = done \cup {Job(s)} /\ Goto(s, "end")
       \/ Goto(s, "failed") /\ UNCHANGED done
    /\ IF lock = s THEN lock' \in {Free} \cup (IF RedisFails THEN {Orphan} ELSE {})
       ELSE UNCHANGED lock
    /\ UNCHANGED <<queue, skipped, lost, history, kills, pops, deadLetters>>

\* autoretry_for=(Exception,): the message is sent again before this one is
\* acknowledged.
Retry(s) ==
    /\ At(s, "failed") /\ run[s].msg.tries < MaxRetries
    /\ Send([run[s].msg EXCEPT !.tries = @ + 1])
    /\ Goto(s, "end")
    /\ UNCHANGED <<lock, done, skipped, lost, history, kills, pops, deadLetters>>

\* _on_task_failure: retries used up; the dead letter is written, or only
\* logged if that fails.
OnTaskFailure(s) ==
    /\ At(s, "failed") /\ run[s].msg.tries = MaxRetries
    /\ failures' = [failures EXCEPT ![Job(s)] = @ + 1]
    /\ \/ PushLetter(Job(s)) /\ UNCHANGED lost
       \/ RedisFails /\ lost' = lost \cup {Job(s)} /\ UNCHANGED deadLetters
    /\ Goto(s, "end")
    /\ UNCHANGED <<queue, lock, done, skipped, attempts, requeued, killed, kills, pops>>

\* Mutant: only runs that succeeded are acknowledged.
AcknowledgeSuccess(s) ==
    /\ At(s, "end") /\ Job(s) \in done
    /\ run' = [run EXCEPT ![s] = Idle]
    /\ UNCHANGED <<queue, lock, done, skipped, lost, history, kills, pops, deadLetters>>

\* task_acks_late: acknowledged when all is over.
Acknowledge(s) ==
    /\ At(s, "end")
    /\ run' = [run EXCEPT ![s] = Idle]
    /\ UNCHANGED <<queue, lock, done, skipped, lost, history, kills, pops, deadLetters>>

\* Mutant: acknowledged early, so a killed run is gone.
KillDropsMessage(s) ==
    /\ run[s] # Idle
    /\ kills < MaxKills
    /\ kills' = kills + 1
    /\ killed' = killed \cup {Job(s)}
    /\ run' = [run EXCEPT ![s] = Idle]
    /\ lock' = IF lock = s THEN Orphan ELSE lock
    /\ UNCHANGED <<queue, done, skipped, lost, attempts, failures, requeued, pops, deadLetters>>

\* The process is killed: its message goes back on the queue as it was
\* (task_reject_on_worker_lost), its lock stays behind.
Kill(s) ==
    /\ run[s] # Idle
    /\ kills < MaxKills
    /\ kills' = kills + 1
    /\ killed' = killed \cup {Job(s)}
    /\ Send(run[s].msg)
    /\ run' = [run EXCEPT ![s] = Idle]
    /\ lock' = IF lock = s THEN Orphan ELSE lock
    /\ UNCHANGED <<done, skipped, lost, attempts, failures, requeued, pops, deadLetters>>

\* The ttl of a lock nobody extends.
LockExpires ==
    /\ lock = Orphan
    /\ lock' = Free
    /\ UNCHANGED <<queue, run, done, skipped, lost, history, kills, pops, deadLetters>>

-----------------------------------------------------------------------------
(* requeue_dead_letters                                                    *)

Pop ==
    /\ pops < MaxRequeues
    /\ pops' = pops + 1
    /\ PopLetter
    /\ UNCHANGED <<queue, run, lock, done, skipped, lost, history, kills>>

SendLetter ==
    /\ HandEmptied
    /\ Send([job |-> hand, tries |-> 0])
    /\ requeued' = [requeued EXCEPT ![hand] = @ + 1]
    /\ UNCHANGED <<run, lock, done, skipped, lost, attempts, failures, killed, kills, pops>>

SendLetterFails ==
    /\ PutBack
    /\ UNCHANGED <<queue, run, lock, done, skipped, lost, history, kills, pops>>

\* The requeuer dies between LPOP and send_task, or its LPUSH fails.
LoseLetter ==
    /\ HandEmptied
    /\ lost' = lost \cup {hand}
    /\ UNCHANGED <<queue, run, lock, done, skipped, history, kills, pops>>

Requeue == SendLetter \/ SendLetterFails \/ LoseLetter

ProcessStep(s) ==
    \/ \E m \in Messages : Deliver(s, m)
    \/ Execute(s) \/ AcquireFails(s) \/ BodyEnds(s)
    \/ Retry(s) \/ OnTaskFailure(s) \/ Acknowledge(s)

Next ==
    \/ \E s \in Slots : ProcessStep(s) \/ Kill(s)
    \/ LockExpires
    \/ Pop \/ Requeue

Spec == Init /\ [][Next]_vars

\* Processes take messages, bodies end, a popped letter is dealt with.
Fairness == (\A s \in Slots : WF_vars(ProcessStep(s))) /\ WF_vars(Requeue)

FairSpec == Spec /\ Fairness

-----------------------------------------------------------------------------
(* Properties                                                              *)

Pending(j) ==
    \/ \E m \in Messages : m.job = j /\ queue[m] > 0
    \/ \E s \in Slots : run[s] # Idle /\ Job(s) = j

\* "Late acknowledgement, so a task running in a killed worker goes back on the
\* queue": whatever is killed or fails, a job that neither ran to its end nor
\* was skipped is still in the queue, in a process or in a dead letter, unless
\* its letter could not be written or was lost.
NoJobForgotten ==
    \A j \in Jobs : Pending(j) \/ Lettered(j) \/ j \in done \cup skipped \cup lost

\* Docstring of task: with lock=True runs of a task never overlap.
LockedRunAlone ==
    \A s, t \in Slots :
        /\ At(s, "body") /\ Job(s) \in Locked
        /\ At(t, "body") /\ Job(t) \in Locked
        => s = t

\* A job is given up, as a dead letter, after all its retries and not before;
\* a letter sent again starts a new round.  A killed run may add tries.
AllTriesUsed(j) ==
    \/ j \in killed
    \/ /\ (MaxRetries + 1) * failures[j] <= attempts[j]
       /\ attempts[j] <= (MaxRetries + 1) * (requeued[j] + 1)

\* Every job is dealt with in the end: nothing of it stays in the queue or in a
\* process, once processes are no longer killed and letters no longer sent
\* again, and no round was given up before its retries.
JobsSettle == \A j \in Jobs : <>[](~Pending(j) /\ AllTriesUsed(j))
=============================================================================
