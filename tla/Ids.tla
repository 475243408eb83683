-------------------------------- MODULE Ids --------------------------------
(***************************************************************************)
(* utils/snowflake.py (SnowflakeGenerator), utils/ids.py (new_uuid7) and   *)
(* worker/worker.py (_ensure_snowflake): ids made by an API process and by *)
(* the processes of a worker pool, all reading one wall clock.             *)
(*                                                                         *)
(* The clock counts milliseconds since epoch_ms and may be stepped back.   *)
(* Pool processes die and are replaced; a generator lives and dies with    *)
(* its process.  next_id is atomic (it holds the generator's lock) up to   *)
(* its wait for the next millisecond, during which it keeps the lock.      *)
(***************************************************************************)
EXTENDS Integers

CONSTANTS
    Base,          \* SNOWFLAKE__WORKER_ID of the pool
    ApiId,         \* worker id the API process configures
    Concurrency,   \* --concurrency
    MaxWorkerId,   \* MAX_WORKER_ID
    MaxSequence,   \* MAX_SEQUENCE
    MaxCounter,    \* largest uuid7 counter (0x0FFF)
    MaxTime,       \* bound: the clock stops here
    MaxStepsBack,  \* bound: how often the clock is stepped back
    MaxDeaths      \* bound: how many pool processes die

ASSUME IdsAssumption ==
    /\ {Base, ApiId, MaxSequence, MaxCounter, MaxTime, MaxStepsBack, MaxDeaths}
         \subseteq Nat
    /\ Concurrency \in Nat \ {0}
    /\ MaxWorkerId \in Nat
    /\ Base <= MaxWorkerId /\ ApiId <= MaxWorkerId
    /\ ApiId \notin Base .. Base + Concurrency - 1   \* "the API must keep out of it"

VARIABLES
    clock,      \* the wall clock
    stepsBack,  \* how often it was stepped back
    parent,     \* what the pool's main process has configured by now
    gen,        \* the generator of each process (_default)
    live,       \* the pool processes that run
    deaths,     \* how many have died
    highest,    \* history: the highest id of each worker id
    repeated,   \* history: worker ids that made an id not above all before it
    excused,    \* history: worker ids of a generator copied from the main
                \* process, or started in a millisecond used before it
    uuid,       \* _uuid7_last_ts_ms, _uuid7_counter of the API process
    uuids       \* its last uuid7: timestamp and counter

vars == <<clock, stepsBack, parent, gen, live, deaths, highest, repeated,
          excused, uuid, uuids>>
snowflakes == <<parent, gen, live, deaths, highest, repeated, excused>>

Indexes == 0 .. Concurrency - 1
Api == Concurrency                  \* the process that is not in the pool
Processes == 0 .. Concurrency

Larger(m, n) == IF m < n THEN n ELSE m

None == [worker |-> -1, last |-> -1, seq |-> 0, waiting |-> FALSE]

\* SnowflakeGenerator.__init__
Fresh(worker) == [None EXCEPT !.worker = worker]

\* The id: timestamp, worker id and sequence, from the highest bits down.
Compose(now, worker, seq) ==
    (now * (MaxWorkerId + 1) + worker) * (MaxSequence + 1) + seq

\* snowflake_timestamp_ms
Timestamp(id) == id \div ((MaxWorkerId + 1) * (MaxSequence + 1))

Ids == -1 .. Compose(MaxTime, MaxWorkerId, MaxSequence)

TypeOK ==
    /\ clock \in 0 .. MaxTime
    /\ stepsBack \in 0 .. MaxStepsBack
    /\ parent \in {"nothing", "ids", "runtime"}
    /\ gen \in [Processes -> [worker : -1 .. MaxWorkerId, last : -1 .. MaxTime,
                              seq : 0 .. MaxSequence, waiting : BOOLEAN]]
    /\ live \subseteq Indexes
    /\ deaths \in 0 .. MaxDeaths
    /\ highest \in [0 .. MaxWorkerId -> Ids]
    /\ repeated \subseteq 0 .. MaxWorkerId
    /\ excused \subseteq 0 .. MaxWorkerId
    /\ uuid \in [last : -1 .. MaxTime, counter : 0 .. MaxCounter, waiting : BOOLEAN]
    /\ uuids \in [time : -1 .. MaxTime, counter : 0 .. MaxCounter]

Init ==
    /\ clock = 0
    /\ stepsBack = 0
    /\ parent \in {"nothing", "ids"}
    /\ gen = [p \in Processes |-> IF p = Api THEN Fresh(ApiId) ELSE None]
    /\ live = {}
    /\ deaths = 0
    /\ highest = [w \in 0 .. MaxWorkerId |-> -1]
    /\ repeated = {}
    /\ excused = {}
    /\ uuid = [last |-> -1, counter |-> 0, waiting |-> FALSE]
    /\ uuids = [time |-> -1, counter |-> 0]

-----------------------------------------------------------------------------
(* Time                                                                    *)

Tick ==
    /\ clock < MaxTime
    /\ clock' = clock + 1
    /\ UNCHANGED <<stepsBack, snowflakes, uuid, uuids>>

StepBack ==
    /\ stepsBack < MaxStepsBack
    /\ clock > 0
    /\ clock' = clock - 1
    /\ stepsBack' = stepsBack + 1
    /\ UNCHANGED <<snowflakes, uuid, uuids>>

-----------------------------------------------------------------------------
(* The pool                                                                *)

\* runtime() in the main process, which has index 0: a copy of its generator
\* and of _ids_configured goes to every process forked from now on.
ParentRuntime ==
    /\ parent # "runtime"
    /\ parent' = "runtime"
    /\ UNCHANGED <<clock, stepsBack, gen, live, deaths, highest, repeated,
                   excused, uuid, uuids>>

\* What a forked process finds in _default.
Inherited == IF parent = "nothing" THEN None ELSE Fresh(Base)

\* Mutant: an index too many for the id range only raises.
EnsureSnowflakeRaisesOnly(i) ==
    IF parent = "runtime" \/ Base + i > MaxWorkerId THEN Inherited ELSE Fresh(Base + i)

\* _ensure_snowflake: the generator of pool process i after worker_process_init.
EnsureSnowflake(i) ==
    IF parent = "runtime" THEN Inherited
    ELSE IF Base + i > MaxWorkerId THEN None
    ELSE Fresh(Base + i)

\* billiard hands a new process the lowest free index.
StartProcess(i) ==
    /\ i \in Indexes \ live
    /\ \A j \in Indexes \ live : i <= j
    /\ live' = live \cup {i}
    /\ gen' = [gen EXCEPT ![i] = EnsureSnowflake(i)]
    /\ excused' = excused \cup (IF parent = "runtime" THEN {Base} ELSE {})
    /\ UNCHANGED <<clock, stepsBack, parent, deaths, highest, repeated, uuid, uuids>>

Die(i) ==
    /\ i \in live
    /\ deaths < MaxDeaths
    /\ live' = live \ {i}
    /\ gen' = [gen EXCEPT ![i] = None]
    /\ deaths' = deaths + 1
    /\ UNCHANGED <<clock, stepsBack, parent, highest, repeated, excused, uuid, uuids>>

-----------------------------------------------------------------------------
(* SnowflakeGenerator                                                      *)

\* The caller of process p gets the id of millisecond now and sequence seq.
Issue(p, now, seq) ==
    LET worker == gen[p].worker
        id == Compose(now, worker, seq)
        UsedBefore == highest[worker] # -1 /\ Timestamp(highest[worker]) >= now
    IN  /\ gen' = [gen EXCEPT ![p] = [worker |-> worker, last |-> now, seq |-> seq,
                                      waiting |-> FALSE]]
        /\ highest' = [highest EXCEPT ![worker] = Larger(@, id)]
        /\ repeated' = repeated \cup (IF id <= highest[worker] THEN {worker} ELSE {})
        /\ excused' = excused \cup (IF gen[p].last = -1 /\ UsedBefore THEN {worker} ELSE {})

\* Mutant: the clock is believed when it goes back.
NowAsRead(g) == clock

\* The millisecond next_id works with: never earlier than the last one.
Now(g) == Larger(clock, g.last)

\* The sequence of this millisecond is used up.
Exhausted(g) == Now(g) = g.last /\ g.seq = MaxSequence

\* next_id, up to the wait for the next millisecond.
NextId(p) ==
    /\ gen[p] # None
    /\ ~gen[p].waiting
    /\ \/ /\ Exhausted(gen[p])
          /\ gen' = [gen EXCEPT ![p].seq = 0, ![p].waiting = TRUE]
          /\ UNCHANGED <<highest, repeated, excused>>
       \/ /\ ~Exhausted(gen[p])
          /\ Issue(p, Now(gen[p]),
                   IF Now(gen[p]) = gen[p].last THEN (gen[p].seq + 1) % (MaxSequence + 1)
                                                ELSE 0)
    /\ UNCHANGED <<clock, stepsBack, parent, live, deaths, uuid, uuids>>

\* Mutant: waits for a millisecond two later.
WaitNextMsTooLong(p) ==
    /\ gen[p].waiting
    /\ clock > gen[p].last + 1
    /\ Issue(p, clock, 0)
    /\ UNCHANGED <<clock, stepsBack, parent, live, deaths, uuid, uuids>>

\* _wait_next_ms sees the clock pass the last millisecond; the lock was held.
WaitNextMs(p) ==
    /\ gen[p].waiting
    /\ clock > gen[p].last
    /\ Issue(p, clock, 0)
    /\ UNCHANGED <<clock, stepsBack, parent, live, deaths, uuid, uuids>>

-----------------------------------------------------------------------------
(* new_uuid7                                                               *)

IssueUuid(counter) ==
    /\ uuid' = [last |-> clock, counter |-> counter, waiting |-> FALSE]
    /\ uuids' = [time |-> clock, counter |-> counter]

\* Mutant: the counter wraps without a wait.
NewUuidWraps ==
    /\ ~uuid.waiting
    /\ \/ clock = uuid.last /\ IssueUuid((uuid.counter + 1) % (MaxCounter + 1))
       \/ clock # uuid.last /\ \E random \in 0 .. MaxCounter : IssueUuid(random)
    /\ UNCHANGED <<clock, stepsBack, snowflakes>>

\* In the millisecond of the last one the counter goes on; a wrap waits.  In
\* another millisecond, an earlier one included, it starts at random.
NewUuid ==
    /\ ~uuid.waiting
    /\ \/ clock = uuid.last /\ uuid.counter < MaxCounter /\ IssueUuid(uuid.counter + 1)
       \/ /\ clock = uuid.last /\ uuid.counter = MaxCounter
          /\ uuid' = [uuid EXCEPT !.counter = 0, !.waiting = TRUE]
          /\ UNCHANGED uuids
       \/ clock # uuid.last /\ \E random \in 0 .. MaxCounter : IssueUuid(random)
    /\ UNCHANGED <<clock, stepsBack, snowflakes>>

\* The overflow loop ends in any other millisecond.
UuidOtherMs ==
    /\ uuid.waiting
    /\ clock # uuid.last
    /\ IssueUuid(0)
    /\ UNCHANGED <<clock, stepsBack, snowflakes>>

-----------------------------------------------------------------------------
Next ==
    \/ Tick \/ StepBack \/ ParentRuntime
    \/ \E i \in Indexes : StartProcess(i) \/ Die(i)
    \/ \E p \in Processes : NextId(p) \/ WaitNextMs(p)
    \/ NewUuid \/ UuidOtherMs

Spec == Init /\ [][Next]_vars

\* The clock goes on, and a waiting thread polls it.
Fairness ==
    /\ WF_vars(Tick)
    /\ \A p \in Processes : WF_vars(WaitNextMs(p))
    /\ WF_vars(UuidOtherMs)

FairSpec == Spec /\ Fairness

-----------------------------------------------------------------------------
(* Properties                                                              *)

\* Docstring of Worker: two live processes never share a worker id, except by
\* a copy of the main process's generator.
LiveProcessesDiffer ==
    \A p, q \in Processes :
        gen[p] # None /\ gen[q] # None /\ gen[p].worker = gen[q].worker =>
            p = q \/ gen[p].worker \in excused

\* No worker id makes an id twice, and later ids are higher, whatever the clock
\* does and however many ids a millisecond is asked for, unless a new process
\* with that worker id starts in a millisecond one before it used, or has a
\* copied generator.
NoIdTwice == repeated \subseteq excused

\* The uuid7s of a process increase until the clock shows a time before the
\* last one.
UuidsIncrease ==
    [][uuids' # uuids => \/ uuids'.time > uuids.time
                         \/ uuids'.time = uuids.time /\ uuids'.counter > uuids.counter
                         \/ clock < uuids.time]_vars

\* Whoever waits for the next millisecond, holding the lock all others of its
\* process wait for, is served while the clock has a next millisecond to show.
WaiterProceeds ==
    /\ \A p \in Processes :
         gen[p].waiting /\ gen[p].last < MaxTime ~> ~gen[p].waiting
    /\ uuid.waiting /\ uuid.last < MaxTime ~> ~uuid.waiting
=============================================================================
