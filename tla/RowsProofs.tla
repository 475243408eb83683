------------------------------ MODULE RowsProofs ------------------------------
(***************************************************************************)
(* Theorems about Ids, for any ranges of worker ids, sequences and         *)
(* counters, any size of the pool, any number of deaths and restarts, and  *)
(* a clock that is stepped back as often as one likes; and about Listing,  *)
(* for any table, any number of units of work and of walks, any limits and *)
(* any size of the connection pool.                                        *)
(***************************************************************************)
EXTENDS Ids, Listing, FiniteSetTheorems, SequenceTheorems, WellFoundedInduction, TLAPS

-----------------------------------------------------------------------------
(* Ids                                                                     *)

\* The parameters are natural numbers.
LEMMA Parameters ==
    /\ Base \in Nat /\ ApiId \in Nat /\ Concurrency \in Nat /\ Concurrency > 0
    /\ MaxWorkerId \in Nat /\ MaxSequence \in Nat /\ MaxCounter \in Nat
    /\ MaxTime \in Nat /\ MaxStepsBack \in Nat /\ MaxDeaths \in Nat
    /\ ApiId <= MaxWorkerId /\ Base <= MaxWorkerId
    /\ \A i \in Indexes : ApiId # Base + i
BY IdsAssumption DEF Indexes

-----------------------------------------------------------------------------
(* Arithmetic of the ids                                                   *)

\* A digit below its base, and a higher digit, compare like the numbers they make.
LEMMA DigitsCompare ==
    ASSUME NEW m \in Nat, NEW n \in Nat, NEW base \in Nat, NEW d \in 0 .. base,
           NEW e \in 0 .. base, m < n
    PROVE  m * (base + 1) + d < n * (base + 1) + e
<1>1. (m + 1) * (base + 1) <= n * (base + 1)
  OBVIOUS
<1> QED
  BY <1>1

\* Of one worker, ids of a later millisecond are larger, and in one millisecond
\* those with a larger sequence.
LEMMA LaterIsLarger ==
    ASSUME NEW w \in 0 .. MaxWorkerId,
           NEW t \in Nat, NEW s \in 0 .. MaxSequence,
           NEW u \in Nat, NEW r \in 0 .. MaxSequence,
           \/ t < u
           \/ t = u /\ s < r
    PROVE  Compose(t, w, s) < Compose(u, w, r)
<1> USE Parameters
<1> DEFINE m == t * (MaxWorkerId + 1) + w
           n == u * (MaxWorkerId + 1) + w
<1>1. m \in Nat /\ n \in Nat /\ (m < n \/ (m = n /\ s < r))
  BY DigitsCompare
<1> HIDE DEF m, n
<1>2. m * (MaxSequence + 1) + s < n * (MaxSequence + 1) + r
  BY <1>1, DigitsCompare
<1> QED
  BY <1>2 DEF Compose, m, n

\* An id is a natural number, and no larger than the one made of the largest of
\* everything.
LEMMA ComposeInIds ==
    ASSUME NEW t \in 0 .. MaxTime, NEW w \in 0 .. MaxWorkerId, NEW s \in 0 .. MaxSequence
    PROVE  Compose(t, w, s) \in Nat /\ Compose(t, w, s) \in Ids
<1> USE Parameters
<1> DEFINE m == t * (MaxWorkerId + 1) + w
           n == MaxTime * (MaxWorkerId + 1) + MaxWorkerId
<1>1. m \in Nat /\ n \in Nat /\ m <= n
  BY DigitsCompare
<1> HIDE DEF m, n
<1>2. /\ m * (MaxSequence + 1) + s \in Nat
      /\ m * (MaxSequence + 1) + s <= n * (MaxSequence + 1) + MaxSequence
  BY <1>1, DigitsCompare
<1> QED
  BY <1>2 DEF Compose, Ids, m, n

\* An id whose timestamp is earlier than a millisecond is smaller than any id of
\* that millisecond.
LEMMA EarlierTimestamp ==
    ASSUME NEW h \in Nat, NEW t \in Nat, NEW w \in 0 .. MaxWorkerId,
           NEW s \in 0 .. MaxSequence, ~(Timestamp(h) >= t)
    PROVE  h < Compose(t, w, s)
<1> USE Parameters
<1> DEFINE K == (MaxWorkerId + 1) * (MaxSequence + 1)
<1>1. K \in Nat /\ K > 0
  OBVIOUS
<1>2. Compose(t, w, s) = t * K + w * (MaxSequence + 1) + s
  BY DEF Compose
<1>3. w * (MaxSequence + 1) \in Nat
  OBVIOUS
<1>4. ~(h \div K >= t)
  BY DEF Timestamp
<1> HIDE DEF K
<1>5. h < t * K /\ t * K \in Nat
  BY <1>1, <1>4
<1> QED
  BY <1>2, <1>3, <1>5

-----------------------------------------------------------------------------
(* Generators                                                              *)

\* The API process has the worker id it configured.  A pool process that runs
\* has no generator, its own worker id or, as a copy of the main process's, Base.
GeneratorsFit ==
    /\ gen[Api].worker = ApiId
    /\ \A i \in Indexes :
         \/ gen[i] = None
         \/ gen[i].worker = Base + i
         \/ gen[i].worker = Base /\ Base \in excused
    /\ \A p \in Processes :
         /\ gen[p] # None => gen[p].worker >= 0
         /\ gen[p].waiting => gen[p] # None

\* What an unexcused generator would make next is above all ids of its worker.
HighestIsBehind ==
    \A p \in Processes :
        gen[p] # None /\ gen[p].worker \notin excused /\ gen[p].last # -1 =>
            highest[gen[p].worker] <=
                Compose(gen[p].last, gen[p].worker,
                        IF gen[p].waiting THEN MaxSequence ELSE gen[p].seq)

SnowflakeInv == TypeOK /\ GeneratorsFit /\ HighestIsBehind /\ NoIdTwice

\* The values of a generator.
Generators == [worker : -1 .. MaxWorkerId, last : -1 .. MaxTime,
               seq : 0 .. MaxSequence, waiting : BOOLEAN]

\* What the type invariant says of a generator.
LEMMA GeneratorTypes ==
    ASSUME TypeOK, NEW p \in Processes
    PROVE  /\ gen \in [Processes -> Generators]
           /\ gen[p].last \in -1 .. MaxTime /\ gen[p].seq \in 0 .. MaxSequence
           /\ gen[p].waiting \in BOOLEAN
           /\ clock \in 0 .. MaxTime
BY DEF TypeOK, Generators

\* A record with the fields of a generator is one.
LEMMA IsGenerator ==
    ASSUME NEW w \in -1 .. MaxWorkerId, NEW t \in -1 .. MaxTime,
           NEW s \in 0 .. MaxSequence, NEW b \in BOOLEAN
    PROVE  [worker |-> w, last |-> t, seq |-> s, waiting |-> b] \in Generators
BY DEF Generators

\* An update of a record's worker id.
LEMMA WorkerUpdate ==
    ASSUME NEW b \in BOOLEAN, NEW w, NEW n, NEW h,
           n = [worker |-> -1, last |-> -1, seq |-> 0, waiting |-> b],
           h = [n EXCEPT !.worker = w]
    PROVE  h = [worker |-> w, last |-> -1, seq |-> 0, waiting |-> b]
OBVIOUS

\* An update of the last two fields of a generator.
LEMMA WaitingUpdate ==
    ASSUME NEW b \in BOOLEAN, NEW g \in Generators, NEW h,
           h = [g EXCEPT !.seq = 0, !.waiting = b]
    PROVE  h = [worker |-> g.worker, last |-> g.last, seq |-> 0, waiting |-> b]
BY DEF Generators

\* A new generator and none at all are generators too.
LEMMA FreshGenerators ==
    /\ None \in Generators
    /\ \A w \in 0 .. MaxWorkerId :
         Fresh(w) = [worker |-> w, last |-> -1, seq |-> 0, waiting |-> FALSE]
         /\ Fresh(w) \in Generators
<1> USE Parameters
<1>1. -1 \in -1 .. MaxWorkerId /\ -1 \in -1 .. MaxTime /\ 0 \in 0 .. MaxSequence
  OBVIOUS
<1>2. None \in Generators
  BY <1>1, IsGenerator DEF None
<1>3. ASSUME NEW w \in 0 .. MaxWorkerId
      PROVE  Fresh(w) = [worker |-> w, last |-> -1, seq |-> 0, waiting |-> FALSE]
  <2>1. Fresh(w) = [None EXCEPT !.worker = w]
    BY DEF Fresh
  <2>2. None = [worker |-> -1, last |-> -1, seq |-> 0, waiting |-> FALSE]
    BY DEF None
  <2> QED
    BY <2>1, <2>2, WorkerUpdate, FALSE \in BOOLEAN, Zenon
<1>4. ASSUME NEW w \in 0 .. MaxWorkerId PROVE Fresh(w) \in Generators
  <2>1. w \in -1 .. MaxWorkerId
    OBVIOUS
  <2> QED
    BY <1>1, <1>3, <2>1, IsGenerator
<1> QED
  BY <1>2, <1>3, <1>4

\* Two processes with one worker id are one process, or the worker id is excused.
LEMMA GeneratorsDiffer == GeneratorsFit => LiveProcessesDiffer
<1> SUFFICES ASSUME GeneratorsFit, NEW p \in Processes, NEW q \in Processes,
                    gen[p] # None, gen[q] # None, gen[p].worker = gen[q].worker,
                    gen[p].worker \notin excused
             PROVE  p = q
  BY DEF LiveProcessesDiffer
<1>1. \A r \in Processes : r = Api \/ r \in Indexes
  BY Parameters DEF Processes, Api, Indexes
<1>2. \A i \in Indexes : gen[i] # None /\ gen[i].worker = gen[p].worker
                         => gen[i].worker = Base + i
  BY Parameters DEF GeneratorsFit
<1>3. \A i \in Indexes : gen[i] # None /\ gen[i].worker = gen[p].worker
                         => gen[i].worker # gen[Api].worker
  BY <1>2, Parameters DEF GeneratorsFit
<1> QED
  BY <1>1, <1>2, <1>3, Parameters DEF Indexes

\* The sequence of an id that is issued without a wait.
LEMMA NextSequence ==
    ASSUME NEW s \in 0 .. MaxSequence, s # MaxSequence
    PROVE  (s + 1) % (MaxSequence + 1) = s + 1
BY Parameters

\* An id above the one the generator made last, and above all of its worker if
\* the generator is new and starts in a millisecond without ids, keeps the
\* invariant.
LEMMA IssueStep ==
    ASSUME SnowflakeInv, NEW p \in Processes, gen[p] # None,
           NEW now \in 0 .. MaxTime, NEW seq \in 0 .. MaxSequence,
           \/ now > gen[p].last
           \/ now = gen[p].last /\ ~gen[p].waiting /\ seq > gen[p].seq,
           Issue(p, now, seq),
           UNCHANGED <<clock, stepsBack, parent, live, deaths, uuid, uuids>>
    PROVE  SnowflakeInv'
<1> DEFINE w == gen[p].worker
           id == Compose(now, w, seq)
           g == [worker |-> w, last |-> now, seq |-> seq, waiting |-> FALSE]
<1>1. /\ w \in 0 .. MaxWorkerId
      /\ gen[p].last \in -1 .. MaxTime /\ gen[p].seq \in 0 .. MaxSequence
      /\ highest[w] \in Ids
  BY Parameters DEF SnowflakeInv, TypeOK, GeneratorsFit
<1>2. id \in Ids /\ id \in Nat
  BY <1>1, ComposeInIds
<1>3. gen' = [gen EXCEPT ![p] = g] /\ highest' = [highest EXCEPT ![w] = Larger(@, id)]
  BY DEF Issue
<1>4. excused \subseteq excused' /\ excused' \subseteq excused \cup {w}
  BY DEF Issue
<1>5. repeated \subseteq repeated' /\ repeated' \subseteq repeated \cup {w}
  BY DEF Issue
<1>6. w \notin excused' => highest[w] < id
  <2> SUFFICES ASSUME w \notin excused' PROVE highest[w] < id
    OBVIOUS
  <2>1. CASE gen[p].last = -1
    <3>1. ~(highest[w] # -1 /\ Timestamp(highest[w]) >= now)
      BY <2>1, <1>1 DEF Issue
    <3>2. highest[w] = -1 \/ highest[w] \in Nat
      BY <1>1 DEF Ids
    <3> QED
      BY <3>1, <3>2, <1>1, <1>2, EarlierTimestamp, Parameters
  <2>2. CASE gen[p].last # -1
    <3> DEFINE s == IF gen[p].waiting THEN MaxSequence ELSE gen[p].seq
    <3>1. highest[w] <= Compose(gen[p].last, w, s)
      BY <2>2, <1>4 DEF SnowflakeInv, HighestIsBehind
    <3>2. s \in 0 .. MaxSequence /\ gen[p].last \in Nat
      BY <2>2, <1>1, Parameters
    <3>3. Compose(gen[p].last, w, s) < id
      <4>1. now \in Nat /\ (gen[p].last < now \/ (gen[p].last = now /\ s < seq))
        BY <3>2, Parameters
      <4> HIDE DEF s
      <4> QED
        BY <4>1, <3>2, <1>1, LaterIsLarger
    <3>4. Compose(gen[p].last, w, s) \in Nat
      BY <3>2, <1>1, ComposeInIds, Parameters
    <3> QED
      BY <3>1, <3>3, <3>4, <1>1, <1>2, Parameters DEF Ids
  <2> QED
    BY <2>1, <2>2
<1>7. w \notin excused' => highest'[w] = id
  BY <1>1, <1>2, <1>3, <1>6 DEF SnowflakeInv, TypeOK, Larger
<1>8. TypeOK'
  <2>1. highest' \in [0 .. MaxWorkerId -> Ids]
    BY <1>1, <1>2, <1>3 DEF SnowflakeInv, TypeOK, Larger
  <2>2. gen' \in [Processes -> Generators]
    BY <1>1, <1>3, IsGenerator DEF SnowflakeInv, TypeOK, Generators
  <2> QED
    BY <1>1, <1>4, <1>5, <2>1, <2>2 DEF SnowflakeInv, TypeOK, Generators
<1>9. g # None
  BY <1>1 DEF None
<1>10. GeneratorsFit'
  <2>1. gen \in [Processes -> Generators]
    BY DEF SnowflakeInv, TypeOK, Generators
  <2>2. /\ gen'[p] = g
        /\ \A q \in Processes : q # p => gen'[q] = gen[q]
        /\ \A q \in Processes : gen'[q].worker = gen[q].worker
    BY <1>3, <2>1
  <2>3. \A q \in Processes : gen'[q] = None => gen[q] = None
    BY <2>2, <1>9
  <2>4. Api \in Processes /\ Indexes \subseteq Processes
    BY Parameters DEF Api, Processes, Indexes
  <2>5. \A q \in Processes : gen'[q] # None => gen'[q].worker >= 0
    BY <2>2, <1>1 DEF SnowflakeInv, GeneratorsFit
  <2>6. \A q \in Processes : gen'[q].waiting => gen'[q] # None
    BY <2>2, <1>9 DEF SnowflakeInv, GeneratorsFit
  <2>7. \A i \in Indexes : \/ gen'[i] = None
                           \/ gen'[i].worker = Base + i
                           \/ gen'[i].worker = Base /\ Base \in excused'
    BY <2>2, <2>4, <1>4 DEF SnowflakeInv, GeneratorsFit
  <2>8. gen'[Api].worker = ApiId
    BY <2>2, <2>4 DEF SnowflakeInv, GeneratorsFit
  <2> QED
    BY <2>5, <2>6, <2>7, <2>8 DEF GeneratorsFit
<1>11. HighestIsBehind'
  <2> SUFFICES ASSUME NEW q \in Processes, gen'[q] # None,
                      gen'[q].worker \notin excused', gen'[q].last # -1
               PROVE  highest'[gen'[q].worker] <=
                        Compose(gen'[q].last, gen'[q].worker,
                                IF gen'[q].waiting THEN MaxSequence ELSE gen'[q].seq)
    BY DEF HighestIsBehind
  <2>1. CASE q = p
    <3>1. gen'[q] = g
      BY <2>1, <1>3 DEF SnowflakeInv, TypeOK
    <3> QED
      BY <3>1, <1>2, <1>7
  <2>2. CASE q # p
    <3>1. gen'[q] = gen[q]
      BY <2>2, <1>3 DEF SnowflakeInv, TypeOK
    <3>2. gen[q].worker # w
      BY <2>2, <3>1, <1>4, GeneratorsDiffer DEF SnowflakeInv, LiveProcessesDiffer
    <3>3. highest'[gen[q].worker] = highest[gen[q].worker]
      BY <3>2, <1>3, <3>1 DEF SnowflakeInv, TypeOK
    <3> QED
      BY <3>1, <3>3, <1>4 DEF SnowflakeInv, HighestIsBehind
  <2> QED
    BY <2>1, <2>2
<1>12. NoIdTwice'
  <2>1. w \notin excused' => w \notin repeated' \/ w \in repeated
    BY <1>1, <1>2, <1>6 DEF Issue, Ids
  <2> QED
    BY <2>1, <1>4, <1>5 DEF SnowflakeInv, NoIdTwice
<1> QED
  BY <1>8, <1>10, <1>11, <1>12 DEF SnowflakeInv


\* next_id keeps the invariant, whether it answers or has to wait.
LEMMA NextIdStep ==
    ASSUME SnowflakeInv, NEW p \in Processes, NextId(p)
    PROVE  SnowflakeInv'
<1> USE Parameters
<1>1. TypeOK /\ gen[p] # None /\ ~gen[p].waiting
  BY DEF SnowflakeInv, NextId
<1>2. CASE Exhausted(gen[p])
  <2>1. /\ gen' = [gen EXCEPT ![p].seq = 0, ![p].waiting = TRUE]
        /\ UNCHANGED <<highest, repeated, excused>>
        /\ UNCHANGED <<clock, stepsBack, parent, live, deaths, uuid, uuids>>
    BY <1>2 DEF NextId
  <2>2. gen[p].seq = MaxSequence
    BY <1>2 DEF Exhausted
  <2>3. /\ gen'[p] = [gen[p] EXCEPT !.seq = 0, !.waiting = TRUE]
        /\ \A q \in Processes : q # p => gen'[q] = gen[q]
    BY <2>1, <1>1, GeneratorTypes
  <2>4. /\ \A q \in Processes : gen'[q].worker = gen[q].worker /\ gen'[q].last = gen[q].last
        /\ gen'[p].waiting
    <3>1. gen[p] \in Generators
      BY <1>1, GeneratorTypes
    <3>2. gen'[p] = [worker |-> gen[p].worker, last |-> gen[p].last, seq |-> 0, waiting |-> TRUE]
      BY <2>3, <3>1, WaitingUpdate, TRUE \in BOOLEAN, Zenon
    <3>3. gen'[p].worker = gen[p].worker /\ gen'[p].last = gen[p].last /\ gen'[p].waiting
      BY <3>2
    <3> QED
      BY <2>3, <3>3
  <2>5. gen'[p] # None
    BY <2>4 DEF None
  <2>6. TypeOK'
    <3> DEFINE g == [gen[p] EXCEPT !.seq = 0, !.waiting = TRUE]
    <3>1. g \in Generators
      <4>1. gen[p] \in Generators /\ 0 \in 0 .. MaxSequence
        BY <1>1, GeneratorTypes
      <4>2. g = [worker |-> gen[p].worker, last |-> gen[p].last, seq |-> 0, waiting |-> TRUE]
        BY <4>1, WaitingUpdate, TRUE \in BOOLEAN, Zenon
      <4> QED
        BY <4>1, <4>2, IsGenerator DEF Generators
    <3>2. gen' = [gen EXCEPT ![p] = g]
      BY <2>1, <1>1, GeneratorTypes
    <3> HIDE DEF g
    <3>3. gen' \in [Processes -> Generators]
      BY <3>1, <3>2, <1>1, GeneratorTypes
    <3> QED
      BY <2>1, <3>3, <1>1 DEF TypeOK, Generators
  <2>7. GeneratorsFit'
    <3>1. Api \in Processes /\ Indexes \subseteq Processes
      BY DEF Api, Processes, Indexes
    <3>2. \A q \in Processes : gen'[q] = None => gen[q] = None
      BY <2>3, <2>5
    <3>3. \A i \in Indexes : gen[i] = None => gen'[i] = None
      BY <2>3, <1>1, <3>1
    <3>4. GeneratorsFit /\ excused' = excused
      BY <2>1 DEF SnowflakeInv
    <3>5. \A q \in Processes : /\ gen'[q] # None => gen'[q].worker >= 0
                               /\ gen'[q].waiting => gen'[q] # None
      BY <2>3, <2>4, <2>5, <3>4, <1>1 DEF GeneratorsFit
    <3>6. \A i \in Indexes : \/ gen'[i] = None
                             \/ gen'[i].worker = Base + i
                             \/ gen'[i].worker = Base /\ Base \in excused'
      BY <2>4, <3>1, <3>3, <3>4 DEF GeneratorsFit
    <3> QED
      BY <2>4, <3>1, <3>4, <3>5, <3>6 DEF GeneratorsFit
  <2>8. HighestIsBehind'
    <3> SUFFICES ASSUME NEW q \in Processes, gen'[q] # None,
                        gen'[q].worker \notin excused', gen'[q].last # -1
                 PROVE  highest'[gen'[q].worker] <=
                          Compose(gen'[q].last, gen'[q].worker,
                                  IF gen'[q].waiting THEN MaxSequence ELSE gen'[q].seq)
      BY DEF HighestIsBehind
    <3>1. CASE q = p
      <4>1. gen[p].worker \notin excused /\ gen[p].last # -1
        <5>1. gen'[p].worker = gen[p].worker /\ gen'[p].last = gen[p].last /\ excused' = excused
          BY <2>1, <2>4
        <5> QED
          BY <3>1, <5>1
      <4>2. highest[gen[p].worker] <=
              Compose(gen[p].last, gen[p].worker,
                      IF gen[p].waiting THEN MaxSequence ELSE gen[p].seq)
        BY <4>1, <1>1, Zenon DEF SnowflakeInv, HighestIsBehind
      <4> QED
        BY <3>1, <2>1, <2>2, <2>4, <4>2, <1>1
    <3>2. CASE q # p
      <4>1. gen'[q] = gen[q]
        BY <3>2, <2>3
      <4> QED
        BY <4>1, <2>1 DEF SnowflakeInv, HighestIsBehind
    <3> QED
      BY <3>1, <3>2
  <2> QED
    BY <2>1, <2>6, <2>7, <2>8 DEF SnowflakeInv, NoIdTwice
<1>3. CASE ~Exhausted(gen[p])
  <2> DEFINE now == Now(gen[p])
             seq == IF now = gen[p].last THEN (gen[p].seq + 1) % (MaxSequence + 1) ELSE 0
  <2>1. Issue(p, now, seq) /\ UNCHANGED <<clock, stepsBack, parent, live, deaths, uuid, uuids>>
    BY <1>3 DEF NextId
  <2>2. now \in 0 .. MaxTime /\ (now > gen[p].last \/ now = gen[p].last)
    BY <1>1, GeneratorTypes DEF Now, Larger
  <2>3. CASE now = gen[p].last
    <3>1. seq = gen[p].seq + 1 /\ gen[p].seq # MaxSequence
      BY <2>3, <1>1, <1>3, GeneratorTypes, NextSequence DEF Exhausted
    <3>2. seq \in 0 .. MaxSequence /\ seq > gen[p].seq
      BY <3>1, <1>1, GeneratorTypes
    <3> HIDE DEF now, seq
    <3> QED
      BY <2>1, <2>2, <2>3, <3>2, <1>1, IssueStep
  <2>4. CASE now # gen[p].last
    <3>1. seq \in 0 .. MaxSequence
      BY <2>4
    <3> HIDE DEF now, seq
    <3> QED
      BY <2>1, <2>2, <2>4, <3>1, <1>1, IssueStep
  <2> QED
    BY <2>3, <2>4
<1> QED
  BY <1>2, <1>3

\* An update of what new_uuid7 remembers.
LEMMA UuidUpdate ==
    ASSUME NEW u \in [last : -1 .. MaxTime, counter : 0 .. MaxCounter, waiting : BOOLEAN],
           NEW b \in BOOLEAN, NEW h, h = [u EXCEPT !.counter = 0, !.waiting = b]
    PROVE  h \in [last : -1 .. MaxTime, counter : 0 .. MaxCounter, waiting : BOOLEAN]
<1>1. h = [last |-> u.last, counter |-> 0, waiting |-> b]
  OBVIOUS
<1> QED
  BY <1>1, Parameters

\* Every step keeps the invariant.
LEMMA SnowflakeStep == SnowflakeInv /\ [Next]_vars => SnowflakeInv'
<1> SUFFICES ASSUME SnowflakeInv, [Next]_vars PROVE SnowflakeInv'
  OBVIOUS
<1> USE Parameters
<1>1. TypeOK /\ GeneratorsFit /\ HighestIsBehind /\ NoIdTwice
  BY DEF SnowflakeInv
<1>2. ASSUME TypeOK', UNCHANGED <<gen, highest, repeated, excused>>
      PROVE  SnowflakeInv'
  BY <1>1, <1>2 DEF SnowflakeInv, GeneratorsFit, HighestIsBehind, NoIdTwice
<1>3. CASE Tick \/ StepBack \/ ParentRuntime
  <2>1. clock' \in 0 .. MaxTime /\ stepsBack' \in 0 .. MaxStepsBack
    BY <1>1, <1>3 DEF Tick, StepBack, ParentRuntime, TypeOK
  <2>2. /\ parent' \in {"nothing", "ids", "runtime"}
        /\ UNCHANGED <<gen, live, deaths, highest, repeated, excused, uuid, uuids>>
    BY <1>1, <1>3 DEF Tick, StepBack, ParentRuntime, snowflakes, TypeOK
  <2>3. TypeOK'
    BY <1>1, <2>1, <2>2 DEF TypeOK
  <2> QED
    BY <1>2, <2>2, <2>3
<1>4. CASE NewUuid \/ UuidOtherMs
  <2>1. UNCHANGED <<clock, stepsBack, parent, gen, live, deaths, highest, repeated, excused>>
    BY <1>4 DEF NewUuid, UuidOtherMs, snowflakes
  <2>2. /\ clock \in 0 .. MaxTime
        /\ uuid \in [last : -1 .. MaxTime, counter : 0 .. MaxCounter, waiting : BOOLEAN]
        /\ uuids \in [time : -1 .. MaxTime, counter : 0 .. MaxCounter]
    BY <1>1 DEF TypeOK
  <2>3. ASSUME NEW counter \in 0 .. MaxCounter, IssueUuid(counter)
        PROVE  /\ uuid' \in [last : -1 .. MaxTime, counter : 0 .. MaxCounter,
                              waiting : BOOLEAN]
               /\ uuids' \in [time : -1 .. MaxTime, counter : 0 .. MaxCounter]
    <3>1. ASSUME NEW t \in -1 .. MaxTime, NEW b \in BOOLEAN
          PROVE  [last |-> t, counter |-> counter, waiting |-> b] \in
                   [last : -1 .. MaxTime, counter : 0 .. MaxCounter, waiting : BOOLEAN]
      OBVIOUS
    <3>2. clock \in -1 .. MaxTime
      BY <2>2
    <3>3. uuid' = [last |-> clock, counter |-> counter, waiting |-> FALSE]
      BY <2>3 DEF IssueUuid
    <3>4. uuid' \in [last : -1 .. MaxTime, counter : 0 .. MaxCounter, waiting : BOOLEAN]
      BY <3>1, <3>2, <3>3, FALSE \in BOOLEAN, Zenon
    <3>5. uuids' \in [time : -1 .. MaxTime, counter : 0 .. MaxCounter]
      BY <2>3, <3>2 DEF IssueUuid
    <3> QED
      BY <3>4, <3>5
  <2>4. /\ uuid' \in [last : -1 .. MaxTime, counter : 0 .. MaxCounter, waiting : BOOLEAN]
        /\ uuids' \in [time : -1 .. MaxTime, counter : 0 .. MaxCounter]
    <3>1. CASE \E counter \in 0 .. MaxCounter : IssueUuid(counter)
      BY <2>3, <3>1
    <3>2. CASE uuid' = [uuid EXCEPT !.counter = 0, !.waiting = TRUE] /\ UNCHANGED uuids
      <4>1. uuid' \in [last : -1 .. MaxTime, counter : 0 .. MaxCounter, waiting : BOOLEAN]
        BY <2>2, <3>2, UuidUpdate, TRUE \in BOOLEAN, Zenon
      <4> QED
        BY <2>2, <3>2, <4>1, Zenon
    <3>3. \/ \E counter \in 0 .. MaxCounter : IssueUuid(counter)
          \/ uuid' = [uuid EXCEPT !.counter = 0, !.waiting = TRUE] /\ UNCHANGED uuids
      BY <1>4, <2>2 DEF NewUuid, UuidOtherMs
    <3> QED
      BY <3>1, <3>2, <3>3
  <2>5. TypeOK'
    BY <1>1, <2>1, <2>4 DEF TypeOK
  <2> QED
    BY <1>2, <2>1, <2>5
<1>5. ASSUME NEW i \in Indexes, NEW g, g.last = -1, ~g.waiting,
             g \in Generators,
             g = None \/ g.worker = Base + i
               \/ (g.worker = Base /\ Base \in excused'),
             gen' = [gen EXCEPT ![i] = g], excused \subseteq excused',
             excused' \subseteq 0 .. MaxWorkerId, live' \subseteq Indexes,
             deaths' \in 0 .. MaxDeaths,
             UNCHANGED <<clock, stepsBack, parent, highest, repeated, uuid, uuids>>
      PROVE  SnowflakeInv'
  <2>1. i \in Processes /\ i # Api /\ Api \in Processes
    BY DEF Indexes, Processes, Api
  <2>2. gen'[i] = g /\ \A q \in Processes : q # i => gen'[q] = gen[q]
    BY <1>1, <1>5, <2>1, GeneratorTypes
  <2>3. TypeOK'
    BY <1>1, <1>5, <2>1 DEF TypeOK, Generators
  <2>4. GeneratorsFit'
    <3>1. g # None => g.worker >= 0
      BY <1>5 DEF Indexes
    <3>2. Indexes \subseteq Processes
      BY DEF Indexes, Processes
    <3> QED
      BY <1>1, <1>5, <2>1, <2>2, <3>1, <3>2 DEF GeneratorsFit
  <2>5. HighestIsBehind'
    BY <1>1, <1>5, <2>2 DEF HighestIsBehind
  <2> QED
    BY <1>1, <1>5, <2>3, <2>4, <2>5 DEF SnowflakeInv, NoIdTwice
<1>6. ASSUME NEW i \in Indexes, StartProcess(i) PROVE SnowflakeInv'
  <2> DEFINE g == EnsureSnowflake(i)
  <2>1. g.last = -1 /\ ~g.waiting
    BY DEF EnsureSnowflake, Inherited, Fresh, None
  <2>2. g \in Generators
    <3>1. i \in Nat
      BY DEF Indexes
    <3> QED
      BY <3>1, FreshGenerators DEF EnsureSnowflake, Inherited
  <2>3. g = None \/ g.worker = Base + i \/ (g.worker = Base /\ Base \in excused')
    BY <1>6 DEF StartProcess, EnsureSnowflake, Inherited, Fresh, None
  <2>4. excused' \subseteq 0 .. MaxWorkerId /\ excused \subseteq excused'
    BY <1>1, <1>6 DEF StartProcess, TypeOK
  <2>5. /\ gen' = [gen EXCEPT ![i] = g]
        /\ UNCHANGED <<clock, stepsBack, parent, deaths, highest, repeated, uuid, uuids>>
        /\ live' \subseteq Indexes /\ deaths' \in 0 .. MaxDeaths
    BY <1>1, <1>6 DEF StartProcess, TypeOK
  <2> HIDE DEF g
  <2> QED
    BY <1>5, <2>1, <2>2, <2>3, <2>4, <2>5
<1>7. ASSUME NEW i \in Indexes, Die(i) PROVE SnowflakeInv'
  <2>1. /\ gen' = [gen EXCEPT ![i] = None]
        /\ UNCHANGED <<clock, stepsBack, parent, highest, repeated, excused, uuid, uuids>>
        /\ live' \subseteq Indexes /\ deaths' \in 0 .. MaxDeaths
    BY <1>1, <1>7 DEF Die, TypeOK
  <2>2. /\ None.last = -1 /\ ~None.waiting
        /\ None \in Generators
    BY FreshGenerators DEF None
  <2> QED
    BY <1>1, <1>5, <2>1, <2>2 DEF TypeOK
<1>8. ASSUME NEW p \in Processes, NextId(p) PROVE SnowflakeInv'
  BY <1>8, NextIdStep
<1>9. ASSUME NEW p \in Processes, WaitNextMs(p) PROVE SnowflakeInv'
  <2>1. /\ gen[p] # None /\ clock > gen[p].last /\ Issue(p, clock, 0)
        /\ UNCHANGED <<clock, stepsBack, parent, live, deaths, uuid, uuids>>
    BY <1>1, <1>9 DEF WaitNextMs, GeneratorsFit
  <2>2. clock \in 0 .. MaxTime /\ 0 \in 0 .. MaxSequence
    BY <1>1 DEF TypeOK
  <2> QED
    BY <2>1, <2>2, IssueStep
<1>10. CASE UNCHANGED vars
  BY <1>1, <1>2, <1>10 DEF vars, TypeOK
<1> QED
  BY <1>3, <1>4, <1>6, <1>7, <1>8, <1>9, <1>10 DEF Next

\* The invariant holds in every reachable state.
LEMMA SnowflakeInvariance == Spec => []SnowflakeInv
<1>1. Init => SnowflakeInv
  <2> SUFFICES ASSUME Init PROVE SnowflakeInv
    OBVIOUS
  <2> USE Parameters DEF Init
  <2>1. -1 \in Ids
    <3>1. /\ MaxTime \in 0 .. MaxTime /\ MaxWorkerId \in 0 .. MaxWorkerId
          /\ MaxSequence \in 0 .. MaxSequence
      OBVIOUS
    <3>2. Compose(MaxTime, MaxWorkerId, MaxSequence) \in Nat
      BY <3>1, ComposeInIds
    <3> QED
      BY <3>2 DEF Ids
  <2>2. TypeOK
    <3>1. gen \in [Processes -> Generators]
      BY FreshGenerators DEF Init
    <3>2. highest \in [0 .. MaxWorkerId -> Ids]
      BY <2>1
    <3> QED
      BY <3>1, <3>2 DEF TypeOK, Generators
  <2>3. Api \in Processes /\ Indexes \subseteq Processes /\ Api \notin Indexes
    BY DEF Api, Indexes, Processes
  <2>4. GeneratorsFit
    BY <2>3 DEF GeneratorsFit, None, Fresh
  <2> QED
    BY <2>2, <2>4 DEF None, Fresh, SnowflakeInv, HighestIsBehind, NoIdTwice
<1> QED
  BY <1>1, SnowflakeStep, PTL DEF Spec

\* Generators, ids and the clock keep their types: no sequence outgrows its bits
\* and no id its range.
THEOREM TypeCorrectness == Spec => []TypeOK
<1>1. SnowflakeInv => TypeOK
  BY DEF SnowflakeInv
<1> QED
  BY <1>1, SnowflakeInvariance, PTL

\* Two processes that run share a worker id only if one has a copy of the main
\* process's generator, whatever dies and is replaced.
THEOREM ProcessesDiffer == Spec => []LiveProcessesDiffer
<1>1. SnowflakeInv => LiveProcessesDiffer
  BY GeneratorsDiffer DEF SnowflakeInv
<1> QED
  BY <1>1, SnowflakeInvariance, PTL

\* No worker id makes an id twice, however the clock is stepped back and however
\* many ids one millisecond is asked for.
THEOREM IdsAreUnique == Spec => []NoIdTwice
<1>1. SnowflakeInv => NoIdTwice
  BY DEF SnowflakeInv
<1> QED
  BY <1>1, SnowflakeInvariance, PTL

-----------------------------------------------------------------------------
(* new_uuid7                                                               *)

\* The generator remembers its last uuid, but for the counter it left at zero
\* to wait.
UuidsFit ==
    /\ uuid.last = uuids.time
    /\ IF uuid.waiting THEN uuids.counter = MaxCounter ELSE uuids.counter = uuid.counter

\* Every step keeps the last uuid remembered, and makes only larger ones.
LEMMA UuidStep ==
    ASSUME TypeOK, UuidsFit, [Next]_vars
    PROVE  /\ UuidsFit'
           /\ uuids' # uuids => \/ uuids'.time > uuids.time
                                \/ uuids'.time = uuids.time /\ uuids'.counter > uuids.counter
                                \/ clock < uuids.time
<1>1. CASE UNCHANGED <<uuid, uuids>>
  BY <1>1 DEF UuidsFit
<1>2. /\ clock \in Int
      /\ uuid \in [last : -1 .. MaxTime, counter : 0 .. MaxCounter, waiting : BOOLEAN]
      /\ uuids \in [time : -1 .. MaxTime, counter : 0 .. MaxCounter]
  BY Parameters DEF TypeOK
<1>3. CASE NewUuid
  <2>1. CASE clock = uuid.last /\ uuid.counter = MaxCounter /\ UNCHANGED uuids
             /\ uuid' = [uuid EXCEPT !.counter = 0, !.waiting = TRUE]
    BY <1>2, <1>3, <2>1 DEF NewUuid, UuidsFit
  <2>2. CASE clock = uuid.last /\ IssueUuid(uuid.counter + 1)
    BY <1>2, <1>3, <2>2, Parameters DEF NewUuid, IssueUuid, UuidsFit
  <2>3. CASE clock # uuid.last /\ \E random \in 0 .. MaxCounter : IssueUuid(random)
    BY <1>2, <2>3, Parameters DEF IssueUuid, UuidsFit
  <2> QED
    BY <1>3, <2>1, <2>2, <2>3 DEF NewUuid
<1>4. CASE UuidOtherMs
  BY <1>2, <1>4, Parameters DEF UuidOtherMs, IssueUuid, UuidsFit
<1> QED
  BY <1>1, <1>3, <1>4
  DEF Next, vars, Tick, StepBack, ParentRuntime, StartProcess, Die, NextId, WaitNextMs

\* In every process uuid7s increase until the clock shows a time before the last.
THEOREM UuidsOnlyIncrease == Spec => UuidsIncrease
<1>1. Init => UuidsFit
  BY DEF Init, UuidsFit
<1>2. TypeOK /\ UuidsFit /\ [Next]_vars => UuidsFit'
  BY UuidStep
<1>3. TypeOK /\ UuidsFit /\ [Next]_vars =>
        [uuids' # uuids => \/ uuids'.time > uuids.time
                           \/ uuids'.time = uuids.time /\ uuids'.counter > uuids.counter
                           \/ clock < uuids.time]_vars
  BY UuidStep
<1> QED
  BY <1>1, <1>2, <1>3, TypeCorrectness, PTL DEF Spec, UuidsIncrease

-----------------------------------------------------------------------------
(* Rows in order                                                           *)

\* A set of the family has no other set of the family in it.
HasSmallest(F) == \E T \in F : \A U \in F : U \subseteq T => U = T

\* Of the subsets of a finite set that a family holds, one has no smaller in it.
LEMMA SmallestOfFamily ==
    ASSUME NEW S, IsFiniteSet(S), NEW F \in SUBSET (SUBSET S), F # {}
    PROVE  HasSmallest(F)
<1>1. IsWellFoundedOn(StrictSubsetOrdering(S), SUBSET S)
  BY FS_StrictSubsetOrderingWellFounded, FS_FiniteSubsetsOfFinite
<1>2. \E T \in F : \A U \in F : ~ (<<U, T>> \in StrictSubsetOrdering(S))
  BY <1>1, WFMin
<1>3. PICK T \in F : \A U \in F : ~ (<<U, T>> \in StrictSubsetOrdering(S))
  BY <1>2
<1>4. ASSUME NEW U \in F, U \subseteq T PROVE U = T
  <2>1. <<U, T>> \notin StrictSubsetOrdering(S)
    BY <1>3
  <2>2. U \in SUBSET S /\ T \in SUBSET S
    OBVIOUS
  <2> QED
    BY <2>1, <2>2, <1>4 DEF StrictSubsetOrdering
<1> QED
  BY <1>4 DEF HasSmallest

\* A finite set of keys has a greatest one.
LEMMA GreatestKey ==
    ASSUME NEW S, IsFiniteSet(S), S \subseteq Int, S # {}
    PROVE  \E k \in S : \A j \in S : j <= k
<1> DEFINE From(k) == {j \in S : k <= j}
<1> DEFINE F == {From(k) : k \in S}
<1>1. F \in SUBSET (SUBSET S) /\ F # {}
  OBVIOUS
<1> HIDE DEF F
<1>2. HasSmallest(F)
  BY <1>1, SmallestOfFamily
<1>2a. PICK T \in F : \A U \in F : U \subseteq T => U = T
  BY <1>2 DEF HasSmallest
<1>3. PICK k \in S : T = From(k)
  BY <1>2a DEF F
<1>4. ASSUME NEW j \in S PROVE j <= k
  <2>1. CASE ~ j <= k
    <3>1. From(j) \subseteq T
      <4>1. ASSUME NEW i \in From(j) PROVE i \in From(k)
        <5>1. i \in S /\ j <= i /\ i \in Int /\ j \in Int /\ k \in Int
          OBVIOUS
        <5>2. k <= i
          BY <5>1, <2>1
        <5> QED
          BY <5>1, <5>2
      <4> QED
        BY <4>1, <1>3
    <3>2. From(j) \in F
      BY DEF F
    <3>3. From(j) = T
      BY <3>1, <3>2, <1>2a
    <3>4. k \in From(k)
      OBVIOUS
    <3> QED
      BY <3>3, <3>4, <1>3, <2>1
  <2> QED
    BY <2>1
<1> QED
  BY <1>4

\* A function on 1 .. n is a sequence of length n.
LEMMA RowsAreSeq ==
    ASSUME NEW S, NEW n \in Nat, NEW rows \in [1 .. n -> S]
    PROVE  /\ rows \in Seq(S) /\ Len(rows) = n
           /\ \A i \in 1 .. n : rows[i] \in S
<1>1. rows \in Seq(S)
  OBVIOUS
<1> QED
  BY <1>1, LenProperties

\* The rows of a finite set of keys can be put in order.
LEMMA AscendingExists ==
    ASSUME NEW S, IsFiniteSet(S), S \subseteq Int
    PROVE  \E rows \in [1 .. Cardinality(S) -> S] : InOrder(rows, FALSE)
<1> DEFINE HasRows(U) == \E rows \in [1 .. Cardinality(U) -> U] : InOrder(rows, FALSE)
<1> DEFINE F == {U \in SUBSET S : ~ HasRows(U)}
<1>1. SUFFICES ASSUME ~ HasRows(S) PROVE FALSE
  OBVIOUS
<1>2. F \in SUBSET (SUBSET S) /\ F # {}
  BY <1>1
<1> HIDE DEF F
<1>2a. HasSmallest(F)
  BY <1>2, SmallestOfFamily
<1>3. PICK U \in F : \A V \in F : V \subseteq U => V = U
  BY <1>2a DEF HasSmallest
<1>4. U \subseteq S /\ IsFiniteSet(U) /\ U \subseteq Int /\ ~ HasRows(U)
  BY <1>3, FS_Subset DEF F
<1>5. U # {}
  <2>1. SUFFICES ASSUME U = {} PROVE HasRows(U)
    BY <1>4
  <2>2. Cardinality(U) = 0
    BY <2>1, FS_EmptySet
  <2>3. [i \in 1 .. 0 |-> i] \in [1 .. 0 -> U]
    OBVIOUS
  <2>4. Len([i \in 1 .. 0 |-> i]) = 0
    BY <2>3, RowsAreSeq
  <2> QED
    BY <2>2, <2>3, <2>4 DEF InOrder
<1>6. PICK m \in U : \A j \in U : j <= m
  BY <1>4, <1>5, GreatestKey
<1> DEFINE V == U \ {m}
<1>7. /\ IsFiniteSet(V) /\ Cardinality(V) = Cardinality(U) - 1
      /\ Cardinality(V) \in Nat /\ Cardinality(U) \in Nat
  BY <1>4, <1>6, FS_RemoveElement, FS_CardinalityType
<1>8. HasRows(V)
  <2>1. V \in SUBSET S /\ V # U /\ V \subseteq U
    BY <1>4, <1>6
  <2>2. V \notin F
    BY <2>1, <1>3
  <2> QED
    BY <2>1, <2>2 DEF F
<1>9. PICK rows \in [1 .. Cardinality(V) -> V] : InOrder(rows, FALSE)
  BY <1>8
<1> DEFINE n == Cardinality(U)
           more == [i \in 1 .. n |-> IF i = n THEN m ELSE rows[i]]
<1> HIDE DEF V
<1>10. \A i \in 1 .. n - 1 : rows[i] \in V /\ more[i] = rows[i]
  BY <1>7, <1>9
<1>11. more[n] = m
  BY <1>7
<1>12. more \in [1 .. n -> U]
  <2> SUFFICES ASSUME NEW i \in 1 .. n PROVE more[i] \in U
    OBVIOUS
  <2>1. i \in 1 .. n - 1 \/ i = n
    BY <1>7
  <2> QED
    BY <2>1, <1>10, <1>11, <1>6 DEF V
<1>13. InOrder(more, FALSE)
  <2>1. Len(more) = n /\ Len(rows) = n - 1
    BY <1>7, <1>9, <1>12, RowsAreSeq
  <2> SUFFICES ASSUME NEW i \in 1 .. n, NEW j \in 1 .. n, i < j
               PROVE  more[i] < more[j]
    BY <2>1 DEF InOrder
  <2>2. i \in 1 .. n - 1 /\ rows[i] \in V
    BY <1>7, <1>10
  <2>3. CASE j = n
    <3>1. rows[i] < m
      <4>1. rows[i] <= m /\ rows[i] # m /\ rows[i] \in Int /\ m \in Int
        BY <2>2, <1>6, <1>4 DEF V
      <4> QED
        BY <4>1
    <3> QED
      BY <3>1, <2>3, <2>2, <1>10, <1>11
  <2>4. CASE j # n
    <3>1. j \in 1 .. n - 1
      BY <2>4, <1>7
    <3>2. rows[i] < rows[j]
      BY <2>1, <2>2, <3>1, <1>9 DEF InOrder
    <3> QED
      BY <3>1, <3>2, <2>2, <1>10
  <2> QED
    BY <2>3, <2>4
<1> QED
  BY <1>12, <1>13, <1>4

\* In either direction.
LEMMA OrderExists ==
    ASSUME NEW S, IsFiniteSet(S), S \subseteq Int, NEW d \in BOOLEAN
    PROVE  \E rows \in [1 .. Cardinality(S) -> S] : InOrder(rows, d)
<1> DEFINE n == Cardinality(S)
<1>1. n \in Nat
  BY FS_CardinalityType
<1>2. PICK rows \in [1 .. n -> S] : InOrder(rows, FALSE)
  BY AscendingExists
<1> HIDE DEF n
<1> DEFINE back == [i \in 1 .. n |-> rows[n + 1 - i]]
<1>3. \A i \in 1 .. n : n + 1 - i \in 1 .. n
  BY <1>1
<1>4. back \in [1 .. n -> S]
  BY <1>3
<1>5. Len(back) = n /\ Len(rows) = n
  BY <1>1, <1>2, <1>4, RowsAreSeq
<1>6. InOrder(back, TRUE)
  <2> SUFFICES ASSUME NEW i \in 1 .. n, NEW j \in 1 .. n, i < j
               PROVE  back[i] > back[j]
    BY <1>5 DEF InOrder
  <2>1. n + 1 - j < n + 1 - i
    BY <1>1
  <2>2. rows[n + 1 - j] < rows[n + 1 - i]
    BY <2>1, <1>2, <1>3, <1>5 DEF InOrder
  <2>3. rows[n + 1 - j] \in Int /\ rows[n + 1 - i] \in Int
    BY <1>3
  <2> QED
    BY <2>2, <2>3
<1>7. CASE d = TRUE
  BY <1>4, <1>6, <1>7 DEF n
<1>8. CASE d = FALSE
  BY <1>2, <1>8 DEF n
<1> QED
  BY <1>7, <1>8

\* Ordered lists each of its keys once, in order.
LEMMA OrderedProperties ==
    ASSUME NEW S, IsFiniteSet(S), S \subseteq Int, NEW d \in BOOLEAN
    PROVE  /\ Ordered(S, d) \in Seq(S)
           /\ Len(Ordered(S, d)) = Cardinality(S)
           /\ InOrder(Ordered(S, d), d)
           /\ \A k \in S : \E i \in 1 .. Len(Ordered(S, d)) : Ordered(S, d)[i] = k
<1> DEFINE n == Cardinality(S)
           rows == Ordered(S, d)
<1>1. n \in Nat
  BY FS_CardinalityType
<1>2. rows \in [1 .. n -> S] /\ InOrder(rows, d)
  BY OrderExists DEF Ordered
<1> HIDE DEF rows
<1>3. rows \in Seq(S) /\ Len(rows) = n /\ \A i \in 1 .. n : rows[i] \in Int
  BY <1>1, <1>2, RowsAreSeq
<1>4. \A i, j \in 1 .. n : rows[i] = rows[j] => i = j
  <2> SUFFICES ASSUME NEW i \in 1 .. n, NEW j \in 1 .. n, i < j
               PROVE  rows[i] # rows[j]
    BY <1>1
  <2>1. CASE d = TRUE
    BY <2>1, <1>2, <1>3 DEF InOrder
  <2>2. CASE d = FALSE
    BY <2>2, <1>2, <1>3 DEF InOrder
  <2> QED
    BY <2>1, <2>2
<1>5. rows \in Injection(1 .. n, S)
  BY <1>2, <1>4 DEF Injection, IsInjective
<1>6. IsFiniteSet(1 .. n) /\ Cardinality(1 .. n) = n
  BY <1>1, FS_Interval
<1>7. rows \in Surjection(1 .. n, S)
  BY <1>5, <1>6, FS_Injection
<1>8. \A k \in S : \E i \in 1 .. n : rows[i] = k
  BY <1>7 DEF Surjection
<1> QED
  BY <1>2, <1>3, <1>8 DEF rows

-----------------------------------------------------------------------------
(* Pages                                                                   *)

\* How many of n rows there are after the first offset, if limit are asked for.
Shown(n, offset0, limit) ==
    IF n <= offset0 THEN 0 ELSE Least(limit, n - offset0)

\* What the rows beyond an offset are.
WindowFits(w, S, rows, o, limit) ==
    /\ w \in Seq(S)
    /\ Len(w) = Shown(Len(rows), o, limit)
    /\ \A i \in 1 .. Len(w) : o + i \in 1 .. Len(rows) /\ w[i] = rows[o + i]

\* LIMIT and OFFSET give the rows after the first offset, limit at most.
LEMMA WindowProperties ==
    ASSUME NEW S, NEW rows \in Seq(S), NEW o \in Nat, NEW limit \in Nat
    PROVE  WindowFits(Window(rows, o, limit), S, rows, o, limit)
<1> DEFINE n == Len(rows)
           last == Least(o + limit, n)
<1>1. n \in Nat /\ \A i \in 1 .. n : rows[i] \in S
  BY LenProperties
<1>2. last \in Nat /\ last <= n /\ last - o = (IF n <= o + limit THEN n - o ELSE limit)
  BY <1>1 DEF Least
<1>3. \A i \in o + 1 .. last : rows[i] \in S
  BY <1>1, <1>2
<1> DEFINE w == Window(rows, o, limit)
<1>4. w = SubSeq(rows, o + 1, last)
  BY DEF Window
<1> HIDE DEF w, last
<1>5. /\ w \in Seq(S)
      /\ Len(w) = IF o + 1 <= last THEN last - o ELSE 0
      /\ \A i \in 1 .. last - o : w[i] = rows[o + 1 + i - 1]
  <2>1. o + 1 \in Int /\ last \in Int
    BY <1>2
  <2>2. /\ SubSeq(rows, o + 1, last) \in Seq(S)
        /\ Len(SubSeq(rows, o + 1, last))
              = IF o + 1 <= last THEN last - (o + 1) + 1 ELSE 0
        /\ \A i \in 1 .. last - (o + 1) + 1 :
              SubSeq(rows, o + 1, last)[i] = rows[o + 1 + i - 1]
    BY <1>3, <2>1, SubSeqProperties
  <2>3. last - (o + 1) + 1 = last - o
    BY <1>2
  <2> QED
    BY <1>4, <2>2, <2>3
<1>6. Len(w) = Shown(n, o, limit)
  BY <1>1, <1>2, <1>5 DEF Shown, Least
<1>7. ASSUME NEW i \in 1 .. Len(w) PROVE o + i \in 1 .. n /\ w[i] = rows[o + i]
  <2>1. i \in 1 .. last - o /\ o + i \in 1 .. n /\ o + 1 + i - 1 = o + i
    BY <1>1, <1>2, <1>5
  <2> QED
    BY <2>1, <1>5
<1>8. WindowFits(w, S, rows, o, limit)
  BY <1>5, <1>6, <1>7 DEF WindowFits
<1> QED
  BY <1>8 DEF w

\* What a page of rows beyond an offset is.
PageFits(page, S, rows, o, limit) ==
    /\ page.items \in Seq(S)
    /\ Len(page.items) = Shown(Len(rows), o, limit)
    /\ \A i \in 1 .. Len(page.items) :
          o + i \in 1 .. Len(rows) /\ page.items[i] = rows[o + i]
    /\ page.more <=> o + limit < Len(rows)

\* A page of a window one row longer: its rows, and whether there are more.
LEMMA PageProperties ==
    ASSUME NEW S, NEW rows \in Seq(S), NEW o \in Nat, NEW limit \in Nat \ {0}
    PROVE  PageFits(PageOf(Window(rows, o, limit + 1), limit), S, rows, o, limit)
<1> DEFINE page == PageOf(Window(rows, o, limit + 1), limit)
<1> SUFFICES PageFits(page, S, rows, o, limit)
  OBVIOUS
<1> DEFINE w == Window(rows, o, limit + 1)
<1>0. page = PageOf(w, limit)
  OBVIOUS
<1> HIDE DEF page
<1>1. limit + 1 \in Nat /\ limit \in Nat /\ limit > 0 /\ Len(rows) \in Nat
  BY LenProperties
<1>2. /\ w \in Seq(S)
      /\ Len(w) = Shown(Len(rows), o, limit + 1)
      /\ \A i \in 1 .. Len(w) : o + i \in 1 .. Len(rows) /\ w[i] = rows[o + i]
  <2>1. WindowFits(w, S, rows, o, limit + 1)
    BY <1>1, WindowProperties
  <2> HIDE DEF w
  <2> QED
    BY <2>1 DEF WindowFits
<1>3. page.items = Window(w, 0, limit) /\ (page.more <=> Len(w) > limit)
  BY <1>0 DEF PageOf
<1> HIDE DEF w
<1>4. /\ Window(w, 0, limit) \in Seq(S)
      /\ Len(Window(w, 0, limit)) = Shown(Len(w), 0, limit)
      /\ \A i \in 1 .. Len(Window(w, 0, limit)) :
            0 + i \in 1 .. Len(w) /\ Window(w, 0, limit)[i] = w[0 + i]
  <2>1. WindowFits(Window(w, 0, limit), S, w, 0, limit)
    BY <1>1, <1>2, WindowProperties
  <2> QED
    BY <2>1 DEF WindowFits
<1>5. Shown(Len(w), 0, limit) = Shown(Len(rows), o, limit)
  BY <1>1, <1>2 DEF Shown, Least
<1>6. page.more <=> o + limit < Len(rows)
  BY <1>1, <1>2, <1>3 DEF Shown, Least
<1>7. ASSUME NEW i \in 1 .. Len(page.items)
      PROVE  o + i \in 1 .. Len(rows) /\ page.items[i] = rows[o + i]
  <2>1. 0 + i \in 1 .. Len(w) /\ page.items[i] = w[0 + i] /\ 0 + i = i
    BY <1>3, <1>4
  <2> QED
    BY <2>1, <1>2
<1> QED
  BY <1>3, <1>4, <1>5, <1>6, <1>7 DEF PageFits

-----------------------------------------------------------------------------
(* A walk by cursor                                                        *)

\* The cursor that goes on after these rows, and the keys it lets through.
CursorAfter(rows) == IF rows = <<>> THEN NoCursor ELSE EncodeCursor(Last(rows))
Ahead(k, rows, d) == rows # <<>> => Beyond(k, Last(rows), d)

\* A sequence of rows has a last one unless it is empty.
LEMMA LastRow ==
    ASSUME NEW S, NEW rows \in Seq(S), rows # <<>>
    PROVE  Len(rows) \in Nat \ {0} /\ Last(rows) = rows[Len(rows)] /\ Last(rows) \in S
<1>1. Len(rows) \in Nat \ {0}
  BY EmptySeq, LenProperties
<1>2. rows[Len(rows)] \in S
  BY <1>1, LenProperties
<1> QED
  BY <1>1, <1>2 DEF Last

\* The rows of two sequences are those of the first and those of the second.
LEMMA RowsOfBoth ==
    ASSUME NEW S, NEW s \in Seq(S), NEW t \in Seq(S)
    PROVE  /\ s \o t \in Seq(S)
           /\ ToSet(s \o t) = ToSet(s) \cup ToSet(t)
           /\ t # <<>> => s \o t # <<>> /\ Last(s \o t) = Last(t)
           /\ t = <<>> => s \o t = s
<1> DEFINE m == Len(s)
           n == Len(t)
           u == s \o t
<1>1. m \in Nat /\ n \in Nat /\ DOMAIN s = 1 .. m /\ DOMAIN t = 1 .. n
  BY LenProperties
<1>2. /\ u \in Seq(S) /\ Len(u) = m + n
      /\ \A i \in 1 .. m + n : u[i] = IF i <= m THEN s[i] ELSE t[i - m]
  BY ConcatProperties
<1>3. DOMAIN u = 1 .. m + n
  BY <1>2, LenProperties
<1> HIDE DEF m, n, u
<1>4. \A i \in 1 .. m : i \in 1 .. m + n /\ u[i] = s[i]
  BY <1>1, <1>2
<1>5. \A i \in 1 .. n : m + i \in 1 .. m + n /\ u[m + i] = t[i]
  BY <1>1, <1>2
<1>6. \A i \in 1 .. m + n : i \in 1 .. m \/ (i - m \in 1 .. n /\ u[i] = t[i - m])
  BY <1>1, <1>2
<1>7. ToSet(u) = ToSet(s) \cup ToSet(t)
  <2>1. ASSUME NEW x \in ToSet(u) PROVE x \in ToSet(s) \cup ToSet(t)
    <3>1. PICK i \in 1 .. m + n : u[i] = x
      BY <1>3 DEF ToSet
    <3>2. CASE i \in 1 .. m
      BY <3>1, <3>2, <1>1, <1>4 DEF ToSet
    <3>3. CASE i - m \in 1 .. n /\ u[i] = t[i - m]
      BY <3>1, <3>3, <1>1 DEF ToSet
    <3> QED
      BY <3>2, <3>3, <1>6
  <2>2. ASSUME NEW x \in ToSet(s) PROVE x \in ToSet(u)
    BY <1>1, <1>3, <1>4 DEF ToSet
  <2>3. ASSUME NEW x \in ToSet(t) PROVE x \in ToSet(u)
    BY <1>1, <1>3, <1>5 DEF ToSet
  <2> QED
    BY <2>1, <2>2, <2>3
<1>8. ASSUME t # <<>> PROVE u # <<>> /\ Last(u) = Last(t)
  <2>1. n \in Nat \ {0} /\ Last(t) = t[n]
    BY <1>8, LastRow DEF n
  <2>2. Len(u) \in Nat \ {0}
    BY <1>1, <1>2, <2>1
  <2>3. u # <<>>
    BY <1>2, <2>2, EmptySeq
  <2>4. Last(u) = u[m + n]
    BY <1>2 DEF Last
  <2>5. u[m + n] = t[n]
    BY <1>1, <1>5, <2>1
  <2> QED
    BY <2>1, <2>3, <2>4, <2>5
<1>9. t = <<>> => u = s
  BY ConcatEmptySeq DEF u
<1> QED
  BY <1>2, <1>7, <1>8, <1>9 DEF u

\* A cursor is read back as the key it was made of.
LEMMA TextIsReadBack ==
    ASSUME NEW k \in Keys
    PROVE  Coerced(Text(k), Keys) = {k}
BY ListingAssumption DEF Coerced

\* A query by cursor seeks the keys beyond the last row before.
LEMMA SeekPredicate ==
    ASSUME NEW stored, stored \subseteq Keys, NEW before \in Seq(Keys), NEW d \in BOOLEAN,
           NEW limit
    PROVE  LET cursor0 == CursorAfter(before)
               sought == {k \in stored : Ahead(k, before, d)}
               page == PageOf(Window(Ordered(sought, d), 0, limit + 1), limit)
           IN PaginateCursor(stored, Keys, cursor0, limit, d) =
                [items |-> page.items,
                 more |-> page.more,
                 next |-> IF page.more /\ page.items # <<>>
                          THEN EncodeCursor(Last(page.items))
                          ELSE NoCursor]
<1>1. CASE before = <<>>
  <2>1. {k \in stored : Ahead(k, before, d)} = stored
    BY <1>1 DEF Ahead
  <2>2. CursorAfter(before) = NoCursor /\ NoCursor.sent = FALSE
    BY <1>1 DEF CursorAfter, NoCursor
  <2> QED
    BY <2>1, <2>2 DEF PaginateCursor
<1>2. CASE before # <<>>
  <2>1. Last(before) \in Keys
    BY <1>2, LastRow
  <2>2. /\ CursorAfter(before).sent = TRUE
        /\ CursorAfter(before).k = Text(Last(before))
    BY <1>2 DEF CursorAfter, EncodeCursor
  <2>3. {k \in stored : Ahead(k, before, d)}
          = {k \in stored : \A last \in Coerced(CursorAfter(before).k, Keys) : Beyond(k, last, d)}
    BY <1>2, <2>1, <2>2, TextIsReadBack DEF Ahead
  <2> QED
    BY <2>2, <2>3 DEF PaginateCursor
<1> QED
  BY <1>1, <1>2
\* A sequence of members of a set is one of members of any larger set.
LEMMA SeqGrows ==
    ASSUME NEW S, NEW T, S \subseteq T, NEW s \in Seq(S)
    PROVE  s \in Seq(T)
<1>1. Len(s) \in Nat /\ s \in [1 .. Len(s) -> S]
  BY LenProperties
<1>2. s \in [1 .. Len(s) -> T]
  BY <1>1
<1> QED
  BY <1>1, <1>2, RowsAreSeq

\* What is beyond a row is beyond what comes before that row.
LEMMA BeyondIsTransitive ==
    ASSUME NEW i \in Int, NEW j \in Int, NEW k \in Int, NEW d \in BOOLEAN,
           i = j \/ Beyond(j, i, d), Beyond(k, j, d)
    PROVE  Beyond(k, i, d)
<1>1. CASE d = TRUE
  BY <1>1 DEF Beyond
<1>2. CASE d = FALSE
  BY <1>2 DEF Beyond
<1> QED
  BY <1>1, <1>2

\* In order means that every row is beyond those before it.
LEMMA InOrderBeyond ==
    ASSUME NEW rows \in Seq(Int), NEW d \in BOOLEAN
    PROVE  InOrder(rows, d)
             <=> \A i, j \in 1 .. Len(rows) : i < j => Beyond(rows[j], rows[i], d)
<1>1. \A i \in 1 .. Len(rows) : rows[i] \in Int
  BY LenProperties
<1>2. CASE d = TRUE
  BY <1>1, <1>2 DEF InOrder, Beyond
<1>3. CASE d = FALSE
  BY <1>1, <1>3 DEF InOrder, Beyond
<1> QED
  BY <1>2, <1>3

\* Rows in order stay so when rows in order follow that are beyond the last of them.
LEMMA OrderGoesOn ==
    ASSUME NEW s \in Seq(Int), NEW t \in Seq(Int), NEW d \in BOOLEAN,
           InOrder(s, d), InOrder(t, d),
           \A i \in 1 .. Len(t) : Ahead(t[i], s, d)
    PROVE  InOrder(s \o t, d)
<1> DEFINE m == Len(s)
           n == Len(t)
           u == s \o t
<1>1. /\ m \in Nat /\ n \in Nat
      /\ \A i \in 1 .. m : s[i] \in Int
      /\ \A i \in 1 .. n : t[i] \in Int
  BY LenProperties
<1>2. /\ u \in Seq(Int) /\ Len(u) = m + n
      /\ \A i \in 1 .. m + n : u[i] = IF i <= m THEN s[i] ELSE t[i - m]
  BY ConcatProperties
<1>3. \A i, j \in 1 .. m : i < j => Beyond(s[j], s[i], d)
  BY InOrderBeyond
<1>4. \A i, j \in 1 .. n : i < j => Beyond(t[j], t[i], d)
  BY InOrderBeyond
<1>5. \A i \in 1 .. m, j \in 1 .. n : Beyond(t[j], s[i], d)
  <2> SUFFICES ASSUME NEW i \in 1 .. m, NEW j \in 1 .. n PROVE Beyond(t[j], s[i], d)
    OBVIOUS
  <2>1. s # <<>>
    BY <1>1, EmptySeq
  <2>2. Last(s) = s[m] /\ m \in 1 .. m
    BY <1>1, <2>1, LastRow
  <2>3. Beyond(t[j], s[m], d)
    BY <2>1, <2>2 DEF Ahead
  <2>4. i = m \/ i < m
    BY <1>1
  <2>5. s[i] = s[m] \/ Beyond(s[m], s[i], d)
    BY <2>2, <2>4, <1>3
  <2>6. s[i] \in Int /\ s[m] \in Int /\ t[j] \in Int
    BY <1>1, <2>2
  <2> QED
    BY <2>3, <2>5, <2>6, BeyondIsTransitive
<1> HIDE DEF m, n, u
<1>6. ASSUME NEW i \in 1 .. m + n, NEW j \in 1 .. m + n, i < j
      PROVE  Beyond(u[j], u[i], d)
  <2>1. CASE j <= m
    <3>1. i \in 1 .. m /\ j \in 1 .. m /\ u[i] = s[i] /\ u[j] = s[j]
      BY <1>1, <1>2, <1>6, <2>1
    <3> QED
      BY <3>1, <1>3, <1>6
  <2>2. CASE i <= m /\ ~ j <= m
    <3>1. i \in 1 .. m /\ j - m \in 1 .. n /\ u[i] = s[i] /\ u[j] = t[j - m]
      BY <1>1, <1>2, <2>2
    <3> QED
      BY <3>1, <1>5
  <2>3. CASE ~ i <= m /\ ~ j <= m
    <3>1. /\ i - m \in 1 .. n /\ j - m \in 1 .. n /\ i - m < j - m
          /\ u[i] = t[i - m] /\ u[j] = t[j - m]
      BY <1>1, <1>2, <1>6, <2>3
    <3> QED
      BY <3>1, <1>4
  <2> QED
    BY <2>1, <2>2, <2>3, <1>1, <1>6
<1>7. \A i, j \in 1 .. Len(u) : i < j => Beyond(u[j], u[i], d)
  BY <1>2, <1>6
<1> QED
  BY <1>2, <1>7, InOrderBeyond DEF u

\* What a page by cursor, after the rows before, shows of the stored rows.
NextPage(page, before, stored, d) ==
    /\ page.items \in Seq(stored)
    /\ InOrder(before \o page.items, d)
    /\ page.more => page.next = CursorAfter(before \o page.items)
    /\ \A k \in stored :
          Ahead(k, before, d) =>
             \/ k \in ToSet(page.items)
             \/ page.more /\ Ahead(k, before \o page.items, d)

\* A page by cursor is the next of the rows, and no row between is left out.
LEMMA CursorPage ==
    ASSUME NEW stored, stored \subseteq Keys, NEW before \in Seq(Keys), NEW d \in BOOLEAN,
           NEW limit \in Nat \ {0}, InOrder(before, d)
    PROVE  NextPage(PaginateCursor(stored, Keys, CursorAfter(before), limit, d),
                    before, stored, d)
<1> DEFINE sought == {k \in stored : Ahead(k, before, d)}
           rows == Ordered(sought, d)
           page == PageOf(Window(rows, 0, limit + 1), limit)
           result == PaginateCursor(stored, Keys, CursorAfter(before), limit, d)
           items == page.items
<1>1. /\ result.items = items /\ result.more = page.more
      /\ result.next = IF page.more /\ items # <<>>
                       THEN EncodeCursor(Last(items)) ELSE NoCursor
  BY SeekPredicate
<1>2. Keys \subseteq Int /\ IsFiniteSet(Keys)
  BY ListingAssumption
<1>3. sought \subseteq stored /\ sought \subseteq Int /\ IsFiniteSet(sought)
  <2>1. sought \in SUBSET Keys
    OBVIOUS
  <2> QED
    BY <2>1, <1>2, FS_Subset
<1> HIDE DEF sought, result
<1>4. /\ rows \in Seq(sought) /\ Len(rows) \in Nat
      /\ InOrder(rows, d)
      /\ \A k \in sought : \E i \in 1 .. Len(rows) : rows[i] = k
      /\ \A i \in 1 .. Len(rows) : rows[i] \in sought
  <2>1. /\ rows \in Seq(sought) /\ InOrder(rows, d)
        /\ \A k \in sought : \E i \in 1 .. Len(rows) : rows[i] = k
    BY <1>3, OrderedProperties
  <2> HIDE DEF rows
  <2>2. Len(rows) \in Nat /\ rows \in [1 .. Len(rows) -> sought]
    BY <2>1, LenProperties
  <2> QED
    BY <2>1, <2>2
<1> HIDE DEF rows
<1>5. /\ items \in Seq(sought)
      /\ Len(items) = Shown(Len(rows), 0, limit)
      /\ \A i \in 1 .. Len(items) : 0 + i \in 1 .. Len(rows) /\ items[i] = rows[0 + i]
      /\ page.more <=> 0 + limit < Len(rows)
  <2>1. PageFits(page, sought, rows, 0, limit)
    BY <1>4, PageProperties
  <2> HIDE DEF page
  <2> QED
    BY <2>1 DEF PageFits
<1> HIDE DEF page
<1>6. /\ \A i \in 1 .. Len(items) : i \in 1 .. Len(rows) /\ items[i] = rows[i]
      /\ page.more <=> limit < Len(rows)
      /\ page.more => Len(items) = limit
      /\ ~ page.more => Len(items) = Len(rows)
  BY <1>4, <1>5 DEF Shown, Least
<1> HIDE DEF items
<1>7. items \in Seq(stored) /\ items \in Seq(Int) /\ items \in Seq(Keys) /\ before \in Seq(Int)
      /\ rows \in Seq(Int)
  <2>1. sought \subseteq Int /\ sought \subseteq Keys
    BY <1>3
  <2>2. items \in Seq(stored)
    BY <1>3, <1>5, SeqGrows
  <2>3. items \in Seq(Int) /\ rows \in Seq(Int)
    BY <2>1, <1>4, <1>5, SeqGrows
  <2>4. items \in Seq(Keys)
    BY <2>1, <1>5, SeqGrows
  <2>5. before \in Seq(Int)
    BY <1>2, SeqGrows
  <2> QED
    BY <2>2, <2>3, <2>4, <2>5
<1>8. \A i, j \in 1 .. Len(rows) : i < j => Beyond(rows[j], rows[i], d)
  BY <1>4, <1>7, InOrderBeyond
<1>9. InOrder(items, d)
  <2>1. \A i, j \in 1 .. Len(items) : i < j => Beyond(items[j], items[i], d)
    BY <1>6, <1>8
  <2> QED
    BY <2>1, <1>7, InOrderBeyond
<1>10. InOrder(before \o items, d)
  <2>1. \A i \in 1 .. Len(items) : Ahead(items[i], before, d)
    BY <1>4, <1>6 DEF sought
  <2> QED
    BY <2>1, <1>7, <1>9, OrderGoesOn
<1>11. ASSUME page.more
       PROVE  /\ items # <<>> /\ before \o items # <<>>
              /\ Last(before \o items) = Last(items)
              /\ Last(items) = rows[limit] /\ limit \in 1 .. Len(rows)
  <2>1. Len(items) = limit /\ limit \in 1 .. Len(items) /\ items # <<>>
    BY <1>6, <1>11, EmptySeq
  <2>2. Last(items) = rows[limit]
    BY <2>1, <1>6 DEF Last
  <2>3. before \o items # <<>> /\ Last(before \o items) = Last(items)
    BY <2>1, <1>7, RowsOfBoth
  <2> QED
    BY <2>1, <2>2, <2>3, <1>6
<1>12. page.more => result.next = CursorAfter(before \o items)
  BY <1>1, <1>11 DEF CursorAfter
<1>13. ASSUME NEW k \in stored, Ahead(k, before, d)
       PROVE  k \in ToSet(items) \/ (page.more /\ Ahead(k, before \o items, d))
  <2>1. PICK i \in 1 .. Len(rows) : rows[i] = k
    BY <1>4, <1>13 DEF sought
  <2>2. CASE i \in 1 .. Len(items)
    <3>1. items[i] = k /\ DOMAIN items = 1 .. Len(items)
      BY <2>1, <2>2, <1>6, <1>7, LenProperties
    <3> QED
      BY <3>1, <2>2 DEF ToSet
  <2>3. CASE i \notin 1 .. Len(items)
    <3>1. page.more /\ limit < i
      BY <2>3, <1>4, <1>6
    <3>2. Beyond(k, rows[limit], d)
      BY <3>1, <2>1, <1>8, <1>11
    <3> QED
      BY <3>1, <3>2, <1>11 DEF Ahead
  <2> QED
    BY <2>2, <2>3
<1>14. NextPage(result, before, stored, d)
  BY <1>1, <1>7, <1>10, <1>12, <1>13 DEF NextPage
<1> QED
  BY <1>14 DEF result
-----------------------------------------------------------------------------
(* The walks                                                               *)

UnderWay == {"asking", "counting", "reading", "between"}

\* The variables of the walks keep their types.
WalkTypeOK ==
    /\ walk \in [Readers -> UnderWay \cup {"idle", "finished", "refused", "failed"}]
    /\ style \in [Readers -> Styles \cup {"none"}]
    /\ cursor = [r \in Readers |-> cursor[r]]
    /\ offset \in [Readers -> Nat]
    /\ total \in [Readers -> 0 .. Cardinality(Keys)]
    /\ shown \in [Readers -> Seq(Keys)]
    /\ steady \in [Readers -> SUBSET Keys]
    /\ ever \in [Readers -> SUBSET Keys]

\* A walk that has not begun has noted nothing, and one that has knows what was
\* active ever since and at some time since.
HistoryOK(r) ==
    /\ walk[r] \in {"idle", "refused"} => shown[r] = <<>>
    /\ walk[r] = "idle" => offset[r] = 0 /\ style[r] = "none" /\ ever[r] = {} /\ steady[r] = {}
    /\ walk[r] # "idle" => steady[r] \subseteq Active /\ Active \subseteq ever[r]
    /\ walk[r] \in UnderWay => Limit[r] >= 1

\* A walk by cursor has shown what it has passed, and goes on from there.
SeekOK(r) ==
    LET d == style[r] = "descending" IN
    style[r] # "offset" =>
        /\ walk[r] # "counting"
        /\ InOrder(shown[r], d)
        /\ ToSet(shown[r]) \subseteq ever[r]
        /\ walk[r] \in UnderWay =>
              /\ cursor[r] = CursorAfter(shown[r])
              /\ \A k \in steady[r] : k \in ToSet(shown[r]) \/ Ahead(k, shown[r], d)
        /\ walk[r] = "finished" => steady[r] \subseteq ToSet(shown[r])

\* A walk by offset over rows that do not change has shown the first of them.
FirstRows(rows, all) ==
    /\ Len(rows) <= Len(all)
    /\ \A i \in 1 .. Len(rows) : rows[i] = all[i]

OffsetOK(r) ==
    LET all == Ordered(steady[r], FALSE) IN
    style[r] = "offset" =>
        /\ walk[r] \in UnderWay => cursor[r] = NoCursor
        /\ ever[r] = steady[r] =>
              /\ walk[r] \in UnderWay => offset[r] = Len(shown[r]) /\ FirstRows(shown[r], all)
              /\ walk[r] = "finished" => shown[r] = all
              /\ walk[r] \in {"reading", "between", "finished"} =>
                    total[r] = Cardinality(steady[r])

WalkOK(r) == HistoryOK(r) /\ SeekOK(r) /\ OffsetOK(r)

\* The inductive invariant of the walks.
WalkInv == WalkTypeOK /\ \A r \in Readers : WalkOK(r)

\* Nothing of a walk changes.
Rests(r) ==
    /\ walk'[r] = walk[r] /\ style'[r] = style[r] /\ cursor'[r] = cursor[r]
    /\ offset'[r] = offset[r] /\ total'[r] = total[r] /\ shown'[r] = shown[r]
    /\ steady'[r] = steady[r] /\ ever'[r] = ever[r]

\* A walk that rests over a table that rests stays as it is.
LEMMA RestingWalk ==
    ASSUME NEW r \in Readers, WalkOK(r), Rests(r), UNCHANGED table
    PROVE  WalkOK(r)'
<1>1. Active' = Active
  BY DEF Active
<1>2. HistoryOK(r)'
  BY <1>1 DEF WalkOK, Rests, HistoryOK
<1>3. SeekOK(r)'
  BY DEF WalkOK, Rests, SeekOK
<1>4. OffsetOK(r)'
  BY DEF WalkOK, Rests, OffsetOK
<1> QED
  BY <1>2, <1>3, <1>4 DEF WalkOK

\* What units of work commit leaves the walks what they are.
LEMMA NoteKeeps ==
    ASSUME WalkInv, Note
    PROVE  WalkInv'
<1>1. WalkTypeOK'
  <2>1. steady' \in [Readers -> SUBSET Keys]
    BY DEF WalkInv, WalkTypeOK, Note, Active
  <2>2. ever' \in [Readers -> SUBSET Keys]
    BY DEF WalkInv, WalkTypeOK, Note, Active
  <2> QED
    BY <2>1, <2>2 DEF WalkInv, WalkTypeOK, Note, walks
<1>2. ASSUME NEW r \in Readers PROVE WalkOK(r)'
  <2>1. /\ walk'[r] = walk[r] /\ style'[r] = style[r] /\ cursor'[r] = cursor[r]
        /\ offset'[r] = offset[r] /\ total'[r] = total[r] /\ shown'[r] = shown[r]
        /\ steady'[r] = steady[r] \cap Active'
        /\ ever'[r] = IF walk[r] = "idle" THEN {} ELSE ever[r] \cup Active'
    BY DEF Note, walks
  <2>2. WalkOK(r) /\ HistoryOK(r) /\ SeekOK(r) /\ OffsetOK(r)
    BY DEF WalkInv, WalkOK
  <2>3. HistoryOK(r)'
    BY <2>1, <2>2 DEF HistoryOK
  <2>4. SeekOK(r)'
    <3>1. ever[r] \subseteq ever'[r] /\ steady'[r] \subseteq steady[r]
      BY <2>1, <2>2 DEF HistoryOK
    <3> QED
      BY <2>1, <2>2, <3>1 DEF SeekOK
  <2>5. OffsetOK(r)'
    <3>1. ASSUME ever'[r] = steady'[r] PROVE ever[r] = steady[r] /\ steady'[r] = steady[r]
      <4>1. CASE walk[r] = "idle"
        BY <4>1, <2>1, <2>2 DEF HistoryOK
      <4>2. CASE walk[r] # "idle"
        BY <4>2, <3>1, <2>1, <2>2 DEF HistoryOK
      <4> QED
        BY <4>1, <4>2
    <3> QED
      BY <2>1, <2>2, <3>1 DEF OffsetOK
  <2> QED
    BY <2>3, <2>4, <2>5 DEF WalkOK
<1> QED
  BY <1>1, <1>2 DEF WalkInv

\* A row text is none of a malformed cursor.
LEMMA MalformedIsRefused ==
    ASSUME NEW c \in {NoCursor} \cup MalformedCursors, CursorAccepted(c, Keys)
    PROVE  c = NoCursor
<1>1. CASE c = [sent |-> TRUE, json |-> FALSE]
  BY <1>1 DEF CursorAccepted
<1>2. CASE c = [sent |-> TRUE, json |-> TRUE]
  <2>1. "k" \notin DOMAIN c /\ c.sent
    BY <1>2
  <2> QED
    BY <2>1 DEF CursorAccepted
<1>3. CASE c = [sent |-> TRUE, json |-> TRUE, k |-> "no key"]
  <2>1. Coerced("no key", Keys) = {} /\ c.sent /\ c.k = "no key"
    BY <1>3, ListingAssumption DEF Coerced
  <2> QED
    BY <2>1 DEF CursorAccepted
<1> QED
  BY <1>1, <1>2, <1>3 DEF MalformedCursors

\* A cursor made of a key is accepted.
LEMMA OwnCursorIsAccepted ==
    ASSUME NEW k \in Keys
    PROVE  CursorAccepted(EncodeCursor(k), Keys)
<1>1. /\ EncodeCursor(k).json = TRUE /\ "k" \in DOMAIN EncodeCursor(k)
      /\ EncodeCursor(k).k = Text(k)
  BY DEF EncodeCursor
<1>2. Coerced(Text(k), Keys) # {}
  BY TextIsReadBack
<1> QED
  BY <1>1, <1>2 DEF CursorAccepted

\* No cursor is accepted.
LEMMA NoCursorIsAccepted == CursorAccepted(NoCursor, Keys)
<1>1. NoCursor.sent = FALSE
  BY DEF NoCursor
<1> QED
  BY <1>1 DEF CursorAccepted

\* Only what one walk has changes, and not the table.
OnlyOf(r) == UNCHANGED table /\ \A q \in Readers \ {r} : Rests(q)

\* A step of one walk that keeps its types and leaves it in order keeps the invariant.
LEMMA OneWalk ==
    ASSUME NEW r \in Readers, WalkInv, OnlyOf(r), WalkTypeOK', WalkOK(r)'
    PROVE  WalkInv'
<1>1. ASSUME NEW q \in Readers PROVE WalkOK(q)'
  <2>1. CASE q = r
    BY <2>1
  <2>2. CASE q # r
    <3>1. WalkOK(q) /\ Rests(q) /\ UNCHANGED table
      BY <2>2 DEF WalkInv, OnlyOf
    <3> QED
      BY <3>1, RestingWalk
  <2> QED
    BY <2>1, <2>2
<1> QED
  BY <1>1 DEF WalkInv

\* The rows of nothing are in order.
LEMMA NothingInOrder ==
    ASSUME NEW d \in BOOLEAN
    PROVE  /\ <<>> \in Seq(Keys) /\ Len(<<>>) = 0 /\ ToSet(<<>>) = {}
           /\ InOrder(<<>>, d)
           /\ CursorAfter(<<>>) = NoCursor
           /\ \A k \in Keys : Ahead(k, <<>>, d)
<1>1. <<>> \in Seq(Keys) /\ Len(<<>>) = 0 /\ ToSet(<<>>) = {}
  BY DEF ToSet
<1>2. InOrder(<<>>, d)
  BY <1>1 DEF InOrder
<1> QED
  BY <1>1, <1>2 DEF CursorAfter, Ahead

\* A walk begins.
LEMMA BeginKeeps ==
    ASSUME NEW r \in Readers, WalkInv, Begin(r)
    PROVE  WalkInv'
<1> USE DEF WalkInv
<1>1. PICK s \in Styles, c \in {NoCursor} \cup MalformedCursors :
         style' = [style EXCEPT ![r] = s] /\ RequestPage(r, c)
  BY DEF Begin
<1>2. /\ walk[r] = "idle" /\ UNCHANGED <<table, offset, total, shown>>
      /\ steady' = [steady EXCEPT ![r] = Active]
      /\ ever' = [ever EXCEPT ![r] = Active]
  BY <1>1 DEF Begin, RequestPage
<1>3. \/ /\ Limit[r] >= 1 /\ CursorAccepted(c, Keys)
         /\ walk' = [walk EXCEPT ![r] = "asking"] /\ cursor' = [cursor EXCEPT ![r] = c]
      \/ walk' = [walk EXCEPT ![r] = "refused"] /\ cursor' = [cursor EXCEPT ![r] = NoCursor]
  BY <1>1 DEF RequestPage, Walks, LimitAccepted
<1>4. /\ walk'[r] \in {"asking", "refused"} /\ cursor'[r] = NoCursor
      /\ walk'[r] = "asking" => Limit[r] >= 1
  <2>1. r \in DOMAIN walk /\ r \in DOMAIN cursor
    BY DEF WalkTypeOK
  <2> QED
    BY <2>1, <1>3, MalformedIsRefused
<1>5. WalkTypeOK'
  <2>1. walk' \in [Readers -> UnderWay \cup {"idle", "finished", "refused", "failed"}]
    BY <1>3 DEF WalkTypeOK, UnderWay
  <2>2. style' \in [Readers -> Styles \cup {"none"}]
    BY <1>1 DEF WalkTypeOK
  <2>3. cursor' = [q \in Readers |-> cursor'[q]]
    BY <1>3 DEF WalkTypeOK
  <2>4. /\ steady' \in [Readers -> SUBSET Keys] /\ ever' \in [Readers -> SUBSET Keys]
    BY <1>2 DEF WalkTypeOK, Active
  <2> QED
    BY <1>2, <2>1, <2>2, <2>3, <2>4 DEF WalkTypeOK
<1>6. OnlyOf(r)
  BY <1>1, <1>2, <1>3 DEF OnlyOf, Rests, WalkTypeOK
<1>7. /\ style'[r] = s /\ steady'[r] = Active /\ ever'[r] = Active /\ Active' = Active
      /\ shown'[r] = <<>> /\ offset'[r] = 0 /\ Active \subseteq Keys
  <2>1. style'[r] = s /\ steady'[r] = Active /\ ever'[r] = Active
    BY <1>1, <1>2 DEF WalkTypeOK
  <2>2. Active' = Active /\ Active \subseteq Keys
    BY <1>2 DEF Active
  <2>3. shown'[r] = <<>> /\ offset'[r] = 0
    BY <1>2 DEF WalkOK, HistoryOK
  <2> QED
    BY <2>1, <2>2, <2>3
<1>8. HistoryOK(r)'
  BY <1>4, <1>7 DEF HistoryOK, UnderWay
<1>9. SeekOK(r)'
  BY <1>4, <1>7, NothingInOrder DEF SeekOK, UnderWay
<1>10. OffsetOK(r)'
  <2>1. FirstRows(<<>>, Ordered(Active, FALSE))
    <3>1. Len(Ordered(Active, FALSE)) \in Nat
      BY <1>7, ListingAssumption, FS_Subset, OrderedProperties, LenProperties
    <3>2. Len(<<>>) = 0
      OBVIOUS
    <3>3. 1 .. Len(<<>>) = {}
      BY <3>2
    <3>4. \A n \in Nat : Len(<<>>) <= n
      BY <3>2
    <3>5. Len(<<>>) <= Len(Ordered(Active, FALSE))
      BY <3>1, <3>4, Zenon
    <3> QED
      BY <3>3, <3>5 DEF FirstRows
  <2> QED
    BY <2>1, <1>4, <1>7, NothingInOrder DEF OffsetOK, UnderWay
<1> QED
  BY <1>5, <1>6, <1>8, <1>9, <1>10, OneWalk DEF WalkOK

\* A walk asks for its next page: the cursor it was given is accepted.
LEMMA GoOnKeeps ==
    ASSUME NEW r \in Readers, WalkInv, GoOn(r)
    PROVE  WalkInv'
<1> USE DEF WalkInv
<1>1. /\ walk[r] = "between" /\ RequestPage(r, cursor[r])
      /\ UNCHANGED <<table, style, offset, total, shown, steady, ever>>
  BY DEF GoOn, RequestPage, seen
<1>2. Limit[r] >= 1 /\ shown[r] \in Seq(Keys) /\ HistoryOK(r) /\ SeekOK(r) /\ OffsetOK(r)
  BY <1>1 DEF WalkTypeOK, WalkOK, HistoryOK, UnderWay
<1>3. CursorAccepted(cursor[r], Keys)
  <2>1. CASE style[r] = "offset"
    BY <1>1, <1>2, <2>1, NoCursorIsAccepted DEF OffsetOK, UnderWay
  <2>2. CASE style[r] # "offset" /\ shown[r] = <<>>
    BY <1>1, <1>2, <2>2, NoCursorIsAccepted DEF SeekOK, UnderWay, CursorAfter
  <2>3. CASE style[r] # "offset" /\ shown[r] # <<>>
    <3>1. cursor[r] = EncodeCursor(Last(shown[r]))
      BY <1>1, <1>2, <2>3 DEF SeekOK, UnderWay, CursorAfter
    <3>2. Last(shown[r]) \in Keys
      BY <1>2, <2>3, LastRow
    <3> QED
      BY <3>1, <3>2, OwnCursorIsAccepted
  <2> QED
    BY <2>1, <2>2, <2>3
<1>4. walk' = [walk EXCEPT ![r] = "asking"] /\ cursor' = cursor
  <2>1. /\ walk' = [walk EXCEPT ![r] = "asking"]
        /\ cursor' = [cursor EXCEPT ![r] = cursor[r]]
    BY <1>1, <1>2, <1>3 DEF RequestPage, Walks, LimitAccepted
  <2> QED
    BY <2>1 DEF WalkTypeOK
<1>5. WalkTypeOK'
  BY <1>1, <1>4 DEF WalkTypeOK, UnderWay
<1>6. OnlyOf(r)
  BY <1>1, <1>4 DEF OnlyOf, Rests, WalkTypeOK
<1>7. walk'[r] = "asking" /\ Active' = Active
  BY <1>1, <1>4 DEF WalkTypeOK, Active
<1>8. HistoryOK(r)'
  BY <1>1, <1>2, <1>7 DEF HistoryOK, UnderWay
<1>9. SeekOK(r)'
  BY <1>1, <1>2, <1>4, <1>7 DEF SeekOK, UnderWay
<1>10. OffsetOK(r)'
  BY <1>1, <1>2, <1>4, <1>7 DEF OffsetOK, UnderWay
<1> QED
  BY <1>5, <1>6, <1>8, <1>9, <1>10, OneWalk DEF WalkOK

\* A walk takes its connection, or waits for one in vain.
LEMMA ConnectionKeeps ==
    ASSUME NEW r \in Readers, WalkInv, TakeConnection(r) \/ PoolTimesOut(r)
    PROVE  WalkInv'
<1> USE DEF WalkInv
<1>1. /\ walk[r] = "asking"
      /\ UNCHANGED <<table, style, cursor, offset, total, shown, steady, ever>>
  BY DEF TakeConnection, PoolTimesOut, seen
<1>2. PICK where \in {IF style[r] = "offset" THEN "counting" ELSE "reading", "failed"} :
         walk' = [walk EXCEPT ![r] = where]
  BY DEF TakeConnection, PoolTimesOut, Walks
<1>3. HistoryOK(r) /\ SeekOK(r) /\ OffsetOK(r)
  BY DEF WalkOK
<1>4. WalkTypeOK'
  BY <1>1, <1>2 DEF WalkTypeOK, UnderWay
<1>5. OnlyOf(r)
  BY <1>1, <1>2 DEF OnlyOf, Rests, WalkTypeOK
<1>6. walk'[r] = where /\ Active' = Active
  BY <1>1, <1>2 DEF WalkTypeOK, Active
<1>7. HistoryOK(r)'
  BY <1>1, <1>3, <1>6 DEF HistoryOK, UnderWay
<1>8. SeekOK(r)'
  BY <1>1, <1>3, <1>6 DEF SeekOK, UnderWay
<1>9. OffsetOK(r)'
  BY <1>1, <1>3, <1>6 DEF OffsetOK, UnderWay
<1> QED
  BY <1>4, <1>5, <1>7, <1>8, <1>9, OneWalk DEF WalkOK

\* The count of a walk by offset.
LEMMA CountKeeps ==
    ASSUME NEW r \in Readers, WalkInv, Count(r)
    PROVE  WalkInv'
<1> USE DEF WalkInv
<1>1. /\ walk[r] = "counting"
      /\ UNCHANGED <<table, style, cursor, offset, shown, steady, ever>>
      /\ total' = [total EXCEPT ![r] = Cardinality(Active)]
      /\ walk' = [walk EXCEPT ![r] = "reading"]
  BY DEF Count, Walks, seen
<1>2. HistoryOK(r) /\ SeekOK(r) /\ OffsetOK(r)
  BY DEF WalkOK
<1>3. Active \subseteq Keys /\ Cardinality(Active) \in 0 .. Cardinality(Keys)
  <2>1. Active \in SUBSET Keys
    BY DEF Active
  <2>2. IsFiniteSet(Keys) /\ IsFiniteSet(Active) /\ Cardinality(Active) <= Cardinality(Keys)
    BY <2>1, ListingAssumption, FS_Subset
  <2>3. Cardinality(Active) \in Nat /\ Cardinality(Keys) \in Nat
    BY <2>2, FS_CardinalityType
  <2> QED
    BY <2>1, <2>2, <2>3
<1>4. WalkTypeOK'
  BY <1>1, <1>3 DEF WalkTypeOK, UnderWay
<1>5. OnlyOf(r)
  BY <1>1 DEF OnlyOf, Rests, WalkTypeOK
<1>6. walk'[r] = "reading" /\ Active' = Active /\ total'[r] = Cardinality(Active)
  BY <1>1 DEF WalkTypeOK, Active
<1>7. HistoryOK(r)'
  BY <1>1, <1>2, <1>6 DEF HistoryOK, UnderWay
<1>8. SeekOK(r)'
  BY <1>1, <1>2 DEF SeekOK
<1>9. OffsetOK(r)'
  <2>1. ever[r] = steady[r] => Active = steady[r]
    BY <1>1, <1>2 DEF HistoryOK
  <2> QED
    BY <2>1, <1>1, <1>2, <1>6 DEF OffsetOK, UnderWay
<1> QED
  BY <1>4, <1>5, <1>7, <1>8, <1>9, OneWalk DEF WalkOK

\* The rows a page by offset adds to the first rows are the next ones.
LEMMA FirstRowsGoOn ==
    ASSUME NEW S, NEW all \in Seq(S), NEW rows \in Seq(S), FirstRows(rows, all),
           NEW items \in Seq(S), NEW limit \in Nat \ {0},
           Len(items) = Shown(Len(all), Len(rows), limit),
           \A i \in 1 .. Len(items) : items[i] = all[Len(rows) + i]
    PROVE  /\ FirstRows(rows \o items, all)
           /\ Len(rows) + limit < Len(all) => Len(rows \o items) = Len(rows) + limit
           /\ ~ Len(rows) + limit < Len(all) => rows \o items = all
<1> DEFINE m == Len(rows)
           n == Len(items)
           u == rows \o items
<1>1. m \in Nat /\ n \in Nat /\ Len(all) \in Nat /\ m <= Len(all)
  BY LenProperties DEF FirstRows
<1>2. /\ u \in Seq(S) /\ Len(u) = m + n
      /\ \A i \in 1 .. m + n : u[i] = IF i <= m THEN rows[i] ELSE items[i - m]
  BY ConcatProperties
<1>3. /\ m + n <= Len(all)
      /\ m + limit < Len(all) => n = limit
      /\ ~ m + limit < Len(all) => m + n = Len(all)
  BY <1>1 DEF Shown, Least
<1>4. /\ \A i \in 1 .. m : rows[i] = all[i]
      /\ \A i \in 1 .. n : items[i] = all[m + i]
  BY DEF FirstRows
<1> HIDE DEF m, n, u
<1>5. ASSUME NEW i \in 1 .. m + n PROVE u[i] = all[i]
  <2>1. CASE i <= m
    <3>1. i \in 1 .. m /\ u[i] = rows[i]
      BY <1>1, <1>2, <2>1
    <3> QED
      BY <3>1, <1>4
  <2>2. CASE ~ i <= m
    <3>1. i - m \in 1 .. n /\ u[i] = items[i - m] /\ m + (i - m) = i
      BY <1>1, <1>2, <2>2
    <3> QED
      BY <3>1, <1>4
  <2> QED
    BY <2>1, <2>2
<1>6. FirstRows(u, all)
  BY <1>2, <1>3, <1>5 DEF FirstRows
<1>7. ASSUME ~ m + limit < Len(all) PROVE u = all
  <2>1. Len(u) = Len(all) /\ \A i \in 1 .. Len(u) : u[i] = all[i]
    BY <1>2, <1>3, <1>5, <1>7
  <2> QED
    BY <2>1, <1>2, SeqEqual
<1>8. m + limit < Len(all) => Len(u) = m + limit
  BY <1>2, <1>3
<1> QED
  BY <1>6, <1>7, <1>8 DEF u, m

\* A page is read.
LEMMA ReadPageKeeps ==
    ASSUME NEW r \in Readers, WalkInv, ReadPage(r)
    PROVE  WalkInv'
<1> USE DEF WalkInv
<1> DEFINE page == Read(r)
           limit == Clamp(Limit[r], MaxLimit)
           before == shown[r]
<1>1. /\ walk[r] = "reading"
      /\ UNCHANGED <<table, style, total, steady, ever>>
      /\ shown' = [shown EXCEPT ![r] = @ \o page.items]
      /\ cursor' = [cursor EXCEPT ![r] = page.next]
      /\ offset' = [offset EXCEPT ![r] = @ + limit]
      /\ walk' = [walk EXCEPT ![r] = IF page.more THEN "between" ELSE "finished"]
  BY DEF ReadPage, Walks, seen
<1>2. HistoryOK(r) /\ SeekOK(r) /\ OffsetOK(r) /\ before \in Seq(Keys)
  BY DEF WalkOK, WalkTypeOK
<1>3. limit \in Nat \ {0}
  <2>1. Limit[r] >= 1
    BY <1>1, <1>2 DEF HistoryOK, UnderWay
  <2>2. Limit[r] \in Int /\ MaxLimit \in Nat \ {0}
    BY ListingAssumption
  <2> QED
    BY <2>1, <2>2 DEF Clamp, Least
<1>4. /\ Active \subseteq Keys /\ Active \subseteq Int /\ IsFiniteSet(Active)
      /\ Active' = Active /\ steady[r] \subseteq Active /\ Active \subseteq ever[r]
  <2>1. Active \in SUBSET Keys
    BY DEF Active
  <2>2. Active' = Active /\ steady[r] \subseteq Active /\ Active \subseteq ever[r]
    BY <1>1, <1>2 DEF Active, HistoryOK
  <2> QED
    BY <2>1, <2>2, ListingAssumption, FS_Subset
<1> HIDE DEF limit
<1>5. ASSUME style[r] # "offset"
      PROVE  NextPage(page, before, Active, style[r] = "descending")
  <2>1. cursor[r] = CursorAfter(before) /\ InOrder(before, style[r] = "descending")
    BY <1>1, <1>2, <1>5 DEF SeekOK, UnderWay
  <2>2. page = PaginateCursor(Active, Keys, CursorAfter(before), limit, style[r] = "descending")
    BY <1>5, <2>1 DEF Read, limit
  <2>3. (style[r] = "descending") \in BOOLEAN
    OBVIOUS
  <2> HIDE DEF page
  <2> QED
    BY <2>1, <2>2, <2>3, <1>2, <1>3, <1>4, CursorPage
<1> DEFINE all == Ordered(Active, FALSE)
<1>6. all \in Seq(Active) /\ all \in Seq(Keys)
  BY <1>4, OrderedProperties, SeqGrows
<1>7. ASSUME style[r] = "offset"
      PROVE  /\ page.items \in Seq(Active) /\ page.next = NoCursor
             /\ Len(page.items) = Shown(Len(all), offset[r], limit)
             /\ \A i \in 1 .. Len(page.items) : page.items[i] = all[offset[r] + i]
             /\ page.more <=> offset[r] + limit < Len(all)
  <2> DEFINE plain == PageOf(Window(all, offset[r], limit + 1), limit)
  <2>1. page.items = plain.items /\ page.more = plain.more /\ page.next = NoCursor
    BY <1>7 DEF Read, limit, PaginateOffset
  <2>3. offset[r] \in Nat
    BY DEF WalkTypeOK
  <2> HIDE DEF page, all
  <2>4. /\ plain.items \in Seq(Active)
        /\ Len(plain.items) = Shown(Len(all), offset[r], limit)
        /\ \A i \in 1 .. Len(plain.items) :
              offset[r] + i \in 1 .. Len(all) /\ plain.items[i] = all[offset[r] + i]
        /\ plain.more <=> offset[r] + limit < Len(all)
    <3>1. PageFits(plain, Active, all, offset[r], limit)
      BY <2>3, <1>3, <1>6, PageProperties
    <3> HIDE DEF plain
    <3> QED
      BY <3>1 DEF PageFits
  <2> QED
    BY <2>1, <2>4
<1> HIDE DEF page
<1>8. page.items \in Seq(Active) /\ page.items \in Seq(Keys)
  <2>1. page.items \in Seq(Active)
    BY <1>5, <1>7 DEF NextPage
  <2> QED
    BY <2>1, <1>4, SeqGrows
<1>9. before \o page.items \in Seq(Keys)
  BY <1>2, <1>8, RowsOfBoth
<1>10. WalkTypeOK'
  <2>1. walk' \in [Readers -> UnderWay \cup {"idle", "finished", "refused", "failed"}]
    BY <1>1 DEF WalkTypeOK, UnderWay
  <2>2. shown' \in [Readers -> Seq(Keys)]
    BY <1>1, <1>9 DEF WalkTypeOK
  <2>3. offset' \in [Readers -> Nat]
    BY <1>1, <1>3 DEF WalkTypeOK
  <2>4. cursor' = [q \in Readers |-> cursor'[q]]
    BY <1>1 DEF WalkTypeOK
  <2> QED
    BY <1>1, <2>1, <2>2, <2>3, <2>4 DEF WalkTypeOK
<1>11. OnlyOf(r)
  BY <1>1 DEF OnlyOf, Rests, WalkTypeOK
<1>12. /\ walk'[r] = IF page.more THEN "between" ELSE "finished"
       /\ shown'[r] = before \o page.items /\ cursor'[r] = page.next
       /\ offset'[r] = offset[r] + limit
       /\ style'[r] = style[r] /\ steady'[r] = steady[r] /\ ever'[r] = ever[r]
       /\ total'[r] = total[r]
  BY <1>1 DEF WalkTypeOK
<1>13. HistoryOK(r)'
  BY <1>1, <1>2, <1>4, <1>12 DEF HistoryOK, UnderWay
<1>14. SeekOK(r)'
  <2> SUFFICES ASSUME style[r] # "offset" PROVE SeekOK(r)'
    BY <1>12 DEF SeekOK
  <2> DEFINE d == style[r] = "descending"
             after == before \o page.items
  <2>1. /\ InOrder(after, d)
        /\ page.more => page.next = CursorAfter(after)
        /\ \A k \in Active : Ahead(k, before, d) =>
               k \in ToSet(page.items) \/ (page.more /\ Ahead(k, after, d))
    BY <1>5 DEF NextPage
  <2>2. ToSet(after) = ToSet(before) \cup ToSet(page.items)
    BY <1>2, <1>8, RowsOfBoth
  <2>3. ToSet(page.items) \subseteq Active
    BY <1>8, LenProperties DEF ToSet
  <2>4. ToSet(before) \subseteq ever[r]
    BY <1>2 DEF SeekOK
  <2>5. \A k \in steady[r] : k \in ToSet(before) \/ Ahead(k, before, d)
    BY <1>1, <1>2 DEF SeekOK, UnderWay
  <2> HIDE DEF after, d
  <2>6. ToSet(after) \subseteq ever[r]
    BY <2>2, <2>3, <2>4, <1>4
  <2>7. \A k \in steady[r] : k \in ToSet(after) \/ (page.more /\ Ahead(k, after, d))
    BY <2>1, <2>2, <2>5, <1>4
  <2>8. shown'[r] = after /\ (style'[r] = "descending") = d
    BY <1>12 DEF after, d
  <2> QED
    BY <2>1, <2>6, <2>7, <2>8, <1>12 DEF SeekOK, UnderWay
<1>15. OffsetOK(r)'
  <2> SUFFICES ASSUME style[r] = "offset" PROVE OffsetOK(r)'
    BY <1>12 DEF OffsetOK
  <2>1. page.next = NoCursor
    BY <1>7
  <2>2. ASSUME ever[r] = steady[r]
        PROVE  /\ page.more => offset'[r] = Len(shown'[r]) /\ FirstRows(shown'[r], all)
               /\ ~ page.more => shown'[r] = all
               /\ total[r] = Cardinality(steady[r]) /\ Active = steady[r]
    <3>1. Active = steady[r]
      BY <2>2, <1>4
    <3>2. /\ offset[r] = Len(before) /\ FirstRows(before, all)
          /\ total[r] = Cardinality(steady[r])
      BY <2>2, <3>1, <1>1, <1>2 DEF OffsetOK, UnderWay
    <3>3. /\ Len(page.items) = Shown(Len(all), Len(before), limit)
          /\ \A i \in 1 .. Len(page.items) : page.items[i] = all[Len(before) + i]
          /\ page.more <=> Len(before) + limit < Len(all)
      BY <1>7, <3>2
    <3> HIDE DEF all, before
    <3>4. /\ FirstRows(before \o page.items, all)
          /\ Len(before) + limit < Len(all)
                => Len(before \o page.items) = Len(before) + limit
          /\ ~ Len(before) + limit < Len(all) => before \o page.items = all
      BY <3>2, <3>3, <1>2, <1>3, <1>6, <1>8, FirstRowsGoOn
    <3> QED
      BY <3>1, <3>2, <3>3, <3>4, <1>12
  <2> QED
    BY <2>1, <2>2, <1>12 DEF OffsetOK, UnderWay
<1> QED
  BY <1>10, <1>11, <1>13, <1>14, <1>15, OneWalk DEF WalkOK

-----------------------------------------------------------------------------
(* Units of work                                                           *)

\* The variables of the units keep their types.
UnitTypes ==
    /\ table \in [Keys -> Row]
    /\ stage \in [Units -> {"idle", "block", "leaving", "raising", "closing", "over"}]
    /\ asked \in [Units -> Statements \cup {Nothing}]
    /\ done \in [Units -> 0 .. MaxStatements]
    /\ writes \in [Units -> [Keys -> Row \cup {"kept"}]]
    /\ loaded \in [Units -> Keys \cup {NoKey}]
    /\ refused \in [Units -> BOOLEAN]
    /\ verdict \in [Units -> {"none", "returned", "raised", "commit failed"}]
    /\ written \in [Units -> Nat]
    /\ saved \in [Units -> Nat]
    /\ published \in [Units -> Nat]

\* The pool is never overdrawn.
PoolOK == IsFiniteSet(connected) /\ Cardinality(connected) <= PoolSize

\* A row is written by a statement, and saved by a commit() after it.
UnitCounts(u) ==
    /\ saved[u] <= written[u] /\ written[u] <= done[u]
    /\ asked[u] # Nothing => written[u] + 1 <= done[u]

\* Until __aexit__ has ended the block only what its own commit() saved is
\* published, and then what the caller is told.
UnitTold(u) ==
    /\ asked[u] # Nothing => stage[u] = "block"
    /\ stage[u] # "closing" => verdict[u] = "none"
    /\ stage[u] \in {"idle", "block", "leaving", "raising"} => published[u] = saved[u]
    /\ verdict[u] = "returned" => published[u] = written[u]
    /\ verdict[u] = "raised" => published[u] = saved[u]
    /\ verdict[u] = "commit failed" => published[u] \in {saved[u], written[u]}

UnitOK(u) == UnitCounts(u) /\ UnitTold(u)

\* The inductive invariant of the units.
UnitInv == UnitTypes /\ PoolOK /\ \A u \in Units : UnitOK(u)

\* Connections are taken while there is room and given back.
PoolStep ==
    \/ UNCHANGED connected
    \/ \E x : connected' = connected \ {x}
    \/ Room /\ \E x : connected' = connected \cup {x}

\* So the pool is not overdrawn.
LEMMA PoolKeeps ==
    ASSUME PoolOK, PoolStep
    PROVE  PoolOK'
<1>1. PoolSize \in Nat /\ Cardinality(connected) \in Nat
  BY UnitOfWorkAssumption, FS_CardinalityType DEF PoolOK
<1>2. CASE UNCHANGED connected
  BY <1>2 DEF PoolOK
<1>3. ASSUME NEW x, connected' = connected \ {x} PROVE PoolOK'
  <2>1. /\ IsFiniteSet(connected \ {x})
        /\ Cardinality(connected \ {x}) \in {Cardinality(connected), Cardinality(connected) - 1}
    BY FS_RemoveElement DEF PoolOK
  <2> QED
    BY <1>1, <1>3, <2>1 DEF PoolOK
<1>4. ASSUME NEW x, Room, connected' = connected \cup {x} PROVE PoolOK'
  <2>1. /\ IsFiniteSet(connected \cup {x})
        /\ Cardinality(connected \cup {x}) \in {Cardinality(connected), Cardinality(connected) + 1}
    BY FS_AddElement DEF PoolOK
  <2> QED
    BY <1>1, <1>4, <2>1 DEF PoolOK, Room
<1> QED
  BY <1>2, <1>3, <1>4 DEF PoolStep

\* Every step of a unit does to the pool what the pool allows.
LEMMA UnitPoolStep ==
    ASSUME NEW u \in Units, UnitNext(u)
    PROVE  PoolStep
<1>1. CASE Connect(u)
  BY <1>1 DEF Connect, PoolStep
<1>2. CASE Commit(u)
  BY <1>2 DEF Commit, GiveBack, PoolStep
<1>3. CASE Rollback(u)
  BY <1>3 DEF Rollback, GiveBack, PoolStep
<1>4. CASE ExitCommit(u)
  BY <1>4 DEF ExitCommit, GiveBack, PoolStep
<1>5. CASE ExitRollback(u)
  BY <1>5 DEF ExitRollback, GiveBack, PoolStep
<1>6. CASE Close(u)
  BY <1>6 DEF Close, GiveBack, PoolStep
<1>7. CASE Enter(u) \/ EndBlock(u) \/ CancelBlock(u)
  BY <1>7 DEF Enter, EndBlock, CancelBlock, LeaveBlock, PoolStep
<1>8. CASE \E s \in Repertoire[u] : Call(u, s)
  BY <1>8 DEF Call, PoolStep
<1>9. CASE Create(u) \/ Get(u) \/ Update(u) \/ Delete(u) \/ StatementFails(u)
  BY <1>9 DEF Create, Get, Update, Delete, StatementFails, PoolStep
<1> QED
  BY <1>1, <1>2, <1>3, <1>4, <1>5, <1>6, <1>7, <1>8, <1>9 DEF UnitNext, UnitProgress

\* A statement is answered: the call returns or raises.
Answered(u) ==
    /\ asked[u] # Nothing
    /\ asked' = Set(asked, u, Nothing)
    /\ stage' \in {stage, Set(stage, u, "raising")}
    /\ written' \in {written, Set(written, u, written[u] + 1)}
    /\ writes' \in [Units -> [Keys -> Row \cup {"kept"}]]
    /\ loaded' \in [Units -> Keys \cup {NoKey}]
    /\ refused' \in [Units -> BOOLEAN]
    /\ UNCHANGED <<table, done, verdict, saved, published>>

\* Nobody asks for nothing.
LEMMA NothingIsNoStatement == Nothing \notin Statements /\ Nothing.op = "nothing"
<1>1. \A s \in Statements : s.op # "nothing"
  BY DEF Statements
<1> QED
  BY <1>1 DEF Nothing

\* What a unit asks for has a key.
LEMMA AskedKey ==
    ASSUME NEW u \in Units, UnitTypes, asked[u] # Nothing
    PROVE  asked[u] \in Statements /\ asked[u].key \in Keys
BY DEF UnitTypes, Statements

\* A write, or the reset of all writes, keeps their type.
LEMMA WritesTyped ==
    ASSUME NEW u \in Units, UnitTypes
    PROVE  /\ Set(writes, u, NoWrites) \in [Units -> [Keys -> Row \cup {"kept"}]]
           /\ \A k \in Keys, row \in Row :
                 [writes EXCEPT ![u][k] = row] \in [Units -> [Keys -> Row \cup {"kept"}]]
           /\ Set(refused, u, TRUE) \in [Units -> BOOLEAN]
           /\ Set(refused, u, FALSE) \in [Units -> BOOLEAN]
           /\ \A k \in Keys : Set(loaded, u, k) \in [Units -> Keys \cup {NoKey}]
<1>1. NoWrites \in [Keys -> Row \cup {"kept"}]
  BY DEF NoWrites
<1>2. Set(writes, u, NoWrites) \in [Units -> [Keys -> Row \cup {"kept"}]]
  BY <1>1 DEF UnitTypes, Set
<1>3. ASSUME NEW k \in Keys, NEW row \in Row
      PROVE  [writes EXCEPT ![u][k] = row] \in [Units -> [Keys -> Row \cup {"kept"}]]
  BY DEF UnitTypes
<1>4. /\ Set(refused, u, TRUE) \in [Units -> BOOLEAN]
      /\ Set(refused, u, FALSE) \in [Units -> BOOLEAN]
  BY Zenon DEF UnitTypes, Set
<1>5. \A k \in Keys : Set(loaded, u, k) \in [Units -> Keys \cup {NoKey}]
  BY DEF UnitTypes, Set
<1> QED
  BY <1>2, <1>3, <1>4, <1>5

\* A failed flush is an answer.
LEMMA FlushFailsAnswers ==
    ASSUME NEW u \in Units, UnitTypes, FlushFails(u), asked[u] # Nothing,
           UNCHANGED <<table, done, verdict, saved, published>>
    PROVE  Answered(u)
<1>1. loaded' \in [Units -> Keys \cup {NoKey}]
  BY DEF FlushFails, UnitTypes
<1> QED
  BY <1>1, WritesTyped DEF FlushFails, Raise, Return, Answered

\* A write that returns is one.
LEMMA WriteAnswers ==
    ASSUME NEW u \in Units, UnitTypes, NEW row \in Row, asked[u] # Nothing,
           Write(u, asked[u].key, row), Return(u),
           UNCHANGED <<loaded, refused, table, done, verdict, saved, published>>
    PROVE  Answered(u)
<1>1. loaded' \in [Units -> Keys \cup {NoKey}] /\ refused' \in [Units -> BOOLEAN]
  BY DEF UnitTypes
<1>2. writes' \in [Units -> [Keys -> Row \cup {"kept"}]]
  BY AskedKey, WritesTyped DEF Write
<1> QED
  BY <1>1, <1>2 DEF Write, Return, Answered

\* Every statement is answered so.
LEMMA StatementsAnswer ==
    ASSUME NEW u \in Units, UnitTypes,
           Create(u) \/ Get(u) \/ Update(u) \/ Delete(u) \/ StatementFails(u)
    PROVE  Answered(u)
<1>1. \A op \in {"create", "get", "update", "delete"} : Executing(u, op) => asked[u] # Nothing
  BY NothingIsNoStatement DEF Executing
<1>2. {"active", "deleted", "absent"} \subseteq Row
  BY DEF Row
<1>3. CASE Create(u)
  <2>1. asked[u] # Nothing
    BY <1>1, <1>3 DEF Create
  <2>2. CASE FlushFails(u)
    BY <1>3, <2>1, <2>2, FlushFailsAnswers DEF Create
  <2>3. CASE ~ FlushFails(u)
    BY <1>2, <1>3, <2>1, <2>3, WriteAnswers DEF Create
  <2> QED
    BY <2>2, <2>3
<1>4. CASE Update(u)
  <2>1. asked[u] # Nothing
    BY <1>1, <1>4 DEF Update
  <2>2. CASE FlushFails(u)
    BY <1>4, <2>1, <2>2, FlushFailsAnswers DEF Update
  <2>3. CASE ~ FlushFails(u)
    BY <1>2, <1>4, <2>1, <2>3, WriteAnswers DEF Update
  <2> QED
    BY <2>2, <2>3
<1>5. CASE Delete(u)
  <2>1. asked[u] # Nothing
    BY <1>1, <1>5 DEF Delete
  <2>2. CASE View(u, asked[u].key) = "absent"
    BY <1>5, <2>1, <2>2 DEF Delete, Return, Answered, UnitTypes
  <2>3. CASE View(u, asked[u].key) # "absent"
    BY <1>2, <1>5, <2>1, <2>3, WriteAnswers DEF Delete
  <2> QED
    BY <2>2, <2>3
<1>6. CASE Get(u)
  <2>1. asked[u] # Nothing
    BY <1>1, <1>6 DEF Get
  <2>2. loaded' \in [Units -> Keys \cup {NoKey}]
    <3>1. loaded' = loaded \/ loaded' = Set(loaded, u, asked[u].key)
      BY <1>6 DEF Get
    <3>2. asked[u].key \in Keys
      BY <2>1, AskedKey
    <3>3. CASE loaded' = loaded
      BY <3>3 DEF UnitTypes
    <3>4. CASE loaded' = Set(loaded, u, asked[u].key)
      BY <3>2, <3>4, WritesTyped
    <3> QED
      BY <3>1, <3>3, <3>4
  <2> QED
    BY <1>6, <2>1, <2>2 DEF Get, Raise, Return, Answered, UnitTypes
<1>7. CASE StatementFails(u)
  BY <1>7 DEF StatementFails, Raise, Answered, UnitTypes
<1> QED
  BY <1>3, <1>4, <1>5, <1>6, <1>7

\* The counts of a unit are numbers.
LEMMA UnitNumbers ==
    ASSUME NEW u \in Units, UnitTypes
    PROVE  /\ written[u] \in Nat /\ saved[u] \in Nat /\ published[u] \in Nat
           /\ done[u] \in Nat /\ done[u] <= MaxStatements /\ MaxStatements \in Nat
<1>1. MaxStatements \in Nat
  BY UnitOfWorkAssumption
<1>2. done[u] \in 0 .. MaxStatements
  BY DEF UnitTypes
<1>3. written[u] \in Nat /\ saved[u] \in Nat /\ published[u] \in Nat
  BY DEF UnitTypes
<1> QED
  BY <1>1, <1>2, <1>3

\* A count that is set to a number stays one.
LEMMA CountTyped ==
    ASSUME NEW u \in Units, NEW f \in [Units -> Nat], NEW n \in Nat
    PROVE  Set(f, u, n) \in [Units -> Nat] /\ Set(f, u, n)[u] = n
BY DEF Set

\* A statement more is one of the statements a unit may do.
LEMMA DoneTyped ==
    ASSUME NEW u \in Units, UnitTypes, NEW n \in Nat, n <= MaxStatements
    PROVE  Set(done, u, n) \in [Units -> 0 .. MaxStatements] /\ Set(done, u, n)[u] = n
<1>1. n \in 0 .. MaxStatements
  BY UnitOfWorkAssumption
<1> QED
  BY <1>1 DEF Set, UnitTypes

\* What a statement or a failure of one leaves of the units.
LEMMA AnsweredKeeps ==
    ASSUME NEW u \in Units, UnitTypes, \A v \in Units : UnitOK(v), Answered(u)
    PROVE  UnitTypes' /\ \A v \in Units : UnitOK(v)'
<1>1. UnitTypes'
  <2>1. asked' \in [Units -> Statements \cup {Nothing}]
    BY DEF UnitTypes, Answered, Set
  <2>2. stage' \in [Units -> {"idle", "block", "leaving", "raising", "closing", "over"}]
    BY DEF UnitTypes, Answered, Set
  <2>3. written' \in [Units -> Nat]
    <3>0. written \in [Units -> Nat]
      BY DEF UnitTypes
    <3>1. written[u] + 1 \in Nat /\ written \in [Units -> Nat]
      BY <3>0
    <3>2. Set(written, u, written[u] + 1) \in [Units -> Nat]
      BY <3>1, CountTyped
    <3> QED
      BY <3>1, <3>2 DEF Answered
  <2> QED
    BY <2>1, <2>2, <2>3 DEF UnitTypes, Answered
<1>2. ASSUME NEW v \in Units PROVE UnitOK(v)'
  <2>1. /\ UnitOK(v) /\ written[v] \in Nat /\ saved[v] \in Nat /\ done[v] \in Nat
        /\ UnitOK(u) /\ asked[u] # Nothing
    BY UnitNumbers DEF Answered
  <2>2. /\ done'[v] = done[v] /\ verdict'[v] = verdict[v]
        /\ saved'[v] = saved[v] /\ published'[v] = published[v]
    BY DEF Answered
  <2>3. CASE v = u
    <3>1. /\ stage[v] = "block"
          /\ asked'[v] = Nothing /\ stage'[v] \in {"block", "raising"}
          /\ written'[v] \in {written[v], written[v] + 1}
      BY <2>1, <2>3 DEF Answered, Set, UnitTypes, UnitOK, UnitTold
    <3> QED
      <4>1. UnitCounts(v)'
        BY <2>1, <2>2, <2>3, <3>1 DEF UnitOK, UnitCounts
      <4>2. UnitTold(v)'
        BY <2>1, <2>2, <2>3, <3>1 DEF UnitOK, UnitTold
      <4> QED
        BY <4>1, <4>2 DEF UnitOK
  <2>4. CASE v # u
    <3>1. asked'[v] = asked[v] /\ stage'[v] = stage[v] /\ written'[v] = written[v]
      BY <2>4 DEF Answered, Set, UnitTypes
    <3> QED
  BY <2>1, <2>2, <3>1 DEF UnitOK, UnitCounts, UnitTold
  <2> QED
    BY <2>3, <2>4
<1> QED
  BY <1>1, <1>2

\* Nothing of what UnitOK tells of a unit changes.
UnitRests(v) ==
    /\ asked'[v] = asked[v] /\ stage'[v] = stage[v] /\ done'[v] = done[v]
    /\ verdict'[v] = verdict[v] /\ written'[v] = written[v]
    /\ saved'[v] = saved[v] /\ published'[v] = published[v]

\* A step of one unit that keeps the types and leaves it in order keeps them all so.
LEMMA OneUnit ==
    ASSUME NEW u \in Units, \A v \in Units : UnitOK(v), UnitTypes',
           \A v \in Units \ {u} : UnitRests(v), UnitOK(u)'
    PROVE  UnitTypes' /\ \A v \in Units : UnitOK(v)'
<1>1. ASSUME NEW v \in Units PROVE UnitOK(v)'
  <2>1. CASE v = u
    BY <2>1
  <2>2. CASE v # u
    <3>1. UnitOK(v) /\ UnitRests(v)
      BY <2>2
    <3> QED
      BY <3>1 DEF UnitOK, UnitCounts, UnitTold, UnitRests
  <2> QED
    BY <2>1, <2>2
<1> QED
  BY <1>1

\* A block is entered, and goes on with a call or with rollback().
LEMMA BlockKeeps ==
    ASSUME NEW u \in Units, UnitTypes, \A v \in Units : UnitOK(v),
           Enter(u) \/ (\E s \in Repertoire[u] : Call(u, s)) \/ Rollback(u)
    PROVE  UnitTypes' /\ \A v \in Units : UnitOK(v)'
<1>1. /\ UnitOK(u) /\ MaxStatements \in Nat
      /\ written[u] \in Nat /\ saved[u] \in Nat /\ published[u] \in Nat
      /\ done[u] \in Nat /\ done[u] <= MaxStatements
  BY UnitNumbers
<1>2. CASE Enter(u)
  <2>1. UnitTypes'
    BY <1>2 DEF Enter, UnitTypes, Set
  <2>2. \A v \in Units \ {u} : UnitRests(v)
    BY <1>2 DEF Enter, UnitTypes, Set, UnitRests
  <2>3. UnitOK(u)'
    BY <1>1, <1>2 DEF Enter, UnitTypes, Set, UnitOK, UnitCounts, UnitTold
  <2> QED
    BY <2>1, <2>2, <2>3, OneUnit
<1>3. ASSUME NEW s \in Repertoire[u], Call(u, s)
      PROVE  UnitTypes' /\ \A v \in Units : UnitOK(v)'
  <2>1. s \in Statements
    BY UnitOfWorkAssumption
  <2>2. UnitTypes'
    <3>1. asked' \in [Units -> Statements \cup {Nothing}]
      BY <1>3, <2>1 DEF Call, UnitTypes, Set
    <3>2. done' \in [Units -> 0 .. MaxStatements]
      <4>1. done[u] + 1 \in Nat /\ done[u] + 1 <= MaxStatements
        BY <1>1, <1>3 DEF Call
      <4> QED
        BY <4>1, <1>3, DoneTyped DEF Call
    <3> QED
      BY <1>3, <3>1, <3>2 DEF Call, UnitTypes
  <2>3. \A v \in Units \ {u} : UnitRests(v)
    BY <1>3 DEF Call, UnitTypes, Set, UnitRests
  <2>4. UnitOK(u)'
    <3>1. /\ stage[u] = "block" /\ stage' = stage /\ done'[u] = done[u] + 1
          /\ UNCHANGED <<written, saved, verdict, published>>
      BY <1>3 DEF Call, UnitTypes, Set
    <3> QED
      <4>1. UnitCounts(u)'
        BY <1>1, <3>1 DEF UnitOK, UnitCounts
      <4>2. UnitTold(u)'
        BY <1>1, <3>1 DEF UnitOK, UnitTold
      <4> QED
        BY <4>1, <4>2 DEF UnitOK
  <2> QED
    BY <2>2, <2>3, <2>4, OneUnit
<1>4. CASE Rollback(u)
  <2>1. UnitTypes'
    <3>1. done' \in [Units -> 0 .. MaxStatements] /\ written' \in [Units -> Nat]
      <4>1. done[u] + 1 \in Nat /\ done[u] + 1 <= MaxStatements
        BY <1>1, <1>4 DEF Rollback
      <4>2. written \in [Units -> Nat]
        BY DEF UnitTypes
      <4> QED
        BY <4>1, <4>2, <1>1, <1>4, DoneTyped, CountTyped DEF Rollback
    <3>2. /\ writes' \in [Units -> [Keys -> Row \cup {"kept"}]]
          /\ refused' \in [Units -> BOOLEAN]
      BY <1>4, WritesTyped DEF Rollback
    <3> QED
      BY <1>4, <3>1, <3>2 DEF Rollback, UnitTypes
  <2>2. \A v \in Units \ {u} : UnitRests(v)
    BY <1>4 DEF Rollback, UnitTypes, Set, UnitRests
  <2>3. UnitOK(u)'
    <3>1. /\ asked[u] = Nothing /\ asked' = asked
          /\ done'[u] = done[u] + 1 /\ written'[u] = saved[u]
          /\ UNCHANGED <<stage, saved, verdict, published>> /\ stage[u] = "block"
      BY <1>4 DEF Rollback, UnitTypes, Set
    <3> QED
      <4>1. UnitCounts(u)'
        BY <1>1, <3>1 DEF UnitOK, UnitCounts
      <4>2. UnitTold(u)'
        BY <1>1, <3>1 DEF UnitOK, UnitTold
      <4> QED
        BY <4>1, <4>2 DEF UnitOK
  <2> QED
    BY <2>1, <2>2, <2>3, OneUnit
<1> QED
  BY <1>2, <1>3, <1>4

\* A commit makes the writes of a unit those of the table.
LEMMA PublishTyped ==
    ASSUME NEW u \in Units, UnitTypes, Publish(u)
    PROVE  /\ table' \in [Keys -> Row]
           /\ published' \in [Units -> Nat]
           /\ published'[u] = written[u]
           /\ \A v \in Units \ {u} : published'[v] = published[v]
<1>1. ASSUME NEW k \in Keys PROVE View(u, k) \in Row
  <2>1. table[k] \in Row /\ writes[u][k] \in Row \cup {"kept"}
    BY DEF UnitTypes
  <2> QED
    BY <2>1 DEF View
<1>2. table' \in [Keys -> Row]
  BY <1>1 DEF Publish
<1> QED
  BY <1>2 DEF Publish, Set, UnitTypes

\* The block commits what it has.
LEMMA CommitKeeps ==
    ASSUME NEW u \in Units, UnitTypes, \A v \in Units : UnitOK(v), Commit(u)
    PROVE  UnitTypes' /\ \A v \in Units : UnitOK(v)'
<1>1. /\ UnitOK(u) /\ MaxStatements \in Nat
      /\ written[u] \in Nat /\ saved[u] \in Nat /\ published[u] \in Nat
      /\ done[u] \in Nat /\ done[u] <= MaxStatements
  BY UnitNumbers
<1>2. /\ stage[u] = "block" /\ asked[u] = Nothing /\ done[u] < MaxStatements
      /\ done' = Set(done, u, done[u] + 1)
      /\ UNCHANGED <<loaded, refused, verdict, written>>
  BY DEF Commit
<1>3. done' \in [Units -> 0 .. MaxStatements] /\ done'[u] = done[u] + 1
  <2>1. done[u] + 1 \in Nat /\ done[u] + 1 <= MaxStatements
    BY <1>1, <1>2
  <2> QED
    BY <2>1, <1>2, DoneTyped
<1>4. CASE refused[u]
  <2>1. Raise(u) /\ UNCHANGED <<table, writes, connected, saved, published>>
    BY <1>4 DEF Commit
  <2>2. /\ asked' \in [Units -> Statements \cup {Nothing}]
        /\ stage' \in [Units -> {"idle", "block", "leaving", "raising", "closing", "over"}]
    BY <2>1 DEF Raise, Set, UnitTypes
  <2>3. UnitTypes'
    BY <1>2, <1>3, <2>1, <2>2 DEF UnitTypes
  <2>4. \A v \in Units \ {u} : UnitRests(v)
    BY <1>2, <2>1 DEF Raise, UnitTypes, Set, UnitRests
  <2>5. UnitOK(u)'
    <3>1. asked'[u] = Nothing /\ stage'[u] = "raising"
      BY <2>1 DEF Raise, UnitTypes, Set
    <3> QED
      <4>1. UnitCounts(u)'
        BY <1>1, <1>2, <1>3, <2>1, <3>1 DEF UnitOK, UnitCounts
      <4>2. UnitTold(u)'
        BY <1>1, <1>2, <1>3, <2>1, <3>1 DEF UnitOK, UnitTold
      <4> QED
        BY <4>1, <4>2 DEF UnitOK
  <2> QED
    BY <2>3, <2>4, <2>5, OneUnit
<1>5. CASE ~ refused[u]
  <2>1. /\ Publish(u) /\ writes' = Set(writes, u, NoWrites)
        /\ saved' = Set(saved, u, written[u]) /\ UNCHANGED <<stage, asked>>
    BY <1>5 DEF Commit
  <2>2. saved' \in [Units -> Nat] /\ saved'[u] = written[u]
    BY <1>1, <2>1 DEF UnitTypes, Set
  <2>3. UnitTypes'
    BY <1>2, <1>3, <2>1, <2>2, PublishTyped, WritesTyped DEF UnitTypes
  <2>4. \A v \in Units \ {u} : UnitRests(v)
    BY <1>2, <2>1, PublishTyped DEF UnitTypes, Set, UnitRests
  <2>5. UnitOK(u)'
    <3>1. published'[u] = written[u]
      BY <2>1, PublishTyped
    <3> QED
      <4>1. UnitCounts(u)'
        BY <1>1, <1>2, <1>3, <2>1, <2>2, <3>1 DEF UnitOK, UnitCounts
      <4>2. UnitTold(u)'
        BY <1>1, <1>2, <1>3, <2>1, <2>2, <3>1 DEF UnitOK, UnitTold
      <4> QED
        BY <4>1, <4>2 DEF UnitOK
  <2> QED
    BY <2>3, <2>4, <2>5, OneUnit
<1> QED
  BY <1>4, <1>5

\* The block ends.
LEMMA LeaveKeeps ==
    ASSUME NEW u \in Units, UnitTypes, \A v \in Units : UnitOK(v),
           EndBlock(u) \/ CancelBlock(u)
    PROVE  UnitTypes' /\ \A v \in Units : UnitOK(v)'
<1>1. PICK exit \in {"leaving", "raising"} : LeaveBlock(u, exit)
  BY DEF EndBlock, CancelBlock
<1>2. UnitOK(u) /\ written[u] \in Nat /\ saved[u] \in Nat /\ done[u] \in Nat
  BY UnitNumbers
<1>3. UnitTypes'
  BY <1>1 DEF LeaveBlock, UnitTypes, Set
<1>4. \A v \in Units \ {u} : UnitRests(v)
  BY <1>1 DEF LeaveBlock, UnitTypes, Set, UnitRests
<1>5. UnitOK(u)'
  <2>1. /\ stage[u] = "block" /\ stage'[u] = exit /\ asked'[u] = Nothing
        /\ UNCHANGED <<done, written, saved, verdict, published>>
    BY <1>1 DEF LeaveBlock, UnitTypes, Set
  <2> QED
    <3>1. UnitCounts(u)'
      BY <1>2, <2>1 DEF UnitOK, UnitCounts
    <3>2. UnitTold(u)'
      BY <1>2, <2>1 DEF UnitOK, UnitTold
    <3> QED
      BY <3>1, <3>2 DEF UnitOK
<1> QED
  BY <1>3, <1>4, <1>5, OneUnit

\* __aexit__ commits or rolls back, and tells the caller.
LEMMA ExitKeeps ==
    ASSUME NEW u \in Units, UnitTypes, \A v \in Units : UnitOK(v),
           ExitCommit(u) \/ ExitRollback(u)
    PROVE  UnitTypes' /\ \A v \in Units : UnitOK(v)'
<1>1. PICK how \in {"returned", "raised", "commit failed"} :
         /\ stage[u] \in {"leaving", "raising"} /\ Exit(u, how)
         /\ \/ how \in {"returned", "commit failed"} /\ Publish(u)
            \/ how \in {"raised", "commit failed"} /\ Discard(u)
  BY DEF ExitCommit, ExitRollback
<1>2. UnitOK(u) /\ written[u] \in Nat /\ saved[u] \in Nat /\ done[u] \in Nat
  BY UnitNumbers
<1>3. /\ table' \in [Keys -> Row] /\ published' \in [Units -> Nat]
      /\ \A v \in Units \ {u} : published'[v] = published[v]
  <2>1. CASE Publish(u)
    BY <2>1, PublishTyped
  <2>2. CASE Discard(u)
    BY <2>2 DEF Discard, UnitTypes
  <2> QED
    BY <2>1, <2>2, <1>1
<1>4. UnitTypes'
  <2>1. /\ verdict' \in [Units -> {"none", "returned", "raised", "commit failed"}]
        /\ stage' \in [Units -> {"idle", "block", "leaving", "raising", "closing", "over"}]
    BY <1>1 DEF Exit, UnitTypes, Set
  <2>2. writes' \in [Units -> [Keys -> Row \cup {"kept"}]]
    BY <1>1, WritesTyped DEF Exit
  <2> QED
    BY <1>1, <1>3, <2>1, <2>2 DEF Exit, UnitTypes
<1>5. \A v \in Units \ {u} : UnitRests(v)
  BY <1>1, <1>3 DEF Exit, UnitTypes, Set, UnitRests
<1>6. UnitOK(u)'
  <2>1. /\ stage'[u] = "closing" /\ verdict'[u] = how
        /\ UNCHANGED <<asked, done, written, saved>>
    BY <1>1 DEF Exit, UnitTypes, Set
  <2>2. published[u] = saved[u] /\ asked[u] = Nothing
    BY <1>1, <1>2 DEF UnitOK, UnitTold
  <2>3. \/ how \in {"returned", "commit failed"} /\ published'[u] = written[u]
        \/ how \in {"raised", "commit failed"} /\ published'[u] = saved[u]
    <3>1. CASE how \in {"returned", "commit failed"} /\ Publish(u)
      BY <3>1, PublishTyped
    <3>2. CASE how \in {"raised", "commit failed"} /\ Discard(u)
      BY <3>2, <2>2 DEF Discard
    <3> QED
      BY <3>1, <3>2, <1>1
  <2> QED
    <3>1. UnitCounts(u)'
      BY <1>2, <2>1, <2>2, <2>3 DEF UnitOK, UnitCounts
    <3>2. UnitTold(u)'
      BY <1>2, <2>1, <2>2, <2>3 DEF UnitOK, UnitTold
    <3> QED
      BY <3>1, <3>2 DEF UnitOK
<1> QED
  BY <1>4, <1>5, <1>6, OneUnit

\* The session is closed.
LEMMA CloseKeeps ==
    ASSUME NEW u \in Units, UnitTypes, \A v \in Units : UnitOK(v), Close(u)
    PROVE  UnitTypes' /\ \A v \in Units : UnitOK(v)'
<1>1. stage[u] = "closing" /\ Forget(u)
  BY DEF Close
<1>2. UnitOK(u) /\ MaxStatements \in Nat
  BY UnitOfWorkAssumption
<1>3. UnitTypes'
  <2>1. /\ stage' \in [Units -> {"idle", "block", "leaving", "raising", "closing", "over"}]
        /\ verdict' \in [Units -> {"none", "returned", "raised", "commit failed"}]
    BY <1>1 DEF Forget, UnitTypes, Set
  <2>2. /\ done' \in [Units -> 0 .. MaxStatements]
        /\ written' \in [Units -> Nat] /\ saved' \in [Units -> Nat]
        /\ published' \in [Units -> Nat]
    <3>1. /\ written \in [Units -> Nat] /\ saved \in [Units -> Nat]
          /\ published \in [Units -> Nat]
      BY DEF UnitTypes
    <3>2. 0 \in Nat /\ 0 <= MaxStatements
      BY <1>2
    <3> QED
      BY <3>1, <3>2, <1>1, CountTyped, DoneTyped DEF Forget
  <2>3. loaded' \in [Units -> Keys \cup {NoKey}]
    BY <1>1 DEF Forget, UnitTypes, Set
  <2>4. refused' \in [Units -> BOOLEAN]
    BY <1>1, WritesTyped DEF Forget
  <2> QED
    BY <1>1, <2>1, <2>2, <2>3, <2>4 DEF Forget, UnitTypes
<1>4. \A v \in Units \ {u} : UnitRests(v)
  BY <1>1 DEF Forget, UnitTypes, Set, UnitRests
<1>5. UnitOK(u)'
  <2>1. /\ stage'[u] = "over" /\ verdict'[u] = "none" /\ asked'[u] = Nothing
        /\ done'[u] = 0 /\ written'[u] = 0 /\ saved'[u] = 0 /\ published'[u] = 0
    BY <1>1, <1>2 DEF Forget, UnitTypes, Set, UnitOK, UnitTold
  <2> QED
    <3>1. UnitCounts(u)'
      BY <2>1 DEF UnitOK, UnitCounts
    <3>2. UnitTold(u)'
      BY <2>1 DEF UnitOK, UnitTold
    <3> QED
      BY <3>1, <3>2 DEF UnitOK
<1> QED
  BY <1>3, <1>4, <1>5, OneUnit

\* Every step of a unit keeps the invariant of the units.
LEMMA UnitKeeps ==
    ASSUME NEW u \in Units, UnitInv, UnitNext(u)
    PROVE  UnitInv'
<1>1. PoolOK'
  BY UnitPoolStep, PoolKeeps DEF UnitInv
<1>2. UnitTypes /\ \A v \in Units : UnitOK(v)
  BY DEF UnitInv
<1>3. CASE Create(u) \/ Get(u) \/ Update(u) \/ Delete(u) \/ StatementFails(u)
  BY <1>1, <1>2, <1>3, StatementsAnswer, AnsweredKeeps DEF UnitInv
<1>4. CASE Enter(u) \/ (\E s \in Repertoire[u] : Call(u, s)) \/ Rollback(u)
  BY <1>1, <1>2, <1>4, BlockKeeps DEF UnitInv
<1>5. CASE Commit(u)
  BY <1>1, <1>2, <1>5, CommitKeeps DEF UnitInv
<1>6. CASE EndBlock(u) \/ CancelBlock(u)
  BY <1>1, <1>2, <1>6, LeaveKeeps DEF UnitInv
<1>7. CASE ExitCommit(u) \/ ExitRollback(u)
  BY <1>1, <1>2, <1>7, ExitKeeps DEF UnitInv
<1>8. CASE Close(u)
  BY <1>1, <1>2, <1>8, CloseKeeps DEF UnitInv
<1>9. CASE Connect(u)
  <2>1. UNCHANGED <<table, unit>>
    BY <1>9 DEF Connect
  <2>2. UnitTypes'
    BY <1>2, <2>1 DEF unit, UnitTypes
  <2>3. ASSUME NEW v \in Units PROVE UnitOK(v)'
    BY <1>2, <2>1 DEF unit, UnitOK, UnitCounts, UnitTold
  <2> QED
    BY <1>1, <2>2, <2>3 DEF UnitInv
<1> QED
  BY <1>3, <1>4, <1>5, <1>6, <1>7, <1>8, <1>9 DEF UnitNext, UnitProgress

-----------------------------------------------------------------------------
(* Walks and units together                                                *)

ListingInv == UnitInv /\ WalkInv

\* Nothing has begun.
LEMMA ListingStarts == ListingInit => ListingInv
<1> SUFFICES ASSUME ListingInit PROVE ListingInv
  OBVIOUS
<1>1. UnitInv
  <2>1. table \in [Keys -> Row]
    BY DEF ListingInit, UnitInit, Row
  <2>2. /\ stage \in [Units -> {"idle", "block", "leaving", "raising", "closing", "over"}]
        /\ asked \in [Units -> Statements \cup {Nothing}]
        /\ writes \in [Units -> [Keys -> Row \cup {"kept"}]]
        /\ loaded \in [Units -> Keys \cup {NoKey}]
        /\ verdict \in [Units -> {"none", "returned", "raised", "commit failed"}]
    BY DEF ListingInit, UnitInit, NoWrites
  <2>3. refused \in [Units -> BOOLEAN]
    BY Zenon DEF ListingInit, UnitInit
  <2>4. /\ done \in [Units -> 0 .. MaxStatements] /\ written \in [Units -> Nat]
        /\ saved \in [Units -> Nat] /\ published \in [Units -> Nat]
    BY UnitOfWorkAssumption DEF ListingInit, UnitInit
  <2>5. PoolOK
    BY UnitOfWorkAssumption, FS_EmptySet DEF ListingInit, UnitInit, PoolOK
  <2>6. ASSUME NEW u \in Units PROVE UnitOK(u)
    <3>1. /\ asked[u] = Nothing /\ stage[u] = "idle" /\ verdict[u] = "none"
          /\ done[u] = 0 /\ written[u] = 0 /\ saved[u] = 0 /\ published[u] = 0
      BY DEF ListingInit, UnitInit
    <3>2. UnitCounts(u)
      BY <3>1 DEF UnitCounts
    <3>3. UnitTold(u)
      BY <3>1 DEF UnitTold
    <3> QED
      BY <3>2, <3>3 DEF UnitOK
  <2> QED
    BY <2>1, <2>2, <2>3, <2>4, <2>5, <2>6 DEF UnitInv, UnitTypes
<1>2. WalkInv
  <2>1. Cardinality(Keys) \in Nat
    BY ListingAssumption, FS_CardinalityType
  <2>2. total \in [Readers -> 0 .. Cardinality(Keys)]
    BY <2>1 DEF ListingInit
  <2>3. WalkTypeOK
    BY <2>2 DEF ListingInit, WalkTypeOK, UnderWay
  <2>4. ASSUME NEW r \in Readers PROVE WalkOK(r)
    <3>1. /\ walk[r] = "idle" /\ style[r] = "none" /\ offset[r] = 0 /\ shown[r] = <<>>
          /\ steady[r] = {} /\ ever[r] = {}
      BY DEF ListingInit
    <3>2. HistoryOK(r)
      BY <3>1 DEF HistoryOK, UnderWay
    <3>3. SeekOK(r)
      BY <3>1, NothingInOrder DEF SeekOK, UnderWay
    <3>4. OffsetOK(r)
      BY <3>1 DEF OffsetOK
    <3> QED
      BY <3>2, <3>3, <3>4 DEF WalkOK
  <2> QED
    BY <2>3, <2>4 DEF WalkInv
<1> QED
  BY <1>1, <1>2 DEF ListingInv

\* A walk does nothing to the units but take connections of their pool.
LEMMA ReaderLeavesUnits ==
    ASSUME NEW r \in Readers, UnitInv, Begin(r) \/ ReaderProgress(r)
    PROVE  UnitInv'
<1>1. UNCHANGED <<table, unit>> /\ PoolStep
  <2>1. CASE Begin(r)
    BY <2>1 DEF Begin, RequestPage, PoolStep
  <2>2. CASE GoOn(r)
    BY <2>2 DEF GoOn, RequestPage, PoolStep
  <2>3. CASE TakeConnection(r)
    BY <2>3 DEF TakeConnection, PoolStep
  <2>4. CASE PoolTimesOut(r)
    BY <2>4 DEF PoolTimesOut, PoolStep
  <2>5. CASE Count(r)
    BY <2>5 DEF Count, PoolStep
  <2>6. CASE ReadPage(r)
    BY <2>6 DEF ReadPage, GiveBack, PoolStep
  <2> QED
    BY <2>1, <2>2, <2>3, <2>4, <2>5, <2>6 DEF ReaderProgress
<1>2. UnitTypes'
  BY <1>1 DEF unit, UnitInv, UnitTypes
<1>3. ASSUME NEW u \in Units PROVE UnitOK(u)'
  BY <1>1 DEF unit, UnitInv, UnitOK, UnitCounts, UnitTold
<1>4. PoolOK'
  BY <1>1, PoolKeeps DEF UnitInv
<1> QED
  BY <1>2, <1>3, <1>4 DEF UnitInv

\* Every step keeps the invariant.
LEMMA ListingStepKeeps == ListingInv /\ [ListingNext]_listing => ListingInv'
<1> SUFFICES ASSUME ListingInv, [ListingNext]_listing PROVE ListingInv'
  OBVIOUS
<1> USE DEF ListingInv
<1>1. ASSUME NEW r \in Readers, Begin(r) \/ ReaderProgress(r) PROVE ListingInv'
  <2>1. UnitInv'
    BY <1>1, ReaderLeavesUnits
  <2>2. WalkInv'
    BY <1>1, BeginKeeps, GoOnKeeps, ConnectionKeeps, CountKeeps, ReadPageKeeps
       DEF ReaderProgress
  <2> QED
    BY <2>1, <2>2
<1>2. ASSUME NEW u \in Units, UnitNext(u), Note PROVE ListingInv'
  BY <1>2, UnitKeeps, NoteKeeps
<1>3. CASE UNCHANGED listing
  <2>1. UNCHANGED <<table, unit, connected, walks, seen>>
    BY <1>3 DEF listing
  <2>2. UnitTypes'
    BY <2>1 DEF unit, UnitInv, UnitTypes
  <2>3. ASSUME NEW u \in Units PROVE UnitOK(u)'
    BY <2>1 DEF unit, UnitInv, UnitOK, UnitCounts, UnitTold
  <2>4. PoolOK'
    BY <2>1 DEF UnitInv, PoolOK
  <2>5. WalkTypeOK'
    BY <2>1 DEF walks, seen, WalkInv, WalkTypeOK
  <2>6. ASSUME NEW r \in Readers PROVE WalkOK(r)'
    <3>1. Rests(r) /\ UNCHANGED table
      BY <2>1 DEF walks, seen, Rests
    <3> QED
      BY <3>1, RestingWalk DEF WalkInv
  <2> QED
    BY <2>2, <2>3, <2>4, <2>5, <2>6 DEF UnitInv, WalkInv
<1> QED
  BY <1>1, <1>2, <1>3 DEF ListingNext

\* The invariant holds throughout.
LEMMA ListingInvariant == ListingSpec => []ListingInv
<1> QED
  BY ListingStarts, ListingStepKeeps, PTL DEF ListingSpec

\* Walks, units of work and the table keep their types, a unit is never credited
\* with more writes than it did, and the connections never exceed the pool.
THEOREM ListingTypeCorrectness == ListingSpec => []ListingTypeOK
<1>1. ListingInv => ListingTypeOK
  <2> SUFFICES ASSUME ListingInv PROVE ListingTypeOK
    OBVIOUS
  <2>1. UnitTypes /\ PoolOK /\ WalkTypeOK
    BY DEF ListingInv, UnitInv, WalkInv
  <2>2. ASSUME NEW u \in Units PROVE saved[u] <= written[u] /\ written[u] \in 0 .. MaxStatements
    <3>1. UnitCounts(u)
      BY DEF ListingInv, UnitInv, UnitOK
    <3> QED
      BY <2>1, <3>1, UnitNumbers DEF UnitCounts
  <2>3. UnitTypeOK
    BY <2>1, <2>2 DEF UnitTypeOK, UnitTypes, PoolOK
  <2>4. ASSUME NEW r \in Readers PROVE ToSet(shown[r]) \subseteq Keys
    <3>1. shown[r] \in Seq(Keys)
      BY <2>1 DEF WalkTypeOK
    <3> QED
      BY <3>1, LenProperties DEF ToSet
  <2> QED
    BY <2>1, <2>3, <2>4 DEF ListingTypeOK, WalkTypeOK, UnderWay
<1> QED
  BY <1>1, ListingInvariant, PTL

\* A walk by cursor repeats no row, keeps the order and leaves out no row that was
\* active all the while, whatever is written meanwhile; a walk by offset is exact
\* when nothing is; and no walk is refused a cursor it was given: for every table,
\* every limit and every number of walks and units of work.
THEOREM WalksAreExact == ListingSpec => []WalkIsExact
<1>1. ListingInv => WalkIsExact
  <2> SUFFICES ASSUME ListingInv, NEW r \in Readers
               PROVE  /\ walk[r] = "refused" => shown[r] = <<>>
                      /\ style[r] # "offset" =>
                            /\ InOrder(shown[r], style[r] = "descending")
                            /\ ToSet(shown[r]) \subseteq ever[r]
                            /\ walk[r] = "finished" => steady[r] \subseteq ToSet(shown[r])
                      /\ style[r] = "offset" /\ walk[r] = "finished" /\ ever[r] = steady[r] =>
                            /\ shown[r] = Ordered(steady[r], FALSE)
                            /\ total[r] = Cardinality(steady[r])
    BY DEF WalkIsExact
  <2>1. HistoryOK(r) /\ SeekOK(r) /\ OffsetOK(r)
    BY DEF ListingInv, WalkInv, WalkOK
  <2>2. walk[r] = "refused" => shown[r] = <<>>
    BY <2>1 DEF HistoryOK
  <2>3. style[r] # "offset" =>
           /\ InOrder(shown[r], style[r] = "descending")
           /\ ToSet(shown[r]) \subseteq ever[r]
           /\ walk[r] = "finished" => steady[r] \subseteq ToSet(shown[r])
    BY <2>1 DEF SeekOK
  <2>4. style[r] = "offset" /\ walk[r] = "finished" /\ ever[r] = steady[r] =>
           shown[r] = Ordered(steady[r], FALSE) /\ total[r] = Cardinality(steady[r])
    BY <2>1 DEF OffsetOK
  <2> QED
    BY <2>2, <2>3, <2>4
<1> QED
  BY <1>1, ListingInvariant, PTL

\* A caller is told what became of its block: a block that returned is committed
\* whole, one that raised keeps only what it committed itself, and a commit that
\* fails is done whole or not at all.
THEOREM OutcomesAreTold == ListingSpec => []OutcomeIsTold
<1>1. ListingInv => OutcomeIsTold
  BY DEF ListingInv, UnitInv, UnitOK, UnitTold, OutcomeIsTold
<1> QED
  BY <1>1, ListingInvariant, PTL
=============================================================================
