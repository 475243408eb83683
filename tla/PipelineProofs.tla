--------------------------- MODULE PipelineProofs ---------------------------
(***************************************************************************)
(* Theorems about Idempotency and Pipeline, for any requests, keys, bodies,*)
(* routes, callers, handlers and errors, and any number of expiries: the   *)
(* idempotency middleware runs an operation once and replays only what it  *)
(* answered; the stack around it implements it, sends every client one     *)
(* answer and keeps books that match it.                                   *)
(***************************************************************************)
EXTENDS Pipeline, FiniteSetTheorems, SequenceTheorems, TLAPS

USE RequestsAssumption DEF Records, Empty, OutcomeKinds

\* A record carries the fingerprint of the request that wrote it, and a done
\* record the response that request gave, and is the last thing it did.
RecordsAreTrue ==
    \A k \in RedisKeys : store[k] # Empty =>
        /\ KeyOf[store[k].by] = k
        /\ store[k].print = Fingerprint(store[k].by)
        /\ pc[store[k].by] # "new"
        /\ store[k].state = "done" => /\ answer[store[k].by] = "own"
                                      /\ pc[store[k].by] = "over"

\* A request about to store its record has given its own response, a request
\* still underway has given none, and a replay never changes afterwards.
AnswersAreTrue ==
    \A r \in Requests :
        /\ pc[r] = "record" => answer[r] = "own"
        /\ pc[r] \in {"new", "claim", "get", "run", "bare"} => answer[r] = "none"
        /\ replayed[r] # NoRequest => pc[r] = "over"
        /\ \A s \in Requests : replayed[r] = s => pc[s] # "new"

ReplayInv == TypeOK /\ RecordsAreTrue /\ AnswersAreTrue /\ ReplayIsFaithful

\* Every step keeps records and replays true.
LEMMA ReplayInvStep == ReplayInv /\ [Next]_vars => ReplayInv'
<1> SUFFICES ASSUME ReplayInv, [Next]_vars PROVE ReplayInv'
  OBVIOUS
<1> USE DEF ReplayInv, TypeOK, RecordsAreTrue, AnswersAreTrue, ReplayIsFaithful,
            Fingerprint, Goto, Put, Record, Answer, Key, NoteEnd, Reopen, Strand,
            history
<1>1. ASSUME NEW r \in Requests, BufferBody(r) PROVE ReplayInv'
  BY <1>1 DEF BufferBody
<1>2. ASSUME NEW r \in Requests, ClaimSet(r) PROVE ReplayInv'
  BY <1>2 DEF ClaimSet
<1>3. ASSUME NEW r \in Requests, ClaimGet(r) PROVE ReplayInv'
  <2>1. CASE Key(r) = Empty /\ Goto(r, "run") /\ UNCHANGED <<answer, replayed>>
    BY <1>3, <2>1 DEF ClaimGet
  <2>2. CASE Key(r) # Empty /\ HandleExisting(r, Key(r)) /\ UNCHANGED replayed
    <3>1. /\ UNCHANGED <<store, replayed, whole, committed, history, expiries>>
          /\ pc[r] = "get"
          /\ pc' = [pc EXCEPT ![r] = "over"]
          /\ \E what \in {"mismatch", "in_progress", "replay"} :
                 answer' = [answer EXCEPT ![r] = what]
      BY <1>3, <2>2 DEF ClaimGet, HandleExisting, Replay
    <3>2. TypeOK'
      BY <3>1
    <3>3. RecordsAreTrue'
      BY <3>1
    <3>4. AnswersAreTrue'
      BY <3>1
    <3>5. ReplayIsFaithful'
      BY <3>1
    <3> QED
      BY <3>2, <3>3, <3>4, <3>5
  <2>3. CASE /\ Key(r) # Empty /\ Key(r).print = Fingerprint(r)
             /\ Key(r).state = "done" /\ Replay(r, Key(r))
    <3>1. TypeOK' /\ RecordsAreTrue'
      BY <1>3, <2>3 DEF ClaimGet, Replay
    <3>2. AnswersAreTrue'
      BY <1>3, <2>3 DEF ClaimGet, Replay
    <3>3. ReplayIsFaithful'
      BY <1>3, <2>3 DEF ClaimGet, Replay
    <3> QED
      BY <3>1, <3>2, <3>3
  <2> QED
    BY <1>3, <2>1, <2>2, <2>3 DEF ClaimGet, HandleExisting
<1>4. ASSUME NEW r \in Requests, ClaimFails(r) PROVE ReplayInv'
  BY <1>4 DEF ClaimFails
<1>5. ASSUME NEW r \in Requests, Commit(r) PROVE ReplayInv'
  BY <1>5 DEF Commit
<1>6. ASSUME NEW r \in Requests, NEW outcome \in Outcomes, HandlerEnds(r, outcome)
      PROVE  ReplayInv'
  BY <1>6 DEF HandlerEnds
<1>7. ASSUME NEW r \in Requests, StoreRecord(r) PROVE ReplayInv'
  BY <1>7 DEF StoreRecord
<1>8. ASSUME NEW r \in Requests, Release(r) PROVE ReplayInv'
  <2>1. TypeOK' /\ AnswersAreTrue' /\ ReplayIsFaithful'
    BY <1>8 DEF Release
  <2>2. RecordsAreTrue'
    BY <1>8 DEF Release
  <2> QED
    BY <2>1, <2>2
<1>9. ASSUME NEW k \in RedisKeys, Expire(k) PROVE ReplayInv'
  BY <1>9 DEF Expire
<1>10. ASSUME NEW r \in Requests, Cancel(r) PROVE ReplayInv'
  <2>1. TypeOK'
    BY <1>10 DEF Cancel
  <2>2. RecordsAreTrue'
    BY <1>10 DEF Cancel
  <2>3. AnswersAreTrue'
    BY <1>10 DEF Cancel
  <2>4. ReplayIsFaithful'
    BY <1>10 DEF Cancel
  <2> QED
    BY <2>1, <2>2, <2>3, <2>4
<1>11. CASE UNCHANGED vars
  BY <1>11 DEF vars
<1> QED
  BY <1>1, <1>2, <1>3, <1>4, <1>5, <1>6, <1>7, <1>8, <1>9, <1>10, <1>11
  DEF Next, RequestStep

\* The state and the records keep their types and their meaning throughout.
LEMMA ReplayInvariance == Spec => []ReplayInv
<1>1. Init => ReplayInv
  BY DEF Init, ReplayInv, TypeOK, RecordsAreTrue, AnswersAreTrue, ReplayIsFaithful
<1>2. ReplayInv /\ [Next]_vars => ReplayInv'
  BY ReplayInvStep
<1> QED
  BY <1>1, <1>2, PTL DEF Spec

\* Requests, records, answers and histories stay in their ranges.
THEOREM TypeCorrectness == Spec => []TypeOK
<1>1. ReplayInv => TypeOK
  BY DEF ReplayInv
<1> QED
  BY <1>1, ReplayInvariance, PTL

\* A stored response is replayed to the same caller, endpoint, key and content
\* only, and only complete responses below 500 are.
THEOREM ReplaysAreFaithful == Spec => []ReplayIsFaithful
<1>1. ReplayInv => ReplayIsFaithful
  BY DEF ReplayInv
<1> QED
  BY <1>1, ReplayInvariance, PTL

-----------------------------------------------------------------------------
(* One effect per key, until the key is reopened.                          *)

\* Until its key is reopened, a request that lost the SET finds a record, and
\* the runner of the key (also one that has run) is the one the record names.
RunnerHoldsKey ==
    \A r \in Requests : KeyOf[r] \notin reopened =>
        /\ pc[r] \notin {"bare", "release"}
        /\ pc[r] = "get" => Key(r) # Empty
        /\ pc[r] \in {"run", "record"} \/ r \in committed =>
               Key(r) # Empty /\ Key(r).by = r

EffectInv == ReplayInv /\ RunnerHoldsKey

\* Every step keeps each runner the holder of its key until that is reopened.
LEMMA EffectInvStep == EffectInv /\ [Next]_vars => EffectInv'
<1> SUFFICES ASSUME EffectInv, [Next]_vars PROVE RunnerHoldsKey'
  BY ReplayInvStep DEF EffectInv
<1> USE DEF EffectInv, ReplayInv, TypeOK, RunnerHoldsKey, Fingerprint, Goto, Put,
            Record, Answer, Key, NoteEnd, Reopen, Strand, history
<1>1. ASSUME NEW r \in Requests, BufferBody(r) PROVE RunnerHoldsKey'
  BY <1>1 DEF BufferBody
<1>2. ASSUME NEW r \in Requests, ClaimSet(r) PROVE RunnerHoldsKey'
  BY <1>2 DEF ClaimSet
<1>3. ASSUME NEW r \in Requests, ClaimGet(r) PROVE RunnerHoldsKey'
  BY <1>3 DEF ClaimGet, HandleExisting, Replay
<1>4. ASSUME NEW r \in Requests, ClaimFails(r) PROVE RunnerHoldsKey'
  BY <1>4 DEF ClaimFails
<1>5. ASSUME NEW r \in Requests, Commit(r) PROVE RunnerHoldsKey'
  BY <1>5 DEF Commit
<1>6. ASSUME NEW r \in Requests, NEW outcome \in Outcomes, HandlerEnds(r, outcome)
      PROVE  RunnerHoldsKey'
  BY <1>6 DEF HandlerEnds
<1>7. ASSUME NEW r \in Requests, StoreRecord(r) PROVE RunnerHoldsKey'
  BY <1>7 DEF StoreRecord
<1>8. ASSUME NEW r \in Requests, Release(r) PROVE RunnerHoldsKey'
  BY <1>8 DEF Release
<1>9. ASSUME NEW k \in RedisKeys, Expire(k) PROVE RunnerHoldsKey'
  BY <1>9 DEF Expire
<1>10. ASSUME NEW r \in Requests, Cancel(r) PROVE RunnerHoldsKey'
  BY <1>10 DEF Cancel
<1>11. CASE UNCHANGED vars
  BY <1>11 DEF vars
<1> QED
  BY <1>1, <1>2, <1>3, <1>4, <1>5, <1>6, <1>7, <1>8, <1>9, <1>10, <1>11
  DEF Next, RequestStep

\* The invariant above holds throughout.
LEMMA EffectInvariance == Spec => []EffectInv
<1>1. Init => EffectInv
  BY DEF Init, EffectInv, ReplayInv, TypeOK, RecordsAreTrue, AnswersAreTrue,
         ReplayIsFaithful, RunnerHoldsKey
<1>2. EffectInv /\ [Next]_vars => EffectInv'
  BY EffectInvStep
<1> QED
  BY <1>1, <1>2, PTL DEF Spec

\* However often an operation is sent, across failing Redis calls, cancelled
\* handlers and dead processes, it is started and takes effect at most once
\* until its key is reopened.
THEOREM EffectIsOnce == Spec => []OneEffectUnlessReopened
<1>1. EffectInv => OneEffectUnlessReopened
  BY DEF EffectInv, RunnerHoldsKey, OneEffectUnlessReopened, Key
<1> QED
  BY <1>1, EffectInvariance, PTL

\* Until its key is reopened no request takes a stored response away.
THEOREM RecordsAreKept == Spec => DoneRecordIsKept
<1> DEFINE Kept == \A k \in RedisKeys \ reopened' :
        store[k] # Empty /\ store[k].state = "done" => store'[k] = store[k]
<1>1. EffectInv /\ [Next]_vars => [Kept]_vars
  <2> SUFFICES ASSUME EffectInv, Next, NEW k \in RedisKeys, k \notin reopened',
                      store[k] # Empty, store[k].state = "done"
               PROVE  store'[k] = store[k]
    OBVIOUS
  <2> USE DEF EffectInv, ReplayInv, TypeOK, RecordsAreTrue, RunnerHoldsKey, Put,
              Key, Reopen, history
  <2>1. ASSUME NEW r \in Requests, RequestStep(r) PROVE store'[k] = store[k]
    <3>1. CASE BufferBody(r)
      BY <3>1 DEF BufferBody
    <3>2. CASE ClaimSet(r)
      BY <3>2 DEF ClaimSet
    <3>3. CASE ClaimGet(r)
      BY <3>3 DEF ClaimGet
    <3>4. CASE ClaimFails(r)
      BY <3>4 DEF ClaimFails
    <3>5. CASE Commit(r)
      BY <3>5 DEF Commit
    <3>6. ASSUME NEW outcome \in Outcomes, HandlerEnds(r, outcome)
          PROVE  store'[k] = store[k]
      BY <3>6 DEF HandlerEnds
    <3>7. CASE StoreRecord(r)
      BY <3>7 DEF StoreRecord
    <3>8. CASE Release(r)
      BY <3>8 DEF Release
    <3>9. CASE Cancel(r)
      BY <3>9 DEF Cancel
    <3> QED
      BY <2>1, <3>1, <3>2, <3>3, <3>4, <3>5, <3>6, <3>7, <3>8, <3>9 DEF RequestStep
  <2>2. ASSUME NEW j \in RedisKeys, Expire(j) PROVE store'[k] = store[k]
    BY <2>2 DEF Expire
  <2> QED
    BY <2>1, <2>2 DEF Next
<1> QED
  BY <1>1, EffectInvariance, PTL DEF Spec, DoneRecordIsKept
-----------------------------------------------------------------------------
(* Markers and their runners.                                              *)

\* Every step leaves each marker with its runner, or notes it as stranded.
LEMMA MarkerStep ==
    ReplayInv /\ MarkerHasRunner /\ [Next]_vars => MarkerHasRunner'
<1> SUFFICES ASSUME ReplayInv, MarkerHasRunner, [Next]_vars PROVE MarkerHasRunner'
  OBVIOUS
<1> USE DEF ReplayInv, TypeOK, RecordsAreTrue, MarkerHasRunner, Fingerprint, Goto,
            Put, Record, Answer, Key, NoteEnd, Reopen, Strand, history
<1>1. ASSUME NEW r \in Requests, BufferBody(r) PROVE MarkerHasRunner'
  BY <1>1 DEF BufferBody
<1>2. ASSUME NEW r \in Requests, ClaimSet(r) PROVE MarkerHasRunner'
  BY <1>2 DEF ClaimSet
<1>3. ASSUME NEW r \in Requests, ClaimGet(r) PROVE MarkerHasRunner'
  BY <1>3 DEF ClaimGet, HandleExisting, Replay
<1>4. ASSUME NEW r \in Requests, ClaimFails(r) PROVE MarkerHasRunner'
  BY <1>4 DEF ClaimFails
<1>5. ASSUME NEW r \in Requests, Commit(r) PROVE MarkerHasRunner'
  BY <1>5 DEF Commit
<1>6. ASSUME NEW r \in Requests, NEW outcome \in Outcomes, HandlerEnds(r, outcome)
      PROVE  MarkerHasRunner'
  BY <1>6 DEF HandlerEnds
<1>7. ASSUME NEW r \in Requests, StoreRecord(r) PROVE MarkerHasRunner'
  BY <1>7 DEF StoreRecord
<1>8. ASSUME NEW r \in Requests, Release(r) PROVE MarkerHasRunner'
  BY <1>8 DEF Release
<1>9. ASSUME NEW k \in RedisKeys, Expire(k) PROVE MarkerHasRunner'
  BY <1>9 DEF Expire
<1>10. ASSUME NEW r \in Requests, Cancel(r) PROVE MarkerHasRunner'
  BY <1>10 DEF Cancel
<1>11. CASE UNCHANGED vars
  BY <1>11 DEF vars
<1> QED
  BY <1>1, <1>2, <1>3, <1>4, <1>5, <1>6, <1>7, <1>8, <1>9, <1>10, <1>11
  DEF Next, RequestStep

\* A client is told "in progress" only while a request that can finish the
\* operation is underway, or after one was cut off or lost a Redis call.
THEOREM MarkersHaveRunners == Spec => []MarkerHasRunner
<1>1. Init => MarkerHasRunner
  BY DEF Init, MarkerHasRunner
<1>2. ReplayInv /\ MarkerHasRunner /\ [Next]_vars => MarkerHasRunner'
  BY MarkerStep
<1> QED
  BY <1>1, <1>2, ReplayInvariance, PTL DEF Spec

HIDE RequestsAssumption DEF Records, Empty, OutcomeKinds

-----------------------------------------------------------------------------
(* Refinement                                                              *)

\* Every step of the stack is a step of the idempotency middleware or leaves
\* it alone.
LEMMA MiddlewareStep == [PNext]_pvars => [Next]_vars
<1> SUFFICES ASSUME [PNext]_pvars PROVE [Next]_vars
  OBVIOUS
<1>1. ASSUME NEW r \in Requests,
             Enter(r) \/ BodyOverflows(r) \/ Authorize(r) \/ StartResponse(r)
             \/ BodyBegins(r) \/ Deadline(r) \/ Complete(r)
      PROVE  UNCHANGED vars
  BY <1>1 DEF Enter, BodyOverflows, Authorize, StartResponse, BodyBegins, Deadline,
              Complete
<1>2. ASSUME NEW r \in Requests, Reserves(r) \/ Settles(r) \/ IsCutOff(r)
      PROVE  RequestStep(r)
  BY <1>2 DEF Reserves, Settles, IsCutOff, RequestStep
<1>3. ASSUME NEW r \in Requests, Effect(r) PROVE RequestStep(r) \/ UNCHANGED vars
  BY <1>3 DEF Effect, RequestStep
<1>4. ASSUME NEW r \in Requests, NEW outcome \in Outcomes, EndpointEnds(r, outcome)
      PROVE  RequestStep(r) \/ UNCHANGED vars
  BY <1>4 DEF EndpointEnds, RequestStep
<1>5. CASE UNCHANGED pvars
  BY <1>5 DEF pvars
<1> QED
  BY <1>1, <1>2, <1>3, <1>4, <1>5 DEF PNext, Next

\* The stack implements the idempotency middleware of Idempotency: deadlines,
\* refused bodies and cancellations from outside add no behaviour to it.
THEOREM ImplementsIdempotency == PSpec => Spec
<1>1. PInit => Init
  BY DEF PInit
<1> QED
  BY <1>1, MiddlewareStep, PTL DEF PSpec, Spec

\* Inside the stack too, a stored response is replayed only to the same caller,
\* endpoint, key and content, and only complete responses below 500 are.
THEOREM PipelineReplaysAreFaithful == PSpec => []ReplayIsFaithful
BY ImplementsIdempotency, ReplaysAreFaithful, PTL

\* Nor does a deadline, an oversized body or a refusal on the way lead to a
\* second effect of one operation.
THEOREM PipelineEffectIsOnce == PSpec => []OneEffectUnlessReopened
BY ImplementsIdempotency, EffectIsOnce, PTL

-----------------------------------------------------------------------------
(* Types                                                                   *)

\* The refusals of guards.
LEMMA Refusals ==
    ASSUME NEW route \in {KeyedRoute} \cup OtherRoutes, NEW credential
    PROVE  Refusal(route, credential) \in {0, 401, 403}
BY PipelineAssumption DEF Refusal, Requires, CurrentUser, OptionalUser, CheckApiKey

\* A response to one that has none is the only one.
LEMMA FirstStart ==
    ASSUME NEW status \in Statuses
    PROVE  /\ Append(<<>>, status) = <<status>>
           /\ <<status>> \in Seq(Statuses)
           /\ Len(<<status>>) = 1
           /\ <<status>>[1] = status
OBVIOUS

\* What a request has sent last is a status.
LEMMA StatusSeenType ==
    ASSUME PTypeOK, NEW r \in Requests
    PROVE  StatusSeen(r) \in Statuses
<1>1. wire[r] \in Seq(Statuses)
  BY DEF PTypeOK
<1>2. wire[r] # <<>> => Len(wire[r]) \in 1 .. Len(wire[r])
  BY <1>1
<1> QED
  BY <1>1, <1>2 DEF StatusSeen, Statuses

\* The layers, the exception handlers and the endpoint start responses with
\* statuses.
LEMMA ResponseStatuses ==
    /\ {PROBLEM_TYPES.PAYLOAD_TOO_LARGE, PROBLEM_TYPES.TIMEOUT, UnhandledStatus, 500}
           \subseteq Statuses \ {0}
    /\ \A r \in Requests : PTypeOK /\ guard[r] # Unanswered =>
           StatusesOf(r) \subseteq Statuses \ {0}
<1>1. {PROBLEM_TYPES.PAYLOAD_TOO_LARGE, PROBLEM_TYPES.TIMEOUT, UnhandledStatus, 500}
          \subseteq Statuses \ {0}
  BY DEF PROBLEM_TYPES, UnhandledStatus, Statuses
<1>2. ASSUME NEW r \in Requests, Admits(r)
      PROVE  StatusesOf(r) \subseteq Statuses \ {0}
  BY <1>2, PipelineAssumption DEF StatusesOf, Statuses
<1>3. ASSUME PTypeOK, NEW r \in Requests, guard[r] # Unanswered, ~Admits(r)
      PROVE  StatusesOf(r) \subseteq Statuses \ {0}
  BY <1>3 DEF PTypeOK, Admits, StatusesOf, Statuses
<1> QED
  BY <1>1, <1>2, <1>3

\* So does the idempotency middleware, which answers only before the endpoint.
LEMMA AnswerStatuses ==
    ASSUME TypeOK, PTypeOK, NEW r \in Requests, Reserves(r), pc'[r] = "over"
    PROVE  AnswerStatus(answer'[r], replayed'[r]) \in Statuses
<1>1. ClaimGet(r) \/ ClaimFails(r)
  BY DEF Reserves, BufferBody, ClaimSet, Goto, TypeOK
<1>2. CASE ClaimGet(r) /\ Key(r).state = "done" /\ Replay(r, Key(r))
  <2>1. answer'[r] = "replay" /\ replayed'[r] \in Requests
    BY <1>2, RequestsAssumption
    DEF ClaimGet, Goto, Replay, Answer, Key, TypeOK, Records, Empty
  <2>2. AnswerStatus(answer'[r], replayed'[r]) = started[replayed'[r]]
    BY <2>1 DEF AnswerStatus
  <2> QED
    BY <2>1, <2>2 DEF PTypeOK
<1>3. CASE /\ ClaimGet(r)
           /\ Key(r).state # "done" \/ Key(r).print # Fingerprint(r)
  <2>1. answer'[r] \in {"in_progress", "mismatch"}
    BY <1>3 DEF ClaimGet, HandleExisting, Replay, Goto, Answer, Key, TypeOK, Records, Empty
  <2> QED
    BY <2>1 DEF AnswerStatus, Statuses
<1>4. CASE ClaimFails(r)
  <2>1. answer'[r] = "unavailable"
    BY <1>4 DEF ClaimFails, Goto, Answer, TypeOK
  <2> QED
    BY <2>1 DEF AnswerStatus, Statuses
<1> QED
  BY <1>1, <1>2, <1>3, <1>4 DEF ClaimGet, HandleExisting, Goto, TypeOK

\* Sending a response start to a client.
LEMMA Sending ==
    ASSUME NEW S, NEW f \in [Requests -> Seq(S)], NEW r \in Requests, NEW x \in S
    PROVE  /\ [f EXCEPT ![r] = Append(@, x)] \in [Requests -> Seq(S)]
           /\ [f EXCEPT ![r] = <<x>>] \in [Requests -> Seq(S)]
<1>1. Append(f[r], x) \in Seq(S) /\ <<x>> \in Seq(S)
  OBVIOUS
<1> QED
  BY <1>1

\* What a step of a request inside the layers may mean for them.
GoesOn(r) ==
    \/ Overflows(r) \/ Raises(r) \/ IsCancelled(r) \/ Proceeds(r)
    \/ Returns(r) /\ UNCHANGED <<started, wire>>
    \/ \E status \in Statuses : started[r] = 0 /\ Returns(r) /\ Respond(r, status)

\* The ways on and out keep the types.
LEMMA GoesOnTypes ==
    ASSUME PTypeOK, NEW r \in Requests, GoesOn(r)
    PROVE  /\ stage' \in [Requests -> {"idle", "inside", "cut", "out", "over"}]
           /\ started' \in [Requests -> Statuses]
           /\ wire' \in [Requests -> Seq(Statuses)]
           /\ active' \in Int
           /\ metric' \in [Requests -> Statuses]
           /\ access' \in [Requests -> {request_failed} \cup Statuses]
<1>1. stage' \in [Requests -> {"idle", "inside", "cut", "out", "over"}]
  <2>1. \/ stage' = stage
        \/ \E where \in {"out", "over"} : stage' = [stage EXCEPT ![r] = where]
    BY DEF GoesOn, Overflows, Returns, Raises, IsCancelled, Proceeds, MoveTo
  <2>2. stage \in [Requests -> {"idle", "inside", "cut", "out", "over"}]
    BY DEF PTypeOK
  <2> QED
    BY <2>1, <2>2
<1>2. started' \in [Requests -> Statuses]
  <2>1. \/ started' = started
        \/ \E status \in Statuses : started' = [started EXCEPT ![r] = status]
    BY ResponseStatuses DEF GoesOn, Overflows, Respond, Raises, IsCancelled, Proceeds
  <2>2. started \in [Requests -> Statuses]
    BY DEF PTypeOK
  <2> QED
    BY <2>1, <2>2
<1>3. wire' \in [Requests -> Seq(Statuses)]
  <2>1. \/ wire' = wire
        \/ \E status \in Statuses : \/ wire' = [wire EXCEPT ![r] = Append(@, status)]
                                    \/ wire' = [wire EXCEPT ![r] = <<status>>]
    BY ResponseStatuses DEF GoesOn, Overflows, Respond, Raises, IsCancelled, Proceeds
  <2>2. wire \in [Requests -> Seq(Statuses)]
    BY DEF PTypeOK
  <2>3. CASE wire' = wire
    BY <2>2, <2>3
  <2>4. ASSUME NEW status \in Statuses
        PROVE  /\ [wire EXCEPT ![r] = Append(@, status)] \in [Requests -> Seq(Statuses)]
               /\ [wire EXCEPT ![r] = <<status>>] \in [Requests -> Seq(Statuses)]
    BY <2>2, Sending, Zenon
  <2> QED
    BY <2>1, <2>3, <2>4
<1>4. active' \in Int
  BY DEF GoesOn, PTypeOK, Overflows, Returns, Raises, IsCancelled, Proceeds, RecordMetrics
<1>5. metric' \in [Requests -> Statuses]
  <2>1. metric' = metric \/ metric' = [metric EXCEPT ![r] = StatusSeen(r)]
    BY DEF GoesOn, Overflows, Returns, Raises, IsCancelled, Proceeds, RecordMetrics
  <2>2. metric \in [Requests -> Statuses]
    BY DEF PTypeOK
  <2> QED
    BY <2>1, <2>2, StatusSeenType
<1>6. access' \in [Requests -> {request_failed} \cup Statuses]
  <2>1. access' = access \/ access' = [access EXCEPT ![r] = request_failed]
    BY DEF GoesOn, Overflows, Returns, Raises, IsCancelled, Proceeds
  <2>2. access \in [Requests -> {request_failed} \cup Statuses]
    BY DEF PTypeOK
  <2> QED
    BY <2>1, <2>2
<1> QED
  BY <1>1, <1>2, <1>3, <1>4, <1>5, <1>6

-----------------------------------------------------------------------------
(* One answer, and books that match it                                     *)

\* Until it is over a request has no line in the access log, and until it has a
\* response its client was sent none; the idempotency middleware answers only
\* those without one.
RequestFits(r) ==
    /\ Len(wire[r]) <= 1
    /\ stage[r] = "idle" => started[r] = 0 /\ pc[r] = "new"
    /\ stage[r] \in {"idle", "inside", "cut"} /\ started[r] = 0 => wire[r] = <<>>
    /\ Within(r) /\ keyed[r] /\ pc[r] \in {"new", "claim", "get"} => started[r] = 0
    /\ stage[r] # "over" => access[r] = 0
    /\ stage[r] = "over" /\ access[r] # 0 => wire[r] # <<>>
    /\ stage[r] = "over" /\ wire[r] # <<>> =>
           /\ metric[r] = wire[r][1]
           /\ access[r] \in {0, request_failed, wire[r][1]}

\* What the outer layers keep of one request.
Row(r) == <<stage[r], started[r], wire[r], metric[r], access[r]>>

\* The gauge counts the requests between their way in and their way out.
Busy == {r \in Requests : stage[r] \notin {"idle", "over"}}
ActiveFits == IsFiniteSet(Busy) /\ active = Cardinality(Busy)

\* How a step of one request moves the gauge.
Comes(r) == r \notin Busy /\ r \in Busy' /\ active' = active + 1
Stays(r) == r \in Busy /\ r \in Busy' /\ active' = active
Leaves(r) == r \in Busy /\ r \notin Busy' /\ active' = active - 1

\* A request that moves alone, and the gauge with it, leaves it right.
LEMMA ActiveStep ==
    ASSUME PTypeOK, ActiveFits, NEW r \in Requests,
           \A s \in Requests \ {r} : stage'[s] = stage[s],
           Comes(r) \/ Stays(r) \/ Leaves(r)
    PROVE  ActiveFits'
<1>1. \A s \in Requests \ {r} : s \in Busy' <=> s \in Busy
  BY DEF Busy
<1>2. CASE Comes(r)
  <2>1. Busy' = Busy \cup {r}
    BY <1>1, <1>2 DEF Comes, Busy
  <2> QED
    BY <1>2, <2>1, FS_AddElement DEF ActiveFits, Comes
<1>3. CASE Stays(r)
  <2>1. Busy' = Busy
    BY <1>1, <1>3 DEF Stays, Busy
  <2> QED
    BY <1>3, <2>1 DEF ActiveFits, Stays
<1>4. CASE Leaves(r)
  <2>1. Busy' = Busy \ {r}
    BY <1>1, <1>4 DEF Leaves, Busy
  <2> QED
    BY <1>4, <2>1, FS_RemoveElement DEF ActiveFits, Leaves
<1> QED
  BY <1>2, <1>3, <1>4

\* What a request's wrappers saw is what its client was sent, or 500.
LEMMA SeenOnTheWire ==
    ASSUME PTypeOK, NEW r \in Requests, Len(wire[r]) <= 1
    PROVE  StatusSeen(r) = IF wire[r] = <<>> THEN 500 ELSE wire[r][1]
<1>1. wire[r] \in Seq(Statuses)
  BY DEF PTypeOK
<1>2. wire[r] # <<>> => Len(wire[r]) \in Nat \ {0}
  BY <1>1, EmptySeq, Zenon
<1> QED
  BY <1>2 DEF StatusSeen

\* The three ways on of a request inside the layers: it is answered or leaves as
\* it is, it is over, or it stays.
IsOut(r) ==
    /\ stage'[r] = "out"
    /\ Len(wire'[r]) <= 1
    /\ UNCHANGED <<active, metric, access>>
IsOver(r) ==
    /\ stage'[r] = "over"
    /\ access'[r] \in {0, request_failed}
    /\ access'[r] # 0 => wire[r] # <<>>
    /\ metric'[r] = StatusSeen(r)
    /\ active' = active - 1
    /\ UNCHANGED wire

\* A request inside the layers takes one of those ways, and the others stay.
LEMMA GoesOnRows ==
    ASSUME PTypeOK, NEW r \in Requests, Within(r), RequestFits(r), GoesOn(r)
    PROVE  /\ \A s \in Requests \ {r} : Row(s)' = Row(s)
           /\ IsOut(r) \/ IsOver(r) \/ Proceeds(r)
<1>1. /\ DOMAIN stage = Requests /\ DOMAIN started = Requests /\ DOMAIN wire = Requests
      /\ DOMAIN metric = Requests /\ DOMAIN access = Requests
  BY DEF PTypeOK
<1>2. started[r] = 0 => wire[r] = <<>>
  BY DEF Within, RequestFits
<1>3. Len(wire[r]) <= 1 /\ access[r] = 0
  BY DEF Within, RequestFits
<1>4. ASSUME NEW status \in Statuses
      PROVE  Append(<<>>, status) = <<status>> /\ Len(<<status>>) = 1
  BY FirstStart
<1>5. CASE Overflows(r)
  <2>1. \A s \in Requests \ {r} : Row(s)' = Row(s)
    BY <1>1, <1>5 DEF Overflows, Returns, MoveTo, Respond, Row
  <2>2. IsOut(r)
    BY <1>1, <1>2, <1>3, <1>4, <1>5, ResponseStatuses
    DEF Overflows, Returns, MoveTo, Respond, IsOut
  <2> QED
    BY <2>1, <2>2
<1>6. CASE Raises(r)
  <2>1. \A s \in Requests \ {r} : Row(s)' = Row(s)
    BY <1>1, <1>6 DEF Raises, MoveTo, RecordMetrics, Row
  <2>2. CASE wire[r] = <<>>
    <3>1. Len(wire'[r]) = 1
      BY <1>1, <1>4, <1>6, <2>2, ResponseStatuses DEF Raises
    <3> QED
      BY <1>1, <1>6, <2>1, <2>2, <3>1 DEF Raises, MoveTo, IsOut
  <2>3. CASE wire[r] # <<>>
    <3>1. /\ stage'[r] = "over" /\ access'[r] = request_failed
          /\ metric'[r] = StatusSeen(r) /\ active' = active - 1 /\ UNCHANGED wire
      BY <1>1, <1>6, <2>3 DEF Raises, MoveTo, RecordMetrics
    <3> QED
      BY <2>1, <2>3, <3>1 DEF IsOver
  <2> QED
    BY <2>2, <2>3
<1>7. CASE IsCancelled(r)
  <2>1. \A s \in Requests \ {r} : Row(s)' = Row(s)
    BY <1>1, <1>7 DEF IsCancelled, MoveTo, RecordMetrics, Row
  <2>2. IsOut(r) \/ IsOver(r)
    BY <1>1, <1>2, <1>3, <1>4, <1>7, ResponseStatuses
    DEF IsCancelled, MoveTo, RecordMetrics, IsOut, IsOver
  <2> QED
    BY <2>1, <2>2
<1>8. CASE Proceeds(r)
  BY <1>8 DEF Proceeds, Row
<1>9. CASE Returns(r) /\ UNCHANGED <<started, wire>>
  BY <1>1, <1>3, <1>9 DEF Returns, MoveTo, Row, IsOut
<1>10. ASSUME NEW status \in Statuses, started[r] = 0, Returns(r), Respond(r, status)
       PROVE  IsOut(r) /\ \A s \in Requests \ {r} : Row(s)' = Row(s)
  <2>1. \A s \in Requests \ {r} : Row(s)' = Row(s)
    BY <1>1, <1>10 DEF Returns, MoveTo, Respond, Row
  <2>2. IsOut(r)
    BY <1>1, <1>2, <1>4, <1>10 DEF Returns, MoveTo, Respond, IsOut
  <2> QED
    BY <2>1, <2>2
<1> QED
  BY <1>5, <1>6, <1>7, <1>8, <1>9, <1>10 DEF GoesOn

\* Steps of a request in the idempotency middleware are its own, and lead on.
LEMMA PcStep ==
    ASSUME TypeOK, NEW r \in Requests, RequestStep(r) \/ UNCHANGED vars
    PROVE  /\ \A s \in Requests \ {r} : pc'[s] = pc[s]
           /\ pc'[r] \in {"new", "claim", "get"} => pc[r] \in {"new", "claim", "get"}
<1> USE DEF TypeOK, Goto, Answer
<1>1. CASE BufferBody(r) \/ ClaimSet(r) \/ ClaimFails(r) \/ Commit(r)
  BY <1>1 DEF BufferBody, ClaimSet, ClaimFails, Commit
<1>2. CASE ClaimGet(r)
  BY <1>2 DEF ClaimGet, HandleExisting, Replay
<1>3. ASSUME NEW outcome \in Outcomes, HandlerEnds(r, outcome)
      PROVE  /\ \A s \in Requests \ {r} : pc'[s] = pc[s]
             /\ pc'[r] \notin {"new", "claim", "get"}
  BY <1>3 DEF HandlerEnds
<1>4. CASE StoreRecord(r) \/ Release(r) \/ Cancel(r)
  BY <1>4 DEF StoreRecord, Release, Cancel
<1>5. CASE UNCHANGED vars
  BY <1>5 DEF vars
<1> QED
  BY <1>1, <1>2, <1>3, <1>4, <1>5 DEF RequestStep

\* The requests next to one that moves alone stay as they are.
LEMMA OthersFit ==
    ASSUME NEW r \in Requests, \A s \in Requests : RequestFits(s),
           \A s \in Requests \ {r} :
               Row(s)' = Row(s) /\ pc'[s] = pc[s] /\ keyed'[s] = keyed[s],
           RequestFits(r)'
    PROVE  \A s \in Requests : RequestFits(s)'
<1> SUFFICES ASSUME NEW s \in Requests \ {r} PROVE RequestFits(s)'
  OBVIOUS
<1>1. /\ stage'[s] = stage[s] /\ started'[s] = started[s] /\ wire'[s] = wire[s]
      /\ metric'[s] = metric[s] /\ access'[s] = access[s]
      /\ pc'[s] = pc[s] /\ keyed'[s] = keyed[s]
  BY DEF Row
<1>2. RequestFits(s)
  OBVIOUS
<1> QED
  BY <1>1, <1>2 DEF RequestFits, Within

\* A request that goes on inside the layers, or leaves them, fits.
LEMMA GoesOnFits ==
    ASSUME TypeOK, PTypeOK, NEW r \in Requests, Within(r), GoesOn(r),
           \A s \in Requests : RequestFits(s), ActiveFits,
           RequestStep(r) \/ UNCHANGED vars, UNCHANGED keyed
    PROVE  ActiveFits' /\ \A s \in Requests : RequestFits(s)'
<1>1. RequestFits(r) /\ stage[r] \in {"inside", "cut"}
  BY DEF Within
<1>2. /\ \A s \in Requests \ {r} : Row(s)' = Row(s)
      /\ IsOut(r) \/ IsOver(r) \/ Proceeds(r)
  BY <1>1, GoesOnRows
<1>3. CASE IsOut(r)
  <2>1. RequestFits(r)'
    BY <1>1, <1>3 DEF IsOut, RequestFits, Within
  <2>2. Stays(r)
    BY <1>1, <1>3 DEF IsOut, Stays, Busy
  <2> QED
    BY <1>2, <2>1, <2>2, PcStep, OthersFit, ActiveStep DEF Row
<1>4. CASE IsOver(r)
  <2>1. Len(wire[r]) <= 1 /\ wire'[r] = wire[r]
    BY <1>1, <1>4 DEF IsOver, RequestFits
  <2>2. wire[r] # <<>> => metric'[r] = wire[r][1]
    BY <1>4, <2>1, SeenOnTheWire DEF IsOver
  <2>3. RequestFits(r)'
    BY <1>4, <2>1, <2>2 DEF IsOver, RequestFits, Within
  <2>4. Leaves(r)
    BY <1>1, <1>4 DEF IsOver, Leaves, Busy
  <2> QED
    BY <1>2, <2>3, <2>4, PcStep, OthersFit, ActiveStep DEF Row
<1>5. CASE Proceeds(r)
  <2>1. RequestFits(r)'
    BY <1>1, <1>5, PcStep DEF Proceeds, RequestFits, Within
  <2>2. Stays(r)
    BY <1>1, <1>5 DEF Proceeds, Stays, Busy
  <2> QED
    BY <1>2, <2>1, <2>2, PcStep, OthersFit, ActiveStep DEF Row
<1> QED
  BY <1>2, <1>3, <1>4, <1>5

PipelineInv == PTypeOK /\ ActiveFits /\ \A r \in Requests : RequestFits(r)

\* The steps of requests that go on, and the part of the state they share.
LEMMA GoingOn ==
    ASSUME TypeOK, PTypeOK, NEW r \in Requests,
           \/ BodyOverflows(r) \/ Reserves(r) \/ Settles(r) \/ IsCutOff(r)
           \/ Authorize(r) \/ Effect(r)
           \/ \E outcome \in Outcomes : EndpointEnds(r, outcome),
           RequestFits(r)
    PROVE  /\ Within(r) /\ GoesOn(r) /\ UNCHANGED keyed
           /\ RequestStep(r) \/ UNCHANGED vars
           /\ guard' \in [Requests -> {Unanswered}
                            \cup [refusal : {0, 401, 403}, entitled : BOOLEAN]]
           /\ raised' \in [Requests -> BOOLEAN]
           /\ effects' \subseteq Requests
<1>1. /\ guard \in [Requests -> {Unanswered}
                       \cup [refusal : {0, 401, 403}, entitled : BOOLEAN]]
      /\ raised \in [Requests -> BOOLEAN]
      /\ effects \subseteq Requests
  BY DEF PTypeOK
<1>2. CASE BodyOverflows(r)
  BY <1>1, <1>2 DEF BodyOverflows, AtEndpoint, Within, GoesOn
<1>3. CASE Reserves(r)
  <2>1. Within(r) /\ RequestStep(r) /\ UNCHANGED <<keyed, guard, raised, effects>>
    BY <1>3 DEF Reserves, Within, RequestStep
  <2>2. CASE pc'[r] # "over" /\ Proceeds(r)
    BY <1>1, <2>1, <2>2 DEF GoesOn
  <2>3. CASE /\ pc'[r] = "over" /\ Returns(r)
             /\ Respond(r, AnswerStatus(answer'[r], replayed'[r]))
    <3>1. AnswerStatus(answer'[r], replayed'[r]) \in Statuses
      BY <1>3, <2>3, AnswerStatuses
    <3>2. keyed[r] /\ pc[r] \in {"new", "claim", "get"}
      BY <1>3 DEF Reserves, BufferBody, ClaimSet, ClaimGet, ClaimFails
    <3>3. started[r] = 0
      BY <2>1, <3>2 DEF RequestFits
    <3> QED
      BY <1>1, <2>1, <2>3, <3>1, <3>3 DEF GoesOn
  <2> QED
    BY <1>3, <2>2, <2>3 DEF Reserves
<1>4. CASE Settles(r)
  BY <1>1, <1>4 DEF Settles, GoesOn, RequestStep
<1>5. CASE IsCutOff(r)
  BY <1>1, <1>5 DEF IsCutOff, GoesOn, RequestStep
<1>6. CASE Authorize(r)
  <2>1. Within(r) /\ Proceeds(r) /\ UNCHANGED <<vars, keyed, raised, effects>>
    BY <1>6 DEF Authorize, AtEndpoint, Proceeds
  <2>2. PICK route \in {KeyedRoute} \cup OtherRoutes, credential \in Credentials :
          guard' = [guard EXCEPT ![r] = [refusal |-> Refusal(route, credential),
                                         entitled |-> credential \in Entitled[route]]]
    BY <1>6 DEF Authorize
  <2>3. Refusal(route, credential) \in {0, 401, 403}
    BY Refusals
  <2>4. (credential \in Entitled[route]) \in BOOLEAN
    OBVIOUS
  <2> QED
    BY <1>1, <2>1, <2>2, <2>3, <2>4 DEF GoesOn
<1>7. CASE Effect(r)
  BY <1>1, <1>7 DEF Effect, AtEndpoint, Proceeds, GoesOn, RequestStep
<1>8. ASSUME NEW outcome \in Outcomes, EndpointEnds(r, outcome)
      PROVE  /\ Within(r) /\ GoesOn(r) /\ UNCHANGED <<keyed, guard, effects>>
             /\ RequestStep(r) \/ UNCHANGED vars
             /\ raised' \in [Requests -> BOOLEAN]
  <2>1. Within(r) /\ UNCHANGED <<keyed, guard, effects>>
    BY <1>8 DEF EndpointEnds, AtEndpoint
  <2>2. RequestStep(r) \/ UNCHANGED vars
    BY <1>8 DEF EndpointEnds, RequestStep
  <2>3. GoesOn(r)
    BY <1>8 DEF EndpointEnds, Ends, GoesOn
  <2>4. raised' \in [Requests -> BOOLEAN]
    BY <1>1, <1>8 DEF EndpointEnds
  <2> QED
    BY <2>1, <2>2, <2>3, <2>4
<1> QED
  BY <1>1, <1>2, <1>3, <1>4, <1>5, <1>6, <1>7, <1>8

\* A request comes in with nothing sent, or is refused with its first response.
LEMMA EnterFits ==
    ASSUME PipelineInv, NEW r \in Requests, Enter(r) PROVE PipelineInv'
<1>1. PTypeOK /\ RequestFits(r) /\ stage[r] = "idle"
  BY DEF PipelineInv, Enter
<1>2. /\ stage \in [Requests -> {"idle", "inside", "cut", "out", "over"}]
      /\ keyed \in [Requests -> BOOLEAN] /\ started \in [Requests -> Statuses]
      /\ wire \in [Requests -> Seq(Statuses)] /\ active \in Int
  BY <1>1 DEF PTypeOK
<1>3. wire[r] = <<>> /\ started[r] = 0 /\ access[r] = 0
  BY <1>1 DEF RequestFits
<1>4. PICK status \in Statuses : status = PROBLEM_TYPES.PAYLOAD_TOO_LARGE
  BY ResponseStatuses
<1>5. /\ UNCHANGED <<vars, guard, raised, effects, metric, access>> /\ active' = active + 1
      /\ \/ /\ stage' = [stage EXCEPT ![r] = "inside"]
            /\ \E k \in BOOLEAN : keyed' = [keyed EXCEPT ![r] = k]
            /\ UNCHANGED <<started, wire>>
         \/ /\ stage' = [stage EXCEPT ![r] = "out"]
            /\ started' = [started EXCEPT ![r] = status]
            /\ wire' = [wire EXCEPT ![r] = <<status>>]
            /\ UNCHANGED keyed
  BY <1>2, <1>3, <1>4, FirstStart DEF Enter, MoveTo, Respond
<1>6. wire' \in [Requests -> Seq(Statuses)]
  <2>1. [wire EXCEPT ![r] = <<status>>] \in [Requests -> Seq(Statuses)]
    BY <1>2, Sending, Zenon
  <2> QED
    BY <1>2, <1>5, <2>1
<1>7. PTypeOK'
  <2>1. stage' \in [Requests -> {"idle", "inside", "cut", "out", "over"}]
    BY <1>2, <1>5
  <2>2. keyed' \in [Requests -> BOOLEAN]
    BY <1>2, <1>5
  <2>3. started' \in [Requests -> Statuses]
    BY <1>2, <1>5
  <2>4. active' \in Int
    BY <1>2, <1>5
  <2> QED
    BY <1>1, <1>5, <1>6, <2>1, <2>2, <2>3, <2>4 DEF PTypeOK
<1>8. \A s \in Requests \ {r} : Row(s)' = Row(s) /\ pc'[s] = pc[s] /\ keyed'[s] = keyed[s]
  BY <1>2, <1>5 DEF Row, vars
<1>9. Comes(r)
  BY <1>1, <1>2, <1>5 DEF Comes, Busy
<1>10. RequestFits(r)'
  <2>1. Len(<<status>>) <= 1 /\ Len(<<>>) <= 1
    OBVIOUS
  <2>2. \/ stage'[r] = "inside" /\ started'[r] = 0 /\ wire'[r] = <<>>
        \/ stage'[r] = "out"
    BY <1>2, <1>3, <1>5
  <2>3. Len(wire'[r]) <= 1
    <3>1. wire'[r] = <<>> \/ wire'[r] = <<status>>
      BY <1>2, <1>3, <1>5
    <3> QED
      BY <2>1, <3>1, Zenon
  <2>4. access'[r] = 0
    BY <1>3, <1>5
  <2> QED
    BY <2>2, <2>3, <2>4 DEF RequestFits, Within
<1> QED
  BY <1>7, <1>8, <1>9, <1>10, OthersFit, ActiveStep DEF PipelineInv, Row

\* A response starts only for a request that has none.
LEMMA StartResponseFits ==
    ASSUME PipelineInv, NEW r \in Requests, StartResponse(r) PROVE PipelineInv'
<1>1. PTypeOK /\ RequestFits(r) /\ stage[r] \in {"inside", "cut"} /\ started[r] = 0
  BY DEF PipelineInv, StartResponse, AtEndpoint, Within
<1>2. started \in [Requests -> Statuses] /\ wire \in [Requests -> Seq(Statuses)]
  BY <1>1 DEF PTypeOK
<1>3. wire[r] = <<>>
  BY <1>1 DEF RequestFits
<1>4. PICK status \in StatusesOf(r) :
        /\ started' = [started EXCEPT ![r] = status]
        /\ \/ wire' = [wire EXCEPT ![r] = Append(@, status)]
           \/ wire' = wire
  BY DEF StartResponse, Respond
<1>5. status \in Statuses \ {0}
  BY <1>1, <1>4, ResponseStatuses DEF StartResponse
<1>6. UNCHANGED <<vars, stage, keyed, guard, raised, effects, active, metric, access>>
  BY DEF StartResponse
<1>7. wire' = wire \/ wire' = [wire EXCEPT ![r] = <<status>>]
  BY <1>2, <1>3, <1>4, <1>5, FirstStart
<1>8. wire' \in [Requests -> Seq(Statuses)]
  <2>1. [wire EXCEPT ![r] = <<status>>] \in [Requests -> Seq(Statuses)]
    BY <1>2, <1>5, Sending, Zenon
  <2> QED
    BY <1>2, <1>7, <2>1
<1>9. started' \in [Requests -> Statuses]
  BY <1>2, <1>4, <1>5
<1>10. PTypeOK'
  BY <1>1, <1>6, <1>8, <1>9 DEF PTypeOK
<1>11. \A s \in Requests \ {r} : Row(s)' = Row(s) /\ pc'[s] = pc[s] /\ keyed'[s] = keyed[s]
  BY <1>2, <1>4, <1>6, <1>7 DEF Row, vars
<1>12. RequestFits(r)'
  <2>1. Len(<<status>>) <= 1 /\ Len(<<>>) <= 1
    OBVIOUS
  <2>2. wire'[r] = <<>> \/ wire'[r] = <<status>>
    BY <1>2, <1>3, <1>7
  <2>3. Len(wire'[r]) <= 1
    BY <2>1, <2>2, Zenon
  <2>4. started'[r] # 0
    BY <1>2, <1>4, <1>5
  <2>5. ~(Within(r)' /\ keyed'[r] /\ pc'[r] \in {"new", "claim", "get"})
    BY <1>6 DEF StartResponse, AtEndpoint, vars, Within
  <2> QED
    BY <1>1, <1>6, <2>3, <2>4, <2>5 DEF RequestFits
<1>13. ActiveFits'
  BY <1>6 DEF PipelineInv, ActiveFits, Busy
<1> QED
  BY <1>10, <1>11, <1>12, <1>13, OthersFit DEF PipelineInv

\* What gzip held back is sent to a client that was sent nothing.
LEMMA BodyBeginsFits ==
    ASSUME PipelineInv, NEW r \in Requests, BodyBegins(r) PROVE PipelineInv'
<1>1. PTypeOK /\ RequestFits(r) /\ stage[r] \in {"inside", "cut"} /\ started[r] # 0
  BY DEF PipelineInv, BodyBegins, AtEndpoint, Within
<1>2. started \in [Requests -> Statuses] /\ wire \in [Requests -> Seq(Statuses)]
  BY <1>1 DEF PTypeOK
<1>3. wire' = [wire EXCEPT ![r] = <<started[r]>>]
  BY DEF BodyBegins
<1>4. UNCHANGED <<vars, stage, keyed, guard, started, raised, effects, active, metric, access>>
  BY DEF BodyBegins
<1>5. wire' \in [Requests -> Seq(Statuses)]
  <2>1. started[r] \in Statuses
    BY <1>2
  <2>2. [wire EXCEPT ![r] = <<started[r]>>] \in [Requests -> Seq(Statuses)]
    BY <1>2, <2>1, Sending, Zenon
  <2> QED
    BY <1>3, <2>2
<1>6. PTypeOK'
  BY <1>1, <1>4, <1>5 DEF PTypeOK
<1>7. \A s \in Requests \ {r} : Row(s)' = Row(s) /\ pc'[s] = pc[s] /\ keyed'[s] = keyed[s]
  BY <1>2, <1>3, <1>4 DEF Row, vars
<1>8. RequestFits(r)'
  <2>1. Len(<<started[r]>>) <= 1
    OBVIOUS
  <2>2. wire'[r] = <<started[r]>>
    BY <1>2, <1>3
  <2>3. Len(wire'[r]) <= 1
    BY <2>1, <2>2, Zenon
  <2> QED
    BY <1>1, <1>4, <2>3 DEF RequestFits, Within, vars
<1>9. ActiveFits'
  BY <1>4 DEF PipelineInv, ActiveFits, Busy
<1> QED
  BY <1>6, <1>7, <1>8, <1>9, OthersFit DEF PipelineInv

\* A deadline only marks its request.
LEMMA DeadlineFits ==
    ASSUME PipelineInv, NEW r \in Requests, Deadline(r) PROVE PipelineInv'
<1>1. PTypeOK /\ RequestFits(r) /\ stage[r] = "inside"
  BY DEF PipelineInv, Deadline
<1>2. stage \in [Requests -> {"idle", "inside", "cut", "out", "over"}]
  BY <1>1 DEF PTypeOK
<1>3. stage' = [stage EXCEPT ![r] = "cut"]
  BY DEF Deadline, MoveTo
<1>4. UNCHANGED <<vars, keyed, guard, started, raised, wire, effects, active, metric, access>>
  BY DEF Deadline
<1>5. stage' \in [Requests -> {"idle", "inside", "cut", "out", "over"}]
  BY <1>2, <1>3
<1>6. PTypeOK'
  BY <1>1, <1>4, <1>5 DEF PTypeOK
<1>7. \A s \in Requests \ {r} : Row(s)' = Row(s) /\ pc'[s] = pc[s] /\ keyed'[s] = keyed[s]
  BY <1>2, <1>3, <1>4 DEF Row, vars
<1>8. RequestFits(r)'
  BY <1>1, <1>2, <1>3, <1>4 DEF RequestFits, Within, vars
<1>9. Stays(r)
  BY <1>1, <1>2, <1>3, <1>4 DEF Stays, Busy
<1> QED
  BY <1>6, <1>7, <1>8, <1>9, OthersFit, ActiveStep DEF PipelineInv, Row

\* On the way out the books get the status on the wire, or the 500 that follows.
LEMMA CompleteFits ==
    ASSUME PipelineInv, NEW r \in Requests, Complete(r) PROVE PipelineInv'
<1>1. PTypeOK /\ RequestFits(r) /\ stage[r] = "out"
  BY DEF PipelineInv, Complete
<1>2. /\ stage \in [Requests -> {"idle", "inside", "cut", "out", "over"}]
      /\ wire \in [Requests -> Seq(Statuses)] /\ active \in Int
      /\ metric \in [Requests -> Statuses]
      /\ access \in [Requests -> {request_failed} \cup Statuses]
  BY <1>1 DEF PTypeOK
<1>3. /\ stage' = [stage EXCEPT ![r] = "over"]
      /\ access' = [access EXCEPT ![r] = StatusSeen(r)]
      /\ metric' = [metric EXCEPT ![r] = StatusSeen(r)]
      /\ active' = active - 1
      /\ wire' = IF wire[r] = <<>> THEN [wire EXCEPT ![r] = <<500>>] ELSE wire
      /\ UNCHANGED <<vars, keyed, guard, started, raised, effects>>
  BY DEF Complete, MoveTo, RecordMetrics
<1>4. StatusSeen(r) \in Statuses /\ 500 \in Statuses
  BY <1>1, StatusSeenType, ResponseStatuses
<1>5. wire' \in [Requests -> Seq(Statuses)]
  <2>1. \A status \in Statuses :
            [wire EXCEPT ![r] = <<status>>] \in [Requests -> Seq(Statuses)]
    BY <1>2, Sending, Zenon
  <2> QED
    BY <1>2, <1>3, <1>4, <2>1
<1>6. PTypeOK'
  <2>1. stage' \in [Requests -> {"idle", "inside", "cut", "out", "over"}]
    BY <1>2, <1>3
  <2>2. metric' \in [Requests -> Statuses]
    BY <1>2, <1>3, <1>4
  <2>3. access' \in [Requests -> {request_failed} \cup Statuses]
    BY <1>2, <1>3, <1>4
  <2>4. active' \in Int
    BY <1>2, <1>3
  <2> QED
    BY <1>1, <1>3, <1>5, <2>1, <2>2, <2>3, <2>4 DEF PTypeOK
<1>7. \A s \in Requests \ {r} : Row(s)' = Row(s) /\ pc'[s] = pc[s] /\ keyed'[s] = keyed[s]
  BY <1>2, <1>3 DEF Row, vars
<1>8. RequestFits(r)'
  <2>1. Len(<<500>>) <= 1 /\ <<500>>[1] = 500 /\ <<500>> # <<>>
    OBVIOUS
  <2>2. Len(wire[r]) <= 1
    BY <1>1 DEF RequestFits
  <2>3. wire'[r] = IF wire[r] = <<>> THEN <<500>> ELSE wire[r]
    BY <1>2, <1>3
  <2>4. Len(wire'[r]) <= 1 /\ wire'[r] # <<>>
    BY <2>1, <2>2, <2>3, Zenon
  <2>5. StatusSeen(r) = wire'[r][1]
    <3>1. StatusSeen(r) = IF wire[r] = <<>> THEN 500 ELSE wire[r][1]
      BY <1>1, <2>2, SeenOnTheWire
    <3>2. CASE wire[r] = <<>>
      BY <2>1, <2>3, <3>1, <3>2, Zenon
    <3>3. CASE wire[r] # <<>>
      BY <2>3, <3>1, <3>3, Zenon
    <3> QED
      BY <3>2, <3>3
  <2>6. stage'[r] = "over" /\ metric'[r] = wire'[r][1] /\ access'[r] = wire'[r][1]
    BY <1>2, <1>3, <2>5
  <2> QED
    BY <2>4, <2>6 DEF RequestFits, Within
<1>9. Leaves(r)
  BY <1>1, <1>2, <1>3 DEF Leaves, Busy
<1> QED
  BY <1>6, <1>7, <1>8, <1>9, OthersFit, ActiveStep DEF PipelineInv, Row

\* Every step keeps the rows of requests and the gauge fitting.
LEMMA PipelineInvStep ==
    TypeOK /\ PipelineInv /\ [PNext]_pvars => PipelineInv'
<1> SUFFICES ASSUME TypeOK, PipelineInv, [PNext]_pvars PROVE PipelineInv'
  OBVIOUS
<1>1. ASSUME NEW r \in Requests,
             \/ BodyOverflows(r) \/ Reserves(r) \/ Settles(r) \/ IsCutOff(r)
             \/ Authorize(r) \/ Effect(r)
             \/ \E outcome \in Outcomes : EndpointEnds(r, outcome)
      PROVE  PipelineInv'
  <2>1. PTypeOK /\ ActiveFits /\ \A s \in Requests : RequestFits(s)
    BY DEF PipelineInv
  <2>2. /\ Within(r) /\ GoesOn(r) /\ UNCHANGED keyed
        /\ RequestStep(r) \/ UNCHANGED vars
        /\ guard' \in [Requests -> {Unanswered}
                         \cup [refusal : {0, 401, 403}, entitled : BOOLEAN]]
        /\ raised' \in [Requests -> BOOLEAN]
        /\ effects' \subseteq Requests
    BY <1>1, <2>1, GoingOn
  <2>3. ActiveFits' /\ \A s \in Requests : RequestFits(s)'
    BY <2>1, <2>2, GoesOnFits
  <2>4. PTypeOK'
    BY <2>1, <2>2, GoesOnTypes DEF PTypeOK
  <2> QED
    BY <2>3, <2>4 DEF PipelineInv
<1>2. ASSUME NEW k \in RedisKeys, Expire(k), UNCHANGED outer PROVE PipelineInv'
  <2>1. UNCHANGED pc
    BY <1>2 DEF Expire
  <2> QED
    BY <1>2, <2>1
    DEF outer, PipelineInv, PTypeOK, ActiveFits, Busy, RequestFits, Within
<1>3. CASE UNCHANGED pvars
  BY <1>3
  DEF pvars, vars, outer, PipelineInv, PTypeOK, ActiveFits, Busy, RequestFits, Within
<1> QED
  BY <1>1, <1>2, <1>3, EnterFits, StartResponseFits, BodyBeginsFits, DeadlineFits,
     CompleteFits
  DEF PNext

\* The invariant holds from the start on.
LEMMA PipelineInvariance == PSpec => []PipelineInv
<1>1. PInit => PipelineInv
  <2> SUFFICES ASSUME PInit PROVE PipelineInv
    OBVIOUS
  <2>1. Len(<<>>) <= 1 /\ <<>> \in Seq(Statuses)
    OBVIOUS
  <2>2. PTypeOK
    BY <2>1 DEF PInit, PTypeOK, Statuses
  <2>3. ActiveFits
    <3>1. Busy = {}
      BY DEF PInit, Busy
    <3> QED
      BY <3>1, FS_EmptySet DEF PInit, ActiveFits
  <2>4. ASSUME NEW r \in Requests PROVE RequestFits(r)
    <3>1. /\ stage[r] = "idle" /\ started[r] = 0 /\ pc[r] = "new" /\ wire[r] = <<>>
          /\ access[r] = 0
      BY DEF PInit, Init
    <3> QED
      BY <2>1, <3>1 DEF RequestFits, Within
  <2> QED
    BY <2>2, <2>3, <2>4 DEF PipelineInv
<1>2. TypeOK /\ PipelineInv /\ [PNext]_pvars => PipelineInv'
  BY PipelineInvStep
<1> QED
  BY <1>1, <1>2, ImplementsIdempotency, TypeCorrectness, PTL DEF PSpec

\* Statuses, the gauge and the books keep their types.
THEOREM PipelineTypeCorrectness == PSpec => []PTypeOK
<1>1. PipelineInv => PTypeOK
  BY DEF PipelineInv
<1> QED
  BY <1>1, PipelineInvariance, PTL

\* Whichever of timeout, body limit, idempotency, guard, exception handlers and
\* endpoint answers, and however they interrupt each other, a client is sent one
\* response start, and none only if the server abandoned its request.
THEOREM EveryRequestHasOneAnswer == PSpec => []OneAnswer
<1>1. PipelineInv => OneAnswer
  <2> SUFFICES ASSUME PipelineInv, NEW r \in Requests
               PROVE  /\ Len(wire[r]) <= 1
                      /\ stage[r] = "over" /\ access[r] # 0 => Len(wire[r]) = 1
    BY DEF OneAnswer
  <2>1. wire[r] \in Seq(Statuses)
    BY DEF PipelineInv, PTypeOK
  <2>2. wire[r] # <<>> => Len(wire[r]) \in Nat \ {0}
    BY <2>1, EmptySeq, Zenon
  <2>3. Len(wire[r]) <= 1
    BY DEF PipelineInv, RequestFits
  <2>4. stage[r] = "over" /\ access[r] # 0 => wire[r] # <<>>
    BY DEF PipelineInv, RequestFits
  <2>5. \A n \in Nat \ {0} : n <= 1 => n = 1
    OBVIOUS
  <2> QED
    BY <2>2, <2>3, <2>4, <2>5, Zenon
<1> QED
  BY <1>1, PipelineInvariance, PTL

\* Metrics and access log record what the client was sent, and every request that
\* came in and is not over is counted as active, once.
THEOREM BooksAreRight == PSpec => []BooksMatchTheWire
<1>1. PipelineInv => BooksMatchTheWire
  BY DEF PipelineInv, ActiveFits, Busy, RequestFits, BooksMatchTheWire
<1> QED
  BY <1>1, PipelineInvariance, PTL

-----------------------------------------------------------------------------
(* What refusals and timeouts promise                                      *)

\* The statuses with which endpoints and their exception handlers answer.
OwnStatuses == Returned \cup HandlerStatuses

\* Those that can reach a client after an effect: the endpoint's own, the 500 for
\* an exception and the 504, and the 413 for the late body of a request whose
\* endpoint reads it itself.
StatusesAfterEffect(r) ==
    OwnStatuses \cup {500, 504} \cup IF keyed[r] THEN {} ELSE {413}

\* A request inside the layers was sent what its guard or its endpoint started.
StartFits(r) ==
    Within(r) => /\ started[r] # 0 => guard[r] # Unanswered /\ started[r] \in StatusesOf(r)
                 /\ wire[r] # <<>> => wire[r] = <<started[r]>>

\* An effect takes a guard that admitted the caller, and a key takes the request
\* past every answer of the idempotency middleware first.
EffectFits(r) ==
    HasEffect(r) => /\ stage[r] # "idle"
                    /\ Admits(r)
                    /\ keyed[r] => pc[r] \notin {"new", "claim", "get"}
                    /\ wire[r] # <<>> => wire[r][1] \in StatusesAfterEffect(r)

AnswersInv == \A r \in Requests : StartFits(r) /\ EffectFits(r)

GuardsFit == \A r \in Requests : Admits(r) => guard[r].entitled

\* What these say about one request.
Tale(r) == <<stage[r], keyed[r], guard[r], started[r], wire[r], pc[r], HasEffect(r)>>

\* The requests next to one that moves alone keep what was promised.
LEMMA OthersKeepTheirs ==
    ASSUME NEW r \in Requests, AnswersInv,
           \A s \in Requests \ {r} : Tale(s)' = Tale(s),
           StartFits(r)', EffectFits(r)'
    PROVE  AnswersInv'
<1> SUFFICES ASSUME NEW s \in Requests \ {r} PROVE StartFits(s)' /\ EffectFits(s)'
  BY DEF AnswersInv
<1>1. /\ stage'[s] = stage[s] /\ keyed'[s] = keyed[s] /\ guard'[s] = guard[s]
      /\ started'[s] = started[s] /\ wire'[s] = wire[s] /\ pc'[s] = pc[s]
      /\ HasEffect(s)' = HasEffect(s)
  BY DEF Tale
<1>2. StartFits(s) /\ EffectFits(s)
  BY DEF AnswersInv
<1>3. StartFits(s)'
  BY <1>1, <1>2 DEF StartFits, Within, StatusesOf, Admits
<1>4. EffectFits(s)'
  BY <1>1, <1>2 DEF EffectFits, StatusesAfterEffect, Admits
<1> QED
  BY <1>3, <1>4

\* How a request leaves the layers: as it is, or with a first response, which
\* after an effect is none of a refusal.
LeavesWell(r) ==
    /\ stage'[r] \in {"out", "over"}
    /\ \/ wire'[r] = wire[r]
       \/ \E status \in Statuses :
              /\ wire'[r] = <<status>>
              /\ HasEffect(r) => status \in StatusesAfterEffect(r)

\* The ways out that the layers take by themselves are of that kind.
LEMMA LayersLeaveWell ==
    ASSUME PTypeOK, NEW r \in Requests, Within(r), RequestFits(r),
           \/ Raises(r) \/ IsCancelled(r)
           \/ Returns(r) /\ UNCHANGED <<started, wire>>
           \/ Overflows(r) /\ (HasEffect(r) => ~keyed[r])
           \/ \E status \in Statuses : /\ ~HasEffect(r) /\ started[r] = 0
                                       /\ Returns(r) /\ Respond(r, status)
    PROVE  LeavesWell(r)
<1>1. DOMAIN stage = Requests /\ DOMAIN wire = Requests
  BY DEF PTypeOK
<1>2. started[r] = 0 => wire[r] = <<>>
  BY DEF Within, RequestFits
<1>3. ASSUME NEW status \in Statuses PROVE Append(<<>>, status) = <<status>>
  BY FirstStart
<1>4. /\ PROBLEM_TYPES.PAYLOAD_TOO_LARGE = 413 /\ PROBLEM_TYPES.TIMEOUT = 504
      /\ UnhandledStatus = 500 /\ {413, 500, 504} \subseteq Statuses
  BY DEF PROBLEM_TYPES, UnhandledStatus, Statuses
<1>5. CASE Raises(r)
  <2>1. stage'[r] \in {"out", "over"}
    BY <1>1, <1>5 DEF Raises, MoveTo
  <2>2. wire'[r] = wire[r] \/ wire'[r] = <<500>>
    BY <1>1, <1>4, <1>5 DEF Raises
  <2> QED
    BY <1>4, <2>1, <2>2 DEF LeavesWell, StatusesAfterEffect
<1>6. CASE IsCancelled(r)
  <2>1. stage'[r] \in {"out", "over"}
    BY <1>1, <1>6 DEF IsCancelled, MoveTo
  <2>2. wire'[r] = wire[r] \/ wire'[r] = <<504>>
    BY <1>1, <1>2, <1>3, <1>4, <1>6 DEF IsCancelled
  <2> QED
    BY <1>4, <2>1, <2>2 DEF LeavesWell, StatusesAfterEffect
<1>7. CASE Returns(r) /\ UNCHANGED <<started, wire>>
  BY <1>1, <1>7 DEF Returns, MoveTo, LeavesWell
<1>8. CASE Overflows(r) /\ (HasEffect(r) => ~keyed[r])
  <2>1. stage'[r] \in {"out", "over"}
    BY <1>1, <1>8 DEF Overflows, Returns, MoveTo
  <2>2. wire'[r] = wire[r] \/ wire'[r] = <<413>>
    BY <1>1, <1>2, <1>3, <1>4, <1>8 DEF Overflows, Respond
  <2> QED
    BY <1>4, <1>8, <2>1, <2>2 DEF LeavesWell, StatusesAfterEffect
<1>9. ASSUME NEW status \in Statuses, ~HasEffect(r), started[r] = 0,
             Returns(r), Respond(r, status)
      PROVE  LeavesWell(r)
  BY <1>1, <1>2, <1>3, <1>9 DEF Returns, MoveTo, Respond, LeavesWell
<1> QED
  BY <1>5, <1>6, <1>7, <1>8, <1>9

\* Steps inside the layers other than an answer of the guard, an effect or a
\* start of a response.
GoesThrough(r) ==
    \/ BodyOverflows(r) \/ Reserves(r) \/ Settles(r) \/ IsCutOff(r)
    \/ \E outcome \in Outcomes : EndpointEnds(r, outcome)

\* They change no effect and no guard, and leave well where they leave.
LEMMA GoingThrough ==
    ASSUME TypeOK, PTypeOK, NEW r \in Requests, RequestFits(r), EffectFits(r),
           GoesThrough(r)
    PROVE  /\ Within(r) /\ UNCHANGED <<keyed, guard, committed, effects>>
           /\ Proceeds(r) \/ LeavesWell(r)
<1>1. CASE BodyOverflows(r)
  <2>1. Within(r) /\ UNCHANGED <<keyed, guard, committed, effects>> /\ Overflows(r)
    BY <1>1 DEF BodyOverflows, AtEndpoint, Within, vars
  <2>2. HasEffect(r) => ~keyed[r]
    BY <1>1 DEF BodyOverflows, EffectFits
  <2> QED
    BY <2>1, <2>2, LayersLeaveWell
<1>2. CASE Reserves(r)
  <2>1. Within(r) /\ UNCHANGED <<keyed, guard, effects>>
    BY <1>2 DEF Reserves, Within
  <2>2. UNCHANGED committed
    BY <1>2 DEF Reserves, BufferBody, ClaimSet, ClaimGet, ClaimFails
  <2>3. keyed[r] /\ pc[r] \in {"new", "claim", "get"}
    BY <1>2 DEF Reserves, BufferBody, ClaimSet, ClaimGet, ClaimFails
  <2>4. ~HasEffect(r) /\ started[r] = 0
    BY <2>1, <2>3 DEF EffectFits, RequestFits
  <2>5. CASE /\ pc'[r] = "over" /\ Returns(r)
             /\ Respond(r, AnswerStatus(answer'[r], replayed'[r]))
    <3>1. AnswerStatus(answer'[r], replayed'[r]) \in Statuses
      BY <1>2, <2>5, AnswerStatuses
    <3> QED
      BY <2>1, <2>2, <2>4, <2>5, <3>1, LayersLeaveWell
  <2> QED
    BY <1>2, <2>1, <2>2, <2>5 DEF Reserves
<1>3. CASE Settles(r)
  <2>1. Within(r) /\ UNCHANGED <<keyed, guard, effects>>
    BY <1>3 DEF Settles
  <2>2. UNCHANGED committed
    BY <1>3 DEF Settles, StoreRecord, Release
  <2>3. Raises(r) \/ (Returns(r) /\ UNCHANGED <<started, wire>>)
    BY <1>3 DEF Settles
  <2> QED
    BY <2>1, <2>2, <2>3, LayersLeaveWell
<1>4. CASE IsCutOff(r)
  <2>1. Within(r) /\ UNCHANGED <<keyed, guard, effects>> /\ IsCancelled(r)
    BY <1>4 DEF IsCutOff
  <2>2. UNCHANGED committed
    BY <1>4 DEF IsCutOff, Cancel
  <2> QED
    BY <2>1, <2>2, LayersLeaveWell
<1>5. ASSUME NEW outcome \in Outcomes, EndpointEnds(r, outcome)
      PROVE  /\ Within(r) /\ UNCHANGED <<keyed, guard, committed, effects>>
             /\ Proceeds(r) \/ LeavesWell(r)
  <2>1. Within(r) /\ UNCHANGED <<keyed, guard, effects>>
    BY <1>5 DEF EndpointEnds, AtEndpoint
  <2>2. UNCHANGED committed
    BY <1>5 DEF EndpointEnds, HandlerEnds, vars
  <2>3. \/ Proceeds(r) \/ Raises(r) \/ IsCancelled(r)
        \/ Returns(r) /\ UNCHANGED <<started, wire>>
    BY <1>5 DEF EndpointEnds, Ends
  <2> QED
    BY <2>1, <2>2, <2>3, LayersLeaveWell
<1> QED
  BY <1>1, <1>2, <1>3, <1>4, <1>5 DEF GoesThrough

\* A request that goes through the layers, or leaves them, keeps its promises.
LEMMA GoesThroughKeeps ==
    ASSUME TypeOK, PipelineInv, AnswersInv, NEW r \in Requests, GoesThrough(r)
    PROVE  AnswersInv'
<1>1. PTypeOK /\ RequestFits(r) /\ StartFits(r) /\ EffectFits(r)
  BY DEF PipelineInv, AnswersInv
<1>2. /\ Within(r) /\ UNCHANGED <<keyed, guard, committed, effects>>
      /\ Proceeds(r) \/ LeavesWell(r)
  BY <1>1, GoingThrough
<1>3. GoesOn(r) /\ (RequestStep(r) \/ UNCHANGED vars)
  BY <1>1, GoingOn DEF GoesThrough
<1>4. \A s \in Requests : HasEffect(s)' = HasEffect(s)
  BY <1>2 DEF HasEffect
<1>5. \A s \in Requests \ {r} : Tale(s)' = Tale(s)
  BY <1>1, <1>2, <1>3, <1>4, GoesOnRows, PcStep DEF Row, Tale
<1>6. pc'[r] \in {"new", "claim", "get"} => pc[r] \in {"new", "claim", "get"}
  BY <1>3, PcStep
<1>7. HasEffect(r) => /\ Admits(r)
                      /\ keyed[r] => pc'[r] \notin {"new", "claim", "get"}
  BY <1>1, <1>6 DEF EffectFits
<1>8. CASE Proceeds(r)
  <2>1. StartFits(r)'
    BY <1>1, <1>2, <1>8 DEF Proceeds, StartFits, Within, StatusesOf, Admits
  <2>2. EffectFits(r)'
    BY <1>1, <1>2, <1>4, <1>7, <1>8
    DEF Proceeds, EffectFits, StatusesAfterEffect, Admits
  <2> QED
    BY <1>5, <2>1, <2>2, OthersKeepTheirs
<1>9. CASE LeavesWell(r)
  <2>1. StartFits(r)'
    BY <1>9 DEF LeavesWell, StartFits, Within
  <2>2. HasEffect(r) /\ wire'[r] # <<>> => wire'[r][1] \in StatusesAfterEffect(r)
    <3>1. CASE wire'[r] = wire[r]
      BY <1>1, <3>1 DEF EffectFits
    <3>2. ASSUME NEW status \in Statuses, wire'[r] = <<status>>,
                 HasEffect(r) => status \in StatusesAfterEffect(r)
          PROVE  HasEffect(r) => wire'[r][1] \in StatusesAfterEffect(r)
      BY <3>2, FirstStart
    <3> QED
      BY <1>9, <3>1, <3>2 DEF LeavesWell
  <2>3. EffectFits(r)'
    BY <1>2, <1>4, <1>7, <1>9, <2>2
    DEF LeavesWell, EffectFits, StatusesAfterEffect, Admits
  <2> QED
    BY <1>5, <2>1, <2>3, OthersKeepTheirs
<1> QED
  BY <1>2, <1>8, <1>9

\* A guard answers before anything was started or done.
LEMMA AuthorizeKeeps ==
    ASSUME PipelineInv, AnswersInv, NEW r \in Requests, Authorize(r)
    PROVE  AnswersInv'
<1>1. PTypeOK /\ RequestFits(r) /\ StartFits(r) /\ EffectFits(r)
  BY DEF PipelineInv, AnswersInv
<1>2. /\ guard[r] = Unanswered /\ Within(r)
      /\ UNCHANGED <<vars, stage, keyed, started, wire, effects>>
      /\ \A s \in Requests \ {r} : guard'[s] = guard[s]
  BY <1>1 DEF Authorize, AtEndpoint, PTypeOK
<1>3. \A s \in Requests : HasEffect(s)' = HasEffect(s) /\ pc'[s] = pc[s]
  BY <1>2 DEF HasEffect, vars
<1>4. \A s \in Requests \ {r} : Tale(s)' = Tale(s)
  BY <1>2, <1>3 DEF Tale
<1>5. ~HasEffect(r) /\ started[r] = 0 /\ wire[r] = <<>>
  BY <1>1, <1>2 DEF EffectFits, Admits, StartFits, RequestFits, Within
<1>6. StartFits(r)' /\ EffectFits(r)'
  BY <1>2, <1>3, <1>5 DEF StartFits, EffectFits
<1> QED
  BY <1>4, <1>6, OthersKeepTheirs

\* An effect comes after the guard let its caller pass, and the response it may
\* find started is the endpoint's.
LEMMA EffectKeeps ==
    ASSUME PipelineInv, AnswersInv, NEW r \in Requests, Effect(r)
    PROVE  AnswersInv'
<1>1. PTypeOK /\ RequestFits(r) /\ StartFits(r) /\ EffectFits(r)
  BY DEF PipelineInv, AnswersInv
<1>2. /\ Admits(r) /\ Within(r) /\ (keyed[r] => pc[r] \in {"run", "bare"})
      /\ UNCHANGED <<pc, stage, keyed, guard, started, wire>>
      /\ \A s \in Requests \ {r} : HasEffect(s)' = HasEffect(s)
  BY DEF Effect, AtEndpoint, Commit, HasEffect, vars
<1>3. \A s \in Requests \ {r} : Tale(s)' = Tale(s)
  BY <1>2 DEF Tale
<1>4. StartFits(r)'
  BY <1>1, <1>2 DEF StartFits, Within, StatusesOf, Admits
<1>5. wire[r] # <<>> => wire[r][1] \in StatusesAfterEffect(r)
  <2>1. SUFFICES ASSUME wire[r] # <<>> PROVE wire[r][1] \in StatusesAfterEffect(r)
    OBVIOUS
  <2>2. started[r] # 0
    BY <1>1, <1>2, <2>1 DEF RequestFits, Within
  <2>3. started[r] \in OwnStatuses /\ wire[r] = <<started[r]>>
    BY <1>1, <1>2, <2>1, <2>2 DEF StartFits, StatusesOf, OwnStatuses
  <2> QED
    BY <2>3 DEF StatusesAfterEffect
<1>6. EffectFits(r)'
  BY <1>2, <1>5 DEF EffectFits, StatusesAfterEffect, Admits, Within
<1> QED
  BY <1>3, <1>4, <1>6, OthersKeepTheirs

\* A response is started by the guard or the endpoint, and sent as it was started.
LEMMA StartKeeps ==
    ASSUME PipelineInv, AnswersInv, NEW r \in Requests,
           StartResponse(r) \/ BodyBegins(r)
    PROVE  AnswersInv'
<1>1. PTypeOK /\ RequestFits(r) /\ StartFits(r) /\ EffectFits(r)
  BY DEF PipelineInv, AnswersInv
<1>2. /\ started \in [Requests -> Statuses] /\ wire \in [Requests -> Seq(Statuses)]
      /\ started[r] = 0 /\ Within(r) => wire[r] = <<>>
  BY <1>1 DEF PTypeOK, RequestFits, Within
<1>3. /\ Within(r) /\ UNCHANGED <<vars, stage, keyed, guard, effects>>
      /\ \A s \in Requests \ {r} : started'[s] = started[s] /\ wire'[s] = wire[s]
  BY <1>2 DEF StartResponse, BodyBegins, AtEndpoint, Respond
<1>4. \A s \in Requests : HasEffect(s)' = HasEffect(s) /\ pc'[s] = pc[s]
  BY <1>3 DEF HasEffect, vars
<1>5. \A s \in Requests \ {r} : Tale(s)' = Tale(s)
  BY <1>3, <1>4 DEF Tale
<1>6. /\ guard[r] # Unanswered /\ started'[r] \in StatusesOf(r)
      /\ wire'[r] = <<>> \/ wire'[r] = <<started'[r]>>
  <2>1. CASE StartResponse(r)
    <3>1. PICK status \in StatusesOf(r) :
            /\ started' = [started EXCEPT ![r] = status]
            /\ wire' = [wire EXCEPT ![r] = Append(@, status)] \/ wire' = wire
      BY <2>1 DEF StartResponse, Respond
    <3>2. guard[r] # Unanswered /\ wire[r] = <<>>
      BY <1>2, <1>3, <2>1 DEF StartResponse
    <3>3. Append(<<>>, status) = <<status>>
      OBVIOUS
    <3> QED
      BY <1>2, <3>1, <3>2, <3>3
  <2>2. CASE BodyBegins(r)
    BY <1>1, <1>2, <1>3, <2>2 DEF BodyBegins, StartFits
  <2> QED
    BY <2>1, <2>2
<1>7. StartFits(r)'
  BY <1>3, <1>6 DEF StartFits, StatusesOf, Admits
<1>8. EffectFits(r)'
  <2>1. HasEffect(r) /\ wire'[r] # <<>> => wire'[r][1] \in StatusesAfterEffect(r)
    BY <1>1, <1>6 DEF EffectFits, StatusesOf, OwnStatuses, StatusesAfterEffect
  <2> QED
    BY <1>1, <1>3, <1>4, <2>1 DEF EffectFits, StatusesAfterEffect, Admits
<1> QED
  BY <1>5, <1>7, <1>8, OthersKeepTheirs

\* A request that comes in, that is being cut off or that is logged on its way out.
LEMMA EndsKeep ==
    ASSUME PipelineInv, AnswersInv, NEW r \in Requests,
           Enter(r) \/ Deadline(r) \/ Complete(r)
    PROVE  AnswersInv'
<1>1. PTypeOK /\ RequestFits(r) /\ StartFits(r) /\ EffectFits(r)
  BY DEF PipelineInv, AnswersInv
<1>2. /\ DOMAIN stage = Requests /\ DOMAIN wire = Requests /\ DOMAIN keyed = Requests
      /\ DOMAIN started = Requests
  BY <1>1 DEF PTypeOK
<1>3. /\ UNCHANGED <<vars, guard, effects>>
      /\ \A s \in Requests \ {r} : /\ stage'[s] = stage[s] /\ keyed'[s] = keyed[s]
                                   /\ started'[s] = started[s] /\ wire'[s] = wire[s]
  BY <1>2 DEF Enter, Deadline, Complete, MoveTo, Respond
<1>4. \A s \in Requests : HasEffect(s)' = HasEffect(s) /\ pc'[s] = pc[s]
  BY <1>3 DEF HasEffect, vars
<1>5. \A s \in Requests \ {r} : Tale(s)' = Tale(s)
  BY <1>3, <1>4 DEF Tale
<1>6. CASE Enter(r)
  <2>1. ~HasEffect(r) /\ started[r] = 0 /\ wire[r] = <<>>
    BY <1>1, <1>6 DEF Enter, EffectFits, RequestFits
  <2>2. \/ stage'[r] = "inside" /\ started'[r] = 0 /\ wire'[r] = <<>>
        \/ stage'[r] = "out"
    BY <1>2, <1>6, <2>1 DEF Enter, MoveTo
  <2>3. StartFits(r)' /\ EffectFits(r)'
    BY <1>4, <2>1, <2>2 DEF StartFits, EffectFits, Within
  <2> QED
    BY <1>5, <2>3, OthersKeepTheirs
<1>7. CASE Deadline(r)
  <2>1. stage[r] = "inside" /\ stage'[r] = "cut" /\ UNCHANGED <<keyed, started, wire>>
    BY <1>2, <1>7 DEF Deadline, MoveTo
  <2>2. StartFits(r)'
    BY <1>1, <1>3, <2>1 DEF StartFits, Within, StatusesOf, Admits
  <2>3. EffectFits(r)'
    BY <1>1, <1>3, <1>4, <2>1 DEF EffectFits, StatusesAfterEffect, Admits
  <2> QED
    BY <1>5, <2>2, <2>3, OthersKeepTheirs
<1>8. CASE Complete(r)
  <2>1. /\ stage'[r] = "over" /\ UNCHANGED <<keyed, started>>
        /\ wire'[r] = wire[r] \/ wire'[r] = <<500>>
    BY <1>2, <1>8 DEF Complete, MoveTo
  <2>2. StartFits(r)'
    BY <2>1 DEF StartFits, Within
  <2>3. HasEffect(r) /\ wire'[r] # <<>> => wire'[r][1] \in StatusesAfterEffect(r)
    BY <1>1, <2>1 DEF EffectFits, StatusesAfterEffect
  <2>4. EffectFits(r)'
    BY <1>1, <1>3, <1>4, <2>1, <2>3 DEF EffectFits, StatusesAfterEffect, Admits
  <2> QED
    BY <1>5, <2>2, <2>4, OthersKeepTheirs
<1> QED
  BY <1>6, <1>7, <1>8

\* Every step keeps what requests inside the layers and effects promise.
LEMMA AnswersStep ==
    TypeOK /\ PipelineInv /\ AnswersInv /\ [PNext]_pvars => AnswersInv'
<1> SUFFICES ASSUME TypeOK, PipelineInv, AnswersInv, [PNext]_pvars PROVE AnswersInv'
  OBVIOUS
<1>1. ASSUME \/ \E k \in RedisKeys : Expire(k) /\ UNCHANGED outer
             \/ UNCHANGED pvars
      PROVE  AnswersInv'
  <2>1. UNCHANGED <<pc, committed, outer>>
    BY <1>1 DEF Expire, pvars, vars
  <2> SUFFICES ASSUME NEW r \in Requests PROVE StartFits(r)' /\ EffectFits(r)'
    BY DEF AnswersInv
  <2>2. StartFits(r) /\ EffectFits(r)
    BY DEF AnswersInv
  <2>3. StartFits(r)'
    BY <2>1, <2>2 DEF outer, StartFits, Within, StatusesOf, Admits
  <2>4. EffectFits(r)'
    BY <2>1, <2>2 DEF outer, EffectFits, StatusesAfterEffect, Admits, HasEffect
  <2> QED
    BY <2>3, <2>4
<1>2. ASSUME NEW r \in Requests, GoesThrough(r) PROVE AnswersInv'
  BY <1>2, GoesThroughKeeps
<1>3. ASSUME NEW r \in Requests, Authorize(r) PROVE AnswersInv'
  BY <1>3, AuthorizeKeeps
<1>4. ASSUME NEW r \in Requests, Effect(r) PROVE AnswersInv'
  BY <1>4, EffectKeeps
<1>5. ASSUME NEW r \in Requests, StartResponse(r) \/ BodyBegins(r) PROVE AnswersInv'
  BY <1>5, StartKeeps
<1>6. ASSUME NEW r \in Requests, Enter(r) \/ Deadline(r) \/ Complete(r) PROVE AnswersInv'
  BY <1>6, EndsKeep
<1> QED
  BY <1>1, <1>2, <1>3, <1>4, <1>5, <1>6 DEF PNext, GoesThrough

\* They hold from the start on, with all that was proved before.
LEMMA AnswersInvariance == PSpec => [](PipelineInv /\ AnswersInv)
<1>1. PInit => AnswersInv
  BY DEF PInit, Init, AnswersInv, StartFits, EffectFits, Within, HasEffect
<1>2. TypeOK /\ PipelineInv /\ AnswersInv /\ [PNext]_pvars => AnswersInv'
  BY AnswersStep
<1> QED
  BY <1>1, <1>2, PipelineInvariance, ImplementsIdempotency, TypeCorrectness, PTL
  DEF PSpec

\* The guard of every route refuses the callers the route is not for.
GuardsRefuse ==
    \A route \in {KeyedRoute} \cup OtherRoutes, credential \in Credentials :
        Refusal(route, credential) = 0 => credential \in Entitled[route]

\* Then whoever is admitted, for good, is entitled.
LEMMA GuardsStep ==
    ASSUME GuardsRefuse
    PROVE  PipelineInv /\ GuardsFit /\ [PNext]_pvars => GuardsFit'
<1> SUFFICES ASSUME PipelineInv, GuardsFit, [PNext]_pvars PROVE GuardsFit'
  OBVIOUS
<1>1. CASE UNCHANGED guard
  BY <1>1 DEF GuardsFit, Admits
<1>2. ASSUME NEW r \in Requests, Authorize(r) PROVE GuardsFit'
  <2>1. DOMAIN guard = Requests
    BY DEF PipelineInv, PTypeOK
  <2>2. PICK route \in IF keyed[r] THEN {KeyedRoute} ELSE OtherRoutes,
             credential \in Credentials :
          guard' = [guard EXCEPT ![r] = [refusal |-> Refusal(route, credential),
                                         entitled |-> credential \in Entitled[route]]]
    BY <1>2 DEF Authorize
  <2>3. guard'[r].refusal = 0 => guard'[r].entitled
    BY <2>1, <2>2, GuardsRefuse DEF GuardsRefuse
  <2> QED
    BY <2>1, <2>2, <2>3 DEF GuardsFit, Admits
<1>3. UNCHANGED guard \/ \E r \in Requests : Authorize(r)
  BY DEF PNext, pvars, outer, Enter, BodyOverflows, Reserves, Settles, IsCutOff, Effect,
         StartResponse, BodyBegins, EndpointEnds, Deadline, Complete
<1> QED
  BY <1>1, <1>2, <1>3

\* Endpoints leave the statuses of refusals to the layers that refuse.
RefusalsAreTheLayers == OwnStatuses \cap {401, 403, 409, 413, 503} = {}

\* Whatever is cut off, replayed, or fails on the way: a request refused by its
\* guard, the body limit or the idempotency middleware had no effect and will have
\* none, and an effect takes a caller its route is for; provided that each guard
\* is right about the caller it looks at, and that a refusal can be told from what
\* endpoints answer themselves.
THEOREM RefusedMeansUntouched ==
  ASSUME GuardsRefuse, RefusalsAreTheLayers
  PROVE  PSpec => []RefusalsHaveNoEffect
<1>1. PInit => GuardsFit
  BY DEF PInit, GuardsFit, Admits
<1>2. PipelineInv /\ GuardsFit /\ [PNext]_pvars => GuardsFit'
  BY GuardsRefuse, GuardsStep
<1>3. AnswersInv /\ GuardsFit => RefusalsHaveNoEffect
  <2> SUFFICES ASSUME AnswersInv, GuardsFit, NEW r \in Requests, HasEffect(r)
               PROVE  /\ wire[r] # <<>> => wire[r][1] \notin {401, 403, 409, 503}
                      /\ keyed[r] => wire[r] # <<413>>
                      /\ guard[r].entitled
    BY DEF RefusalsHaveNoEffect
  <2>1. Admits(r) /\ (wire[r] # <<>> => wire[r][1] \in StatusesAfterEffect(r))
    BY DEF AnswersInv, EffectFits
  <2>2. \A status \in StatusesAfterEffect(r) :
            /\ status \notin {401, 403, 409, 503}
            /\ keyed[r] => status # 413
    BY RefusalsAreTheLayers DEF RefusalsAreTheLayers, StatusesAfterEffect
  <2>3. wire[r] = <<413>> => wire[r] # <<>> /\ wire[r][1] = 413
    OBVIOUS
  <2>4. keyed[r] => wire[r] # <<413>>
    BY <2>1, <2>2, <2>3
  <2> QED
    BY <2>1, <2>2, <2>4 DEF GuardsFit
<1> QED
  BY <1>1, <1>2, <1>3, AnswersInvariance, PTL DEF PSpec

\* Endpoints leave the status of a timeout to the timeout.
TimeoutsAreTheLayers == PROBLEM_TYPES.TIMEOUT \notin OwnStatuses

\* A client told that its request timed out can rely on it: the request has left
\* the layers, by whichever way, and nothing of it has an effect or goes on in the
\* idempotency middleware any more; provided that endpoints answer no 504
\* themselves.
THEOREM TimeoutMeansOver ==
  ASSUME TimeoutsAreTheLayers
  PROVE  PSpec => TimedOutIsOver
<1>1. ASSUME TypeOK, PipelineInv, AnswersInv, [PNext]_pvars, NEW r \in Requests,
             PROBLEM_TYPES.TIMEOUT \in {wire[r][i] : i \in DOMAIN wire[r]}
      PROVE  HasEffect(r)' = HasEffect(r) /\ pc'[r] = pc[r]
  <2>1. PTypeOK /\ RequestFits(r) /\ StartFits(r)
    BY <1>1 DEF PipelineInv, AnswersInv
  <2>2. PROBLEM_TYPES.TIMEOUT = 504
    BY DEF PROBLEM_TYPES
  <2>3. wire[r] # <<>>
    BY <1>1
  <2>4. stage[r] # "idle"
    BY <2>1, <2>3 DEF RequestFits
  <2>5. ~Within(r)
    <3> SUFFICES ASSUME Within(r) PROVE FALSE
      OBVIOUS
    <3>1. started[r] # 0 /\ wire[r] = <<started[r]>>
      BY <2>1, <2>3 DEF RequestFits, StartFits, Within
    <3>2. started[r] = 504
      BY <1>1, <2>2, <3>1
    <3>3. guard[r] # Unanswered /\ 504 \in StatusesOf(r)
      BY <2>1, <3>1, <3>2 DEF StartFits
    <3>4. guard[r].refusal \in {0, 401, 403}
      BY <2>1, <3>3 DEF PTypeOK
    <3> QED
      BY <2>2, <3>3, <3>4, TimeoutsAreTheLayers
      DEF TimeoutsAreTheLayers, StatusesOf, OwnStatuses
  <2>6. ASSUME NEW s \in Requests, GoesThrough(s)
        PROVE  HasEffect(r)' = HasEffect(r) /\ pc'[r] = pc[r]
    <3>1. RequestFits(s) /\ EffectFits(s)
      BY <1>1 DEF PipelineInv, AnswersInv
    <3>2. Within(s) /\ UNCHANGED <<committed, effects>>
      BY <1>1, <2>1, <2>6, <3>1, GoingThrough
    <3>3. RequestStep(s) \/ UNCHANGED vars
      BY <1>1, <2>1, <2>6, <3>1, GoingOn DEF GoesThrough
    <3> QED
      BY <1>1, <2>5, <3>2, <3>3, PcStep DEF HasEffect
  <2>7. ASSUME NEW s \in Requests, Effect(s)
        PROVE  HasEffect(r)' = HasEffect(r) /\ pc'[r] = pc[r]
    BY <2>5, <2>7 DEF Effect, AtEndpoint, Commit, HasEffect, vars
  <2>8. ASSUME UNCHANGED <<pc, committed, effects>>
        PROVE  HasEffect(r)' = HasEffect(r) /\ pc'[r] = pc[r]
    BY <2>8 DEF HasEffect
  <2>9. \/ \E s \in Requests : GoesThrough(s) \/ Effect(s)
        \/ UNCHANGED <<pc, committed, effects>>
    BY <1>1 DEF PNext, pvars, vars, outer, GoesThrough, Enter, Authorize, StartResponse,
                BodyBegins, Deadline, Complete, Expire
  <2> QED
    BY <2>6, <2>7, <2>8, <2>9
<1>2. TypeOK /\ PipelineInv /\ AnswersInv /\ [PNext]_pvars =>
        [\A r \in Requests :
            PROBLEM_TYPES.TIMEOUT \in {wire[r][i] : i \in DOMAIN wire[r]} =>
              /\ HasEffect(r)' = HasEffect(r)
              /\ pc'[r] = pc[r]]_pvars
  BY <1>1
<1> QED
  BY <1>2, AnswersInvariance, ImplementsIdempotency, TypeCorrectness, PTL
  DEF PSpec, TimedOutIsOver
=============================================================================
