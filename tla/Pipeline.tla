------------------------------ MODULE Pipeline ------------------------------
(***************************************************************************)
(* The middleware stack of http/middleware/__init__.py around the endpoints*)
(* of an application, composed with the idempotency middleware inside it.  *)
(*                                                                         *)
(* From the outside in: metrics, request context, gzip, timeout, body limit*)
(* and idempotency, then the exception handlers, the auth dependencies and *)
(* the endpoint.  Every request has its own task; a step is what it does   *)
(* between two awaits.  A status of 0 is no response.                      *)
(***************************************************************************)
EXTENDS Idempotency, Problems, Access, Sequences

CONSTANTS
    KeyedRoute,    \* the route of the requests with a key
    OtherRoutes,   \* the routes of the others
    Credentials,   \* what callers present
    Entitled,      \* for each route: those of the callers it is for
    KeyOptional,   \* requests that may come without a key
    Returned,      \* statuses endpoints answer with themselves
    Raisable,      \* errors they raise: see Problems
    MaxBody,       \* whether settings.http.max_body_bytes is set
    Gzip,          \* whether settings.http.gzip_min_size is set
    Unanswered     \* not a guard

VARIABLES
    stage,    \* where each request is in the outer layers
    keyed,    \* whether it carries an Idempotency-Key
    guard,    \* what its guard answers, and whether the caller is entitled
    started,  \* the status passed by send of the timeout and body limit
    raised,   \* whether an exception is on its way out of the endpoint
    wire,     \* the response starts its client was sent
    effects,  \* history: requests without a key that had their effect
    active,   \* http.server.active_requests
    metric,   \* the status http.server.request.duration was recorded with
    access    \* the status in the access log: 0 before, request_failed for none

outer == <<stage, keyed, guard, started, raised, wire, effects, active,
           metric, access>>
pvars == <<vars, outer>>

\* The line of an exception that comes after the start of a response.
request_failed == -1

\* What the exception handlers make of the errors that have one.
HandlerStatuses == {HandlerStatus(e) : e \in {x \in Raisable : Handled(x)}}

Statuses == {0, 401, 403, 409, 413, 500, 503, 504} \cup Returned \cup HandlerStatuses

\* Every response has a status, and every route one of the three kinds of guard.
ASSUME PipelineAssumption ==
    /\ 0 \notin Returned \cup HandlerStatuses
    /\ \A route \in {KeyedRoute} \cup OtherRoutes :
           route.kind \in {"protected", "optional", "internal"}

PInit ==
    /\ Init
    /\ stage = [r \in Requests |-> "idle"]
    /\ keyed = [r \in Requests |-> TRUE]
    /\ guard = [r \in Requests |-> Unanswered]
    /\ started = [r \in Requests |-> 0]
    /\ raised = [r \in Requests |-> FALSE]
    /\ wire = [r \in Requests |-> <<>>]
    /\ effects = {}
    /\ active = 0
    /\ metric = [r \in Requests |-> 0]
    /\ access = [r \in Requests |-> 0]

-----------------------------------------------------------------------------
(* Sending, and leaving the layers.                                        *)

Within(r) == stage[r] \in {"inside", "cut"}
MoveTo(r, where) == stage' = [stage EXCEPT ![r] = where]

\* A whole response from inside the gzip layer.
Respond(r, status) ==
    /\ started' = [started EXCEPT ![r] = status]
    /\ wire' = [wire EXCEPT ![r] = Append(@, status)]

\* What the wrappers of context and metrics have seen: 500 until a start passes.
StatusSeen(r) == IF wire[r] = <<>> THEN 500 ELSE wire[r][Len(wire[r])]

\* Mutant: not in a finally block.
RecordMetricsOnSuccess(r) ==
    /\ metric' = [metric EXCEPT ![r] = StatusSeen(r)]
    /\ active' = IF raised[r] THEN active ELSE active - 1

\* The finally block of MetricsMiddleware, on every way out.
RecordMetrics(r) ==
    /\ metric' = [metric EXCEPT ![r] = StatusSeen(r)]
    /\ active' = active - 1

\* The app inside the layers returns; the context has its line to log.
Returns(r) == MoveTo(r, "out") /\ UNCHANGED <<active, metric, access>>

\* BodyTooLarge reaches the body limit: 413, or silence once a response began.
Overflows(r) ==
    /\ Returns(r)
    /\ \/ started[r] = 0 /\ Respond(r, PROBLEM_TYPES.PAYLOAD_TOO_LARGE)
       \/ started[r] # 0 /\ UNCHANGED <<started, wire>>

\* An exception reaches the context, which answers 500 if nothing was sent, and
\* else logs request_failed and lets it pass to the server.
Raises(r) ==
    \/ /\ wire[r] = <<>>
       /\ MoveTo(r, "out")
       /\ wire' = [wire EXCEPT ![r] = <<UnhandledStatus>>]
       /\ UNCHANGED <<started, active, metric, access>>
    \/ /\ wire[r] # <<>>
       /\ MoveTo(r, "over")
       /\ access' = [access EXCEPT ![r] = request_failed]
       /\ RecordMetrics(r)
       /\ UNCHANGED <<started, wire>>

\* Mutant: the 504 is sent whether a response began or not.
IsCancelledSendingAnyway(r) ==
    \/ /\ stage[r] = "cut"
       /\ MoveTo(r, "out")
       /\ wire' = [wire EXCEPT ![r] = Append(@, PROBLEM_TYPES.TIMEOUT)]
       /\ UNCHANGED <<started, active, metric, access>>
    \/ /\ stage[r] = "inside"
       /\ MoveTo(r, "over")
       /\ RecordMetrics(r)
       /\ UNCHANGED <<started, wire, access>>

\* CancelledError leaves the app: the timeout catches its own and sends the 504
\* if no response began; the server's passes every layer, and only the metrics
\* take note.
IsCancelled(r) ==
    \/ /\ stage[r] = "cut"
       /\ MoveTo(r, "out")
       /\ wire' = IF started[r] # 0 THEN wire
                  ELSE [wire EXCEPT ![r] = Append(@, PROBLEM_TYPES.TIMEOUT)]
       /\ UNCHANGED <<started, active, metric, access>>
    \/ /\ stage[r] = "inside"
       /\ MoveTo(r, "over")
       /\ RecordMetrics(r)
       /\ UNCHANGED <<started, wire, access>>

\* The request stays inside.
Proceeds(r) == UNCHANGED <<stage, started, wire, active, metric, access>>

-----------------------------------------------------------------------------
(* Coming in, the body, and the idempotency middleware.                    *)

\* A request passes the layers: they count it and start its deadline, and the
\* body limit refuses a Content-Length over the limit.
Enter(r) ==
    /\ stage[r] = "idle"
    /\ active' = active + 1
    /\ \/ /\ MoveTo(r, "inside")
          /\ \E k \in BOOLEAN : /\ k \/ r \in KeyOptional
                                /\ keyed' = [keyed EXCEPT ![r] = k]
          /\ UNCHANGED <<started, wire>>
       \/ /\ MaxBody
          /\ MoveTo(r, "out")
          /\ Respond(r, PROBLEM_TYPES.PAYLOAD_TOO_LARGE)
          /\ UNCHANGED keyed
    /\ UNCHANGED <<vars, guard, raised, effects, metric, access>>

\* Where the endpoint and what it is made of run.
AtEndpoint(r) == Within(r) /\ (keyed[r] => pc[r] \in {"run", "bare"})

\* A body over the limit without a Content-Length: counting_receive, called by
\* _buffer_body or by the endpoint itself, raises BodyTooLarge.  (Where
\* FastAPI reads the body for the endpoint it makes a 400 of BodyTooLarge: the
\* HTTPException among those in Raisable.)
BodyOverflows(r) ==
    /\ MaxBody
    /\ \/ keyed[r] /\ stage[r] = "inside" /\ pc[r] = "new"
       \/ ~keyed[r] /\ AtEndpoint(r)
    /\ Overflows(r)
    /\ UNCHANGED <<vars, keyed, guard, raised, effects>>

\* What the idempotency middleware answers itself with.
AnswerStatus(what, by) ==
    CASE what \in {"in_progress", "mismatch"} -> 409
      [] what = "unavailable" -> 503
      [] what = "replay" -> started[by]

\* Its way to the endpoint, or to an answer of its own.
Reserves(r) ==
    /\ keyed[r]
    /\ stage[r] = "inside"
    /\ \/ BufferBody(r) \/ ClaimSet(r) \/ ClaimGet(r) \/ ClaimFails(r)
    /\ \/ pc'[r] # "over" /\ Proceeds(r)
       \/ /\ pc'[r] = "over"
          /\ Returns(r)
          /\ Respond(r, AnswerStatus(answer'[r], replayed'[r]))
    /\ UNCHANGED <<keyed, guard, raised, effects>>

\* Its record or release once the endpoint ended; an exception then goes on.
Settles(r) ==
    /\ keyed[r]
    /\ Within(r)
    /\ StoreRecord(r) \/ Release(r)
    /\ \/ raised[r] /\ Raises(r)
       \/ ~raised[r] /\ Returns(r) /\ UNCHANGED <<started, wire>>
    /\ UNCHANGED <<keyed, guard, raised, effects>>

\* A cancellation reaches the idempotency middleware at an await of its own.
IsCutOff(r) ==
    /\ keyed[r]
    /\ Within(r)
    /\ Cancel(r)
    /\ IsCancelled(r)
    /\ UNCHANGED <<keyed, guard, raised, effects>>

-----------------------------------------------------------------------------
(* The endpoint: its guard, its effect and its response.                   *)

\* The dependencies of its route judge the caller.
Authorize(r) ==
    /\ AtEndpoint(r)
    /\ guard[r] = Unanswered
    /\ \E route \in IF keyed[r] THEN {KeyedRoute} ELSE OtherRoutes,
          credential \in Credentials :
            guard' = [guard EXCEPT ![r] =
                        [refusal |-> Refusal(route, credential),
                         entitled |-> credential \in Entitled[route]]]
    /\ UNCHANGED <<vars, stage, keyed, started, raised, wire, effects,
                   active, metric, access>>

Admits(r) == guard[r] # Unanswered /\ guard[r].refusal = 0

Effect(r) ==
    /\ AtEndpoint(r)
    /\ Admits(r)
    /\ \/ keyed[r] /\ Commit(r) /\ UNCHANGED effects
       \/ ~keyed[r] /\ effects' = effects \cup {r} /\ UNCHANGED vars
    /\ UNCHANGED <<stage, keyed, guard, started, raised, wire, active,
                   metric, access>>

\* The statuses the exception handlers and the endpoint start responses with.
StatusesOf(r) ==
    IF ~Admits(r) THEN {guard[r].refusal}
    ELSE Returned \cup HandlerStatuses

\* http.response.start passes the timeout, which lifts the deadline, and the
\* gzip layer, which may hold it until the body begins.
StartResponse(r) ==
    /\ AtEndpoint(r)
    /\ guard[r] # Unanswered
    /\ started[r] = 0
    /\ \E status \in StatusesOf(r) :
          \/ Respond(r, status)
          \/ Gzip /\ started' = [started EXCEPT ![r] = status] /\ UNCHANGED wire
    /\ UNCHANGED <<vars, stage, keyed, guard, raised, effects, active,
                   metric, access>>

BodyBegins(r) ==
    /\ AtEndpoint(r)
    /\ started[r] # 0
    /\ wire[r] = <<>>
    /\ wire' = [wire EXCEPT ![r] = <<started[r]>>]
    /\ UNCHANGED <<vars, stage, keyed, guard, started, raised, effects,
                   active, metric, access>>

\* How the endpoint may end, given what it has sent.
MayEnd(r, outcome) ==
    CASE outcome \in {"ok", "too_large"} -> wire[r] # <<>> /\ started[r] < 500
      [] outcome = "server_error" -> wire[r] # <<>> /\ started[r] >= 500
      [] outcome = "exception" -> guard[r] # Unanswered
      [] outcome = "cancelled" -> TRUE

\* What that means for the layers outside.
Ends(r, outcome) ==
    \/ /\ outcome \in {"ok", "too_large", "server_error"}
       /\ Returns(r)
       /\ UNCHANGED <<started, wire>>
    \/ outcome = "exception" /\ Raises(r)
    \/ outcome = "cancelled" /\ IsCancelled(r)

\* The endpoint ends.  An error raised after the start of a response, or one
\* without a handler, is an exception for every layer.
EndpointEnds(r, outcome) ==
    /\ AtEndpoint(r)
    /\ MayEnd(r, outcome)
    /\ \/ keyed[r] /\ HandlerEnds(r, outcome)
       \/ ~keyed[r] /\ UNCHANGED vars
    /\ \/ keyed[r] /\ pc'[r] # "over" /\ Proceeds(r)
       \/ (~keyed[r] \/ pc'[r] = "over") /\ Ends(r, outcome)
    /\ raised' = [raised EXCEPT ![r] = outcome = "exception"]
    /\ UNCHANGED <<keyed, guard, effects>>

-----------------------------------------------------------------------------
(* The deadline and the way out.                                           *)

\* Mutant: the timeout sits inside the idempotency middleware.
DeadlineAtEndpoint(r) ==
    /\ stage[r] = "inside" /\ AtEndpoint(r)
    /\ started[r] = 0
    /\ MoveTo(r, "cut")
    /\ UNCHANGED <<vars, keyed, guard, started, raised, wire, effects,
                   active, metric, access>>

\* Mutant: the 504 is sent while the handler is left to end by itself.
DeadlineAnswersAtOnce(r) ==
    /\ stage[r] = "inside"
    /\ started[r] = 0
    /\ MoveTo(r, "cut")
    /\ Respond(r, PROBLEM_TYPES.TIMEOUT)
    /\ UNCHANGED <<vars, keyed, guard, raised, effects, active, metric,
                   access>>

\* The deadline of a request without a response passes: it is being cancelled.
Deadline(r) ==
    /\ stage[r] = "inside"
    /\ started[r] = 0
    /\ MoveTo(r, "cut")
    /\ UNCHANGED <<vars, keyed, guard, started, raised, wire, effects,
                   active, metric, access>>

\* The context logs the request and the metrics record it.  If nothing was sent
\* the server answers 500 itself.
Complete(r) ==
    /\ stage[r] = "out"
    /\ MoveTo(r, "over")
    /\ access' = [access EXCEPT ![r] = StatusSeen(r)]
    /\ RecordMetrics(r)
    /\ wire' = IF wire[r] = <<>> THEN [wire EXCEPT ![r] = <<500>>] ELSE wire
    /\ UNCHANGED <<vars, keyed, guard, started, raised, effects>>

PNext ==
    \/ \E r \in Requests :
         \/ Enter(r) \/ BodyOverflows(r) \/ Reserves(r) \/ Settles(r) \/ IsCutOff(r)
         \/ Authorize(r) \/ Effect(r) \/ StartResponse(r) \/ BodyBegins(r)
         \/ \E outcome \in Outcomes : EndpointEnds(r, outcome)
         \/ Deadline(r) \/ Complete(r)
    \/ \E k \in RedisKeys : Expire(k) /\ UNCHANGED outer

\* Timers fire, a cancelled task ends at its next await, and the layers do not
\* wait; nothing is assumed of endpoints and Redis.
PFairness ==
    \A r \in Requests :
        /\ WF_pvars(Deadline(r))
        /\ WF_pvars(stage[r] = "cut" /\ (IsCutOff(r) \/ EndpointEnds(r, "cancelled")))
        /\ WF_pvars(Complete(r))

PSpec == PInit /\ [][PNext]_pvars /\ PFairness

-----------------------------------------------------------------------------
(* Properties                                                              *)

HasEffect(r) == r \in committed \cup effects

\* Statuses and gauges keep their types.
PTypeOK ==
    /\ stage \in [Requests -> {"idle", "inside", "cut", "out", "over"}]
    /\ keyed \in [Requests -> BOOLEAN]
    /\ guard \in [Requests -> {Unanswered}
                    \cup [refusal : {0, 401, 403}, entitled : BOOLEAN]]
    /\ started \in [Requests -> Statuses]
    /\ raised \in [Requests -> BOOLEAN]
    /\ wire \in [Requests -> Seq(Statuses)]
    /\ effects \subseteq Requests
    /\ active \in Int
    /\ metric \in [Requests -> Statuses]
    /\ access \in [Requests -> {request_failed} \cup Statuses]

\* Whatever a timeout, an oversized body, an exception and the endpoint do to
\* each other, a client is sent one response start, never two, and none only if
\* the server abandoned its request.
OneAnswer ==
    \A r \in Requests :
        /\ Len(wire[r]) <= 1
        /\ stage[r] = "over" /\ access[r] # 0 => Len(wire[r]) = 1

\* Metrics and access log say what the client was sent, by whichever layer, and
\* the gauge of active requests comes back down on every way out (comment in
\* apply_standard_middleware: "exactly like any other response").
BooksMatchTheWire ==
    /\ active = Cardinality({r \in Requests : stage[r] \notin {"idle", "over"}})
    /\ \A r \in Requests : stage[r] = "over" /\ wire[r] # <<>> =>
           /\ metric[r] = wire[r][1]
           /\ access[r] \in {0, request_failed, wire[r][1]}

\* A client told that its request timed out can rely on it being over: nothing
\* of it runs any more (docstring of TimeoutMiddleware: "cancelled, not merely
\* abandoned").
TimedOutIsOver ==
    [][\A r \in Requests : PROBLEM_TYPES.TIMEOUT \in {wire[r][i] : i \in DOMAIN wire[r]} =>
          /\ HasEffect(r)' = HasEffect(r)
          /\ pc'[r] = pc[r]]_pvars

\* A client told that its request was refused, by a guard, the body limit or the
\* idempotency middleware, can rely on its having had no effect, and an effect
\* takes a caller its route is for.  (Endpoints without a key read their bodies
\* when they like, so a 413 says less there.)
RefusalsHaveNoEffect ==
    \A r \in Requests : HasEffect(r) =>
        /\ wire[r] # <<>> => wire[r][1] \notin {401, 403, 409, 503}
        /\ keyed[r] => wire[r] # <<413>>
        /\ guard[r].entitled

\* No request hangs before its response: endpoints, guards and Redis calls that
\* never return are cut off.
NoRequestHangs ==
    \A r \in Requests :
        stage[r] = "inside" /\ started[r] = 0
            ~> stage[r] = "over" \/ started[r] # 0
=============================================================================
