------------------------------ MODULE Serving ------------------------------
(***************************************************************************)
(* One process from start to exit: uvicorn with the drain (Draining), the  *)
(* lifespan with its resources (Lifespan), the readiness endpoint of       *)
(* http/health.py, and around it a load balancer that probes the endpoint, *)
(* requests it routes, RPCs of gRPC clients, and the signals of a kubelet  *)
(* or an operator.                                                         *)
(*                                                                         *)
(* Time passes in ticks, and only when nothing is due.                     *)
(***************************************************************************)
EXTENDS Lifespan, Draining

CONSTANTS
    Period,        \* the longest time from one probe's answer to the next probe
    CheckTime,     \* the longest time readiness checks take (timeout_seconds)
    Lag,           \* the longest time until a verdict takes effect
    MaxRequests    \* bound: requests in flight

ASSUME ServingAssumption ==
    /\ {Period, CheckTime, Lag, MaxRequests} \subseteq Nat
    \* README: 5 to 15 seconds, long enough for the load balancer to notice.
    /\ DrainDelay > Period + CheckTime + Lag

VARIABLES
    nextProbe,  \* time left until the next probe is due; Off while one runs
    probe,      \* time left to the running checks, Off if none run
    verdict,    \* the last answer of /health/ready was 200
    apply,      \* time left until the verdict takes effect; Off if it has
    routed,     \* requests are sent to this process
    inFlight,   \* HTTP requests being handled
    rpcs,       \* RPCs being handled
    refused,    \* history: a request met a closed socket
    cut         \* history: a request was cut off by the exit

balancer == <<nextProbe, probe, verdict, apply, routed>>
traffic == <<inFlight, rpcs, refused, cut>>
drainingVars == <<server, exitFlags, drain, signals>>
vars == <<lifespan, drainingVars, balancer, traffic>>

TypeOK ==
    /\ LifespanTypeOK
    /\ DrainingTypeOK
    /\ nextProbe \in 0 .. Period \cup {Off}
    /\ probe \in 0 .. CheckTime \cup {Off}
    /\ verdict \in BOOLEAN
    /\ apply \in 0 .. Lag \cup {Off}
    /\ routed \in BOOLEAN
    /\ inFlight \in 0 .. MaxRequests
    /\ rpcs \in 0 .. MaxRequests
    /\ refused \in BOOLEAN
    /\ cut \in BOOLEAN

Init ==
    /\ LifespanInit
    /\ DrainingInit
    /\ nextProbe = 0
    /\ probe = Off
    /\ verdict = FALSE
    /\ apply = Off
    /\ routed = FALSE
    /\ inFlight = 0
    /\ rpcs = 0
    /\ refused = FALSE
    /\ cut = FALSE

-----------------------------------------------------------------------------
(* The server and its lifespan                                             *)

Startup ==
    /\ server = "startup"
    /\ StartNext \/ StartFails
    /\ UNCHANGED <<drainingVars, balancer, traffic>>

\* The process ends without a lifespan shutdown of uvicorn's: the event loop
\* cancels the lifespan's task, which unwinds it, unless a signal ends the
\* process first.
Abandon == BeginStop \/ UNCHANGED lifespan

\* uvicorn's startup returns: it serves, or returns at once when told to exit
\* by then, or when the lifespan failed.
StartupReturns ==
    /\ \/ phase = "running" /\ ~shouldExit /\ ServerGoes("startup", "serving")
          /\ UNCHANGED lifespan
       \/ phase = "running" /\ shouldExit /\ ServerGoes("startup", "exited") /\ Abandon
       \/ phase = "stopped" /\ ServerGoes("startup", "exited") /\ UNCHANGED lifespan
    /\ UNCHANGED <<balancer, traffic>>

UnwindFailedStartup ==
    /\ server = "startup"
    /\ StopNext
    /\ UNCHANGED <<drainingVars, balancer, traffic>>

\* The main loop sees should_exit and closes the sockets.
StopListening ==
    /\ shouldExit
    /\ ServerGoes("serving", "closing")
    /\ UNCHANGED <<lifespan, balancer, traffic>>

\* No request is left: the lifespan is shut down.
ShutdownLifespan ==
    /\ inFlight = 0
    /\ ServerGoes("closing", "lifespan")
    /\ BeginStop
    /\ UNCHANGED <<balancer, traffic>>

\* force_exit ends the wait for requests and skips the lifespan's shutdown.
ForceExit ==
    /\ forceExit
    /\ ServerGoes("closing", "exited")
    /\ Abandon
    /\ cut' = (cut \/ inFlight > 0)
    /\ inFlight' = 0
    /\ UNCHANGED <<balancer, rpcs, refused>>

\* Mutant: the stop of the gRPC server is not awaited.
UnwindWithoutGrace ==
    /\ server \in {"lifespan", "exited"}
    /\ StopNext
    /\ UNCHANGED <<drainingVars, balancer, traffic>>

\* A resource is stopped; the gRPC server first, after its RPCs or its grace,
\* unless its stop raises.
Unwind ==
    /\ server \in {"lifespan", "exited"}
    /\ StopNext
    /\ rpcs' = IF N \in up' THEN rpcs ELSE 0
    /\ UNCHANGED <<drainingVars, balancer, inFlight, refused, cut>>

Exit ==
    /\ phase = "stopped"
    /\ ServerGoes("lifespan", "exited")
    /\ UNCHANGED <<lifespan, balancer, traffic>>

Handle ==
    /\ \E sig \in Signals : Signal(sig)
    /\ UNCHANGED <<lifespan, balancer, traffic>>

Drained ==
    /\ DrainThenExit
    /\ UNCHANGED <<lifespan, balancer, traffic>>

-----------------------------------------------------------------------------
(* Readiness and the load balancer                                         *)

\* A verdict of the load balancer, which takes effect within Lag.
Judge(ok) ==
    /\ verdict' = ok
    /\ apply' = IF ok = verdict THEN apply ELSE Lag
    /\ nextProbe' = Period
    /\ probe' = Off

\* Mutant: readiness does not look at is_draining.
ReadyUnaware ==
    /\ probe = Off
    /\ \/ server # "serving" /\ Judge(FALSE)
       \/ /\ server = "serving"
          /\ probe' = CheckTime
          /\ nextProbe' = Off
          /\ UNCHANGED <<verdict, apply>>
    /\ UNCHANGED <<lifespan, drainingVars, routed, traffic>>

\* A probe of /health/ready: refused, "draining", or the checks are run.
Ready ==
    /\ probe = Off
    /\ \/ (server # "serving" \/ draining) /\ Judge(FALSE)
       \/ /\ server = "serving" /\ ~draining
          /\ probe' = CheckTime
          /\ nextProbe' = Off
          /\ UNCHANGED <<verdict, apply>>
    /\ UNCHANGED <<lifespan, drainingVars, routed, traffic>>

\* The checks are done, also if the drain began while they ran.
ChecksDone ==
    /\ probe # Off
    /\ \E ok \in BOOLEAN : Judge(ok)
    /\ UNCHANGED <<lifespan, drainingVars, routed, traffic>>

Reroute ==
    /\ apply # Off
    /\ routed' = verdict
    /\ apply' = Off
    /\ UNCHANGED <<lifespan, drainingVars, nextProbe, probe, verdict, traffic>>

-----------------------------------------------------------------------------
(* Requests                                                                *)

Arrive ==
    /\ routed
    /\ \/ /\ server = "serving" /\ inFlight < MaxRequests
          /\ inFlight' = inFlight + 1 /\ UNCHANGED refused
       \/ /\ server # "serving" /\ refused' = TRUE /\ UNCHANGED inFlight
    /\ UNCHANGED <<lifespan, drainingVars, balancer, rpcs, cut>>

Finish ==
    /\ inFlight > 0
    /\ inFlight' = inFlight - 1
    /\ UNCHANGED <<lifespan, drainingVars, balancer, rpcs, refused, cut>>

RpcArrives ==
    /\ N \in up /\ phase = "running" /\ server # "exited"
    /\ rpcs < MaxRequests
    /\ rpcs' = rpcs + 1
    /\ UNCHANGED <<lifespan, drainingVars, balancer, inFlight, refused, cut>>

RpcEnds ==
    /\ rpcs > 0
    /\ rpcs' = rpcs - 1
    /\ UNCHANGED <<lifespan, drainingVars, balancer, inFlight, refused, cut>>

Less(t) == IF t = Off THEN Off ELSE t - 1

Tick ==
    /\ server # "exited"
    /\ 0 \notin {timer, nextProbe, probe, apply}
    /\ timer' = Less(timer)
    /\ nextProbe' = Less(nextProbe)
    /\ probe' = Less(probe)
    /\ apply' = Less(apply)
    /\ UNCHANGED <<lifespan, server, exitFlags, draining, firstSig, signals, verdict,
                   routed, traffic>>

ServerStep ==
    \/ Startup \/ StartupReturns \/ UnwindFailedStartup
    \/ StopListening \/ ShutdownLifespan \/ ForceExit \/ Unwind \/ Exit

Next ==
    \/ ServerStep
    \/ Handle \/ Drained
    \/ Ready \/ ChecksDone \/ Reroute
    \/ Arrive \/ Finish \/ RpcArrives \/ RpcEnds
    \/ Tick

Spec == Init /\ [][Next]_vars

\* The event loop runs, requests end, time passes.
Fairness ==
    /\ WF_vars(ServerStep)
    /\ WF_vars(Drained)
    /\ WF_vars(ChecksDone) /\ WF_vars(nextProbe = 0 /\ Ready) /\ WF_vars(Reroute)
    /\ WF_vars(Finish)
    /\ WF_vars(Tick)

FairSpec == Spec /\ Fairness

-----------------------------------------------------------------------------
(* Properties                                                              *)

\* Docstring of build_lifespan: "starts resources in order and unwinds on
\* failure/shutdown": a resource is not stopped before those that were started
\* on top of it, and in the end none is left up but what refused to stop.
UnwindsInOrder == StackDiscipline /\ NothingLeftUp

\* Docstring of DrainingServer: no request meets a closed socket and none is cut
\* off, although a probe may answer 200 after the drain began, unless a second
\* signal hurries the exit.
NoRequestFails == refused \/ cut => signals > 1

\* Whatever handles a request or an RPC has every resource under it, as long as
\* the gRPC server stops when told to.
HandlersHaveResources ==
    inFlight > 0 \/ (rpcs > 0 /\ N \notin stuck) => 1 .. N - 1 \subseteq up

\* A process told to exit does, although requests keep coming and whatever it
\* was doing when the signal came.
DrainEndsInExit == draining ~> server = "exited"
=============================================================================
