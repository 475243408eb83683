---------------------------- MODULE ServingProofs ----------------------------
(***************************************************************************)
(* Theorems about Serving and Outbound, for any number of resources, of    *)
(* requests and of gRPC targets, any number of signals, and any timing of  *)
(* the load balancer that the drain delay outlasts.  The process with its  *)
(* clients is the process of Serving, and its clients live as long as its  *)
(* handlers.                                                               *)
(***************************************************************************)
EXTENDS Outbound, TLAPS

\* The bounds are natural numbers.
LEMMA Bounds ==
    /\ Period \in Nat /\ CheckTime \in Nat /\ Lag \in Nat /\ MaxRequests \in Nat
    /\ DrainDelay > Period + CheckTime + Lag
BY ServingAssumption

USE NAssumption, DrainingAssumption, Bounds DEF Signals

-----------------------------------------------------------------------------
(* The lifespan                                                            *)

\* The phase of the lifespan tells how much of its list is started.
PhaseFits ==
    /\ phase = "starting" => started < N
    /\ phase = "running" => started = N
    /\ phase = "stopping" => started > 0
    /\ phase = "stopped" => started = 0

\* What is in the list is up; what is not is down, unless it refused to stop.
ListFits ==
    /\ \A i \in 1 .. N : i <= started => i \in up
    /\ \A i \in 1 .. N : i \in up /\ i \notin stuck => i <= started

LifespanInv == LifespanTypeOK /\ PhaseFits /\ ListFits

\* A lifespan that has not begun satisfies it.
LEMMA InitLifespanInv == LifespanInit => LifespanInv
BY DEF LifespanInit, LifespanInv, LifespanTypeOK, PhaseFits, ListFits

\* Every step of the lifespan, with or without its surroundings, preserves it.
LEMMA LifespanStep == LifespanInv /\ [LifespanNext]_lifespan => LifespanInv'
<1> SUFFICES ASSUME LifespanInv, [LifespanNext]_lifespan PROVE LifespanInv'
  OBVIOUS
<1> USE DEF LifespanInv, LifespanTypeOK, PhaseFits, ListFits
<1>1. CASE StartNext
  BY <1>1 DEF StartNext
<1>2. CASE StartFails
  BY <1>2 DEF StartFails
<1>3. CASE BeginStop
  BY <1>3 DEF BeginStop
<1>4. CASE StopNext
  <2>1. started \in 1 .. N /\ started' = started - 1
    BY <1>4 DEF StopNext
  <2>2. /\ started' \in 0 .. N
        /\ phase' = IF started' = 0 THEN "stopped" ELSE "stopping"
    BY <1>4, <2>1 DEF StopNext
  <2>3. up' \subseteq 1 .. N /\ stuck' \subseteq 1 .. N
    BY <1>4, <2>1 DEF StopNext
  <2>4. \A i \in 1 .. N : i <= started' => i \in up'
    BY <1>4, <2>1 DEF StopNext
  <2>5. ASSUME NEW i \in 1 .. N, i \in up', i \notin stuck' PROVE i <= started'
    <3>1. i \in up /\ i \notin stuck /\ i # started
      BY <1>4, <2>5 DEF StopNext
    <3> QED
      BY <2>1, <3>1
  <2> QED
    BY <2>1, <2>2, <2>3, <2>4, <2>5
<1>5. CASE UNCHANGED lifespan
  BY <1>5 DEF lifespan
<1> QED
  BY <1>1, <1>2, <1>3, <1>4, <1>5 DEF LifespanNext

\* Steps of the process are steps of the lifespan, or leave it alone.
LEMMA LifespanRefined == [Next]_vars => [LifespanNext]_lifespan
<1> SUFFICES ASSUME [Next]_vars PROVE [LifespanNext]_lifespan
  OBVIOUS
<1>1. CASE ServerStep
  BY <1>1 DEF ServerStep, Startup, StartupReturns, UnwindFailedStartup, StopListening,
              ShutdownLifespan, ForceExit, Unwind, Exit, Abandon, LifespanNext
<1>2. CASE ~ServerStep
  BY <1>2 DEF Next, Handle, Drained, Ready, ChecksDone, Reroute, Arrive, Finish,
              RpcArrives, RpcEnds, Tick, vars
<1> QED
  BY <1>1, <1>2

-----------------------------------------------------------------------------
(* The server and what it handles                                          *)

HandlersTypeOK ==
    /\ server \in {"startup", "serving", "closing", "lifespan", "exited"}
    /\ inFlight \in 0 .. MaxRequests
    /\ rpcs \in 0 .. MaxRequests

\* Requests are handled between the start and the end of the lifespan, RPCs
\* between those of the gRPC server, which a failed start-up never started.
HandlersFit ==
    /\ server \in {"serving", "closing"} => phase = "running"
    /\ inFlight > 0 => server \in {"serving", "closing"}
    /\ rpcs > 0 /\ N \notin stuck => started = N
    /\ server = "startup" /\ phase = "stopping" => started < N

HandlersInv == HandlersTypeOK /\ HandlersFit

\* Every step keeps the handlers within the lifespan.
LEMMA HandlersStep == LifespanInv /\ HandlersInv /\ [Next]_vars => HandlersInv'
<1> SUFFICES ASSUME LifespanInv, HandlersInv, [Next]_vars PROVE HandlersInv'
  OBVIOUS
<1> USE DEF LifespanInv, LifespanTypeOK, PhaseFits, ListFits, HandlersInv,
            HandlersTypeOK, HandlersFit, lifespan, drainingVars, traffic
<1>1. CASE Startup
  BY <1>1 DEF Startup, StartNext, StartFails
<1>2. CASE StartupReturns
  BY <1>2 DEF StartupReturns, ServerGoes, Abandon, BeginStop
<1>3. CASE UnwindFailedStartup
  BY <1>3 DEF UnwindFailedStartup, StopNext
<1>4. CASE StopListening
  BY <1>4 DEF StopListening, ServerGoes
<1>5. CASE ShutdownLifespan
  BY <1>5 DEF ShutdownLifespan, ServerGoes, BeginStop
<1>6. CASE ForceExit
  BY <1>6 DEF ForceExit, ServerGoes, Abandon, BeginStop
<1>7. CASE Unwind
  BY <1>7 DEF Unwind, StopNext
<1>8. CASE Exit
  BY <1>8 DEF Exit, ServerGoes
<1>9. CASE Handle \/ Drained
  BY <1>9 DEF Handle, Signal, Drained, DrainThenExit
<1>10. CASE Ready \/ ChecksDone \/ Reroute
  BY <1>10 DEF Ready, ChecksDone, Reroute
<1>11. CASE Arrive \/ Finish
  BY <1>11 DEF Arrive, Finish
<1>12. CASE RpcArrives \/ RpcEnds
  BY <1>12 DEF RpcArrives, RpcEnds
<1>13. CASE Tick
  BY <1>13 DEF Tick
<1>14. CASE UNCHANGED vars
  BY <1>14 DEF vars
<1> QED
  BY <1>1, <1>2, <1>3, <1>4, <1>5, <1>6, <1>7, <1>8, <1>9, <1>10, <1>11, <1>12, <1>13,
     <1>14 DEF Next, ServerStep

\* The lifespan and the handlers fit together throughout.
THEOREM ServingInvariant == Spec => [](LifespanInv /\ HandlersInv)
<1>1. Init => LifespanInv /\ HandlersInv
  BY InitLifespanInv
  DEF Init, LifespanInit, DrainingInit, HandlersInv, HandlersTypeOK, HandlersFit
<1>2. LifespanInv /\ HandlersInv /\ [Next]_vars => (LifespanInv /\ HandlersInv)'
  BY LifespanStep, LifespanRefined, HandlersStep
<1> QED
  BY <1>1, <1>2, PTL DEF Spec

\* build_lifespan stops resources in the reverse of the order it started them,
\* each one whatever the others raise, wherever the start-up failed.
THEOREM ResourcesUnwind == Spec => []UnwindsInOrder
<1>1. LifespanInv => UnwindsInOrder
  BY DEF LifespanInv, LifespanTypeOK, PhaseFits, ListFits, UnwindsInOrder,
         StackDiscipline, NothingLeftUp
<1> QED
  BY <1>1, ServingInvariant, PTL

\* Requests and RPCs are handled on top of every resource.
THEOREM HandlersAreServed == Spec => []HandlersHaveResources
<1>1. LifespanInv /\ HandlersInv => HandlersHaveResources
  BY DEF LifespanInv, LifespanTypeOK, PhaseFits, ListFits, HandlersInv, HandlersTypeOK,
         HandlersFit, HandlersHaveResources
<1> QED
  BY <1>1, ServingInvariant, PTL
-----------------------------------------------------------------------------
(* The drain and the load balancer                                         *)

DrainTypeOK ==
    /\ DrainingTypeOK
    /\ nextProbe \in 0 .. Period \cup {Off}
    /\ probe \in 0 .. CheckTime \cup {Off}
    /\ apply \in 0 .. Lag \cup {Off}
    /\ verdict \in BOOLEAN /\ routed \in BOOLEAN
    /\ refused \in BOOLEAN /\ cut \in BOOLEAN

\* The verdict is negative and no answer that could change it is under way.
Quiet == probe = Off /\ ~verdict /\ apply = Off /\ ~routed

\* The probes are due one after the other, and verdicts take effect.
BalancerFits ==
    /\ probe = Off => nextProbe # Off
    /\ apply = Off => (routed <=> verdict)
    /\ server = "startup" => Quiet

\* The first signal starts the drain; only its end makes the server exit.
SignalsFit ==
    /\ signals = 0 => ~draining /\ timer = Off /\ ~shouldExit
    /\ signals <= 1 => ~forceExit
    /\ signals = 1 /\ timer # Off => draining /\ ~shouldExit
    /\ signals = 1 => draining

\* What is left of the drain is longer than the load balancer needs to stop
\* sending requests: for a running probe, to answer, to be followed by the next
\* and for that to take effect.
DrainOutlastsBalancer ==
    signals = 1 /\ timer # Off =>
        \/ Quiet
        \/ probe = Off /\ ~verdict /\ apply # Off /\ timer > apply
        \/ probe = Off /\ verdict /\ timer > nextProbe + Lag
        \/ probe # Off /\ timer > probe + Period + Lag

\* When it is over no request comes, and before it no socket is closed.
QuietAfterDrain ==
    /\ signals <= 1 /\ shouldExit => draining /\ Quiet
    /\ signals <= 1 /\ server # "serving" => Quiet

DrainInv ==
    /\ DrainTypeOK
    /\ BalancerFits
    /\ SignalsFit
    /\ DrainOutlastsBalancer
    /\ QuietAfterDrain
    /\ NoRequestFails

\* Time passes for a timer that runs and is not due.
LEMMA LessCounts ==
    ASSUME NEW b \in Nat, NEW t \in 0 .. b \cup {Off}, t # 0
    PROVE  /\ Less(t) \in 0 .. b \cup {Off}
           /\ t = Off => Less(t) = Off
           /\ t # Off => Less(t) # Off /\ Less(t) = t - 1
BY DEF Less

\* Every step of the drain, of the probes and of the requests preserves the
\* inductive invariant.
LEMMA DrainStep == DrainInv /\ HandlersInv /\ [Next]_vars => DrainInv'
<1> SUFFICES ASSUME DrainInv, HandlersInv, [Next]_vars PROVE DrainInv'
  OBVIOUS
<1> USE DEF DrainInv, DrainTypeOK, DrainingTypeOK, BalancerFits, SignalsFit, Quiet,
            DrainOutlastsBalancer, QuietAfterDrain, NoRequestFails, HandlersInv,
            HandlersTypeOK, drainingVars, exitFlags, drain, balancer, traffic
<1>1. CASE Startup \/ UnwindFailedStartup
  BY <1>1 DEF Startup, UnwindFailedStartup
<1>2. CASE StartupReturns
  BY <1>2 DEF StartupReturns, ServerGoes
<1>3. CASE StopListening
  BY <1>3 DEF StopListening, ServerGoes
<1>4. CASE ShutdownLifespan \/ Exit
  BY <1>4 DEF ShutdownLifespan, Exit, ServerGoes
<1>5. CASE ForceExit
  BY <1>5 DEF ForceExit, ServerGoes
<1>6. CASE Unwind
  BY <1>6 DEF Unwind
<1>7. ASSUME NEW sig \in Signals, Signal(sig), UNCHANGED <<lifespan, balancer, traffic>>
      PROVE  DrainInv'
  <2>1. DrainTypeOK'
    <3>1. shouldExit' \in BOOLEAN /\ forceExit' \in BOOLEAN /\ draining' \in BOOLEAN
      BY <1>7 DEF Signal, HandleExit, UvicornHandleExit
    <3>2. firstSig' \in Signals /\ timer' \in 0 .. DrainDelay \cup {Off}
      BY <1>7 DEF Signal, HandleExit
    <3>3. signals' \in 0 .. MaxSignals
      BY <1>7 DEF Signal
    <3> QED
      BY <1>7, <3>1, <3>2, <3>3 DEF Signal
  <2>2. BalancerFits' /\ NoRequestFails'
    BY <1>7 DEF Signal
  <2>3. CASE signals = 0
    <3>1. draining' /\ timer' = DrainDelay /\ signals' = 1 /\ UNCHANGED exitFlags
      BY <1>7, <2>3 DEF Signal, HandleExit
    <3>2. SignalsFit' /\ QuietAfterDrain'
      BY <1>7, <2>3, <3>1 DEF Signal
    <3>3. DrainOutlastsBalancer'
      BY <1>7, <2>3, <3>1 DEF Signal
    <3> QED
      BY <2>1, <2>2, <3>2, <3>3
  <2>4. CASE signals > 0
    <3>1. signals' \in Nat /\ signals' > 1
      BY <1>7, <2>4 DEF Signal
    <3>2. SignalsFit' /\ DrainOutlastsBalancer' /\ QuietAfterDrain'
      BY <3>1
    <3> QED
      BY <2>1, <2>2, <3>2
  <2> QED
    BY <2>3, <2>4
<1>8. CASE Drained
  BY <1>8 DEF Drained, DrainThenExit, UvicornHandleExit
<1>9. CASE Ready
  <2>1. CASE (server # "serving" \/ draining) /\ Judge(FALSE)
    <3>1. DrainTypeOK'
      <4>1. UNCHANGED <<drainingVars, routed, traffic>>
        BY <1>9 DEF Ready
      <4>2. nextProbe' = Period /\ probe' = Off /\ verdict' = FALSE /\ apply' \in {apply, Lag}
        BY <2>1 DEF Judge
      <4>3. apply' \in 0 .. Lag \cup {Off} /\ nextProbe' \in 0 .. Period \cup {Off}
        BY <4>2
      <4> QED
        BY <4>1, <4>2, <4>3
    <3>2. BalancerFits' /\ SignalsFit' /\ NoRequestFails'
      BY <1>9, <2>1 DEF Ready, Judge
    <3>3. DrainOutlastsBalancer' /\ QuietAfterDrain'
      BY <1>9, <2>1 DEF Ready, Judge
    <3> QED
      BY <3>1, <3>2, <3>3
  <2>2. CASE server = "serving" /\ ~draining /\ probe' = CheckTime
    BY <1>9, <2>2 DEF Ready, Judge
  <2> QED
    BY <1>9, <2>1, <2>2 DEF Ready
<1>10. CASE ChecksDone
  BY <1>10 DEF ChecksDone, Judge
<1>11. CASE Reroute
  BY <1>11 DEF Reroute
<1>12. CASE Arrive
  <2>1. server # "serving" => signals > 1
    BY <1>12 DEF Arrive
  <2>2. CASE server = "serving" /\ UNCHANGED refused
    BY <1>12, <2>2 DEF Arrive
  <2>3. CASE server # "serving" /\ refused' = TRUE
    BY <1>12, <2>1, <2>3 DEF Arrive
  <2> QED
    BY <1>12, <2>2, <2>3 DEF Arrive
<1>13. CASE Finish \/ RpcArrives \/ RpcEnds
  BY <1>13 DEF Finish, RpcArrives, RpcEnds
<1>14. CASE Tick
  BY <1>14, LessCounts DEF Tick
<1>15. CASE UNCHANGED vars
  BY <1>15 DEF vars
<1> QED
  BY <1>1, <1>2, <1>3, <1>4, <1>5, <1>6, <1>7, <1>8, <1>9, <1>10, <1>11, <1>12, <1>13,
     <1>14, <1>15 DEF Next, ServerStep, Handle

\* The drain outlasts the load balancer throughout.
THEOREM DrainInvariant == Spec => []DrainInv
<1>1. Init => DrainInv
  <2> SUFFICES ASSUME Init PROVE DrainInv
    OBVIOUS
  <2>1. /\ server = "startup" /\ ~shouldExit /\ ~forceExit /\ ~draining
        /\ timer = Off /\ signals = 0 /\ firstSig = "TERM"
    BY DEF Init, DrainingInit
  <2>2. /\ nextProbe = 0 /\ probe = Off /\ apply = Off /\ ~verdict /\ ~routed
        /\ ~refused /\ ~cut
    BY DEF Init
  <2>3. DrainTypeOK
    <3>1. DrainingTypeOK
      <4>1. timer \in 0 .. DrainDelay \cup {Off}
        BY <2>1
      <4>2. signals \in 0 .. MaxSignals
        BY <2>1
      <4>3. shouldExit \in BOOLEAN /\ forceExit \in BOOLEAN /\ draining \in BOOLEAN
        BY DEF Init, DrainingInit
      <4> QED
        BY <2>1, <4>1, <4>2, <4>3 DEF DrainingTypeOK
    <3>2. nextProbe \in 0 .. Period \cup {Off}
      BY <2>2
    <3> QED
      BY <2>2, <3>1, <3>2 DEF Init, DrainTypeOK
  <2>4. BalancerFits /\ SignalsFit /\ QuietAfterDrain
    BY <2>1, <2>2 DEF BalancerFits, SignalsFit, QuietAfterDrain, Quiet
  <2>5. DrainOutlastsBalancer /\ NoRequestFails
    BY <2>1, <2>2 DEF DrainOutlastsBalancer, NoRequestFails
  <2> QED
    BY <2>3, <2>4, <2>5 DEF DrainInv
<1>2. DrainInv /\ HandlersInv /\ [Next]_vars => DrainInv'
  BY DrainStep
<1> QED
  BY <1>1, <1>2, ServingInvariant, PTL DEF Spec

\* One signal refuses no request and cuts none off, whenever it comes, if the
\* delay is longer than a probe, its checks and the change of routing together.
THEOREM DrainServesAll == Spec => []NoRequestFails
<1>1. DrainInv => NoRequestFails
  BY DEF DrainInv
<1> QED
  BY <1>1, DrainInvariant, PTL

\* Every variable keeps its type.
THEOREM TypeCorrectness == Spec => []TypeOK
<1>1. LifespanInv /\ HandlersInv /\ DrainInv => TypeOK
  BY DEF LifespanInv, HandlersInv, HandlersTypeOK, DrainInv, DrainTypeOK, TypeOK
<1> QED
  BY <1>1, ServingInvariant, DrainInvariant, PTL

-----------------------------------------------------------------------------
(* Outbound                                                                *)

\* The resources of the two clients lie under the gRPC server.
LEMMA ResourceNumbers ==
    Storage \in 1 .. N - 1 /\ Pool \in 1 .. N - 1 /\ Storage # Pool
BY OutboundAssumption

-----------------------------------------------------------------------------
(* Refinement                                                              *)

\* Every step of the composition is a step of Serving or leaves it alone.
LEMMA ServingStep == [OutboundNext]_outboundVars => [Next]_vars
BY DEF OutboundNext, outboundVars, Client, GetChannel

\* Outbound implements Serving: what was proved of the process holds with clients.
THEOREM ImplementsServing == OutboundSpec => Spec
<1>1. OutboundInit => Init
  BY DEF OutboundInit
<1> QED
  BY <1>1, ServingStep, PTL DEF OutboundSpec, Spec

-----------------------------------------------------------------------------
(* The clients                                                             *)

\* The storage is open while its resource is up; the pool holds channels no
\* longer than its own, if the gRPC server stops.
ClientsFit ==
    /\ opened \in BOOLEAN
    /\ opened <=> Storage \in up
    /\ Pool \notin stuck
    /\ channels # {} /\ N \notin stuck => Pool \in up
    /\ notOpen => N \in stuck

\* Handlers that run have both resources under them.
LEMMA HandlersHaveClients ==
    ASSUME LifespanInv, HandlersInv, Handling, N \notin stuck
    PROVE  Storage \in up /\ Pool \in up
<1>1. inFlight \in Nat /\ rpcs \in Nat
  BY DEF HandlersInv, HandlersTypeOK
<1>2. started = N
  BY <1>1 DEF LifespanInv, PhaseFits, HandlersInv, HandlersFit, Handling
<1> QED
  BY <1>2, ResourceNumbers DEF LifespanInv, ListFits

\* Steps of the process keep the clients with their resources.
LEMMA ResourcesStep ==
    LifespanInv /\ ClientsFit /\ [LifespanNext]_lifespan /\ Resources => ClientsFit'
<1> SUFFICES ASSUME LifespanInv, ClientsFit, [LifespanNext]_lifespan, Resources
             PROVE  ClientsFit'
  OBVIOUS
<1> USE DEF ClientsFit
<1>1. stuck \subseteq stuck'
  BY DEF LifespanNext, StartNext, StartFails, BeginStop, StopNext, lifespan
<1>2. Pool \in up /\ Pool \notin up' => channels' = {}
  <2> SUFFICES ASSUME Pool \in up, Pool \notin up' PROVE channels' = {}
    OBVIOUS
  <2>1. StopNext /\ Pool = started
    BY DEF LifespanNext, StartNext, StartFails, BeginStop, StopNext, lifespan
  <2> QED
    BY <2>1 DEF StopNext, Resources, AClose, Unwinding
<1>3. channels' \in {channels, {}}
  BY DEF Resources, AClose
<1>4. opened' \in BOOLEAN /\ (opened' <=> Storage \in up')
  BY DEF Resources, OpenOrClose
<1>5. Pool \notin stuck' /\ notOpen' = notOpen
  BY DEF Resources, AClose
<1> QED
  BY <1>1, <1>2, <1>3, <1>4, <1>5

\* Every step keeps the clients with their resources.
LEMMA ClientsStep ==
    LifespanInv /\ HandlersInv /\ ClientsFit /\ [OutboundNext]_outboundVars => ClientsFit'
<1> SUFFICES ASSUME LifespanInv, HandlersInv, ClientsFit, [OutboundNext]_outboundVars
             PROVE  ClientsFit'
  OBVIOUS
<1>1. CASE Next /\ Resources
  BY <1>1, LifespanRefined, ResourcesStep
<1>2. CASE Client
  BY <1>2, HandlersHaveClients DEF Client, ClientsFit, vars, lifespan
<1>3. CASE \E target \in Targets : GetChannel(target)
  BY <1>3, HandlersHaveClients DEF GetChannel, ClientsFit, vars, lifespan
<1>4. CASE UNCHANGED outboundVars
  BY <1>4 DEF outboundVars, clients, vars, lifespan, ClientsFit
<1> QED
  BY <1>1, <1>2, <1>3, <1>4 DEF OutboundNext

\* Handlers find their clients open and nothing stays open after the lifespan,
\* whatever fails to start or stop and whenever the process is told to exit.
THEOREM ClientsAreOpenAndClosed == OutboundSpec => []ClientsSpanTheirHandlers
<1>1. OutboundInit => ClientsFit
  BY ResourceNumbers DEF OutboundInit, Init, LifespanInit, ClientsFit
<1>2. LifespanInv /\ ClientsFit => ClientsSpanTheirHandlers
  BY ResourceNumbers DEF LifespanInv, PhaseFits, ListFits, ClientsFit, ClientsSpanTheirHandlers
<1> QED
  BY <1>1, <1>2, ClientsStep, ImplementsServing, ServingInvariant, PTL DEF OutboundSpec

\* The clients keep their types: channels go to targets only.
THEOREM ClientsTypeCorrectness == OutboundSpec => []ClientsTypeOK
<1>1. OutboundInit => ClientsTypeOK
  BY DEF OutboundInit, ClientsTypeOK
<1>2. ClientsTypeOK /\ [OutboundNext]_outboundVars => ClientsTypeOK'
  BY DEF ClientsTypeOK, OutboundNext, Resources, OpenOrClose, AClose, Client, GetChannel,
         outboundVars, clients
<1> QED
  BY <1>1, <1>2, PTL DEF OutboundSpec
=============================================================================
