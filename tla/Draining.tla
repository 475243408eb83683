------------------------------ MODULE Draining ------------------------------
(***************************************************************************)
(* DrainingServer of runtime/uvicorn.py over uvicorn.Server: signals, the  *)
(* drain delay and the phases of the server.                               *)
(*                                                                         *)
(* Signal handlers are installed by uvicorn's serve, so _loop is always    *)
(* set when one runs.  A delay of 0 stands for the plain uvicorn.run of    *)
(* run_uvicorn.  uvicorn itself is not in the repository and is modelled   *)
(* by what the code relies on.                                             *)
(***************************************************************************)
EXTENDS Integers

CONSTANTS
    DrainDelay,   \* drain_delay_seconds, in ticks
    MaxSignals,   \* bound: how many signals arrive
    Off           \* a timer that does not run

ASSUME DrainingAssumption == DrainDelay \in Nat /\ MaxSignals \in Nat /\ Off \notin Nat

Signals == {"INT", "TERM"}

VARIABLES
    server,      \* where uvicorn's _serve is
    shouldExit,  \* uvicorn's should_exit
    forceExit,   \* uvicorn's force_exit
    draining,    \* _draining, and is_draining() of lifecycle.py
    firstSig,    \* the signal _drain_then_exit hands on
    timer,       \* what is left of its sleep
    signals      \* how many signals arrived

exitFlags == <<shouldExit, forceExit>>
drain == <<draining, firstSig, timer>>

DrainingTypeOK ==
    /\ server \in {"startup", "serving", "closing", "lifespan", "exited"}
    /\ shouldExit \in BOOLEAN
    /\ forceExit \in BOOLEAN
    /\ draining \in BOOLEAN
    /\ firstSig \in Signals
    /\ timer \in 0 .. DrainDelay \cup {Off}
    /\ signals \in 0 .. MaxSignals

DrainingInit ==
    /\ server = "startup"
    /\ shouldExit = FALSE
    /\ forceExit = FALSE
    /\ draining = FALSE
    /\ firstSig = "TERM"
    /\ timer = Off
    /\ signals = 0

\* uvicorn.Server.handle_exit: SIGINT after the first call forces the exit.
UvicornHandleExit(sig) ==
    /\ forceExit' = (forceExit \/ (shouldExit /\ sig = "INT"))
    /\ shouldExit' = TRUE

\* DrainingServer.handle_exit: the first signal starts the drain, a later one
\* goes to uvicorn.
HandleExit(sig) ==
    \/ /\ draining \/ DrainDelay = 0
       /\ UvicornHandleExit(sig)
       /\ UNCHANGED drain
    \/ /\ ~draining /\ DrainDelay > 0
       /\ draining' = TRUE
       /\ firstSig' = sig
       /\ timer' = DrainDelay
       /\ UNCHANGED exitFlags

Signal(sig) ==
    /\ server # "exited"
    /\ signals < MaxSignals
    /\ signals' = signals + 1
    /\ HandleExit(sig)
    /\ UNCHANGED server

\* Mutant: the delay is over but nobody is told.
DrainEnds ==
    /\ timer = 0
    /\ timer' = Off
    /\ UNCHANGED <<exitFlags, server, draining, firstSig, signals>>

\* _drain_then_exit wakes up, whatever happened while it slept.
DrainThenExit ==
    /\ server # "exited"
    /\ timer = 0
    /\ UvicornHandleExit(firstSig)
    /\ timer' = Off
    /\ UNCHANGED <<server, draining, firstSig, signals>>

ServerGoes(from, to) ==
    /\ server = from
    /\ server' = to
    /\ UNCHANGED <<exitFlags, drain, signals>>
=============================================================================
