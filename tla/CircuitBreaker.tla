--------------------------- MODULE CircuitBreaker ---------------------------
(***************************************************************************)
(* utils/circuit_breaker.py: AsyncCircuitBreaker, driven through its call  *)
(* method, its context manager and http/client.py's CircuitBreakerTransport*)
(*                                                                         *)
(* Calls overlap: before_call and the recording of the outcome are each    *)
(* atomic on the event loop, everything between them interleaves, and a    *)
(* call admitted in one state may record its outcome in another.  A refused*)
(* call (CircuitOpenError) changes nothing and is no action.               *)
(***************************************************************************)
EXTENDS Integers, FiniteSets

CONSTANTS
    Callers,           \* tasks that call through the breaker, again and again
    ContextCallers,    \* those that use `async with breaker`
    Cancellable,       \* those whose task may be cancelled in the call
    FailureThreshold,
    RecoveryTimeout,   \* in ticks
    HalfOpenMaxCalls

ASSUME CallersAssumption ==
    /\ IsFiniteSet(Callers)
    /\ ContextCallers \subseteq Callers
    /\ Cancellable \subseteq Callers

ASSUME ParametersAssumption ==
    /\ FailureThreshold \in Nat \ {0}
    /\ RecoveryTimeout \in Nat
    /\ HalfOpenMaxCalls \in Nat \ {0}

VARIABLES
    state,          \* _state
    failureCount,   \* _failure_count, saturated at FailureThreshold
    elapsed,        \* ticks since _opened_at, saturated at RecoveryTimeout
    halfOpenCalls,  \* _half_open_calls
    pc,             \* each caller: idle, or in a call admitted closed / half-open
    slots,          \* history: callers holding a slot of this half-open period
    up              \* whether the upstream answers

breaker == <<state, failureCount, elapsed, halfOpenCalls>>
vars == <<state, failureCount, elapsed, halfOpenCalls, pc, slots, up>>

TypeOK ==
    /\ state \in {"closed", "open", "half_open"}
    /\ failureCount \in 0 .. FailureThreshold
    /\ elapsed \in 0 .. RecoveryTimeout
    /\ halfOpenCalls \in 0 .. HalfOpenMaxCalls
    /\ pc \in [Callers -> {"idle", "call", "probe"}]
    /\ slots \subseteq Callers
    /\ up \in BOOLEAN

Init ==
    /\ state = "closed"
    /\ failureCount = 0
    /\ elapsed = 0
    /\ halfOpenCalls = 0
    /\ pc = [c \in Callers |-> "idle"]
    /\ slots = {}
    /\ up = TRUE

-----------------------------------------------------------------------------
(* _transition; nothing happens when the state is already the new one.     *)

ToOpen ==
    IF state = "open"
    THEN UNCHANGED <<state, elapsed, halfOpenCalls, slots>>
    ELSE /\ state' = "open"
         /\ elapsed' = 0
         /\ halfOpenCalls' = 0
         /\ slots' = {}

ToHalfOpen ==
    /\ state' = "half_open"
    /\ UNCHANGED <<failureCount, elapsed>>

ToClosed ==
    IF state = "closed"
    THEN UNCHANGED <<breaker, slots>>
    ELSE /\ state' = "closed"
         /\ failureCount' = 0
         /\ halfOpenCalls' = 0
         /\ slots' = {}
         /\ UNCHANGED elapsed

-----------------------------------------------------------------------------
(* before_call, which reads the state property first                       *)

\* The state property finds the recovery timeout over.
Recovered == state = "open" /\ elapsed >= RecoveryTimeout

AdmitClosed(c) ==
    /\ state = "closed"
    /\ pc' = [pc EXCEPT ![c] = "call"]
    /\ UNCHANGED <<breaker, slots>>

TakeSlot(c, taken, holders) ==
    /\ taken < HalfOpenMaxCalls
    /\ halfOpenCalls' = taken + 1
    /\ slots' = holders \cup {c}
    /\ pc' = [pc EXCEPT ![c] = "probe"]

AdmitProbe(c) ==
    \/ Recovered /\ ToHalfOpen /\ TakeSlot(c, 0, {})
    \/ /\ state = "half_open"
       /\ TakeSlot(c, halfOpenCalls, slots)
       /\ UNCHANGED <<state, failureCount, elapsed>>

BeforeCall(c) ==
    /\ pc[c] = "idle"
    /\ AdmitClosed(c) \/ AdmitProbe(c)
    /\ UNCHANGED up

\* Somebody reads breaker.state without calling.
ReadState ==
    /\ Recovered
    /\ ToHalfOpen
    /\ halfOpenCalls' = 0
    /\ slots' = {}
    /\ UNCHANGED <<pc, up>>

-----------------------------------------------------------------------------
(* Outcomes                                                                *)

\* Mutant: any success closes the circuit.
OnSuccessAlwaysCloses == ToClosed

\* Mutant: a success of a probe only resets the count.
OnSuccessNeverCloses == failureCount' = 0 /\ UNCHANGED <<state, elapsed, halfOpenCalls, slots>>

OnSuccess ==
    IF state = "half_open"
    THEN ToClosed
    ELSE failureCount' = 0 /\ UNCHANGED <<state, elapsed, halfOpenCalls, slots>>

CountFailure(n) == IF n = FailureThreshold THEN n ELSE n + 1

OnFailure ==
    IF state = "half_open"
    THEN ToOpen /\ UNCHANGED failureCount
    ELSE /\ failureCount' = CountFailure(failureCount)
         /\ IF CountFailure(failureCount) >= FailureThreshold
            THEN ToOpen
            ELSE UNCHANGED <<state, elapsed, halfOpenCalls, slots>>

Return(c) ==
    /\ pc[c] # "idle"
    /\ pc' = [pc EXCEPT ![c] = "idle"]
    /\ UNCHANGED up

\* The call returns; for the transport, a response below 500.
Succeed(c) == up /\ Return(c) /\ OnSuccess

\* The call raises an Exception; for the transport also a 5xx response.
Fail(c) == ~up /\ Return(c) /\ OnFailure

\* Mutant: __aexit__ records Exceptions only, like call.
CancelForgetsSlot(c) == c \in Cancellable /\ Return(c) /\ UNCHANGED <<breaker, slots>>

\* CancelledError is no Exception: call and the transport record nothing, while
\* __aexit__ records a failure for whatever leaves the block.
Cancel(c) ==
    /\ c \in Cancellable
    /\ Return(c)
    /\ IF c \in ContextCallers THEN OnFailure ELSE UNCHANGED <<breaker, slots>>

\* reset(): manual recovery.
Reset == ToClosed /\ UNCHANGED <<pc, up>>

-----------------------------------------------------------------------------
(* The environment                                                         *)

Tick ==
    /\ elapsed < RecoveryTimeout
    /\ elapsed' = elapsed + 1
    /\ UNCHANGED <<state, failureCount, halfOpenCalls, pc, slots, up>>

UpstreamChanges ==
    /\ up' = ~up
    /\ UNCHANGED <<breaker, pc, slots>>

CallerStep(c) == BeforeCall(c) \/ Succeed(c) \/ Fail(c) \/ Cancel(c)

Next ==
    \/ \E c \in Callers : CallerStep(c)
    \/ ReadState
    \/ Reset
    \/ Tick
    \/ UpstreamChanges

Spec == Init /\ [][Next]_vars

\* Time passes, callers come back, and every call ends (it has a timeout).
Fairness ==
    /\ WF_vars(Tick)
    /\ \A c \in Callers : WF_vars(BeforeCall(c))
                       /\ WF_vars(Succeed(c) \/ Fail(c))

FairSpec == Spec /\ Fairness

-----------------------------------------------------------------------------
(* Properties                                                              *)

\* A closed circuit has fewer than failure_threshold failures in a row behind
\* it, however the outcomes of earlier periods trickle in.
ClosedBelowThreshold == state = "closed" => failureCount < FailureThreshold

\* Every counted half-open call is one that is still running: no slot is lost,
\* so a half-open circuit with no probe in flight admits one.
SlotsMatchProbes ==
    state = "half_open" => /\ halfOpenCalls = Cardinality(slots)
                           /\ \A c \in slots : pc[c] = "probe"

\* While the circuit is open its timeout only runs on: the failures of calls
\* admitted before do not prolong it.
LateFailuresDoNotProlong ==
    [][state = "open" /\ state' = "open" => elapsed' >= elapsed]_vars

\* An open circuit stays open for recovery_timeout: no late success of a call
\* admitted before closes it; only reset() may.
OpenLastsTheTimeout ==
    [][state = "open" /\ state' # "open" => elapsed >= RecoveryTimeout \/ Reset]_vars

\* A half-open circuit does not stay so: a probe is admitted and its outcome
\* closes or re-opens the circuit.
HalfOpenIsLeft == (state = "half_open") ~> (state # "half_open")

\* Once the upstream is back for good and calls run to their end, the circuit
\* closes for good.
RecoversWithUpstream ==
    <>[]up /\ <>[][\A c \in Callers : ~Cancel(c)]_vars => <>[](state = "closed")
=============================================================================
