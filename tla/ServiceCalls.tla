---------------------------- MODULE ServiceCalls ----------------------------
(***************************************************************************)
(* Calls from one service to another, made under utils/retry.py: the caller*)
(* gets the token of its process (ServiceToken), the service called checks *)
(* it (TokenValidator), and a 401 makes the caller drop it, as the         *)
(* docstring of invalidate proposes, and try again.  Keycloak may fail to  *)
(* answer at any time.                                                     *)
(***************************************************************************)
EXTENDS ServiceToken, TokenValidator

CONSTANTS
    Cancellable,  \* callers that may be cancelled
    MaxAttempts,  \* of retry_async, for each caller: 1 without it
    MaxFetchLag,  \* bound: ticks a token may be on its way to the caller
    MaxCallLag    \* bound: and from there to the end of its check

ASSUME ServiceCallsAssumption ==
    /\ Threads = Callers
    /\ Cancellable \subseteq Callers
    /\ MaxAttempts \in [Callers -> Nat \ {0}]
    /\ MaxFetchLag \in Nat
    /\ MaxCallLag \in Nat

VARIABLES
    call,    \* where each call is
    tries,   \* attempts made so far
    held,    \* the token it sends
    lag,     \* ticks its token has been on its way
    excused  \* history: an attempt that Keycloak did not answer

calls == <<call, tries, held, lag, excused>>
vars == <<clock, keycloak, provider, validator, calls>>

CallsTypeOK ==
    /\ call \in [Callers -> {"idle", "getting", "holding", "checking", "failed",
                             "served", "error", "cancelled"}]
    /\ tries \in [Callers -> Nat]
    /\ \A c \in Callers : tries[c] <= MaxAttempts[c]
    /\ held \in [Callers -> Tokens \cup {NoToken}]
    /\ lag \in [Callers -> 0 .. Larger(MaxFetchLag, MaxCallLag)]
    /\ excused \in [Callers -> BOOLEAN]

Init ==
    /\ KeycloakInit
    /\ ServiceTokenInit
    /\ TokenValidatorInit
    /\ call = [c \in Callers |-> "idle"]
    /\ tries = [c \in Callers |-> 0]
    /\ held = [c \in Callers |-> NoToken]
    /\ lag = [c \in Callers |-> 0]
    /\ excused = [c \in Callers |-> FALSE]

Becomes(c, where) == call' = [call EXCEPT ![c] = where]
Drop(c) == held' = [held EXCEPT ![c] = NoToken] /\ lag' = [lag EXCEPT ![c] = 0]

\* The call is over, and what was noted of it forgotten.
Over(c, how) ==
    /\ Becomes(c, how)
    /\ Drop(c)
    /\ tries' = [tries EXCEPT ![c] = 0]
    /\ excused' = [excused EXCEPT ![c] = FALSE]

Excuse(c) == excused' = [excused EXCEPT ![c] = TRUE]

\* The next attempt of retry_async.
Try(c) ==
    /\ Becomes(c, "getting")
    /\ tries' = [tries EXCEPT ![c] = @ + 1]
    /\ Ask(c)

Start(c) ==
    /\ call[c] = "idle"
    /\ Try(c)
    /\ UNCHANGED <<clock, keycloak, validator, held, lag, excused>>

Request(c) ==
    /\ Fetch(c)
    /\ lag' = [lag EXCEPT ![c] = 0]
    /\ UNCHANGED <<clock, keycloak, validator, call, tries, held, excused>>

Get(c) ==
    /\ TakeCached(c) \/ FetchReturns(c)
    /\ held' = [held EXCEPT ![c] = token']
    /\ lag' = [lag EXCEPT ![c] = 0]
    /\ Becomes(c, "holding")
    /\ UNCHANGED <<clock, keycloak, validator, tries, excused>>

GetFails(c) ==
    /\ FetchFails(c)
    /\ Excuse(c)
    /\ Becomes(c, "failed")
    /\ UNCHANGED <<clock, keycloak, validator, tries, held, lag>>

Send(c) ==
    /\ call[c] = "holding"
    /\ BeginDecode(c)
    /\ Becomes(c, "checking")
    /\ UNCHANGED <<clock, keycloak, provider, tries, held, lag, excused>>

\* The service called checks the token.
CheckToken(c) ==
    /\ \/ GetJwksClient(c)
       \/ LookUp(c, held[c].key, held[c].expires)
       \/ FetchJwks(c, held[c].key, held[c].expires)
       \/ FetchJwksFails(c, held[c].key)
    /\ UNCHANGED <<clock, keycloak, provider, calls>>

Succeed(c) ==
    /\ call[c] = "checking"
    /\ check[c] = "accepted"
    /\ Answered(c)
    /\ Over(c, "served")
    /\ UNCHANGED <<clock, keycloak, provider>>

\* The 401 arrives.
MeetRefusal(c) ==
    /\ call[c] = "checking"
    /\ check[c] = "rejected"
    /\ Answered(c)
    /\ Invalidate
    /\ Drop(c)
    /\ Becomes(c, "failed")
    /\ \/ misses[c] = 2 /\ Excuse(c)
       \/ misses[c] < 2 /\ UNCHANGED excused
    /\ UNCHANGED <<clock, keycloak, tries>>

\* After a backoff, or raising the last exception.
RetryOrRaise(c) ==
    /\ call[c] = "failed"
    /\ \/ tries[c] < MaxAttempts[c] /\ Try(c)
       \/ /\ tries[c] = MaxAttempts[c]
          /\ Becomes(c, "error")
          /\ UNCHANGED <<tries, provider>>
    /\ UNCHANGED <<clock, keycloak, validator, held, lag, excused>>

\* CancelledError is no Exception: it is not tried again.
CancelCall(c) ==
    /\ c \in Cancellable
    /\ \/ call[c] = "getting" /\ CancelGet(c)
       \/ call[c] \in {"holding", "failed"} /\ UNCHANGED provider
    /\ Over(c, "cancelled")
    /\ UNCHANGED <<clock, keycloak, validator>>

Fetching(c) == getting[c] = "fetching"
Calling(c) == call[c] \in {"holding", "checking"}

Tick ==
    /\ clock < Horizon
    /\ \A c \in Callers :
          /\ Fetching(c) => lag[c] < MaxFetchLag
          /\ Calling(c) => lag[c] < MaxCallLag
    /\ clock' = clock + 1
    /\ lag' = [c \in Callers |-> IF Fetching(c) \/ Calling(c) THEN lag[c] + 1 ELSE lag[c]]
    /\ UNCHANGED <<keycloak, provider, validator, call, tries, held, excused>>

KeysChange ==
    /\ RotateKeys \/ \E k \in Keys : RetireKey(k)
    /\ UNCHANGED <<provider, validator, calls>>

Progress(c) ==
    Request(c) \/ Get(c) \/ GetFails(c) \/ Send(c) \/ CheckToken(c) \/ Succeed(c)
    \/ MeetRefusal(c) \/ RetryOrRaise(c)

Next ==
    \/ \E c \in Callers : Start(c) \/ Progress(c) \/ CancelCall(c)
    \/ Tick
    \/ KeysChange

\* Tasks and threads run and requests time out; nothing is assumed of Keycloak.
Fairness == \A c \in Callers : WF_vars(Progress(c))

Spec == Init /\ [][Next]_vars /\ Fairness

-----------------------------------------------------------------------------
(* Properties                                                              *)

\* With more than two attempts per key that was retired, a call fails for good
\* only if Keycloak left both attempts of a check, or a fetch of the token,
\* unanswered: no expiry, no rotation and no other caller's 401 makes it fail.
\* (One attempt may send a token kept from before the rotation, and one more a
\* token that another caller fetched before it and stored after the first one
\* was invalidated.)
RotationIsSurvived ==
    \A c \in Callers :
        /\ call[c] = "error"
        /\ MaxAttempts[c] > 2 * Cardinality({k \in Keys : retired[k] # Never})
        => excused[c]

\* A key taken out of the JWKS stops being accepted jwks_cache_ttl_seconds
\* later, whatever clients the threads still hold.
RetiredKeysExpire ==
    \A c \in Callers :
        call[c] = "checking" /\ check[c] = "accepted" =>
            retired[held[c].key] = Never \/ seen[c] - retired[held[c].key] <= TTL

\* Every call is served, fails after its last attempt or is cancelled: a failed
\* or cancelled fetch gives the lock back to those who wait for it.
CallsAreAnswered ==
    \A c \in Callers :
        call[c] = "getting" ~> call[c] \in {"served", "error", "cancelled"}
=============================================================================
