---------------------------- MODULE ServiceToken ----------------------------
(***************************************************************************)
(* security/service_token.py: ClientCredentialsTokenProvider, the token    *)
(* that the tasks of a process share for their calls to other services.    *)
(***************************************************************************)
EXTENDS Keycloak, Sequences

CONSTANTS
    Callers,  \* tasks that make calls
    Leeway,   \* refresh_leeway_seconds
    NoToken   \* None

ASSUME ServiceTokenAssumption ==
    /\ Leeway \in Nat
    /\ NoToken \notin Tokens

VARIABLES
    queue,      \* _lock: its holder, then those waiting, in order
    token,      \* _token
    expiresAt,  \* _expires_at
    getting,    \* where each caller is in get_token
    reply       \* the token on its way to the caller who fetches

provider == <<queue, token, expiresAt, getting, reply>>

ServiceTokenTypeOK ==
    /\ queue \in Seq(Callers)
    /\ token \in Tokens \cup {NoToken}
    /\ expiresAt \in Nat
    /\ getting \in [Callers -> {"out", "waiting", "fetching"}]
    /\ reply \in Tokens \cup {NoToken}

ServiceTokenInit ==
    /\ queue = <<>>
    /\ token = NoToken
    /\ expiresAt = 0
    /\ getting = [c \in Callers |-> "out"]
    /\ reply = NoToken

Goes(c, where) == getting' = [getting EXCEPT ![c] = where]
Larger(a, b) == IF a > b THEN a ELSE b

\* Mutant: the leeway is forgotten.
KeptForItsLifetime == Lifetime

\* How long a token is kept that has just come in.
KeptFor == Larger(Lifetime - Leeway, 1)

Holds(c) == queue # <<>> /\ Head(queue) = c
Cached == token # NoToken /\ clock < expiresAt

\* get_token queues for the lock, in order of arrival.
Ask(c) ==
    /\ queue' = Append(queue, c)
    /\ Goes(c, "waiting")
    /\ UNCHANGED <<token, expiresAt, reply>>

\* The holder leaves; so does a waiter that is cancelled.
Leave(c) ==
    /\ LET place == CHOOSE n \in 1 .. Len(queue) : queue[n] = c
       IN  queue' = SubSeq(queue, 1, place - 1) \o SubSeq(queue, place + 1, Len(queue))
    /\ Goes(c, "out")

\* get_token returns the token it has.
TakeCached(c) ==
    /\ getting[c] = "waiting"
    /\ Holds(c)
    /\ Cached
    /\ Leave(c)
    /\ UNCHANGED <<token, expiresAt, reply>>

\* The holder posts the request; Keycloak's answer is on its way.
Fetch(c) ==
    /\ getting[c] = "waiting"
    /\ Holds(c)
    /\ ~Cached
    /\ reply' = NewToken
    /\ Goes(c, "fetching")
    /\ UNCHANGED <<queue, token, expiresAt>>

\* get_token stores the token that came in and returns it.
FetchReturns(c) ==
    /\ getting[c] = "fetching"
    /\ token' = reply
    /\ expiresAt' = clock + KeptFor
    /\ reply' = NoToken
    /\ Leave(c)

\* Mutant: acquire and release by hand, with no finally.
FetchFailsHolding(c) ==
    /\ getting[c] = "fetching"
    /\ reply' = NoToken
    /\ Goes(c, "out")
    /\ UNCHANGED <<queue, token, expiresAt>>

\* The request fails or takes more than 10 seconds, or the answer is an error or
\* no token.
FetchFails(c) ==
    /\ getting[c] = "fetching"
    /\ reply' = NoToken
    /\ Leave(c)
    /\ UNCHANGED <<token, expiresAt>>

\* CancelledError at an await of get_token.
CancelGet(c) ==
    /\ getting[c] # "out"
    /\ reply' = IF Holds(c) THEN NoToken ELSE reply
    /\ Leave(c)
    /\ UNCHANGED <<token, expiresAt>>

\* Mutant: only _expires_at of a token that has run out is reset.
InvalidateLazily ==
    /\ token' = IF clock < expiresAt THEN token ELSE NoToken
    /\ UNCHANGED <<queue, expiresAt, getting, reply>>

\* Without the lock, and whichever token it was that met a 401.
Invalidate ==
    /\ token' = NoToken
    /\ expiresAt' = 0
    /\ UNCHANGED <<queue, getting, reply>>
=============================================================================
