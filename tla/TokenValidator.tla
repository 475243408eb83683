--------------------------- MODULE TokenValidator ---------------------------
(***************************************************************************)
(* security/keycloak.py: KeycloakTokenValidator.  decode_async runs every  *)
(* check in a thread of its own.  They share the PyJWKClient in use, and   *)
(* keep hold of the one they got: a client is an object, with the keys it  *)
(* has fetched so far.                                                     *)
(***************************************************************************)
EXTENDS Keycloak, FiniteSets

CONSTANTS
    Threads,  \* checks that run side by side
    Clients,  \* PyJWKClient objects: a new one can always be made
    TTL,      \* jwks_cache_ttl_seconds
    NoClient  \* None

ASSUME TokenValidatorAssumption ==
    /\ TTL \in Nat
    /\ NoClient \notin Clients
    /\ IsFiniteSet(Threads) /\ IsFiniteSet(Clients)
    /\ Cardinality(Clients) > Cardinality(Threads)

VARIABLES
    client,  \* _jwks_client
    born,    \* _jwks_fetched_at of each client
    keys,    \* the keys each client has
    check,   \* where each check is
    forced,  \* whether it is in its second attempt, with force_refresh
    seen,    \* what its attempt read the time to be
    using,   \* the client it got
    misses   \* history: its attempts for which Keycloak did not answer

validator == <<client, born, keys, check, forced, seen, using, misses>>

TokenValidatorTypeOK ==
    /\ client \in Clients \cup {NoClient}
    /\ born \in [Clients -> Times]
    /\ keys \in [Clients -> SUBSET Keys]
    /\ check \in [Threads -> {"none", "lock", "look", "accepted", "rejected"}]
    /\ forced \in [Threads -> BOOLEAN]
    /\ seen \in [Threads -> Times]
    /\ using \in [Threads -> Clients \cup {NoClient}]
    /\ misses \in [Threads -> 0 .. 2]

TokenValidatorInit ==
    /\ client = NoClient
    /\ born = [p \in Clients |-> 0]
    /\ keys = [p \in Clients |-> {}]
    /\ check = [c \in Threads |-> "none"]
    /\ forced = [c \in Threads |-> FALSE]
    /\ seen = [c \in Threads |-> 0]
    /\ using = [c \in Threads |-> NoClient]
    /\ misses = [c \in Threads |-> 0]

Moves(c, where) == check' = [check EXCEPT ![c] = where]

\* An attempt starts by reading the time, before it takes the lock.
Attempt(c, force) ==
    /\ Moves(c, "lock")
    /\ forced' = [forced EXCEPT ![c] = force]
    /\ seen' = [seen EXCEPT ![c] = clock]

BeginDecode(c) ==
    /\ check[c] = "none"
    /\ Attempt(c, FALSE)
    /\ UNCHANGED <<client, born, keys, using, misses>>

\* Mutant: the age of the client is not looked at.
ExpiredNever(c) == client = NoClient

Expired(c) == client # NoClient => seen[c] - born[client] > TTL

\* The clients with these references to them; the others are garbage, and kept
\* in their first state.
Referenced(shared, held) == {shared} \cup {held[c] : c \in Threads}
Tidy(f, live, empty) == [p \in Clients |-> IF p \in live THEN f[p] ELSE empty]

\* _get_jwks_client.
GetJwksClient(c) ==
    /\ check[c] = "lock"
    /\ \/ /\ forced[c] \/ Expired(c)
          /\ LET others == Referenced(NoClient, using)
                 new == CHOOSE p \in Clients \ (others \cup {client}) : TRUE
             IN  /\ client' = new
                 /\ born' = [Tidy(born, others, 0) EXCEPT ![new] = seen[c]]
                 /\ keys' = Tidy(keys, others, {})
                 /\ using' = [using EXCEPT ![c] = new]
       \/ /\ ~forced[c] /\ ~Expired(c)
          /\ using' = [using EXCEPT ![c] = client]
          /\ UNCHANGED <<client, born, keys>>
    /\ Moves(c, "look")
    /\ UNCHANGED <<forced, seen, misses>>

\* Mutant: a first PyJWKClientError is final.
NoKeyIsFinal(c) == Moves(c, "rejected") /\ UNCHANGED <<forced, seen>>

\* PyJWKClientError: a second attempt with a new client, and no third.
NoKey(c) ==
    \/ ~forced[c] /\ Attempt(c, TRUE)
    \/ forced[c] /\ Moves(c, "rejected") /\ UNCHANGED <<forced, seen>>

\* The client is let go with the keys it has by now.
Release(c, found) ==
    /\ using' = [using EXCEPT ![c] = NoClient]
    /\ born' = Tidy(born, Referenced(client, using'), 0)
    /\ keys' = Tidy([keys EXCEPT ![using[c]] = found], Referenced(client, using'), {})
    /\ UNCHANGED client

\* jwt.decode, of a token that is otherwise in order, and the check of azp.
Verify(c, expires) ==
    /\ Moves(c, IF clock < expires THEN "accepted" ELSE "rejected")
    /\ UNCHANGED <<forced, seen>>

\* get_signing_key_from_jwt: a key the client has, or else one that it fetches.
LookUp(c, key, expires) ==
    /\ check[c] = "look"
    /\ key \in keys[using[c]]
    /\ Release(c, keys[using[c]])
    /\ Verify(c, expires)
    /\ UNCHANGED misses

FetchJwks(c, key, expires) ==
    /\ check[c] = "look"
    /\ key \notin keys[using[c]]
    /\ Release(c, keys[using[c]] \cup published)
    /\ \/ key \in published /\ Verify(c, expires)
       \/ key \notin published /\ NoKey(c)
    /\ UNCHANGED misses

FetchJwksFails(c, key) ==
    /\ check[c] = "look"
    /\ key \notin keys[using[c]]
    /\ Release(c, keys[using[c]])
    /\ NoKey(c)
    /\ misses' = [misses EXCEPT ![c] = @ + 1]

\* decode returns or raises: the thread has ended.
Answered(c) ==
    /\ Moves(c, "none")
    /\ forced' = [forced EXCEPT ![c] = FALSE]
    /\ seen' = [seen EXCEPT ![c] = 0]
    /\ misses' = [misses EXCEPT ![c] = 0]
    /\ UNCHANGED <<client, born, keys, using>>
=============================================================================
