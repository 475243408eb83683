------------------------------ MODULE Keycloak ------------------------------
(***************************************************************************)
(* The identity provider as security/ uses it: it issues tokens signed     *)
(* with its newest key, publishes keys as a JWKS, adds a key and, sooner or*)
(* later, removes an old one.  External; key n + 1 follows key n.          *)
(***************************************************************************)
EXTENDS Integers

CONSTANTS
    Lifetime,      \* expires_in of the tokens
    MaxRotations,  \* bound: keys added
    Horizon        \* bound: the clock stops here

ASSUME KeycloakAssumption ==
    /\ Lifetime \in Nat \ {0}
    /\ MaxRotations \in Nat
    /\ Horizon \in Nat

VARIABLES
    clock,      \* time
    signing,    \* the key new tokens are signed with
    published,  \* the keys in the JWKS
    retired     \* history: when each key left the JWKS, Never if it has not

keycloak == <<signing, published, retired>>

Keys == 0 .. MaxRotations
Times == 0 .. Horizon
Never == Horizon + 1
Tokens == [key : Keys, expires : 0 .. Horizon + Lifetime]

KeycloakTypeOK ==
    /\ clock \in Times
    /\ signing \in Keys
    /\ published \subseteq Keys
    /\ retired \in [Keys -> Times \cup {Never}]

KeycloakInit ==
    /\ clock = 0
    /\ signing = 0
    /\ published = {0}
    /\ retired = [k \in Keys |-> Never]

NewToken == [key |-> signing, expires |-> clock + Lifetime]

RotateKeys ==
    /\ signing < MaxRotations
    /\ signing' = signing + 1
    /\ published' = published \cup {signing + 1}
    /\ UNCHANGED <<clock, retired>>

RetireKey(k) ==
    /\ k \in published \ {signing}
    /\ published' = published \ {k}
    /\ retired' = [retired EXCEPT ![k] = clock]
    /\ UNCHANGED <<clock, signing>>
=============================================================================
