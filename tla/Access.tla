------------------------------- MODULE Access -------------------------------
(***************************************************************************)
(* security/requirements.py and security/auth.py: who may call an endpoint.*)
(*                                                                         *)
(* A requirement is the set of claims that pass it.  A credential is no    *)
(* token, a token that TokenValidator rejects, or the claims of one it     *)
(* accepts; for internal routes it is the API key.                         *)
(***************************************************************************)
EXTENDS Integers

CONSTANTS
    Roles, Scopes,
    NoToken, BadToken,   \* credentials that are not claims
    RightKey, WrongKey,  \* values of X-API-Key
    InternalKeySet       \* whether HTTP__INTERNAL_API_KEY is set

\* TokenClaims: roles is realm and client roles together.
Claims == [roles : SUBSET Roles, scopes : SUBSET Scopes]

HasRole(values) == {c \in Claims : c.roles \cap values # {}}
HasScope(values) == {c \in Claims : c.scopes \cap values # {}}
AnyOf(parts) == UNION parts

\* Mutant: all() over nothing but the first part.
AllOfFirst(parts) == CHOOSE part \in parts : TRUE

AllOf(parts) == {c \in Claims : \A part \in parts : c \in part}

\* Auth.require_roles.
RequireRoles(roles, anyOf) ==
    IF anyOf THEN HasRole(roles) ELSE AllOf({HasRole({role}) : role \in roles})

\* The dependencies, each with the status it refuses with, 0 if it lets pass.
CurrentUser(credential) == IF credential \in Claims THEN 0 ELSE 401

OptionalUser(credential) == IF credential = BadToken THEN 401 ELSE 0

Requires(requirement, credential) ==
    IF CurrentUser(credential) # 0 THEN CurrentUser(credential)
    ELSE IF credential \in requirement THEN 0 ELSE 403

CheckApiKey(key) == IF InternalKeySet /\ key # RightKey THEN 401 ELSE 0

\* What an endpoint's guard answers.  A route has a kind, and a protected one
\* the requirement of its endpoint.
Refusal(route, credential) ==
    CASE route.kind = "protected" -> Requires(route.requirement, credential)
      [] route.kind = "optional" -> OptionalUser(credential)
      [] route.kind = "internal" -> CheckApiKey(credential)
=============================================================================
