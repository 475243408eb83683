----------------------------- MODULE MCPipeline -----------------------------
(* A small instance of Pipeline: a request and its retry, each of which may  *)
(* also come without a key; r1 meets a replica that fails open.  The keyed   *)
(* endpoint asks for an agent who may close, or an admin.                    *)
EXTENDS Pipeline

CONSTANTS r1, r2, k1, b1, admin, agent, close

MCRequests == {r1, r2}
MCRedisKeys == {k1}
MCBodies == {b1}
MCKeyOf == [r \in MCRequests |-> k1]
MCBodyOf == [r \in MCRequests |-> b1]
MCFailOpen == {r1}
AllOutcomes == OutcomeKinds

MCRoles == {admin, agent}
MCScopes == {close}
Closers ==
    AnyOf({HasRole({admin}), AllOf({RequireRoles({agent}, FALSE), HasScope({close})})})
MCKeyedRoute == [kind |-> "protected", requirement |-> Closers]
MCOtherRoutes ==
    {[kind |-> "optional"], [kind |-> "internal"],
     [kind |-> "protected", requirement |-> RequireRoles({admin, agent}, TRUE)]}
MCKeyOptional == {r2}
MCCredentials == Claims \cup {NoToken, BadToken, RightKey, WrongKey}
MCEntitled ==
    [route \in {MCKeyedRoute} \cup MCOtherRoutes |->
        CASE route = MCKeyedRoute ->
                {c \in Claims : \/ admin \in c.roles
                                \/ agent \in c.roles /\ close \in c.scopes}
          [] route.kind = "optional" -> MCCredentials \ {BadToken}
          [] route.kind = "internal" -> {RightKey}
          [] OTHER -> {c \in Claims : c.roles # {}}]
MCReturned == {200}
MCRaisable == AppErrors({"SERVER"}) \cup {Unhandled}
=============================================================================
