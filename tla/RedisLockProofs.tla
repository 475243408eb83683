-------------------------- MODULE RedisLockProofs --------------------------
(***************************************************************************)
(* Theorems about RedisLock, for any number of clients and sessions and any*)
(* lease in which an extension comes at most Delay < Interval ticks late.  *)
(***************************************************************************)
EXTENDS RedisLock, TLAPS

\* Tokens are drawn from nextToken, so no token in use is still to be drawn.
TokensDrawn ==
    /\ owner < nextToken
    /\ \A c \in Clients : tok[c] < nextToken
    /\ \A m \in net : m[2] < nextToken

\* A client in a session has a token, which no other client has.
TokensUnique ==
    /\ \A c \in Clients : pc[c] = "idle" <=> tok[c] = NoToken
    /\ \A c, d \in Clients : tok[c] = tok[d] /\ tok[c] # NoToken => c = d

\* The lease of an extended body outlasts the deadline of its next extension.
LeaseOutlastsTimer ==
    \A c \in Clients :
        Extending(c) => /\ InBody(c)
                        /\ owner = tok[c]
                        /\ ttl >= timer[c] + (Interval - Delay)

\* A late SET or release belongs to a session whose client is gone.
StrayTokensAreDead ==
    \A m \in net : m[1] # "extend" => \A c \in Clients : tok[c] # m[2]

\* A session still waiting, or whose SET is late, was never granted the key.
WaitingNotGranted ==
    /\ \A c \in Clients : pc[c] = "acquiring" => owner # tok[c]
    /\ \A m \in net : m[1] = "set" => owner # m[2]

IInv ==
    /\ TypeOK
    /\ TokensDrawn
    /\ TokensUnique
    /\ LeaseOutlastsTimer
    /\ StrayTokensAreDead
    /\ WaitingNotGranted

USE ClientsAssumption, TimingAssumption DEF NoToken, Tokens, TTL, Commands

\* The initial state satisfies the inductive invariant.
LEMMA InitIInv == Init => IInv
BY DEF Init, IInv, TypeOK, TokensDrawn, TokensUnique, LeaseOutlastsTimer,
       StrayTokensAreDead, WaitingNotGranted, Extending, InBody

\* Every step of redis_lock, of its extend task and of the environment
\* preserves the inductive invariant.
LEMMA NextIInv == IInv /\ [Next]_vars => IInv'
<1> SUFFICES ASSUME IInv, [Next]_vars PROVE IInv'
  OBVIOUS
<1> USE DEF IInv, TypeOK, TokensDrawn, TokensUnique, LeaseOutlastsTimer,
            StrayTokensAreDead, WaitingNotGranted, Extending, InBody
<1>1. ASSUME NEW c \in Clients, Enter(c) PROVE IInv'
  BY <1>1 DEF Enter
<1>2. ASSUME NEW c \in Clients, Acquire(c) PROVE IInv'
  BY <1>2 DEF Acquire, StoreToken, StartExtendTask
<1>3. ASSUME NEW c \in Clients, AcquireTimesOut(c) PROVE IInv'
  BY <1>3 DEF AcquireTimesOut, Leave
<1>4. ASSUME NEW c \in Clients, AcquireFails(c) PROVE IInv'
  BY <1>4 DEF AcquireFails, Leave, MayLinger
<1>5. ASSUME NEW c \in Clients, EndBody(c) PROVE IInv'
  BY <1>5 DEF EndBody, StopExtendTask, MayLinger
<1>6. ASSUME NEW c \in Clients, Release(c) PROVE IInv'
  BY <1>6 DEF Release, DeleteIfOwner, Leave
<1>7. ASSUME NEW c \in Clients, ReleaseFails(c) PROVE IInv'
  BY <1>7 DEF ReleaseFails, Leave, MayLinger
<1>8. ASSUME NEW c \in Clients, Crash(c) PROVE IInv'
  BY <1>8 DEF Crash, Leave, StopExtendTask, MayLinger
<1>9. ASSUME NEW c \in Clients, ExtendSend(c) PROVE IInv'
  BY <1>9 DEF ExtendSend
<1>10. ASSUME NEW c \in Clients, ExtendReply(c) PROVE IInv'
  BY <1>10 DEF ExtendReply, ExpireAgainIfOwner
<1>11. ASSUME NEW c \in Clients, ExtendFails(c) PROVE IInv'
  BY <1>11 DEF ExtendFails, MayLinger
<1>12. ASSUME NEW m \in net, Deliver(m[1], m[2]) PROVE IInv'
  BY <1>12 DEF Deliver, StoreToken, ExpireAgainIfOwner, DeleteIfOwner
<1>13. ASSUME NEW m \in net, Drop(m[1], m[2]) PROVE IInv'
  BY <1>13 DEF Drop
<1>14. CASE Tick
  BY <1>14 DEF Tick, Down
<1>15. CASE UNCHANGED vars
  BY <1>15 DEF vars
<1> QED
  BY <1>1, <1>2, <1>3, <1>4, <1>5, <1>6, <1>7, <1>8, <1>9, <1>10, <1>11, <1>12, <1>13, <1>14, <1>15 DEF Next, ClientStep
\* The inductive invariant holds in every reachable state.
THEOREM Invariance == Spec => []IInv
<1>1. Init => IInv
  BY InitIInv
<1>2. IInv /\ [Next]_vars => IInv'
  BY NextIInv
<1> QED
  BY <1>1, <1>2, PTL DEF Spec

\* Types: owners and tokens of MaxSessions sessions, a ttl within the lease, and
\* an extension deadline within Interval + Delay of the last one.
THEOREM TypeCorrectness == Spec => []TypeOK
<1>1. IInv => TypeOK
  BY DEF IInv
<1> QED
  BY <1>1, Invariance, PTL

\* _auto_extend_loop keeps the key: a client whose extend task has not returned
\* is the owner of lock:<key>.
THEOREM ExtensionKeepsLock == Spec => []AutoExtendKeepsLock
<1>1. IInv => AutoExtendKeepsLock
  BY DEF IInv, LeaseOutlastsTimer, AutoExtendKeepsLock
<1> QED
  BY <1>1, Invariance, PTL

\* Two bodies that are both still being extended never run side by side.
NoOverlapWhileExtending ==
    \A c, d \in Clients :
        Extending(c) /\ Extending(d) /\ InBody(c) /\ InBody(d) => c = d

\* Mutual exclusion of the bodies that are still being extended.
THEOREM ExtendedBodiesExclude == Spec => []NoOverlapWhileExtending
<1>1. IInv => NoOverlapWhileExtending
  BY DEF IInv, TypeOK, TokensUnique, LeaseOutlastsTimer,
         NoOverlapWhileExtending, InBody
<1> QED
  BY <1>1, Invariance, PTL

\* Of all the steps of all the clients and of the network, only the end of the
\* time to live takes the key from a running body.
THEOREM OnlyExpiry == Spec => OnlyExpiryTakesTheLock
<1> DEFINE Kept == \A c \in Clients :
        InBody(c) /\ InBody(c)' /\ owner = tok[c] /\ owner' # tok[c] => Tick
<1>1. IInv /\ [Next]_vars => [Kept]_vars
  <2> SUFFICES ASSUME IInv, Next, NEW c \in Clients, InBody(c), InBody(c)',
                      owner = tok[c], owner' # tok[c]
               PROVE  Tick
    OBVIOUS
  <2> USE DEF IInv, TypeOK, TokensUnique, StrayTokensAreDead, InBody
  <2>1. ASSUME NEW d \in Clients, ClientStep(d) PROVE FALSE
    BY <2>1 DEF ClientStep, Enter, Acquire, AcquireTimesOut, AcquireFails,
                EndBody, Release, ReleaseFails, Crash, ExtendSend, ExtendReply,
                ExtendFails, StoreToken, DeleteIfOwner, ExpireAgainIfOwner, Leave
  <2>2. ASSUME NEW m \in net, Deliver(m[1], m[2]) \/ Drop(m[1], m[2])
        PROVE  FALSE
    BY <2>2 DEF Deliver, Drop, StoreToken, DeleteIfOwner, ExpireAgainIfOwner
  <2> QED
    BY <2>1, <2>2 DEF Next
<1> QED
  BY <1>1, Invariance, PTL DEF Spec, OnlyExpiryTakesTheLock

-----------------------------------------------------------------------------
(* RedisLock implements Lease.                                             *)

\* A step that moves one session only is that session's step in Lease.
LEMMA OneSessionMoves ==
    ASSUME NEW t \in Tokens, NEW from, NEW to,
           Status(t) = from, Status(t)' = to,
           \A u \in Tokens \ {t} : Status(u)' = Status(u)
    PROVE  Abstract!Move(t, from, to)
BY DEF SessionStatus, Abstract!Move

\* A step that moves no session is a stuttering step of Lease.
LEMMA NoSessionMoves ==
    ASSUME \A u \in Tokens : Status(u)' = Status(u)
    PROVE  UNCHANGED SessionStatus
BY DEF SessionStatus

\* Every step maps to a step of Lease or leaves all statuses alone: entering is
\* Request, a SET that finds the key free is Grant, a failed acquisition is
\* Abandon (unless its SET lingers), a release or an expiry is End.
LEMMA StepSimulation == IInv /\ [Next]_vars => [Abstract!Next]_SessionStatus
<1> SUFFICES ASSUME IInv, Next PROVE [Abstract!Next]_SessionStatus
  BY DEF vars, SessionStatus, Status, Waiting
<1> USE DEF IInv, TypeOK, TokensDrawn, TokensUnique, LeaseOutlastsTimer,
            StrayTokensAreDead, WaitingNotGranted, Extending, InBody,
            Status, Waiting
<1>1. ASSUME NEW c \in Clients, Enter(c) PROVE Abstract!Next
  <2> PICK t \in Tokens : t = nextToken
    BY <1>1 DEF Enter
  <2>1. Status(t) = "new" /\ Status(t)' = "waiting"
    BY <1>1 DEF Enter
  <2>2. \A u \in Tokens \ {t} : Status(u)' = Status(u)
    BY <1>1 DEF Enter
  <2>3. Abstract!Move(t, "new", "waiting")
    BY <2>1, <2>2, OneSessionMoves
  <2> QED
    BY <2>3 DEF Abstract!Next, Abstract!Request
<1>2. ASSUME NEW c \in Clients, Acquire(c) PROVE Abstract!Next
  <2> PICK t \in Tokens : t = tok[c]
    BY <1>2 DEF Acquire
  <2>1. Status(t) = "waiting" /\ Status(t)' = "held"
    BY <1>2 DEF Acquire, StoreToken
  <2>2. \A u \in Tokens \ {t} : Status(u)' = Status(u)
    BY <1>2 DEF Acquire, StoreToken
  <2>3. Abstract!Move(t, "waiting", "held")
    BY <2>1, <2>2, OneSessionMoves
  <2>4. \A u \in Tokens : SessionStatus[u] # "held"
    BY <1>2 DEF Acquire, SessionStatus
  <2> QED
    BY <2>3, <2>4 DEF Abstract!Next, Abstract!Grant
<1>3. ASSUME NEW c \in Clients, AcquireTimesOut(c) PROVE Abstract!Next
  <2> PICK t \in Tokens : t = tok[c]
    BY <1>3 DEF AcquireTimesOut
  <2>1. Status(t) = "waiting" /\ Status(t)' = "over"
    BY <1>3 DEF AcquireTimesOut, Leave
  <2>2. \A u \in Tokens \ {t} : Status(u)' = Status(u)
    BY <1>3 DEF AcquireTimesOut, Leave
  <2>3. Abstract!Move(t, "waiting", "over")
    BY <2>1, <2>2, OneSessionMoves
  <2> QED
    BY <2>3 DEF Abstract!Next, Abstract!Abandon
<1>4. ASSUME NEW c \in Clients, AcquireFails(c)
      PROVE  Abstract!Next \/ UNCHANGED SessionStatus
  <2> PICK t \in Tokens : t = tok[c]
    BY <1>4 DEF AcquireFails
  <2>1. CASE net' = net
    <3>1. Status(t) = "waiting" /\ Status(t)' = "over"
      BY <1>4, <2>1 DEF AcquireFails, Leave
    <3>2. \A u \in Tokens \ {t} : Status(u)' = Status(u)
      BY <1>4, <2>1 DEF AcquireFails, Leave
    <3>3. Abstract!Move(t, "waiting", "over")
      BY <3>1, <3>2, OneSessionMoves
    <3> QED
      BY <3>3 DEF Abstract!Next, Abstract!Abandon
  <2>2. CASE net' = net \cup {<<"set", t>>}
    BY <1>4, <2>2, NoSessionMoves DEF AcquireFails, Leave
  <2> QED
    BY <1>4, <2>1, <2>2 DEF AcquireFails, MayLinger
<1>5. ASSUME NEW c \in Clients, Release(c)
      PROVE  Abstract!Next \/ UNCHANGED SessionStatus
  <2> PICK t \in Tokens : t = tok[c]
    BY <1>5 DEF Release
  <2>1. CASE owner = t
    <3>1. Status(t) = "held" /\ Status(t)' = "over"
      BY <1>5, <2>1 DEF Release, DeleteIfOwner, Leave
    <3>2. \A u \in Tokens \ {t} : Status(u)' = Status(u)
      BY <1>5, <2>1 DEF Release, DeleteIfOwner, Leave
    <3>3. Abstract!Move(t, "held", "over")
      BY <3>1, <3>2, OneSessionMoves
    <3> QED
      BY <3>3 DEF Abstract!Next, Abstract!End
  <2>2. CASE owner # t
    BY <1>5, <2>2, NoSessionMoves DEF Release, DeleteIfOwner, Leave
  <2> QED
    BY <2>1, <2>2
<1>6. ASSUME NEW c \in Clients,
             \/ EndBody(c) \/ ReleaseFails(c) \/ Crash(c)
             \/ ExtendSend(c) \/ ExtendReply(c) \/ ExtendFails(c)
      PROVE  UNCHANGED SessionStatus
  <2>1. UNCHANGED <<owner, nextToken>>
    BY <1>6 DEF EndBody, ReleaseFails, Crash, ExtendSend, ExtendReply,
                ExtendFails, ExpireAgainIfOwner
  <2>2. \A d \in Clients, t \in Tokens :
          pc'[d] = "acquiring" /\ tok'[d] = t <=> pc[d] = "acquiring" /\ tok[d] = t
    BY <1>6 DEF EndBody, ReleaseFails, Crash, ExtendSend, ExtendReply,
                ExtendFails, Leave
  <2>3. \A t \in Tokens : <<"set", t>> \in net' <=> <<"set", t>> \in net
    BY <1>6 DEF EndBody, ReleaseFails, Crash, ExtendSend, ExtendReply,
                ExtendFails, StopExtendTask, MayLinger
  <2> QED
    BY <2>1, <2>2, <2>3, NoSessionMoves
<1>7. ASSUME NEW t \in Tokens, NEW op \in {"set", "extend", "release"},
             Deliver(op, t)
      PROVE  Abstract!Next \/ UNCHANGED SessionStatus
  <2>1. CASE op = "set" /\ owner = NoToken
    <3>1. Status(t) = "waiting" /\ Status(t)' = "held"
      BY <1>7, <2>1 DEF Deliver, StoreToken
    <3>2. \A u \in Tokens \ {t} : Status(u)' = Status(u)
      BY <1>7, <2>1 DEF Deliver, StoreToken
    <3>3. Abstract!Move(t, "waiting", "held")
      BY <3>1, <3>2, OneSessionMoves
    <3>4. \A u \in Tokens : SessionStatus[u] # "held"
      BY <2>1 DEF SessionStatus
    <3> QED
      BY <3>3, <3>4 DEF Abstract!Next, Abstract!Grant
  <2>2. CASE op = "set" /\ owner # NoToken
    <3>1. Status(t) = "waiting" /\ Status(t)' = "over"
      BY <1>7, <2>2 DEF Deliver
    <3>2. \A u \in Tokens \ {t} : Status(u)' = Status(u)
      BY <1>7, <2>2 DEF Deliver
    <3>3. Abstract!Move(t, "waiting", "over")
      BY <3>1, <3>2, OneSessionMoves
    <3> QED
      BY <3>3 DEF Abstract!Next, Abstract!Abandon
  <2>3. CASE op = "release" /\ owner = t
    <3>1. Status(t) = "held" /\ Status(t)' = "over"
      BY <1>7, <2>3 DEF Deliver, DeleteIfOwner
    <3>2. \A u \in Tokens \ {t} : Status(u)' = Status(u)
      BY <1>7, <2>3 DEF Deliver, DeleteIfOwner
    <3>3. Abstract!Move(t, "held", "over")
      BY <3>1, <3>2, OneSessionMoves
    <3> QED
      BY <3>3 DEF Abstract!Next, Abstract!End
  <2>4. CASE op = "extend" \/ (op = "release" /\ owner # t)
    BY <1>7, <2>4, NoSessionMoves
    DEF Deliver, DeleteIfOwner, ExpireAgainIfOwner
  <2>5. op = "set" \/ op = "extend" \/ op = "release"
    OBVIOUS
  <2> QED
    BY <2>1, <2>2, <2>3, <2>4, <2>5
<1>8. ASSUME NEW t \in Tokens, NEW op \in {"set", "extend", "release"},
             Drop(op, t)
      PROVE  Abstract!Next \/ UNCHANGED SessionStatus
  <2>1. CASE op = "set"
    <3>1. Status(t) = "waiting" /\ Status(t)' = "over"
      BY <1>8, <2>1 DEF Drop
    <3>2. \A u \in Tokens \ {t} : Status(u)' = Status(u)
      BY <1>8, <2>1 DEF Drop
    <3>3. Abstract!Move(t, "waiting", "over")
      BY <3>1, <3>2, OneSessionMoves
    <3> QED
      BY <3>3 DEF Abstract!Next, Abstract!Abandon
  <2>2. CASE op # "set"
    BY <1>8, <2>2, NoSessionMoves DEF Drop
  <2> QED
    BY <2>1, <2>2
<1>9. CASE Tick
  <2>1. CASE owner # NoToken /\ ttl = 1
    <3> PICK t \in Tokens : t = owner
      BY <2>1
    <3>1. Status(t) = "held" /\ Status(t)' = "over"
      BY <1>9, <2>1 DEF Tick
    <3>2. \A u \in Tokens \ {t} : Status(u)' = Status(u)
      BY <1>9, <2>1 DEF Tick
    <3>3. Abstract!Move(t, "held", "over")
      BY <3>1, <3>2, OneSessionMoves
    <3> QED
      BY <3>3 DEF Abstract!Next, Abstract!End
  <2>2. CASE owner = NoToken \/ ttl # 1
    BY <1>9, <2>2, NoSessionMoves DEF Tick
  <2> QED
    BY <2>1, <2>2
<1>10. ASSUME NEW m \in net PROVE m[1] \in {"set", "extend", "release"} /\ m[2] \in Tokens
  BY <1>10
<1> QED
  BY <1>1, <1>2, <1>3, <1>4, <1>5, <1>6, <1>7, <1>8, <1>9, <1>10
  DEF Next, ClientStep

\* redis_lock over Redis implements the abstract lease: at most one session holds
\* the key, and none holds it twice.
THEOREM ImplementsLease == Spec => LeaseSpec
<1>1. Init => Abstract!Init
  BY DEF Init, Abstract!Init, SessionStatus, Status
<1>2. IInv /\ [Next]_vars => [Abstract!Next]_SessionStatus
  BY StepSimulation
<1> QED
  BY <1>1, <1>2, Invariance, PTL DEF Spec, LeaseSpec, Abstract!Spec
=============================================================================
