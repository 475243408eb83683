----------------------------- MODULE RedisLock -----------------------------
(***************************************************************************)
(* cache/lock.py: redis_lock over redis-py's Lock.                         *)
(*                                                                         *)
(* One key.  A client that enters redis_lock gets a fresh token; Redis     *)
(* holds the token of the current owner with a time to live.  SET NX PX    *)
(* acquires, the token-checked Lua scripts of redis-py's Lock release and  *)
(* extend (external).  Time advances by Tick; ttl_seconds / 2, the interval*)
(* of the auto-extend loop, is Interval ticks.                             *)
(*                                                                         *)
(* A command whose caller went away (cancelled, connection dropped, process*)
(* killed) may still reach Redis later, or never: it is kept in net.       *)
(***************************************************************************)
EXTENDS Integers, FiniteSets

CONSTANTS
    Clients,      \* coroutines that use the lock
    AutoExtend,   \* those that pass auto_extend=True
    Interval,     \* ttl_seconds / 2, in ticks
    Delay,        \* how late an extension may reach Redis, in ticks
    Patience,     \* blocking_timeout, in ticks
    MaxSessions   \* bound: how many times redis_lock is entered in all

ASSUME ClientsAssumption == AutoExtend \subseteq Clients

\* The event loop and Redis are prompt enough for one extension per lease.
ASSUME TimingAssumption ==
    /\ Interval \in Nat \ {0}
    /\ Delay \in Nat
    /\ Delay < Interval
    /\ Patience \in Nat
    /\ MaxSessions \in Nat

NoToken == 0
Tokens == 1 .. MaxSessions
TTL == 2 * Interval

Commands == {"set", "extend", "release"} \X Tokens

VARIABLES
    owner,      \* the token stored under lock:<key>, or NoToken
    ttl,        \* its remaining time to live
    nextToken,  \* the next fresh token (uuid)
    pc,         \* where each client is in redis_lock
    tok,        \* the client's lock.local.token
    patience,   \* ticks before a waiter's blocking_timeout
    ext,        \* state of the client's auto-extend task
    timer,      \* ticks left until its next extension must have been applied
    net         \* commands nobody waits for any more

vars == <<owner, ttl, nextToken, pc, tok, patience, ext, timer, net>>

TypeOK ==
    /\ owner \in Tokens \cup {NoToken}
    /\ ttl \in 0 .. TTL
    /\ nextToken \in 1 .. MaxSessions + 1
    /\ pc \in [Clients -> {"idle", "acquiring", "body", "releasing"}]
    /\ tok \in [Clients -> Tokens \cup {NoToken}]
    /\ patience \in [Clients -> 0 .. Patience]
    /\ ext \in [Clients -> {"off", "sleeping", "extending"}]
    /\ timer \in [Clients -> 0 .. Interval + Delay]
    /\ net \subseteq Commands

Init ==
    /\ owner = NoToken
    /\ ttl = 0
    /\ nextToken = 1
    /\ pc = [c \in Clients |-> "idle"]
    /\ tok = [c \in Clients |-> NoToken]
    /\ patience = [c \in Clients |-> 0]
    /\ ext = [c \in Clients |-> "off"]
    /\ timer = [c \in Clients |-> 0]
    /\ net = {}

-----------------------------------------------------------------------------
(* Redis: the effect of one command on the key.                            *)

StoreToken(t) == owner' = t /\ ttl' = TTL

DeleteIfOwner(t) ==
    IF owner = t THEN owner' = NoToken /\ ttl' = 0
                 ELSE UNCHANGED <<owner, ttl>>

\* Mutant: extend by a plain SET.
ExtendBySet(t) == owner' = t /\ ttl' = TTL

ExpireAgainIfOwner(t) ==
    /\ ttl' = IF owner = t THEN TTL ELSE ttl
    /\ UNCHANGED owner

\* A command whose caller is gone stays under way, or is lost at once.
MayLinger(op, t) == net' \in {net, net \cup {<<op, t>>}}

-----------------------------------------------------------------------------
(* redis_lock                                                              *)

\* client.lock(...) and lock.acquire(): a fresh token, and the time the caller
\* is ready to wait (none for blocking=False).
Enter(c) ==
    /\ pc[c] = "idle"
    /\ nextToken <= MaxSessions
    /\ nextToken' = nextToken + 1
    /\ pc' = [pc EXCEPT ![c] = "acquiring"]
    /\ tok' = [tok EXCEPT ![c] = nextToken]
    /\ \E p \in {0, Patience} : patience' = [patience EXCEPT ![c] = p]
    /\ UNCHANGED <<owner, ttl, ext, timer, net>>

\* Mutant: interval = ttl_seconds.
ExtendTaskSleepsWholeLease(c) ==
    IF c \in AutoExtend
    THEN /\ ext' = [ext EXCEPT ![c] = "sleeping"]
         /\ timer' = [timer EXCEPT ![c] = TTL + Delay]
    ELSE UNCHANGED <<ext, timer>>

StartExtendTask(c) ==
    IF c \in AutoExtend
    THEN /\ ext' = [ext EXCEPT ![c] = "sleeping"]
         /\ timer' = [timer EXCEPT ![c] = Interval + Delay]
    ELSE UNCHANGED <<ext, timer>>

\* A poll finds the key free: SET NX PX succeeds and the body starts.
Acquire(c) ==
    /\ pc[c] = "acquiring"
    /\ owner = NoToken
    /\ StoreToken(tok[c])
    /\ pc' = [pc EXCEPT ![c] = "body"]
    /\ StartExtendTask(c)
    /\ UNCHANGED <<nextToken, tok, patience, net>>

Leave(c) ==
    /\ pc' = [pc EXCEPT ![c] = "idle"]
    /\ tok' = [tok EXCEPT ![c] = NoToken]

\* Mutant: the deadline is only noticed by a poll before it.
AcquireTimesOutTooLate(c) ==
    /\ pc[c] = "acquiring"
    /\ owner # NoToken
    /\ patience[c] = Patience
    /\ Leave(c)
    /\ UNCHANGED <<owner, ttl, nextToken, patience, ext, timer, net>>

\* The last poll before blocking_timeout finds the key taken: LockAcquireError.
AcquireTimesOut(c) ==
    /\ pc[c] = "acquiring"
    /\ owner # NoToken
    /\ patience[c] = 0
    /\ Leave(c)
    /\ UNCHANGED <<owner, ttl, nextToken, patience, ext, timer, net>>

\* RedisError, cancellation or death while waiting: the SET may be under way.
AcquireFails(c) ==
    /\ pc[c] = "acquiring"
    /\ Leave(c)
    /\ MayLinger("set", tok[c])
    /\ UNCHANGED <<owner, ttl, nextToken, patience, ext, timer>>

StopExtendTask(c) ==
    /\ ext' = [ext EXCEPT ![c] = "off"]
    /\ IF ext[c] = "extending" THEN MayLinger("extend", tok[c])
                               ELSE UNCHANGED net

\* The body returns, raises or is cancelled: the extend task is reaped first.
EndBody(c) ==
    /\ pc[c] = "body"
    /\ pc' = [pc EXCEPT ![c] = "releasing"]
    /\ StopExtendTask(c)
    /\ UNCHANGED <<owner, ttl, nextToken, tok, patience, timer>>

\* lock.release(); the LockError of a token that no longer matches is swallowed.
Release(c) ==
    /\ pc[c] = "releasing"
    /\ DeleteIfOwner(tok[c])
    /\ Leave(c)
    /\ UNCHANGED <<nextToken, patience, ext, timer, net>>

\* RedisError (swallowed), cancellation or death during lock.release().
ReleaseFails(c) ==
    /\ pc[c] = "releasing"
    /\ Leave(c)
    /\ MayLinger("release", tok[c])
    /\ UNCHANGED <<owner, ttl, nextToken, patience, ext, timer>>

\* The process dies in the body: no finally block runs.
Crash(c) ==
    /\ pc[c] = "body"
    /\ Leave(c)
    /\ StopExtendTask(c)
    /\ UNCHANGED <<owner, ttl, nextToken, patience, timer>>

-----------------------------------------------------------------------------
(* _auto_extend_loop                                                       *)

\* asyncio.sleep(interval) is over: lock.extend(ttl_seconds, replace_ttl=True).
ExtendSend(c) ==
    /\ ext[c] = "sleeping"
    /\ timer[c] <= Delay
    /\ ext' = [ext EXCEPT ![c] = "extending"]
    /\ UNCHANGED <<owner, ttl, nextToken, pc, tok, patience, timer, net>>

\* Redis checks the token: extended and back to sleep, or LockError and return.
ExtendReply(c) ==
    /\ ext[c] = "extending"
    /\ ExpireAgainIfOwner(tok[c])
    /\ IF owner = tok[c]
       THEN /\ ext' = [ext EXCEPT ![c] = "sleeping"]
            /\ timer' = [timer EXCEPT ![c] = Interval + Delay]
       ELSE /\ ext' = [ext EXCEPT ![c] = "off"]
            /\ UNCHANGED timer
    /\ UNCHANGED <<nextToken, pc, tok, patience, net>>

\* Any other Exception: the loop returns and the body goes on without it.
ExtendFails(c) ==
    /\ ext[c] = "extending"
    /\ ext' = [ext EXCEPT ![c] = "off"]
    /\ MayLinger("extend", tok[c])
    /\ UNCHANGED <<owner, ttl, nextToken, pc, tok, patience, timer>>

-----------------------------------------------------------------------------
(* The environment                                                         *)

\* A command nobody waits for reaches Redis.
Deliver(op, t) ==
    /\ <<op, t>> \in net
    /\ net' = net \ {<<op, t>>}
    /\ \/ op = "set" /\ owner = NoToken /\ StoreToken(t)
       \/ op = "set" /\ owner # NoToken /\ UNCHANGED <<owner, ttl>>
       \/ op = "extend" /\ ExpireAgainIfOwner(t)
       \/ op = "release" /\ DeleteIfOwner(t)
    /\ UNCHANGED <<nextToken, pc, tok, patience, ext, timer>>

Drop(op, t) ==
    /\ <<op, t>> \in net
    /\ net' = net \ {<<op, t>>}
    /\ UNCHANGED <<owner, ttl, nextToken, pc, tok, patience, ext, timer>>

Down(n) == IF n = 0 THEN 0 ELSE n - 1

\* Time passes; an extension is never later than Delay, and Redis removes a key
\* whose time to live is over.
Tick ==
    /\ \A c \in Clients : ext[c] # "off" => timer[c] > 0
    /\ ttl' = Down(ttl)
    /\ owner' = IF ttl = 1 THEN NoToken ELSE owner
    /\ timer' = [c \in Clients |-> Down(timer[c])]
    /\ patience' = [c \in Clients |-> Down(patience[c])]
    /\ UNCHANGED <<nextToken, pc, tok, ext, net>>

-----------------------------------------------------------------------------
ClientStep(c) ==
    \/ Enter(c) \/ Acquire(c) \/ AcquireTimesOut(c) \/ AcquireFails(c)
    \/ EndBody(c) \/ Release(c) \/ ReleaseFails(c) \/ Crash(c)
    \/ ExtendSend(c) \/ ExtendReply(c) \/ ExtendFails(c)

Next ==
    \/ \E c \in Clients : ClientStep(c)
    \/ \E m \in net : Deliver(m[1], m[2]) \/ Drop(m[1], m[2])
    \/ Tick

Spec == Init /\ [][Next]_vars

\* Time passes, waiters poll, a release and an extension are answered, and a
\* stray command arrives or is lost.  Nothing makes a body end.
Fairness ==
    /\ WF_vars(Tick)
    /\ \A c \in Clients :
        /\ WF_vars(Acquire(c) \/ AcquireTimesOut(c))
        /\ WF_vars(Release(c) \/ ReleaseFails(c))
        /\ WF_vars(ExtendSend(c))
        /\ WF_vars(ExtendReply(c) \/ ExtendFails(c))
    /\ WF_vars(\E m \in net : Deliver(m[1], m[2]) \/ Drop(m[1], m[2]))

FairSpec == Spec /\ Fairness

-----------------------------------------------------------------------------
(* Properties                                                              *)

InBody(c) == pc[c] = "body"
Extending(c) == ext[c] # "off"
Live(t) == \E c \in Clients : tok[c] = t

\* A client whose auto-extend task is still running owns the key: extending
\* every half lease keeps it, whatever other clients and stray commands do.
AutoExtendKeepsLock ==
    \A c \in Clients : Extending(c) => InBody(c) /\ owner = tok[c]

\* Only the end of its time to live takes the key away from a running body:
\* no release, extension or late command of another session does.
OnlyExpiryTakesTheLock ==
    [][\A c \in Clients :
         InBody(c) /\ InBody(c)' /\ owner = tok[c] /\ owner' # tok[c] => Tick]_vars

\* A session that is gone (killed, cancelled, its release lost) does not keep
\* the key for ever: no task is left behind that goes on extending it.
DeadSessionLosesTheLock ==
    \A t \in Tokens : (owner = t /\ ~Live(t)) ~> (owner # t)

\* blocking_timeout bounds the wait: every waiter gets the lock or an error.
WaiterIsAnswered ==
    \A c \in Clients : (pc[c] = "acquiring") ~> (pc[c] # "acquiring")

\* Whatever a session dies of, the key goes on to the next one, or the next one
\* is told in time that it does not.
LockIsHandedOn == DeadSessionLosesTheLock /\ WaiterIsAnswered

\* A session whose SET may still reach a free key.
Waiting(t) ==
    \/ \E c \in Clients : pc[c] = "acquiring" /\ tok[c] = t
    \/ <<"set", t>> \in net

\* The status of each session in the abstract specification Lease.
Status(t) == IF owner = t THEN "held"
             ELSE IF t >= nextToken THEN "new"
             ELSE IF Waiting(t) THEN "waiting"
             ELSE "over"

SessionStatus == [t \in Tokens |-> Status(t)]

Abstract == INSTANCE Lease WITH Sessions <- Tokens, status <- SessionStatus

\* redis_lock implements Lease: no session is granted the key twice, none while
\* another holds it, and a request given up is granted late or never.
LeaseSpec == Abstract!Spec
=============================================================================
