----------------------------- MODULE CacheAside -----------------------------
(***************************************************************************)
(* cache/cached.py: Cache.get_or_set with its stampede protection, set,    *)
(* delete and clear, for one key.  get is a lookup that changes nothing.   *)
(*                                                                         *)
(* Each caller performs one operation.  The factory reads a source that    *)
(* writers change before they delete the entry.  The lock is the abstract  *)
(* Lease, which redis_lock implements (RedisLock); each reader is one      *)
(* session of it.  The cache fails open: a RedisError of any call is a     *)
(* branch of its action, enabled when RedisFails.                          *)
(***************************************************************************)
EXTENDS Integers, FiniteSets

CONSTANTS
    Readers,        \* callers of get_or_set (and of a cached function)
    Writers,        \* write the source, then delete or clear
    Protected,      \* readers whose Cache has stampede_protection
    LeaseExpires,   \* the factory may outlast lock_timeout_seconds
    LockTimesOut,   \* a waiter may reach blocking_timeout
    RedisFails,     \* whether Redis calls may fail
    FactoryErrors,  \* what factories raise: subset of ErrorKinds
    MaxExpiries,    \* bound: how often the entry runs out of its ttl
    NoEntry, Junk   \* no entry, and one that does not decode

ErrorKinds == {"error", "RedisError", "LockAcquireError"}

Callers == Readers \cup Writers

ASSUME RolesAssumption ==
    /\ Readers \cap Writers = {}
    /\ IsFiniteSet(Writers)

ASSUME ParametersAssumption ==
    /\ Protected \subseteq Readers
    /\ LeaseExpires \in BOOLEAN
    /\ LockTimesOut \in BOOLEAN
    /\ RedisFails \in BOOLEAN
    /\ FactoryErrors \subseteq ErrorKinds
    /\ MaxExpiries \in Nat
    /\ NoEntry \notin Nat
    /\ Junk \notin Nat
    /\ NoEntry # Junk

\* Versions of the source: one more for each write.
Versions == 0 .. Cardinality(Writers)

VARIABLES
    entry,     \* the value stored in Redis
    lease,     \* status of each reader's lock session
    source,    \* current version of the source
    pc,        \* where each caller is
    inside,    \* readers inside the `async with redis_lock` block
    val,       \* what the factory of each reader returned
    result,    \* how each caller's operation ended
    got,       \* the entry a hit returned
    runs,      \* history: how often each reader's factory ran
    drops,     \* history: how often the entry was deleted, expired or was junk
    expiries,  \* how often it expired
    raced,     \* history: a write came between a factory's read and its SET,
               \* or a delete was lost
    lapsed     \* history: the lock or Redis failed a reader, or a factory raised

vars == <<entry, lease, source, pc, inside, val, result, got, runs, drops,
          expiries, raced, lapsed>>
reader == <<pc, inside, val, result, got, runs>>

Lock == INSTANCE Lease WITH Sessions <- Readers, status <- lease

Steps == {"start", "wait", "locked", "factory", "store", "unlock", "delete", "over"}

TypeOK ==
    /\ entry \in Versions \cup {NoEntry, Junk}
    /\ Lock!TypeOK
    /\ source \in Versions
    /\ pc \in [Callers -> Steps]
    /\ inside \in [Readers -> BOOLEAN]
    /\ val \in [Readers -> Versions]
    /\ result \in [Callers -> {"pending", "value"} \cup ErrorKinds]
    /\ got \in [Callers -> Versions \cup {NoEntry, Junk}]
    /\ runs \in [Readers -> 0 .. 2]
    /\ drops \in Nat
    /\ expiries \in 0 .. MaxExpiries
    /\ raced \in BOOLEAN
    /\ lapsed \in BOOLEAN

Init ==
    /\ entry \in {NoEntry, Junk}
    /\ Lock!Init
    /\ source = 0
    /\ pc = [c \in Callers |-> "start"]
    /\ inside = [c \in Readers |-> FALSE]
    /\ val = [c \in Readers |-> 0]
    /\ result = [c \in Callers |-> "pending"]
    /\ got = [c \in Callers |-> NoEntry]
    /\ runs = [c \in Readers |-> 0]
    /\ drops = 0
    /\ expiries = 0
    /\ raced = FALSE
    /\ lapsed = FALSE

-----------------------------------------------------------------------------
(* get_or_set                                                              *)

Goto(c, step) == pc' = [pc EXCEPT ![c] = step]

\* The caller's operation ends so; inside the block the lock is released first.
Finish(c, how) ==
    /\ result' = [result EXCEPT ![c] = how]
    /\ Goto(c, IF c \in Readers /\ inside[c] THEN "unlock" ELSE "over")

Hit == entry \notin {NoEntry, Junk}

\* _lookup: a hit ends the operation; a missing entry, one that does not decode
\* and a RedisError are misses, after which the reader goes on to next.
Lookup(c, next) ==
    \/ /\ Hit
       /\ got' = [got EXCEPT ![c] = entry]
       /\ Finish(c, "value")
       /\ UNCHANGED <<lease, lapsed>>
    \/ /\ ~Hit \/ RedisFails
       /\ lapsed' = (lapsed \/ Hit)
       /\ Goto(c, next)
       /\ IF next = "wait" THEN Lock!Request(c) ELSE UNCHANGED lease
       /\ UNCHANGED <<got, result>>

FirstLookup(c) ==
    /\ pc[c] = "start"
    /\ Lookup(c, IF c \in Protected THEN "wait" ELSE "factory")
    /\ UNCHANGED <<entry, source, inside, val, runs, drops, expiries, raced>>

EnterLock(c) ==
    /\ pc[c] = "wait"
    /\ Lock!Grant(c)
    /\ inside' = [inside EXCEPT ![c] = TRUE]
    /\ Goto(c, "locked")
    /\ UNCHANGED <<entry, source, val, result, got, runs, drops, expiries, raced, lapsed>>

\* Mutant: blocking_timeout=None.
GiveUpLockNever(c) == pc[c] = "wait" /\ FALSE /\ UNCHANGED vars

\* LockAcquireError after blocking_timeout: compute without the lock.
GiveUpLock(c) ==
    /\ LockTimesOut
    /\ pc[c] = "wait"
    /\ Lock!Abandon(c)
    /\ Goto(c, "factory")
    /\ lapsed' = TRUE
    /\ UNCHANGED <<entry, source, inside, val, result, got, runs, drops, expiries, raced>>

\* RedisError while locking: likewise; the lock request may still be granted.
LockFails(c) ==
    /\ RedisFails
    /\ pc[c] = "wait"
    /\ Lock!Abandon(c) \/ UNCHANGED lease
    /\ Goto(c, "factory")
    /\ lapsed' = TRUE
    /\ UNCHANGED <<entry, source, inside, val, result, got, runs, drops, expiries, raced>>

\* Mutant: no second lookup under the lock.
SecondLookupSkipped(c) ==
    /\ pc[c] = "locked"
    /\ Goto(c, "factory")
    /\ UNCHANGED <<entry, lease, source, inside, val, result, got, runs, drops, expiries, raced, lapsed>>

\* The holder we queued behind has probably just filled it.
SecondLookup(c) ==
    /\ pc[c] = "locked"
    /\ Lookup(c, "factory")
    /\ UNCHANGED <<entry, source, inside, val, runs, drops, expiries, raced>>

\* _compute_and_store: the factory reads the source.
FactoryReturns(c) ==
    /\ pc[c] = "factory"
    /\ val' = [val EXCEPT ![c] = source]
    /\ runs' = [runs EXCEPT ![c] = @ + 1]
    /\ Goto(c, "store")
    /\ UNCHANGED <<entry, lease, source, inside, result, got, drops, expiries, raced, lapsed>>

\* The factory raises.
FactoryRaises(c) ==
    /\ pc[c] = "factory"
    /\ \E e \in FactoryErrors : Finish(c, e)
    /\ runs' = [runs EXCEPT ![c] = @ + 1]
    /\ lapsed' = TRUE
    /\ UNCHANGED <<entry, lease, source, inside, val, got, drops, expiries, raced>>

\* set: the value is returned also when it does not serialize or Redis fails.
Store(c) ==
    /\ pc[c] = "store"
    /\ \/ entry' = val[c] /\ UNCHANGED lapsed
       \/ RedisFails /\ lapsed' = TRUE /\ UNCHANGED entry
    /\ Finish(c, "value")
    /\ got' = [got EXCEPT ![c] = val[c]]
    /\ UNCHANGED <<lease, source, inside, val, runs, drops, expiries, raced>>

\* Mutant: `except RedisError` without the check of held.
UnlockRetries(c) ==
    /\ pc[c] = "unlock"
    /\ \/ Lock!End(c)
       \/ (lease[c] # "held" \/ RedisFails) /\ UNCHANGED lease
    /\ inside' = [inside EXCEPT ![c] = FALSE]
    /\ \/ /\ result[c] \in {"LockAcquireError", "RedisError"}
          /\ result' = [result EXCEPT ![c] = "pending"]
          /\ Goto(c, "factory")
       \/ /\ result[c] \notin {"LockAcquireError", "RedisError"}
          /\ Goto(c, "over")
          /\ UNCHANGED result
    /\ UNCHANGED <<entry, source, val, got, runs, drops, expiries, raced, lapsed>>

\* Leaving the block: the lock is released if it is still ours (or left to
\* expire), and LockAcquireError, even one out of the factory, is caught by
\* get_or_set, which computes without the lock.
Unlock(c) ==
    /\ pc[c] = "unlock"
    /\ \/ Lock!End(c)
       \/ (lease[c] # "held" \/ RedisFails) /\ UNCHANGED lease
    /\ inside' = [inside EXCEPT ![c] = FALSE]
    /\ \/ /\ result[c] = "LockAcquireError"
          /\ result' = [result EXCEPT ![c] = "pending"]
          /\ Goto(c, "factory")
       \/ result[c] # "LockAcquireError" /\ Goto(c, "over") /\ UNCHANGED result
    /\ UNCHANGED <<entry, source, val, got, runs, drops, expiries, raced, lapsed>>

\* The reader is cancelled at an await: a lock request may stay under way, a SET
\* may have been applied, and a release may never be sent.
CancelReader(c) ==
    /\ \/ pc[c] = "wait" /\ (Lock!Abandon(c) \/ UNCHANGED lease) /\ UNCHANGED entry
       \/ pc[c] \in {"locked", "unlock"} /\ UNCHANGED <<entry, lease>>
       \/ pc[c] = "store" /\ entry' \in {entry, val[c]} /\ UNCHANGED lease
    /\ IF pc[c] = "unlock" THEN Goto(c, "over") /\ result' = [result EXCEPT ![c] = "error"]
                           ELSE Finish(c, "error")
    /\ lapsed' = TRUE
    /\ UNCHANGED <<source, inside, val, got, runs, drops, expiries, raced>>

\* The lease of a reader runs out: its factory outlasts lock_timeout_seconds.
LeaseRunsOut(c) ==
    /\ LeaseExpires
    /\ Lock!End(c)
    /\ lapsed' = TRUE
    /\ UNCHANGED <<entry, source, reader, drops, expiries, raced>>

\* A lock request whose reader went on without it is granted late, or is lost.
StrayRequest(c) ==
    /\ pc[c] # "wait"
    /\ Lock!Grant(c) \/ Lock!Abandon(c)
    /\ UNCHANGED <<entry, source, reader, drops, expiries, raced, lapsed>>

-----------------------------------------------------------------------------
(* delete, clear and the life of the entry                                 *)

\* A service writes the source ...
Write(c) ==
    /\ pc[c] = "start"
    /\ source' = source + 1
    /\ raced' = (raced \/ \E r \in Readers : pc[r] = "store")
    /\ Goto(c, "delete")
    /\ UNCHANGED <<entry, lease, inside, val, result, got, runs, drops, expiries, lapsed>>

\* Mutant: the delete goes to another key.
DeleteOtherKey(c) ==
    /\ pc[c] = "delete"
    /\ drops' = drops + 1
    /\ Finish(c, "value")
    /\ UNCHANGED <<entry, lease, source, inside, val, got, runs, expiries, raced, lapsed>>

\* ... and then calls delete, clear or invalidate.
Delete(c) ==
    /\ pc[c] = "delete"
    /\ \/ entry' = NoEntry /\ UNCHANGED raced
       \/ RedisFails /\ raced' = TRUE /\ UNCHANGED entry
    /\ drops' = drops + 1
    /\ Finish(c, "value")
    /\ UNCHANGED <<lease, source, inside, val, got, runs, expiries, lapsed>>

EntryExpires ==
    /\ entry # NoEntry
    /\ expiries < MaxExpiries
    /\ entry' = NoEntry
    /\ expiries' = expiries + 1
    /\ drops' = drops + 1
    /\ UNCHANGED <<lease, source, reader, raced, lapsed>>

ReaderStep(c) ==
    \/ FirstLookup(c) \/ EnterLock(c) \/ GiveUpLock(c) \/ LockFails(c)
    \/ SecondLookup(c) \/ FactoryReturns(c) \/ FactoryRaises(c)
    \/ Store(c) \/ Unlock(c) \/ CancelReader(c)

Next ==
    \/ \E c \in Readers : ReaderStep(c) \/ LeaseRunsOut(c) \/ StrayRequest(c)
    \/ \E c \in Writers : Write(c) \/ Delete(c)
    \/ EntryExpires

Spec == Init /\ [][Next]_vars

\* Every reader goes on by itself, to the end of its wait for the lock; nothing
\* makes Redis fail or a lease run out.
FairSpec ==
    /\ Spec
    /\ \A c \in Readers :
        WF_vars(\/ FirstLookup(c) \/ EnterLock(c) \/ GiveUpLock(c)
                \/ SecondLookup(c) \/ FactoryReturns(c) \/ FactoryRaises(c)
                \/ Store(c) \/ Unlock(c))

-----------------------------------------------------------------------------
(* Properties                                                              *)

\* Stampede protection: however many readers miss at once, the factory runs
\* once for each time the entry went away, until a lease runs out under a slow
\* factory, a waiter gives up, Redis fails a reader or a factory raises.
OneRunPerMiss ==
    ~lapsed => Cardinality({c \in Protected : runs[c] > 0}) <= drops + 1

\* An entry that decodes is the current version of the source, unless a write
\* fell between a factory's read and its SET or a delete was lost.
FreshUnlessRaced ==
    /\ ~raced
    /\ \A w \in Writers : pc[w] # "delete"
    /\ Hit
    => entry = source

\* A junk entry never reaches the callers of get_or_set.
ReadersGetValues ==
    \A c \in Readers : result[c] = "value" => got[c] \notin {NoEntry, Junk}

\* get_or_set always ends: no lock, no failure of Redis keeps a caller waiting.
ReaderIsAnswered == \A c \in Readers : <>(pc[c] = "over")

\* A factory that raised is not run a second time for the same caller.
FactoryRunsOnce == \A c \in Readers : runs[c] <= 1
=============================================================================
