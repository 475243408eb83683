----------------------------- MODULE RateLimit -----------------------------
(***************************************************************************)
(* cache/rate_limit.py and http/middleware/rate_limit.py: one of the three *)
(* limiters, hit by any number of callers.                                 *)
(*                                                                         *)
(* A hit is atomic: a Lua script in Redis, or a coroutine without an       *)
(* await.  Time is kept as ages and remaining lives, in ticks, so it is    *)
(* unbounded.  A hit whose Redis call fails may have been counted or not.  *)
(***************************************************************************)
EXTENDS Integers, Sequences

CONSTANTS
    Kinds,       \* the limiters to check: "fixed", "sliding", "memory"
    Keys,        \* rate-limit keys
    SharedKeys,  \* those hit in Redis, where keys do not depend on each other
    Times,       \* hits allowed per window
    Window,      \* its length in ticks (window_ms)
    MaxKeys,     \* max_keys of InMemoryRateLimiter
    RedisFails,  \* whether Redis calls may fail
    Untold       \* no announcement

ASSUME RateLimitAssumption ==
    /\ Kinds \subseteq {"fixed", "sliding", "memory"}
    /\ SharedKeys \subseteq Keys
    /\ Times \in Nat \ {0}       \* parse_rate
    /\ Window \in Nat \ {0}
    /\ MaxKeys \in Nat \ {0}
    /\ RedisFails \in BOOLEAN

VARIABLES
    kind,     \* the limiter in use
    count,    \* fixed: the counter of each key, 0 for no key
    ttl,      \* fixed: what is left of its time to live
    log,      \* sliding: ages of the logged hits, oldest first
    windows,  \* memory: _windows, least recently hit first
    allowed,  \* whether the last hit of each key was allowed
    told,     \* what it was told: remaining hits and the time to the reset
    recent,   \* history: ages of the hits allowed within the last Window ticks,
              \* from the time on when _windows last evicted the key, oldest first
    order     \* history: the last MaxKeys keys hit, in the order of their last hits

limiter == <<kind, count, ttl, log, windows, allowed, told, recent, order>>

Ages == 0 .. Window

\* remaining = max(times - count, 0) is 0 for every count from Times on, so
\* counts above Times + 1 need not be told apart.
Counts == 0 .. Times + 1
Up(n) == IF n > Times THEN n ELSE n + 1

LimiterTypeOK ==
    /\ kind \in Kinds
    /\ count \in [Keys -> Counts]
    /\ ttl \in [Keys -> Ages]
    /\ log \in [Keys -> Seq(Ages)]
    /\ \A k \in Keys : Len(log[k]) <= Times
    /\ windows \in Seq([key : Keys, age : Ages, count : Counts])
    /\ Len(windows) <= MaxKeys
    /\ allowed \in [Keys -> BOOLEAN]
    /\ told \in [Keys -> [remaining : 0 .. Times, wait : Ages] \cup {Untold}]
    /\ recent \in [Keys -> Seq(Ages)]
    /\ order \in Seq(Keys)
    /\ Len(order) <= MaxKeys

LimiterInit ==
    /\ kind \in Kinds
    /\ count = [k \in Keys |-> 0]
    /\ ttl = [k \in Keys |-> 0]
    /\ log = [k \in Keys |-> <<>>]
    /\ windows = <<>>
    /\ allowed = [k \in Keys |-> TRUE]
    /\ told = [k \in Keys |-> Untold]
    /\ recent = [k \in Keys |-> <<>>]
    /\ order = <<>>

-----------------------------------------------------------------------------
\* What is left of ages, oldest first, when those of a whole window are removed.
Within(ages) ==
    LET gone == CHOOSE n \in 0 .. Len(ages) :
                    \A i \in 1 .. Len(ages) : ages[i] >= Window <=> i <= n
    IN  SubSeq(ages, gone + 1, Len(ages))

\* The place of k in keys, or the one after the last.
Place(k, keys) ==
    IF \E i \in 1 .. Len(keys) : keys[i] = k
    THEN CHOOSE i \in 1 .. Len(keys) : keys[i] = k
    ELSE Len(keys) + 1

WithoutPlace(s, i) == SubSeq(s, 1, i - 1) \o SubSeq(s, i + 1, Len(s))

LastOnes(s) == IF Len(s) > MaxKeys THEN Tail(s) ELSE s

(* RedisRateLimiter: INCR, and PEXPIRE for the first hit of a window *)

FixedLife(k) == IF count[k] = 0 THEN Window ELSE ttl[k]

FixedHit(k) ==
    /\ count' = [count EXCEPT ![k] = Up(@)]
    /\ ttl' = [ttl EXCEPT ![k] = FixedLife(k)]
    /\ UNCHANGED <<log, windows>>

(* RedisSlidingWindowRateLimiter: a log of allowed hits.  The log's own PEXPIRE *)
(* removes it only when every hit in it is a window old, so it is left out.     *)

\* Mutant: denied hits are logged too, in place of the oldest.
SlidingHitLogsDenied(k) ==
    /\ log' = [log EXCEPT ![k] =
                 IF Len(Within(@)) < Times THEN Append(Within(@), 0)
                 ELSE Append(Tail(Within(@)), 0)]
    /\ UNCHANGED <<count, ttl, windows>>

SlidingHit(k) ==
    /\ log' = [log EXCEPT ![k] = IF Len(Within(@)) < Times THEN Append(Within(@), 0)
                                 ELSE Within(@)]
    /\ UNCHANGED <<count, ttl, windows>>

(* InMemoryRateLimiter: an LRU map of windows *)

Held(map) == {map[i].key : i \in 1 .. Len(map)}
KnownKeys == [i \in 1 .. Len(windows) |-> windows[i].key]
Entry(k) == Place(k, KnownKeys)

\* The window a hit of k falls into, before the hit is counted.
CurrentWindow(k) ==
    IF Entry(k) <= Len(windows) /\ windows[Entry(k)].age < Window
    THEN windows[Entry(k)]
    ELSE [key |-> k, age |-> 0, count |-> 0]

CountedWindow(k) == [CurrentWindow(k) EXCEPT !.count = Up(@)]

\* Mutant: a hit key keeps its place (no move_to_end).
TouchedInPlace(k) ==
    IF Entry(k) <= Len(windows) THEN [windows EXCEPT ![Entry(k)] = CountedWindow(k)]
    ELSE Append(windows, CountedWindow(k))

\* The map after the hit is counted, k last (move_to_end).
Touched(k) == Append(WithoutPlace(windows, Entry(k)), CountedWindow(k))

MemoryHit(k) ==
    /\ windows' = LastOnes(Touched(k))
    /\ UNCHANGED <<count, ttl, log>>

(* What the next hit of k is answered *)

\* Mutant: the limit is compared with the count before this hit.
PassesOneTooMany(k) ==
    \/ kind = "fixed" /\ count[k] <= Times
    \/ kind = "sliding" /\ Len(Within(log[k])) <= Times
    \/ kind = "memory" /\ CurrentWindow(k).count <= Times

Passes(k) ==
    \/ kind = "fixed" /\ count[k] < Times
    \/ kind = "sliding" /\ Len(Within(log[k])) < Times
    \/ kind = "memory" /\ CurrentWindow(k).count < Times

\* RateLimitResult.remaining
Remaining(k) ==
    LET used == CASE kind = "fixed" -> count[k]
                  [] kind = "sliding" -> Len(Within(log[k]))
                  [] kind = "memory" -> CurrentWindow(k).count
    IN  IF used < Times THEN Times - used - 1 ELSE 0

\* Mutant: the age of the oldest hit for the time it has left.
ResetAfterAge(k) ==
    CASE kind = "fixed" -> FixedLife(k)
      [] kind = "sliding" -> IF Passes(k) THEN Window ELSE Within(log[k])[1]
      [] kind = "memory" -> Window - CurrentWindow(k).age

\* RateLimitResult.reset_after_seconds, announced as Retry-After.
ResetAfter(k) ==
    CASE kind = "fixed" -> FixedLife(k)
      [] kind = "sliding" -> IF Passes(k) THEN Window ELSE Window - Within(log[k])[1]
      [] kind = "memory" -> Window - CurrentWindow(k).age

Count(k) ==
    \/ kind = "fixed" /\ FixedHit(k)
    \/ kind = "sliding" /\ SlidingHit(k)
    \/ kind = "memory" /\ MemoryHit(k)

\* build_rate_limit_dep: the hit is counted and answered, with a 429 if denied.
Hit(k) ==
    /\ kind = "memory" \/ k \in SharedKeys
    /\ Count(k)
    /\ allowed' = [allowed EXCEPT ![k] = Passes(k)]
    /\ told' = [told EXCEPT ![k] = [remaining |-> Remaining(k), wait |-> ResetAfter(k)]]
    /\ recent' = [j \in Keys |-> IF kind = "memory" /\ j \notin Held(windows') THEN <<>>
                                ELSE IF j = k /\ Passes(k) THEN Append(recent[j], 0)
                                ELSE recent[j]]
    /\ order' = IF kind = "memory"
                THEN LastOnes(Append(WithoutPlace(order, Place(k, order)), k)) ELSE order
    /\ UNCHANGED kind

\* RedisError: allowed as degraded (_fail_open) or raised; what it announces is
\* a guess.  The script may have run.
HitDegraded(k) ==
    /\ RedisFails
    /\ kind # "memory" /\ k \in SharedKeys
    /\ Count(k) \/ UNCHANGED <<count, ttl, log, windows>>
    /\ told' = [told EXCEPT ![k] = Untold]
    /\ UNCHANGED <<kind, allowed, recent, order>>

Older(age) == IF age < Window THEN age + 1 ELSE Window
Aged(ages) == [i \in 1 .. Len(ages) |-> Older(ages[i])]
Less(n) == IF n > 0 THEN n - 1 ELSE 0

LimiterTick ==
    /\ ttl' = [k \in Keys |-> Less(ttl[k])]
    /\ count' = [k \in Keys |-> IF ttl[k] <= 1 THEN 0 ELSE count[k]]
    /\ log' = [k \in Keys |-> Aged(log[k])]
    /\ windows' = [i \in 1 .. Len(windows) |-> [windows[i] EXCEPT !.age = Older(@)]]
    /\ told' = [k \in Keys |-> IF told[k] = Untold THEN Untold
                               ELSE [told[k] EXCEPT !.wait = Less(@)]]
    /\ recent' = [k \in Keys |-> Within(Aged(recent[k]))]
    /\ UNCHANGED <<kind, allowed, order>>

LimiterNext ==
    \/ \E k \in Keys : Hit(k) \/ HitDegraded(k)
    \/ LimiterTick

LimiterSpec == LimiterInit /\ [][LimiterNext]_limiter

\* Time goes on; clients keep calling, and Redis answers some of the calls.
LimiterFairness == WF_limiter(LimiterTick) /\ \A k \in Keys : WF_limiter(Hit(k))

LimiterFairSpec == LimiterSpec /\ LimiterFairness

-----------------------------------------------------------------------------
(* Properties                                                              *)

\* Docstrings: no window of time sees more than Times hits of a key pass the
\* sliding limiter, nor more than 2 * Times the others, whose windows are fixed.
\* An evicted key starts anew.
WithinLimit ==
    \A k \in Keys :
        Len(recent[k]) <= IF kind = "sliding" THEN Times ELSE 2 * Times

\* "X-RateLimit-Remaining / -Reset so clients can pace themselves": a caller
\* told that hits remain, and one who waits for the announced time, passes,
\* unless others hit the key in the meantime.
AnnouncementsHold ==
    \A k \in Keys :
        told[k] # Untold /\ (told[k].remaining > 0 \/ told[k].wait = 0) => Passes(k)

\* Docstring of InMemoryRateLimiter: the least recently used keys are evicted.
KeepsRecentKeys == kind = "memory" => KnownKeys = order

\* "A client hammering a closed limit must not keep extending it": whoever keeps
\* calling is let through again, or its call meets a failing Redis.
DeniedPassesAgain == \A k \in Keys : ~allowed[k] ~> allowed[k] \/ told[k] = Untold
=============================================================================
