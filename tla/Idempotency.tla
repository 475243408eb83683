----------------------------- MODULE Idempotency -----------------------------
(***************************************************************************)
(* http/middleware/idempotency.py: IdempotencyMiddleware.                  *)
(*                                                                         *)
(* Requests that carry an Idempotency-Key run side by side, in any number  *)
(* of processes, and share only Redis.  Every Redis call is an action of   *)
(* its own, and so are the handler's side effect (Commit) and its end.     *)
(* A Redis call that fails may have been applied or not.                   *)
(***************************************************************************)
EXTENDS Integers, FiniteSets

CONSTANTS
    Requests,      \* first attempts and retries, each handled once
    RedisKeys,     \* digests of caller + method + path + key
    Bodies,        \* what clients send (query string included)
    KeyOf,         \* _redis_key of each request (the caller in it is the peer
                   \* address: state.user is published further in)
    BodyOf,        \* the body its client sends
    Outcomes,      \* how handlers end: see OutcomeKinds
    FailOpen,      \* requests served by an application with fail_open=True
    RedisFails,    \* whether Redis calls may fail
    Disconnects,   \* whether clients may hang up while sending the body
    MaxExpiries,   \* bound: how many records run out of ttl_seconds
    NoRequest      \* not a request

\* ok is any complete response below 500 that fits max_stored_bytes.
OutcomeKinds == {"ok", "too_large", "server_error", "exception", "cancelled"}

ASSUME RequestsAssumption ==
    /\ KeyOf \in [Requests -> RedisKeys]
    /\ BodyOf \in [Requests -> Bodies]
    /\ Outcomes \subseteq OutcomeKinds
    /\ NoRequest \notin Requests
    /\ FailOpen \subseteq Requests
    /\ RedisFails \in BOOLEAN
    /\ Disconnects \in BOOLEAN
    /\ MaxExpiries \in Nat

VARIABLES
    store,      \* Redis: the record under each key
    pc,         \* where each request is
    whole,      \* whether its body was read to the end
    answer,     \* what its client is told
    replayed,   \* the request whose stored response it is given
    committed,  \* history: requests whose handler had its effect
    reopened,   \* history: keys whose marker was given up or passed by
    stranded,   \* history: keys whose marker a request left behind
    expiries    \* records expired so far

vars == <<store, pc, whole, answer, replayed, committed, reopened, stranded,
          expiries>>
history == <<reopened, stranded>>

\* Mutant: the body is left out of the fingerprint.
FingerprintWithoutBody(r) == <<CHOOSE b \in Bodies : TRUE, TRUE>>

\* _fingerprint: the method and path are part of the key, so what it tells
\* apart is the body as the middleware read it.
Fingerprint(r) == <<BodyOf[r], whole[r]>>

\* A record; "by" is the request that wrote it, which stands for the stored
\* status, headers and body.
Records == [state : {"in-flight", "done"}, print : Bodies \X BOOLEAN, by : Requests]
Empty == [state |-> "empty"]
Record(state, r) == [state |-> state, print |-> Fingerprint(r), by |-> r]

Key(r) == store[KeyOf[r]]

TypeOK ==
    /\ store \in [RedisKeys -> Records \cup {Empty}]
    /\ pc \in [Requests -> {"new", "claim", "get", "run", "bare", "record",
                            "release", "over"}]
    /\ whole \in [Requests -> BOOLEAN]
    /\ answer \in [Requests -> {"none", "own", "error", "replay", "in_progress",
                                "mismatch", "unavailable"}]
    /\ replayed \in [Requests -> Requests \cup {NoRequest}]
    /\ committed \subseteq Requests
    /\ reopened \subseteq RedisKeys
    /\ stranded \subseteq RedisKeys
    /\ expiries \in 0 .. MaxExpiries

Init ==
    /\ store = [k \in RedisKeys |-> Empty]
    /\ pc = [r \in Requests |-> "new"]
    /\ whole = [r \in Requests |-> TRUE]
    /\ answer = [r \in Requests |-> "none"]
    /\ replayed = [r \in Requests |-> NoRequest]
    /\ committed = {}
    /\ reopened = {}
    /\ stranded = {}
    /\ expiries = 0

-----------------------------------------------------------------------------
Goto(r, step) == pc' = [pc EXCEPT ![r] = step]

Put(r, record) == store' = [store EXCEPT ![KeyOf[r]] = record]

\* The client is told so and the request is over.
Answer(r, what) == Goto(r, "over") /\ answer' = [answer EXCEPT ![r] = what]

\* From now on a second run of this key's operation is expected: the handler
\* ended without a record to keep, ran without Redis, or the record expired.
Reopen(k) == reopened' = reopened \cup {k}

\* From now on a marker may be left that no request will replace: its handler
\* was cut off, or the call that should have replaced or removed it failed.
Strand(k) == stranded' = stranded \cup {k}

\* What the end of a handler means for the key.
NoteEnd(r, outcome) ==
    /\ IF outcome \in {"too_large", "server_error", "exception"}
       THEN Reopen(KeyOf[r]) ELSE UNCHANGED reopened
    /\ IF outcome = "cancelled" THEN Strand(KeyOf[r]) ELSE UNCHANGED stranded

\* _buffer_body: reads to the end, or to a disconnect, whose partial body is
\* handed on like a whole one.
BufferBody(r) ==
    /\ pc[r] = "new"
    /\ \E w \in BOOLEAN : /\ w \/ Disconnects
                          /\ whole' = [whole EXCEPT ![r] = w]
    /\ Goto(r, "claim")
    /\ UNCHANGED <<store, answer, replayed, committed, history, expiries>>

\* Mutant: SET without NX.
ClaimSetWithoutNX(r) ==
    /\ pc[r] = "claim"
    /\ Put(r, Record("in-flight", r))
    /\ Goto(r, "run")
    /\ UNCHANGED <<whole, answer, replayed, committed, history, expiries>>

\* _claim: SET NX with the in-flight marker.
ClaimSet(r) ==
    /\ pc[r] = "claim"
    /\ \/ Key(r) = Empty /\ Put(r, Record("in-flight", r)) /\ Goto(r, "run")
       \/ Key(r) # Empty /\ Goto(r, "get") /\ UNCHANGED store
    /\ UNCHANGED <<whole, answer, replayed, committed, history, expiries>>

\* _replay: the stored response is sent again.
Replay(r, record) ==
    /\ Answer(r, "replay")
    /\ replayed' = [replayed EXCEPT ![r] = record.by]

\* _handle_existing, for a record that is there.
HandleExisting(r, record) ==
    \/ record.print # Fingerprint(r) /\ Answer(r, "mismatch") /\ UNCHANGED replayed
    \/ /\ record.print = Fingerprint(r)
       /\ record.state = "in-flight"
       /\ Answer(r, "in_progress")
       /\ UNCHANGED replayed
    \/ /\ record.print = Fingerprint(r)
       /\ record.state = "done"
       /\ Replay(r, record)

\* _claim lost the SET: GET the record; if it is gone, the request counts as
\* fresh and runs, with no marker of its own.
ClaimGet(r) ==
    /\ pc[r] = "get"
    /\ \/ Key(r) = Empty /\ Goto(r, "run") /\ UNCHANGED <<answer, replayed>>
       \/ Key(r) # Empty /\ HandleExisting(r, Key(r))
    /\ UNCHANGED <<store, whole, committed, history, expiries>>

\* RedisError in _claim: 503, or the bare handler when fail_open.
ClaimFails(r) ==
    /\ RedisFails
    /\ pc[r] \in {"claim", "get"}
    /\ \/ UNCHANGED <<store, stranded>>
       \/ /\ pc[r] = "claim" /\ Key(r) = Empty
          /\ Put(r, Record("in-flight", r))
          /\ Strand(KeyOf[r])
    /\ \/ r \in FailOpen /\ Goto(r, "bare") /\ Reopen(KeyOf[r]) /\ UNCHANGED answer
       \/ r \notin FailOpen /\ Answer(r, "unavailable") /\ UNCHANGED reopened
    /\ UNCHANGED <<whole, replayed, committed, expiries>>

\* The handler has its effect: the order is created.
Commit(r) ==
    /\ pc[r] \in {"run", "bare"}
    /\ r \notin committed
    /\ committed' = committed \cup {r}
    /\ UNCHANGED <<store, pc, whole, answer, replayed, history, expiries>>

\* Mutant: `except BaseException`, which also releases the key of a handler cut
\* off after its effect.
HandlerEndsReleasing(r, outcome) ==
    /\ answer' = [answer EXCEPT ![r] = IF outcome = "ok" THEN "own" ELSE "error"]
    /\ Goto(r, IF pc[r] = "bare" THEN "over"
               ELSE IF outcome = "ok" THEN "record" ELSE "release")
    /\ pc[r] \in {"run", "bare"}
    /\ NoteEnd(r, outcome)
    /\ UNCHANGED <<store, whole, replayed, committed, expiries>>

\* Mutant: a server error leaves the marker.
HandlerEndsNotReleasing(r, outcome) ==
    /\ answer' = [answer EXCEPT ![r] = IF outcome = "ok" THEN "own" ELSE "error"]
    /\ Goto(r, IF pc[r] = "run" /\ outcome = "ok" THEN "record" ELSE "over")
    /\ pc[r] \in {"run", "bare"}
    /\ NoteEnd(r, outcome)
    /\ UNCHANGED <<store, whole, replayed, committed, expiries>>

\* The handler ends; its response has passed through send_wrapper by then.
\* CancelledError is no Exception, so it leaves the marker as it is.
HandlerEnds(r, outcome) ==
    /\ answer' = [answer EXCEPT ![r] =
                    IF outcome \in {"ok", "too_large"} THEN "own" ELSE "error"]
    /\ \/ pc[r] = "bare" /\ Goto(r, "over")
       \/ pc[r] = "run" /\ outcome = "ok" /\ Goto(r, "record")
       \/ /\ pc[r] = "run"
          /\ outcome \in {"too_large", "server_error", "exception"}
          /\ Goto(r, "release")
       \/ pc[r] = "run" /\ outcome = "cancelled" /\ Goto(r, "over")
    /\ NoteEnd(r, outcome)
    /\ UNCHANGED <<store, whole, replayed, committed, expiries>>

\* SET of the done record, whatever the key holds by now; a RedisError is logged.
StoreRecord(r) ==
    /\ pc[r] = "record"
    /\ \/ Put(r, Record("done", r)) /\ UNCHANGED stranded
       \/ RedisFails /\ Strand(KeyOf[r]) /\ UNCHANGED store
    /\ Goto(r, "over")
    /\ UNCHANGED <<whole, answer, replayed, committed, reopened, expiries>>

\* _release: DEL, whatever the key holds by now; a RedisError is logged.
Release(r) ==
    /\ pc[r] = "release"
    /\ \/ Put(r, Empty) /\ UNCHANGED stranded
       \/ RedisFails /\ Strand(KeyOf[r]) /\ UNCHANGED store
    /\ Goto(r, "over")
    /\ UNCHANGED <<whole, answer, replayed, committed, reopened, expiries>>

\* CancelledError at an await of the middleware itself, which nothing in it
\* catches.  A SET under way is applied or not; the other calls under way and
\* applied are StoreRecord and Release.
Cancel(r) ==
    /\ "cancelled" \in Outcomes
    /\ \/ /\ pc[r] \in {"new", "claim", "get"}
          /\ Answer(r, "error")
          /\ \/ UNCHANGED <<store, stranded>>
             \/ /\ pc[r] = "claim" /\ Key(r) = Empty
                /\ Put(r, Record("in-flight", r))
                /\ Strand(KeyOf[r])
       \/ /\ pc[r] \in {"record", "release"}
          /\ Goto(r, "over")
          /\ Strand(KeyOf[r])
          /\ UNCHANGED <<store, answer>>
    /\ UNCHANGED <<whole, replayed, committed, reopened, expiries>>

\* ttl_seconds run out for a record.
Expire(k) ==
    /\ store[k] # Empty
    /\ expiries < MaxExpiries
    /\ store' = [store EXCEPT ![k] = Empty]
    /\ expiries' = expiries + 1
    /\ Reopen(k)
    /\ UNCHANGED <<pc, whole, answer, replayed, committed, stranded>>

RequestStep(r) ==
    \/ BufferBody(r) \/ ClaimSet(r) \/ ClaimGet(r) \/ ClaimFails(r)
    \/ Commit(r) \/ \E outcome \in Outcomes : HandlerEnds(r, outcome)
    \/ StoreRecord(r) \/ Release(r) \/ Cancel(r)

Next ==
    \/ \E r \in Requests : RequestStep(r)
    \/ \E k \in RedisKeys : Expire(k)

Spec == Init /\ [][Next]_vars

-----------------------------------------------------------------------------
(* Properties                                                              *)

\* A replayed response is a complete one below 500, given to a request of the
\* same caller (_caller), endpoint, key and content: never another one's, never a failure.
ReplayIsFaithful ==
    \A r, s \in Requests :
        replayed[r] = s => /\ answer[s] = "own"
                           /\ KeyOf[r] = KeyOf[s]
                           /\ BodyOf[r] = BodyOf[s] /\ whole[r] = whole[s]

\* The operation of one key is done once and started once, however often it is
\* sent, until a handler ends without a record to keep, one runs without Redis
\* (fail_open) or the record expires.
OneEffectUnlessReopened ==
    \A r, s \in Requests :
        /\ pc[r] = "run" \/ r \in committed
        /\ pc[s] = "run" \/ s \in committed
        /\ KeyOf[r] = KeyOf[s]
        /\ KeyOf[r] \notin reopened
        => r = s

\* An in-flight marker belongs to a request still on its way to replace or
\* remove it, so a client is refused with "still in progress" only while that
\* is so, unless a handler was cut off or a Redis call failed (comment in
\* _run_and_record: "The reservation must go, ...").
MarkerHasRunner ==
    \A k \in RedisKeys \ stranded :
        store[k] # Empty /\ store[k].state = "in-flight" =>
            pc[store[k].by] \in {"run", "record", "release"}

\* Until then a stored response is neither lost nor replaced: no request that
\* failed, timed out or came late takes it away.
DoneRecordIsKept ==
    [][\A k \in RedisKeys \ reopened' :
         store[k] # Empty /\ store[k].state = "done" => store'[k] = store[k]]_vars

\* Docstring of _claim: exactly one of simultaneous requests wins the
\* reservation and runs, the loser does not start a second copy.
OneRunsAtATime ==
    \A r, s \in Requests :
        pc[r] = "run" /\ pc[s] = "run" /\ KeyOf[r] = KeyOf[s] => r = s
=============================================================================
