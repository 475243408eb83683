------------------------------ MODULE UnitOfWork ------------------------------
(***************************************************************************)
(* SqlAlchemyUnitOfWork and SqlAlchemyRepository over one table, the       *)
(* connection pool of the engine, and what they rely on of the database    *)
(* and of SQLAlchemy: statements see what is committed and their own       *)
(* writes, a written row is locked until its transaction ends, a deadlock  *)
(* or a lost connection fails the statement, and a failed flush rolls the  *)
(* transaction back and leaves the session refusing everything but         *)
(* rollback().                                                             *)
(***************************************************************************)
EXTENDS Integers, FiniteSets, Relation

CONSTANTS
    Units,          \* units of work, each entered once
    Keys,           \* primary keys
    Stored,         \* keys of the rows there are at first
    NoKey,
    PoolSize,       \* pool_size + max_overflow
    Cancellable,    \* units whose task may be cancelled
    Repertoire,     \* the statements a unit may execute
    MaxStatements   \* bound: how many it does, commit() and rollback() included

Statements == [op : {"create", "get", "update", "delete"}, key : Keys]

ASSUME UnitOfWorkAssumption ==
    /\ Stored \subseteq Keys
    /\ NoKey \notin Keys
    /\ PoolSize \in Nat \ {0}
    /\ Cancellable \subseteq Units
    /\ Repertoire \in [Units -> SUBSET Statements]
    /\ MaxStatements \in Nat

VARIABLES
    table,      \* the committed rows
    stage,      \* where a unit is in its async with block
    asked,      \* the statement it is waiting for
    done,       \* how many it has had
    writes,     \* what its transaction has written
    loaded,     \* the entity it holds
    refused,    \* a flush failed: the session waits for rollback()
    connected,  \* who holds a connection of the pool
    verdict,    \* what the caller of the block learns
    written, saved, published  \* history: rows written in all, before the last
                               \* commit() of the caller, and committed in fact

unit == <<stage, asked, done, writes, loaded, refused, verdict, written, saved, published>>

Row == {"absent", "active", "deleted"}
Nothing == [op |-> "nothing", key |-> NoKey]

UnitTypeOK ==
    /\ table \in [Keys -> Row]
    /\ stage \in [Units -> {"idle", "block", "leaving", "raising", "closing", "over"}]
    /\ asked \in [Units -> Statements \cup {Nothing}]
    /\ done \in [Units -> 0 .. MaxStatements]
    /\ writes \in [Units -> [Keys -> Row \cup {"kept"}]]
    /\ loaded \in [Units -> Keys \cup {NoKey}]
    /\ refused \in [Units -> BOOLEAN]
    /\ verdict \in [Units -> {"none", "returned", "raised", "commit failed"}]
    /\ \A u \in Units : saved[u] <= written[u] /\ written[u] \in 0 .. MaxStatements
    /\ Cardinality(connected) <= PoolSize

NoWrites == [k \in Keys |-> "kept"]

UnitInit ==
    /\ table = [k \in Keys |-> IF k \in Stored THEN "active" ELSE "absent"]
    /\ stage = [u \in Units |-> "idle"]
    /\ asked = [u \in Units |-> Nothing]
    /\ done = [u \in Units |-> 0]
    /\ writes = [u \in Units |-> NoWrites]
    /\ loaded = [u \in Units |-> NoKey]
    /\ refused = [u \in Units |-> FALSE]
    /\ connected = {}
    /\ verdict = [u \in Units |-> "none"]
    /\ written = [u \in Units |-> 0]
    /\ saved = [u \in Units |-> 0]
    /\ published = [u \in Units |-> 0]

Set(f, u, value) == [f EXCEPT ![u] = value]

-----------------------------------------------------------------------------
(* The database                                                            *)

View(u, k) == IF writes[u][k] = "kept" THEN table[k] ELSE writes[u][k]
LockedFor(u, k) == \E v \in Units \ {u} : writes[v][k] # "kept"

\* A commit makes a transaction's writes those of the table and frees its rows.
Publish(u) ==
    /\ table' = [k \in Keys |-> View(u, k)]
    /\ published' = Set(published, u, written[u])
Discard(u) == UNCHANGED <<table, published>>

Waits(u, v) ==
    asked[u] # Nothing /\ u \in connected /\ u # v /\ writes[v][asked[u].key] # "kept"
        /\ asked[u].op # "get"
Deadlocked(u) ==
    /\ \E v \in Units : Waits(u, v)
    /\ TransitiveClosure([p \in Units \X Units |-> Waits(p[1], p[2])], Units)[u, u]

-----------------------------------------------------------------------------
(* The connection pool                                                     *)

Room == Cardinality(connected) < PoolSize
GiveBack(u) == connected' = connected \ {u}

\* A session takes a connection for its first statement.
Connect(u) ==
    /\ asked[u] # Nothing
    /\ u \notin connected
    /\ Room
    /\ connected' = connected \cup {u}
    /\ UNCHANGED <<table, unit>>

-----------------------------------------------------------------------------
(* The block                                                               *)

Enter(u) ==
    /\ stage[u] = "idle"
    /\ stage' = Set(stage, u, "block")
    /\ UNCHANGED <<table, asked, done, writes, loaded, refused, connected, verdict,
                   written, saved, published>>

\* The block calls a method of the repository; update is given the entity it holds.
Call(u, statement) ==
    /\ stage[u] = "block"
    /\ asked[u] = Nothing
    /\ done[u] < MaxStatements
    /\ statement.op = "update" => statement.key = loaded[u]
    /\ asked' = Set(asked, u, statement)
    /\ done' = Set(done, u, done[u] + 1)
    /\ UNCHANGED <<table, stage, writes, loaded, refused, connected, verdict, written,
                   saved, published>>

\* An exception leaves the block.
Raise(u) == stage' = Set(stage, u, "raising") /\ asked' = Set(asked, u, Nothing)
\* The call returns.
Return(u) == asked' = Set(asked, u, Nothing) /\ UNCHANGED stage

Executing(u, op) ==
    /\ asked[u].op = op
    /\ u \in connected
    /\ ~refused[u]

Write(u, k, row) ==
    /\ writes' = [writes EXCEPT ![u][k] = row]
    /\ written' = Set(written, u, written[u] + 1)

\* The transaction is rolled back, and the block lets the error through or handles it.
FlushFails(u) ==
    /\ writes' = Set(writes, u, NoWrites)
    /\ refused' = Set(refused, u, TRUE)
    /\ written' = Set(written, u, written[u] + 1)
    /\ Raise(u) \/ Return(u)
    /\ UNCHANGED loaded

Create(u) ==
    LET k == asked[u].key IN
    /\ Executing(u, "create")
    /\ ~LockedFor(u, k)
    /\ IF View(u, k) = "absent"
       THEN Write(u, k, "active") /\ Return(u) /\ UNCHANGED <<loaded, refused>>
       ELSE FlushFails(u)
    /\ UNCHANGED <<table, done, connected, verdict, saved, published>>

\* get, or get_or_raise with its NOT_FOUND.
Get(u) ==
    LET k == asked[u].key IN
    /\ Executing(u, "get")
    /\ IF View(u, k) = "absent"
       THEN (Raise(u) \/ Return(u)) /\ UNCHANGED loaded
       ELSE Return(u) /\ loaded' = Set(loaded, u, k)
    /\ UNCHANGED <<table, done, writes, refused, connected, verdict, written, saved,
                   published>>

\* update, of an entity that mark_deleted has stamped.  Its row may be gone since
\* it was loaded.
Update(u) ==
    LET k == asked[u].key IN
    /\ Executing(u, "update")
    /\ ~LockedFor(u, k)
    /\ IF View(u, k) = "absent"
       THEN FlushFails(u)
       ELSE Write(u, k, "deleted") /\ Return(u) /\ UNCHANGED <<loaded, refused>>
    /\ UNCHANGED <<table, done, connected, verdict, saved, published>>

\* One DELETE: whether a row went away is read off its rowcount.
Delete(u) ==
    LET k == asked[u].key IN
    /\ Executing(u, "delete")
    /\ ~LockedFor(u, k)
    /\ IF View(u, k) = "absent"
       THEN UNCHANGED <<writes, written>>
       ELSE Write(u, k, "absent")
    /\ Return(u)
    /\ UNCHANGED <<table, done, loaded, refused, connected, verdict, saved, published>>

\* A full pool makes a statement fail after pool_timeout, a deadlock and a failed
\* flush before it do so at once.
StatementFails(u) ==
    /\ asked[u] # Nothing
    /\ \/ u \notin connected /\ ~Room
       \/ Deadlocked(u)
       \/ refused[u]
    /\ Raise(u)
    /\ UNCHANGED <<table, done, writes, loaded, refused, connected, verdict, written,
                   saved, published>>

\* commit() by the block itself, for the part of its work that it wants kept.
Commit(u) ==
    /\ stage[u] = "block"
    /\ asked[u] = Nothing
    /\ done[u] < MaxStatements
    /\ done' = Set(done, u, done[u] + 1)
    /\ u \in connected
    /\ IF refused[u]
       THEN Raise(u) /\ UNCHANGED <<table, writes, connected, saved, published>>
       ELSE /\ Publish(u)
            /\ writes' = Set(writes, u, NoWrites)
            /\ saved' = Set(saved, u, written[u])
            /\ GiveBack(u)
            /\ UNCHANGED <<stage, asked>>
    /\ UNCHANGED <<loaded, refused, verdict, written>>

\* rollback() by the block itself.
Rollback(u) ==
    /\ stage[u] = "block"
    /\ asked[u] = Nothing
    /\ done[u] < MaxStatements
    /\ done' = Set(done, u, done[u] + 1)
    /\ u \in connected
    /\ writes' = Set(writes, u, NoWrites)
    /\ written' = Set(written, u, saved[u])
    /\ refused' = Set(refused, u, FALSE)
    /\ GiveBack(u)
    /\ UNCHANGED <<table, stage, asked, loaded, verdict, saved, published>>

\* The block returns or raises, or its task is cancelled at one of its awaits.
LeaveBlock(u, exit) ==
    /\ stage[u] = "block"
    /\ asked' = Set(asked, u, Nothing)
    /\ stage' = Set(stage, u, exit)
    /\ UNCHANGED <<table, done, writes, loaded, refused, connected, verdict, written,
                   saved, published>>

EndBlock(u) == asked[u] = Nothing /\ \E exit \in {"leaving", "raising"} : LeaveBlock(u, exit)
CancelBlock(u) == u \in Cancellable /\ LeaveBlock(u, "raising")

-----------------------------------------------------------------------------
(* __aexit__                                                               *)

Exit(u, how) ==
    /\ writes' = Set(writes, u, NoWrites)
    /\ verdict' = Set(verdict, u, how)
    /\ stage' = Set(stage, u, "closing")
    /\ UNCHANGED <<asked, done, loaded, refused, written, saved>>

\* The commit: it may fail, or be cancelled, before or after the database did it.
ExitCommit(u) ==
    /\ stage[u] = "leaving"
    /\ \/ ~refused[u] /\ Publish(u) /\ Exit(u, "returned") /\ GiveBack(u)
       \/ ~refused[u] /\ Publish(u) /\ Exit(u, "commit failed") /\ UNCHANGED connected
       \/ Discard(u) /\ Exit(u, "commit failed") /\ UNCHANGED connected

\* Mutant: the block's exception does not reach the unit of work.
ExitRollbackCommits(u) ==
    /\ stage[u] = "raising"
    /\ IF refused[u] THEN Discard(u) ELSE Publish(u)
    /\ Exit(u, "raised")
    /\ GiveBack(u)

\* The rollback: when it fails, the database does it for the lost connection.
ExitRollback(u) ==
    /\ stage[u] = "raising"
    /\ Discard(u)
    /\ Exit(u, "raised")
    /\ GiveBack(u) \/ UNCHANGED connected

\* The session is gone, and with it what was noted of the unit.
Forget(u) ==
    /\ stage' = Set(stage, u, "over")
    /\ done' = Set(done, u, 0)
    /\ loaded' = Set(loaded, u, NoKey)
    /\ refused' = Set(refused, u, FALSE)
    /\ verdict' = Set(verdict, u, "none")
    /\ written' = Set(written, u, 0)
    /\ saved' = Set(saved, u, 0)
    /\ published' = Set(published, u, 0)
    /\ UNCHANGED <<table, asked, writes>>

\* Mutant: no finally, a commit that raises skips the close.
CloseUnlessFailed(u) ==
    /\ stage[u] = "closing"
    /\ IF verdict[u] = "commit failed" THEN UNCHANGED connected ELSE GiveBack(u)
    /\ Forget(u)

\* The close of finally: the session gives back what it still holds.
Close(u) ==
    /\ stage[u] = "closing"
    /\ GiveBack(u)
    /\ Forget(u)

-----------------------------------------------------------------------------

UnitProgress(u) ==
    Connect(u) \/ Create(u) \/ Get(u) \/ Update(u) \/ Delete(u) \/ StatementFails(u)
    \/ ExitCommit(u) \/ ExitRollback(u) \/ Close(u)

UnitNext(u) ==
    Enter(u) \/ (\E s \in Repertoire[u] : Call(u, s)) \/ Commit(u) \/ Rollback(u)
    \/ EndBlock(u) \/ CancelBlock(u) \/ UnitProgress(u)
=============================================================================
