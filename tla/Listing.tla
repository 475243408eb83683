------------------------------- MODULE Listing -------------------------------
(***************************************************************************)
(* Clients walk through the pages of a table (Pagination) while units of   *)
(* work change it (UnitOfWork), all on the connections of one pool.  A page*)
(* is a request of its own: its session takes a connection, reads the rows *)
(* that SoftDeleteMixin.is_active() lets through, and gives it back.       *)
(***************************************************************************)
EXTENDS UnitOfWork, Pagination

CONSTANTS
    Readers,
    Styles,    \* those of their walks: "ascending", "descending" and "offset"
    Limit,     \* rows per page it asks for
    MaxLimit   \* max_limit

ASSUME ListingAssumption ==
    /\ Keys \subseteq Int /\ IsFiniteSet(Keys)
    /\ \A j, k \in Keys : Text(j) = Text(k) => j = k   \* a text is read back as its key
    /\ \A k \in Keys : Text(k) # "no key"
    /\ Readers \cap Units = {}
    /\ Styles \subseteq {"ascending", "descending", "offset"}
    /\ Limit \in [Readers -> Int]
    /\ MaxLimit \in Nat \ {0}

VARIABLES
    walk,    \* where each walk is
    style,   \* and its kind
    cursor,  \* it goes on from here,
    offset,  \* or from here
    total,   \* rows of the count, for a walk by offset
    shown,   \* history: the rows of its pages so far
    steady,  \* history: rows active ever since it began
    ever     \* history: rows active at some time since

walks == <<walk, style, cursor, offset, total, shown>>
seen == <<steady, ever>>
listing == <<table, unit, connected, walks, seen>>

Active == {k \in Keys : table[k] = "active"}

ListingTypeOK ==
    /\ UnitTypeOK
    /\ walk \in [Readers -> {"idle", "asking", "counting", "reading", "between",
                             "finished", "refused", "failed"}]
    /\ style \in [Readers -> Styles \cup {"none"}]
    /\ offset \in [Readers -> Nat]
    /\ total \in [Readers -> 0 .. Cardinality(Keys)]
    /\ \A r \in Readers : ToSet(shown[r]) \subseteq Keys
    /\ steady \in [Readers -> SUBSET Keys]
    /\ ever \in [Readers -> SUBSET Keys]

ListingInit ==
    /\ UnitInit
    /\ walk = [r \in Readers |-> "idle"]
    /\ style = [r \in Readers |-> "none"]
    /\ cursor = [r \in Readers |-> NoCursor]
    /\ offset = [r \in Readers |-> 0]
    /\ total = [r \in Readers |-> 0]
    /\ shown = [r \in Readers |-> <<>>]
    /\ steady = [r \in Readers |-> {}]
    /\ ever = [r \in Readers |-> {}]

Walks(r, where) == walk' = [walk EXCEPT ![r] = where]

\* The limit and the cursor are checked before any statement is executed.
RequestPage(r, c) ==
    /\ IF LimitAccepted(Limit[r]) /\ CursorAccepted(c, Keys)
       THEN Walks(r, "asking") /\ cursor' = [cursor EXCEPT ![r] = c]
       ELSE Walks(r, "refused") /\ cursor' = [cursor EXCEPT ![r] = NoCursor]
    /\ UNCHANGED <<table, unit, connected, offset, total, shown>>

Begin(r) ==
    /\ walk[r] = "idle"
    /\ \E s \in Styles : style' = [style EXCEPT ![r] = s]
    /\ \E c \in {NoCursor} \cup MalformedCursors : RequestPage(r, c)
    /\ steady' = [steady EXCEPT ![r] = Active]
    /\ ever' = [ever EXCEPT ![r] = Active]

GoOn(r) ==
    /\ walk[r] = "between"
    /\ RequestPage(r, cursor[r])
    /\ UNCHANGED <<style, seen>>

TakeConnection(r) ==
    /\ walk[r] = "asking"
    /\ Room
    /\ connected' = connected \cup {r}
    /\ Walks(r, IF style[r] = "offset" THEN "counting" ELSE "reading")
    /\ UNCHANGED <<table, unit, style, cursor, offset, total, shown, seen>>

PoolTimesOut(r) ==
    /\ walk[r] = "asking"
    /\ ~Room
    /\ Walks(r, "failed")
    /\ UNCHANGED <<table, unit, connected, style, cursor, offset, total, shown, seen>>

\* with_total: a query of its own.
Count(r) ==
    /\ walk[r] = "counting"
    /\ total' = [total EXCEPT ![r] = Cardinality(Active)]
    /\ Walks(r, "reading")
    /\ UNCHANGED <<table, unit, connected, style, cursor, offset, shown, seen>>

\* The page as the statement finds the table, with the cursor of the next one.
Read(r) ==
    LET limit == Clamp(Limit[r], MaxLimit)
        page == PaginateOffset(Active, offset[r], limit)
    IN IF style[r] = "offset"
       THEN [items |-> page.items, more |-> page.more, next |-> NoCursor]
       ELSE PaginateCursor(Active, Keys, cursor[r], limit, style[r] = "descending")

ReadPage(r) ==
    LET page == Read(r) IN
    /\ walk[r] = "reading"
    /\ shown' = [shown EXCEPT ![r] = @ \o page.items]
    /\ cursor' = [cursor EXCEPT ![r] = page.next]
    /\ offset' = [offset EXCEPT ![r] = @ + Clamp(Limit[r], MaxLimit)]
    /\ Walks(r, IF page.more THEN "between" ELSE "finished")
    /\ GiveBack(r)
    /\ UNCHANGED <<table, unit, style, total, seen>>

ReaderProgress(r) ==
    GoOn(r) \/ TakeConnection(r) \/ PoolTimesOut(r) \/ Count(r) \/ ReadPage(r)

\* What a unit commits, the walks under way have seen or missed.
Note ==
    /\ steady' = [r \in Readers |-> steady[r] \cap Active']
    /\ ever' = [r \in Readers |-> IF walk[r] = "idle" THEN {} ELSE ever[r] \cup Active']
    /\ UNCHANGED walks

ListingNext ==
    \/ \E r \in Readers : Begin(r) \/ ReaderProgress(r)
    \/ \E u \in Units : UnitNext(u) /\ Note

\* Tasks run, blocks end, the database answers and finds its deadlocks.
ListingFairness ==
    /\ \A r \in Readers : WF_listing(ReaderProgress(r))
    /\ \A u \in Units : WF_listing(UnitProgress(u) /\ Note) /\ WF_listing(EndBlock(u) /\ Note)

ListingSpec == ListingInit /\ [][ListingNext]_listing /\ ListingFairness

-----------------------------------------------------------------------------
(* Properties                                                              *)

\* A walk by cursor shows no row twice and none out of order, only rows that
\* were committed and active at some time, and in the end every row that was
\* active all the while, whatever is written meanwhile.  A walk by offset does
\* so, with the right total, if nothing changed.  No walk is refused a cursor
\* it was given.
WalkIsExact ==
    \A r \in Readers :
        /\ walk[r] = "refused" => shown[r] = <<>>
        /\ style[r] # "offset" =>
              /\ InOrder(shown[r], style[r] = "descending")
              /\ ToSet(shown[r]) \subseteq ever[r]
              /\ walk[r] = "finished" => steady[r] \subseteq ToSet(shown[r])
        /\ style[r] = "offset" /\ walk[r] = "finished" /\ ever[r] = steady[r] =>
              shown[r] = Ordered(steady[r], FALSE) /\ total[r] = Cardinality(steady[r])

\* A block that returned has all its writes committed, one that raised only those
\* it committed itself; when the commit of __aexit__ fails, all or only those,
\* and never a part.
OutcomeIsTold ==
    \A u \in Units :
        /\ verdict[u] = "returned" => published[u] = written[u]
        /\ verdict[u] = "raised" => published[u] = saved[u]
        /\ verdict[u] = "commit failed" => published[u] \in {saved[u], written[u]}

AtRest ==
    /\ \A u \in Units : stage[u] \in {"idle", "over"}
    /\ \A r \in Readers : walk[r] \in {"idle", "finished", "refused", "failed"}
    /\ connected = {}

\* Units and walks that wait for each other's rows or connections all end, and
\* leave no connection behind.
NobodyWaitsForever == []<>AtRest
=============================================================================
