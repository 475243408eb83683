------------------------------ MODULE Pagination ------------------------------
(***************************************************************************)
(* The pages of persistence/pagination.py and the cursors of               *)
(* http/pagination.py.  A table is the set of the keys of its rows, and a  *)
(* cursor the dictionary that its base64 text stands for: JSON has neither *)
(* UUIDs nor datetimes, so the key is in it as text.                       *)
(***************************************************************************)
EXTENDS Integers, FiniteSets, Sequences, SequencesExt

CONSTANT Text(_)    \* str() of a key

Least(a, b) == IF a < b THEN a ELSE b

\* Limits below 1 are refused, those above max_limit cut.
LimitAccepted(limit) == limit >= 1
Clamp(limit, maxLimit) == Least(limit, maxLimit)

NoCursor == [sent |-> FALSE]
EncodeCursor(key) == [sent |-> TRUE, json |-> TRUE, k |-> Text(key)]

\* What a client may send instead: no JSON object, one without "k", one whose "k"
\* is no key.
MalformedCursors ==
    {[sent |-> TRUE, json |-> FALSE],
     [sent |-> TRUE, json |-> TRUE],
     [sent |-> TRUE, json |-> TRUE, k |-> "no key"]}

\* _coerce_key, for an integer or a UUID column: the keys a text stands for.
Coerced(raw, keys) == {key \in keys : Text(key) = raw}

CursorAccepted(cursor, keys) ==
    cursor.sent =>
        cursor.json /\ "k" \in DOMAIN cursor /\ Coerced(cursor.k, keys) # {}

-----------------------------------------------------------------------------
(* ORDER BY, WHERE, LIMIT and OFFSET, as the database answers them         *)

InOrder(rows, descending) ==
    \A i, j \in 1 .. Len(rows) :
        i < j => IF descending THEN rows[i] > rows[j] ELSE rows[i] < rows[j]

Ordered(keys, descending) ==
    CHOOSE rows \in [1 .. Cardinality(keys) -> keys] : InOrder(rows, descending)

Window(rows, offset, limit) == SubSeq(rows, offset + 1, Least(offset + limit, Len(rows)))

-----------------------------------------------------------------------------
(* Pages                                                                   *)

\* Mutant: the seek predicate lets the last key of the page before in again.
BeyondOrAt(key, last, descending) == IF descending THEN key <= last ELSE key >= last

Beyond(key, last, descending) == IF descending THEN key < last ELSE key > last

\* One row more than the page holds tells whether there is a next page.
PageOf(rows, limit) ==
    [items |-> Window(rows, 0, limit), more |-> Len(rows) > limit]

\* stored: the keys of the rows the statement selects; keys: those of the column's type.
PaginateCursor(stored, keys, cursor, limit, descending) ==
    LET sought == IF ~cursor.sent
                  THEN stored
                  ELSE {key \in stored :
                          \A last \in Coerced(cursor.k, keys) : Beyond(key, last, descending)}
        page == PageOf(Window(Ordered(sought, descending), 0, limit + 1), limit)
    IN [items |-> page.items,
        more |-> page.more,
        next |-> IF page.more /\ page.items # <<>>
                 THEN EncodeCursor(Last(page.items))
                 ELSE NoCursor]

PaginateOffset(stored, offset, limit) ==
    PageOf(Window(Ordered(stored, FALSE), offset, limit + 1), limit)
=============================================================================
