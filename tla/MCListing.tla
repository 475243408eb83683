------------------------------ MODULE MCListing ------------------------------
(* A small instance of Listing: two units of work that can meet at every key, *)
(* and one walk of any kind, over three keys whose texts sort otherwise.      *)
EXTENDS Listing, TLC

CONSTANTS u1, u2, r1

MCKeys == 9 .. 11
MCText(key) == ToString(key)
MCStored == {9, 11}
MCUnits == {u1, u2}
MCCancellable == {u2}
MCReaders == {r1}
MCStyles == {"ascending", "descending", "offset"}
MCLimit == [r \in MCReaders |-> 1]
Do(op, key) == [op |-> op, key |-> key]
MCRepertoire ==
    [u \in MCUnits |->
        IF u = u1
        THEN {Do("create", 10), Do("delete", 11)}
        ELSE {Do("get", 11), Do("update", 11), Do("delete", 11), Do("create", 10)}]
=============================================================================
