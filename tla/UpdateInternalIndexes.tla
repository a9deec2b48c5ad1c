----------------------- MODULE UpdateInternalIndexes -----------------------
(***************************************************************************)
(* updateInternalIndexes (kdescendantsproxymodel.cpp; KSelectionProxyModel *)
(* has the same loop): shifting the mapped rows from "start" on by         *)
(* "offset".  Moving a row in place would overwrite its neighbour, so the  *)
(* code first collects the moved rows in a QHash and then inserts them     *)
(* back one by one, in the order that hash happens to have; meanwhile the  *)
(* rows not yet reached still stand where they were, and an insertion      *)
(* evicts whichever entry it lands on.                                     *)
(***************************************************************************)
EXTENDS KBiHash, ProxyRows

CONSTANTS
    Indexes,    \* the source indexes
    Rows        \* the proxy rows

ASSUME RowsAssumption == Rows \subseteq Int

VARIABLES
    mapping,    \* the container: source indexes left, proxy rows right
    before,     \* the container when the last call started
    start, offset,  \* the arguments of the last call
    updates,    \* new row -> source index, as collected
    waiting,    \* the new rows the second loop has not reached
    phase       \* "idle" or, between the two loops' ends, "inserting"

shiftVars == <<mapping, before, start, offset, updates, waiting, phase>>

IndexHashes == UNION {[S -> Rows] : S \in SUBSET Indexes}
RowHashes == UNION {[S -> Indexes] : S \in SUBSET Rows}

ShiftTypeOK ==
    /\ mapping.l2r \in IndexHashes /\ mapping.r2l \in RowHashes
    /\ start \in Rows /\ offset \in Int
    /\ updates \in RowHashes /\ waiting \subseteq DOMAIN updates
    /\ phase \in {"idle", "inserting"}

\* Any mapping that gives each index at most one row.
ShiftInit ==
    /\ mapping \in {c \in [l2r : IndexHashes, r2l : RowHashes] : Bijective(c)}
    /\ before = mapping
    /\ start \in Rows
    /\ offset = 0
    /\ updates = EmptyHash
    /\ waiting = {}
    /\ phase = "idle"

\* A call and its first loop: from rightLowerBound(start) to rightEnd().
Collect(s, o) ==
    /\ phase = "idle"
    /\ phase' = "inserting"
    /\ start' = s /\ offset' = o /\ before' = mapping
    /\ updates' = [k \in {r + o : r \in KeysFrom(mapping, s)} |-> mapping.r2l[k - o]]
    /\ waiting' = DOMAIN updates'
    /\ UNCHANGED mapping

\* Mutant of InsertOne: the row is moved without evicting what stands there.
InsertOneInPlace(k) ==
    /\ phase = "inserting"
    /\ k \in waiting
    /\ mapping' = [l2r |-> Put(mapping.l2r, updates[k], k),
                   r2l |-> Put(mapping.r2l, k, updates[k])]
    /\ waiting' = waiting \ {k}
    /\ UNCHANGED <<before, start, offset, updates, phase>>

\* Mutant of InsertOne: the index is read again instead of from updates.
InsertOneRereads(k) ==
    /\ phase = "inserting"
    /\ k \in waiting
    /\ mapping' = insert(mapping, rightToLeft(mapping, k - offset), k)
    /\ waiting' = waiting \ {k}
    /\ UNCHANGED <<before, start, offset, updates, phase>>

\* One turn of the second loop.
InsertOne(k) ==
    /\ phase = "inserting"
    /\ k \in waiting
    /\ mapping' = insert(mapping, updates[k], k)
    /\ waiting' = waiting \ {k}
    /\ UNCHANGED <<before, start, offset, updates, phase>>

Finish ==
    /\ phase = "inserting"
    /\ waiting = {}
    /\ phase' = "idle"
    /\ UNCHANGED <<mapping, before, start, offset, updates, waiting>>

\* Calls whose moved rows stay among Rows.
Fits(s, o) == \A r \in KeysFrom(mapping, s) : r + o \in Rows

ShiftNext ==
    \/ \E s, p, q \in Rows : Fits(s, p - q) /\ Collect(s, p - q)
    \/ \E k \in Rows : InsertOne(k)
    \/ Finish

ShiftSpec == ShiftInit /\ [][ShiftNext]_shiftVars

----------------------------------------------------------------------------
\* In every order the loop comes to the same mapping: the shift.  In particular
\* no moved index is lost, however often its row is overwritten on the way.
EndsInShift == phase = "idle" => mapping.r2l = MapShift(before.r2l, start, offset)

\* Even while rows are overwritten the two hashes stay inverse of each other.
StaysBijective == Bijective(mapping)
============================================================================
