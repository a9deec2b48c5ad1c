----------------------------- MODULE ProxyRows -----------------------------
(***************************************************************************)
(* The proxy-row side of a KHash2Map<QPersistentModelIndex, int>: a        *)
(* function from proxy rows (the QMap keys) to source indexes.  The        *)
(* source-index side is its inverse: KBiAssociativeContainer shows that    *)
(* the two hashes stay inverse of each other, so one of them says it all.  *)
(***************************************************************************)
EXTENDS Integers, FiniteSets

EmptyMapping == [r \in {} |-> r]

MappedIndexes(m) == {m[r] : r \in DOMAIN m}

\* KHash2Map::leftToRight(idx): 0 when idx has no mapping.
MappedRow(m, idx) ==
    IF idx \in MappedIndexes(m) THEN CHOOSE r \in DOMAIN m : m[r] = idx ELSE 0

\* KHash2Map::insert(idx, row): the old row of idx and the old index of row go.
MapInsert(m, idx, row) ==
    [r \in {q \in DOMAIN m : m[q] # idx} \cup {row} |->
        IF r = row THEN idx ELSE m[r]]

\* An eraseRight loop from rightLowerBound(first) to rightUpperBound(last) begins behind
\* its end.
Overruns(m, first, last) == \E q \in DOMAIN m : last < q /\ q < first

\* What the loop leaves: it takes the rows first .. last, or, when it overruns, all
\* from first on (and then the end itself, which is undefined).
MapErase(m, first, last) ==
    [r \in {q \in DOMAIN m : q < first \/ (q > last /\ ~Overruns(m, first, last))} |-> m[r]]

\* KHash2Map::removeLeft(idx), for an idx that is mapped.
MapRemove(m, idx) == [r \in {q \in DOMAIN m : m[q] # idx} |-> m[r]]

\* updateInternalIndexes(start, offset), as UpdateInternalIndexes shows it to
\* come out: the rows from start on move by offset, and a row that a moved one
\* lands on is lost.
MapShift(m, start, offset) ==
    LET moved == {r \in DOMAIN m : r >= start}
        targets == {r + offset : r \in moved}
        kept == {r \in DOMAIN m : r < start} \ targets
    IN  [r \in kept \cup targets |-> IF r \in targets THEN m[r - offset] ELSE m[r]]

\* Each source index has one proxy row.
OneRowEach(m) == \A q, r \in DOMAIN m : m[q] = m[r] => q = r
============================================================================
