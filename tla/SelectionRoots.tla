-------------------------- MODULE SelectionRoots --------------------------
(***************************************************************************)
(* The free functions of kselectionproxymodel.cpp: which of the selected   *)
(* indexes are roots, in which order new ones are inserted, and where a    *)
(* new root goes among those there are.  A selection range covers whole    *)
(* rows, so a QItemSelection is the set of its indexes in column 0;        *)
(* kNormalizeSelection leaves that set alone and settles the order in      *)
(* which its indexes are visited.                                          *)
(***************************************************************************)
EXTENDS SourceTree, Sequences

Seqs == INSTANCE SequencesExt

NoRow == -1

Least(S) == CHOOSE x \in S : \A y \in S : x <= y
Greatest(S) == CHOOSE x \in S : \A y \in S : y <= x

\* An index of a selection is no descendant of that selection, even when an
\* ancestor of it is selected as well.
isDescendantOf(S, n) == n \notin S /\ Above(n) \cap S # {}

getRootRanges(S) == {n \in S : Above(n) \cap S = {}}

\* rootWillBeRemovedFrom: does root go when the rows in S go?
LiesWithin(S, root) == SelfAndAbove[root] \cap S # {}

\* RangeLessThan: by parent, where an index in an earlier row is less and the
\* internal ids decide between equal rows, then by row.
IsRangeOrder(s) ==
    \A j, k \in DOMAIN s : j < k =>
        /\ IndexRow(parent(s[j])) <= IndexRow(parent(s[k]))
        /\ parent(s[j]) = parent(s[k]) =>
              /\ srcRow[s[j]] < srcRow[s[k]]
              /\ \A i \in j .. k : parent(s[i]) = parent(s[j])

\* What kNormalizeSelection(S).indexes() can be.
NormalizedOrders(S) == {s \in Seqs!SetToSeqs(S) : IsRangeOrder(s)}

----------------------------------------------------------------------------
(* _getRootListRow: list is searched for the row of the new root i.        *)

\* The ancestors of a root, with the invalid index and the root itself.
OnPath(list, k, a) == a \in SelfAndAbove[list[k]] \cup {Root}

\* The closest ancestor of i on the path of some root.
commonParent(list, i) ==
    LET common == {a \in Above(i) \cup {Root} : \E k \in DOMAIN list : OnPath(list, k, a)}
    IN  CHOOSE a \in common : common \subseteq SelfAndAbove[a] \cup {Root}

\* The row, below the ancestor a, of the branch that holds n; NoRow for a itself.
BranchRow(a, n) ==
    IF n = a THEN NoRow
    ELSE srcRow[CHOOSE b \in SelfAndAbove[n] : srcParent[b] = a]

\* Where the search stops.  It starts at the first root that shares the common
\* parent and goes on while the next one does and lies in a branch above i's.
SearchStop(list, i) ==
    LET a == commonParent(list, i)
        first == Least({k \in DOMAIN list : OnPath(list, k, a)})
        goesOn(k) == OnPath(list, k, a) /\ 0 <= BranchRow(a, list[k])
                                        /\ BranchRow(a, list[k]) < BranchRow(a, i)
        stops == {k \in first + 1 .. Len(list) : ~goesOn(k)}
    IN  IF BranchRow(a, list[first]) >= BranchRow(a, i) THEN first
        ELSE IF stops # {} THEN Least(stops)
        ELSE Len(list) + 1

\* Mutant of getRootListRow: new roots go last.
getRootListRowLast(list, i) == Len(list)

getRootListRow(list, i) == IF list = <<>> THEN 0 ELSE SearchStop(list, i) - 1

\* Does the search come to its end?  It goes round for ever at a root that is
\* itself the common parent, unless that is the one it starts from.
SearchReturns(list, i) ==
    list # <<>> =>
        \A k \in DOMAIN list : k = SearchStop(list, i) => list[k] # commonParent(list, i)
============================================================================
