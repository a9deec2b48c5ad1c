----------------------------- MODULE SourceTree -----------------------------
(***************************************************************************)
(* The source model of a proxy: a QAbstractItemModel seen through its      *)
(* indexes of column 0.  An index is a node; each node that is in the      *)
(* model has a parent index and a row.  The invalid QModelIndex, which is  *)
(* also the parent of the top-level rows, is Root.                         *)
(*                                                                         *)
(* hasChildren(p) is rowCount(p) > 0: a model that claims children before  *)
(* it has fetched any is outside this specification.                       *)
(*                                                                         *)
(* The operations below are external code: they change the tree the way    *)
(* QAbstractItemModel documents for the signal of the same name.           *)
(***************************************************************************)
EXTENDS Integers, FiniteSets

CONSTANTS
    Nodes,      \* the indexes a source model may ever have
    Root,       \* the invalid index
    Absent,     \* the parent of a node that is not in the model
    MaxForest   \* bound: nodes of a subtree inserted, or of a model reset, at once

ASSUME NodesAssumption ==
    /\ IsFiniteSet(Nodes)
    /\ Root \notin Nodes /\ Absent \notin Nodes /\ Root # Absent
    /\ MaxForest \in Nat

VARIABLES
    srcParent,  \* node -> parent index, or Absent
    srcRow      \* node -> row under its parent

srcVars == <<srcParent, srcRow>>

SourceTypeOK ==
    /\ srcParent \in [Nodes -> Nodes \cup {Root, Absent}]
    /\ srcRow \in [Nodes -> Nat]

Present == {n \in Nodes : srcParent[n] # Absent}

\* QModelIndex::parent() and row(); the invalid index has row -1.
parent(i) == IF i \in Nodes THEN srcParent[i] ELSE Root
IndexRow(i) == IF i \in Nodes THEN srcRow[i] ELSE -1

Children(p) == {n \in Nodes : srcParent[n] = p}
rowCount(p) == Cardinality(Children(p))
hasChildren(p) == Children(p) # {}

\* index(row, 0, p): the invalid index when there is no such row.
index(r, p) ==
    IF \E n \in Children(p) : srcRow[n] = r
    THEN CHOOSE n \in Children(p) : srcRow[n] = r
    ELSE Root

\* An index and its ancestors, without the invalid one: what a
\* "while (index.isValid()) index = index.parent();" loop visits.
SelfAndAbove[i \in Nodes \cup {Root, Absent}] ==
    IF i \in Nodes /\ srcParent[i] # Absent
    THEN {i} \cup SelfAndAbove[srcParent[i]]
    ELSE {}

Above(i) == SelfAndAbove[parent(i)]

\* x comes before y in a depth-first walk of the tree.
Before(x, y) ==
    \/ x \in Above(y)
    \/ \E a \in SelfAndAbove[x], b \in SelfAndAbove[y] :
          srcParent[a] = srcParent[b] /\ srcRow[a] < srcRow[b]

----------------------------------------------------------------------------
(* Whole forests, as inserted in one go or found after a reset.            *)

\* f gives each of its nodes a parent and a row: without cycles, and with the
\* rows of each parent numbered from 0.
IsForest(f) ==
    /\ \A S \in SUBSET DOMAIN f : S # {} => \E n \in S : f[n].parent \notin S
    /\ \A p \in DOMAIN f \cup {Root} :
          LET kids == {n \in DOMAIN f : f[n].parent = p}
          IN  {f[n].row : n \in kids} = 0 .. Cardinality(kids) - 1

Forests ==
    {f \in UNION {[S -> [parent : S \cup {Root}, row : 0 .. Cardinality(S) - 1]] :
                     S \in {T \in SUBSET Nodes : Cardinality(T) <= MaxForest}} :
        IsForest(f)}

Tops(f) == {n \in DOMAIN f : f[n].parent = Root}

----------------------------------------------------------------------------
(* Changes of the tree.                                                    *)

\* The nodes of rows first .. last of p, and everything below them.
InRows(p, first, last) ==
    {n \in Present : \E a \in SelfAndAbove[n] :
                        srcParent[a] = p /\ srcRow[a] \in first .. last}

InsertRows(f, p, start) ==
    LET count == Cardinality(Tops(f))
    IN  /\ srcParent' = [n \in Nodes |->
              IF n \in Tops(f) THEN p
              ELSE IF n \in DOMAIN f THEN f[n].parent
              ELSE srcParent[n]]
        /\ srcRow' = [n \in Nodes |->
              IF n \in Tops(f) THEN start + f[n].row
              ELSE IF n \in DOMAIN f THEN f[n].row
              ELSE IF srcParent[n] = p /\ srcRow[n] >= start THEN srcRow[n] + count
              ELSE srcRow[n]]

RemoveRows(p, first, last) ==
    LET gone == InRows(p, first, last)
    IN  /\ srcParent' = [n \in Nodes |-> IF n \in gone THEN Absent ELSE srcParent[n]]
        /\ srcRow' = [n \in Nodes |->
              IF n \in gone THEN 0
              ELSE IF srcParent[n] = p /\ srcRow[n] > last
                   THEN srcRow[n] - (last - first + 1)
              ELSE srcRow[n]]

\* Rows first .. last of p go before row dest of q; rows as before the move.
CanMove(p, first, last, q, dest) ==
    /\ q \notin InRows(p, first, last)
    /\ p = q => dest \notin first .. last + 1

MoveRows(p, first, last, q, dest) ==
    LET count == last - first + 1
        moves(n) == srcParent[n] = p /\ srcRow[n] \in first .. last
        target == IF p = q /\ dest > last THEN dest - count ELSE dest
        \* the row of a sibling once the moved rows have been taken out
        closed(n) == IF srcParent[n] = p /\ srcRow[n] > last
                     THEN srcRow[n] - count ELSE srcRow[n]
    IN  /\ srcParent' = [n \in Nodes |-> IF moves(n) THEN q ELSE srcParent[n]]
        /\ srcRow' = [n \in Nodes |->
              IF moves(n) THEN target + (srcRow[n] - first)
              ELSE IF srcParent[n] = q /\ closed(n) >= target THEN closed(n) + count
              ELSE closed(n)]

\* The rows of p come in another order.
Reorder(p) ==
    /\ \E order \in [Children(p) -> 0 .. rowCount(p) - 1] :
          /\ \A m, n \in Children(p) : order[m] = order[n] => m = n
          /\ srcRow' = [n \in Nodes |-> IF n \in Children(p) THEN order[n] ELSE srcRow[n]]
    /\ UNCHANGED srcParent

ReplaceAll(f) ==
    /\ srcParent' = [n \in Nodes |-> IF n \in DOMAIN f THEN f[n].parent ELSE Absent]
    /\ srcRow' = [n \in Nodes |-> IF n \in DOMAIN f THEN f[n].row ELSE 0]
============================================================================
