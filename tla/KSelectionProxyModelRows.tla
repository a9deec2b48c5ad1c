---------------------- MODULE KSelectionProxyModelRows ----------------------
(***************************************************************************)
(* The rows KSelectionProxyModel shows, for every source tree, set of      *)
(* operations and order of the signals, in the behaviours that put the     *)
(* selected indexes themselves on the top level (RootsOnTop): what its     *)
(* tables m_rootIndexList, m_mappedFirstChildren and m_mappedParents       *)
(* answer, what a listener has been told of it, and that the two agree     *)
(* after every change of the source and of the selection.                  *)
(*                                                                         *)
(* The argument: the tables are a list of roots and entries for some of    *)
(* the rows shown below them (Showing); what they answer is the rows of    *)
(* those roots (Shown); a change of the source moves, adds or takes away   *)
(* rows of one parent, and the repair of the tables does the same to       *)
(* their answers, step by step of the signals (RowsInv).                   *)
(***************************************************************************)
EXTENDS KSelectionProxyModelProofs

----------------------------------------------------------------------------
(* What a listener has.                                                    *)

\* The tree with the roots s.
Shown(s) == [x \in Nodes \cup {Root} |->
                IF x = Root THEN s
                ELSE IF ~isFlat /\ x \in Below(RangeOf(s)) THEN ChildrenInOrder(x)
                ELSE <<>>]

\* The roots s are in the source.
RootSeq(s) == s \in Seq(Nodes) /\ Injective(s) /\ RangeOf(s) \subseteq Present

LEMMA TopMaps ==
    ASSUME RootsOnTop, TreeOK, NEW t, NEW s, Showing(t, s), s \in Seq(Nodes)
    PROVE  /\ \A r : mapToSource(t, <<r, Root>>) = IF r + 1 \in DOMAIN s THEN s[r + 1] ELSE Root
           /\ topLevelRowCount(t) = Len(s) /\ t.roots = s
<1>1. PICK e : Hold(t, s, e) /\ Root \notin DOMAIN e
  <2>1. CASE isFlat
    BY <2>1, EmptyShift DEF Showing
  <2>2. CASE ~isFlat
    <3>1. PICK e : Hold(t, s, e) /\ Fits(e, s, srcRow) /\ RootList(s)
      BY <2>2 DEF Showing
    <3>2. Root \notin DOMAIN e
      BY <3>1, BelowIs DEF Fits
    <3> QED
      BY <3>1, <3>2
  <2> QED
    BY <2>1, <2>2
<1>0. t.parents = e /\ t.roots = s
  BY <1>1 DEF Hold
<1>2. \A r : mapToSource(t, <<r, Root>>) = IF r + 1 \in DOMAIN s THEN s[r + 1] ELSE Root
  <2> SUFFICES ASSUME NEW r
               PROVE  mapToSource(t, <<r, Root>>) = IF r + 1 \in DOMAIN s THEN s[r + 1] ELSE Root
    OBVIOUS
  <2>1. mapTopLevelToSource(t, r) = IF r + 1 \in DOMAIN s THEN s[r + 1] ELSE Root
    BY <1>0 DEF mapTopLevelToSource, RootsOnTop
  <2>2. s = <<>> => DOMAIN s = {}
    OBVIOUS
  <2>3. mapToSource(t, <<r, Root>>) = IF t.roots = <<>> THEN Root ELSE mapTopLevelToSource(t, r)
    BY <1>0 DEF mapToSource
  <2> QED
    BY <1>0, <2>1, <2>2, <2>3
<1>3. topLevelRowCount(t) = Len(s)
  BY <1>0 DEF topLevelRowCount, RootsOnTop
<1> QED
  BY <1>0, <1>2, <1>3

LEMMA ReadsShown ==
    ASSUME TreeOK, NEW t, NEW s, Showing(t, s), RootSeq(s), NEW x \in Nodes, x \in Below(RangeOf(s))
    PROVE  ReadChildren(t, ListedIndex(s, x)) = IF isFlat THEN <<>> ELSE ChildrenInOrder(x)
<1>1. ListedIndex(s, x) = EntryAt(s, srcRow, x)
  BY ListedIs DEF RootSeq
<1>2. CASE isFlat
  BY <1>2 DEF ReadChildren
<1>3. CASE ~isFlat
  <2>1. PICK e : Hold(t, s, e) /\ Fits(e, s, srcRow) /\ AllMapped(e, s) /\ RootList(s)
    BY <1>3 DEF Showing
  <2>2. ReadChildren(t, EntryAt(s, srcRow, x)) = ChildrenInOrder(x)
    BY <1>3, <2>1, ReadsChildren
  <2> QED
    BY <1>1, <1>3, <2>2
<1> QED
  BY <1>2, <1>3

\* Read anew, the tree is what the tables say.
LEMMA TreeRead ==
    ASSUME RootsOnTop, TreeOK, NEW t, NEW s, Showing(t, s), RootSeq(s)
    PROVE  ReadTree(t) = Shown(s)
<1> DEFINE top == [k \in 1 .. topLevelRowCount(t) |-> mapToSource(t, <<k - 1, Root>>)]
<1>1. s \in Seq(Nodes) /\ RangeOf(s) \subseteq Present /\ Root \notin Nodes
  BY NodesAssumption DEF RootSeq
<1>2. top = s
  <2>1. top = [k \in 1 .. Len(s) |-> mapToSource(t, <<k - 1, Root>>)]
    BY <1>1, TopMaps
  <2>2. \A k \in 1 .. Len(s) : mapToSource(t, <<k - 1, Root>>) = s[k]
    <3> SUFFICES ASSUME NEW k \in 1 .. Len(s), NEW r, r = k - 1 PROVE mapToSource(t, <<r, Root>>) = s[k]
      OBVIOUS
    <3>1. r + 1 = k /\ k \in DOMAIN s
      BY <1>1
    <3> QED
      BY <1>1, <3>1, TopMaps
  <2>3. [k \in 1 .. Len(s) |-> mapToSource(t, <<k - 1, Root>>)] = [k \in 1 .. Len(s) |-> s[k]]
    BY <2>2
  <2>4. s = [k \in 1 .. Len(s) |-> s[k]]
    BY <1>1
  <2> HIDE DEF top
  <2> QED
    BY <2>1, <2>3, <2>4
<1>3. ReadTree(t) = [x \in Nodes \cup {Root} |->
                        IF x = Root THEN s
                        ELSE IF Listed(s, x) THEN ReadChildren(t, ListedIndex(s, x)) ELSE <<>>]
  <2>1. ReadTree(t) = [x \in Nodes \cup {Root} |->
                        IF x = Root THEN top
                        ELSE IF Listed(top, x) THEN ReadChildren(t, ListedIndex(top, x)) ELSE <<>>]
    BY DEF ReadTree
  <2> QED
    BY <1>2, <2>1
<1>4. \A x \in Nodes : /\ Listed(s, x) <=> x \in Below(RangeOf(s))
                       /\ Listed(s, x) => ReadChildren(t, ListedIndex(s, x)) = IF isFlat THEN <<>> ELSE ChildrenInOrder(x)
  BY <1>1, ListedIs, ReadsShown
<1>5. \A x \in Nodes \cup {Root} :
          (IF x = Root THEN s
           ELSE IF Listed(s, x) THEN ReadChildren(t, ListedIndex(s, x)) ELSE <<>>)
        = (IF x = Root THEN s
           ELSE IF ~isFlat /\ x \in Below(RangeOf(s)) THEN ChildrenInOrder(x) ELSE <<>>)
  BY <1>4
<1> QED
  BY <1>3, <1>5 DEF Shown

LEMMA ShownIs ==
    ASSUME NEW s
    PROVE  /\ DOMAIN Shown(s) = Nodes \cup {Root} /\ Shown(s)[Root] = s
           /\ \A x \in Nodes : Shown(s)[x] = IF ~isFlat /\ x \in Below(RangeOf(s)) THEN ChildrenInOrder(x) ELSE <<>>
BY NodesAssumption DEF Shown

\* A listener's tree has rows for each node, and for the top level.
IsTreeView(f) == f = [x \in Nodes \cup {Root} |-> f[x]]

\* What it has in them when the roots are s.
HasTree(f, s) ==
    /\ f[Root] = s
    /\ \A x \in Nodes : f[x] = IF ~isFlat /\ x \in Below(RangeOf(s)) THEN ChildrenInOrder(x) ELSE <<>>

LEMMA TreeIsShown ==
    ASSUME NEW s, NEW f, IsTreeView(f), HasTree(f, s)
    PROVE  f = Shown(s)
<1>1. \A x \in Nodes \cup {Root} : f[x] = (IF x = Root THEN s
                ELSE IF ~isFlat /\ x \in Below(RangeOf(s)) THEN ChildrenInOrder(x)
                ELSE <<>>)
  <2> SUFFICES ASSUME NEW x \in Nodes \cup {Root}
               PROVE  f[x] = (IF x = Root THEN s
                ELSE IF ~isFlat /\ x \in Below(RangeOf(s)) THEN ChildrenInOrder(x)
                ELSE <<>>)
    OBVIOUS
  <2>1. CASE x = Root
    BY <2>1 DEF HasTree
  <2>2. CASE x # Root
    <3>1. x \in Nodes
      BY <2>2
    <3> QED
      BY <2>2, <3>1 DEF HasTree
  <2> QED
    BY <2>1, <2>2
<1> QED
  BY <1>1 DEF IsTreeView, Shown

LEMMA SequencesInsertAt ==
    \A s, at, n : Seqs!InsertAt(s, at, n) = SubSeq(s, 1, at - 1) \o <<n>> \o SubSeq(s, at, Len(s))
BY DEF Seqs!InsertAt

\* One announcement is open: a.
LEMMA OneOpen ==
    ASSUME NEW a, announced = <<a>>
    PROVE  Len(announced) = 1 /\ Latest = a /\ (\A kind : Closes(kind) <=> a.kind = kind) /\ OnlyOpen
BY DEF Latest, Closes, OnlyOpen

\* A new root is read with all that is below it.
LEMMA RootSeen ==
    ASSUME RootsOnTop, TreeOK, NEW s, view = Shown(s), RootSeq(s), NEW at \in 0 .. Len(s),
           announced = <<[kind |-> "insert", parent |-> Root, first |-> at, last |-> at]>>,
           NEW n \in Present, n \notin RangeOf(s), NEW w, w = Seqs!InsertAt(s, at + 1, n), RootSeq(w),
           NEW t, Showing(t, w), EndInsertRows(t)
    PROVE  view' = Shown(w)
<1> DEFINE a == [kind |-> "insert", parent |-> Root, first |-> at, last |-> at]
           new == [k \in 1 .. a.last - a.first + 1 |-> mapToSource(t, <<a.first + k - 1, a.parent>>)]
           rows == RowsUpTo(view[Root], at) \o new \o RowsFrom(view[Root], at)
<1>0. /\ s \in Seq(Nodes) /\ Injective(s) /\ RangeOf(s) \subseteq Present /\ n \in Nodes /\ Len(s) \in Nat
      /\ w \in Seq(Nodes) /\ RangeOf(w) \subseteq Present /\ Root \notin Nodes
  BY NodesAssumption DEF RootSeq, Present
<1>1. Latest = a /\ Closes("insert") /\ OnlyOpen
  BY OneOpen
<1>2. a.parent = Root /\ a.first = at /\ a.last = at /\ at - at + 1 = 1
  BY <1>0
<1>3. new = <<n>>
  <2>1. \A k \in 1 .. 1 : mapToSource(t, <<at + k - 1, Root>>) = n
    <3>1. at + 1 - 1 = at
      BY <1>0
    <3>2. RangeOf(w) = RangeOf(s) \cup {n} /\ w[at + 1] = n /\ Len(w) = Len(s) + 1
      BY <1>0, PlaceAfterInsert
    <3>3. at + 1 \in DOMAIN w
      BY <1>0, <3>2
    <3>4. mapToSource(t, <<at, Root>>) = n
      BY <1>0, <3>2, <3>3, TopMaps
    <3> QED
      BY <3>1, <3>4
  <2>2. new = [k \in 1 .. 1 |-> mapToSource(t, <<at + k - 1, Root>>)]
    BY <1>2
  <2>3. [k \in 1 .. 1 |-> mapToSource(t, <<at + k - 1, Root>>)] = [k \in 1 .. 1 |-> n]
    BY <2>1
  <2> QED
    BY <2>2, <2>3
<1>4. view[Root] = s
  BY ShownIs
<1>5. rows = w
  <2>1. RowsUpTo(s, at) = SubSeq(s, 1, at)
    <3>1. at < Len(s) \/ at = Len(s)
      BY <1>0
    <3> QED
      BY <3>1 DEF RowsUpTo
  <2>2. RowsFrom(s, at) = SubSeq(s, at + 1, Len(s))
    BY DEF RowsFrom
  <2>3. at + 1 - 1 = at
    BY <1>0
  <2>4. Seqs!InsertAt(s, at + 1, n) = SubSeq(s, 1, at) \o <<n>> \o SubSeq(s, at + 1, Len(s))
    <3>1. PICK k : k = at + 1
      OBVIOUS
    <3>2. Seqs!InsertAt(s, k, n) = SubSeq(s, 1, k - 1) \o <<n>> \o SubSeq(s, k, Len(s))
      BY SequencesInsertAt
    <3>3. k - 1 = at
      BY <1>0, <3>1
    <3> QED
      BY <3>1, <3>2, <3>3
  <2> QED
    BY <1>3, <1>4, <2>1, <2>2, <2>3, <2>4
<1>6. view' = [x \in Nodes \cup {Root} |->
                  IF x = Root THEN rows
                  ELSE IF x # Root /\ Listed(new, x) THEN ReadChildren(t, ListedIndex(rows, x))
                  ELSE view[x]]
  BY <1>1, <1>2 DEF EndInsertRows
<1>7. view' = [x \in Nodes \cup {Root} |->
                  IF x = Root THEN w
                  ELSE IF x # Root /\ Listed(<<n>>, x) THEN ReadChildren(t, ListedIndex(w, x))
                  ELSE view[x]]
  BY <1>3, <1>5, <1>6
<1>8. RangeOf(<<n>>) = {n} /\ RangeOf(w) = RangeOf(s) \cup {n}
  <2>1. RangeOf(<<n>>) = {n}
    BY DEF RangeOf
  <2> QED
    BY <1>0, <2>1, PlaceAfterInsert
<1>9. \A x \in Nodes : view'[x] = IF ~isFlat /\ x \in Below(RangeOf(w)) THEN ChildrenInOrder(x) ELSE <<>>
  <2> SUFFICES ASSUME NEW x \in Nodes
               PROVE  view'[x] = IF ~isFlat /\ x \in Below(RangeOf(w)) THEN ChildrenInOrder(x) ELSE <<>>
    OBVIOUS
  <2>1. x # Root
    BY <1>0
  <2>2. view'[x] = IF Listed(<<n>>, x) THEN ReadChildren(t, ListedIndex(w, x)) ELSE view[x]
    BY <1>7, <2>1
  <2>3. Listed(<<n>>, x) <=> x \in Below({n})
    <3>1. RangeOf(<<n>>) \subseteq Present
      BY <1>8
    <3> QED
      BY <1>8, <3>1, ListedIs
  <2>4. x \in Below(RangeOf(w)) <=> x \in Below(RangeOf(s)) \/ x \in Below({n})
    BY <1>8 DEF Below, LiesWithin
  <2>5. view[x] = IF ~isFlat /\ x \in Below(RangeOf(s)) THEN ChildrenInOrder(x) ELSE <<>>
    BY ShownIs
  <2>6. x \in Below(RangeOf(w)) => ReadChildren(t, ListedIndex(w, x)) = IF isFlat THEN <<>> ELSE ChildrenInOrder(x)
    BY ReadsShown
  <2> QED
    BY <2>2, <2>3, <2>4, <2>5, <2>6
<1>10. IsTreeView(view') /\ view'[Root] = w
  BY <1>7 DEF IsTreeView
<1>11. HasTree(view', w)
  BY <1>9, <1>10 DEF HasTree
<1> QED
  BY <1>10, <1>11, TreeIsShown

\* Rows of a list, from row a to row b.
LEMMA RowsOfList ==
    ASSUME NEW s \in Seq(Nodes), NEW a \in Int, NEW b \in Int, 0 <= a, a <= b, b < Len(s)
    PROVE  /\ RowsUpTo(s, a) = SubSeq(s, 1, a) /\ RowsFrom(s, b + 1) = SubSeq(s, b + 2, Len(s))
           /\ \A n : AmongRows(RowsFrom(RowsUpTo(s, b + 1), a), n) <=> \E k \in a + 1 .. b + 1 : s[k] = n
<1>0. Len(s) \in Nat
  OBVIOUS
<1>1. RowsUpTo(s, a) = SubSeq(s, 1, a)
  <2>1. a < Len(s)
    BY <1>0
  <2> QED
    BY <2>1 DEF RowsUpTo
<1>2. RowsFrom(s, b + 1) = SubSeq(s, b + 2, Len(s))
  <2>1. b + 1 + 1 = b + 2
    OBVIOUS
  <2> QED
    BY <2>1 DEF RowsFrom
<1> DEFINE u == SubSeq(s, 1, b + 1)
           g == SubSeq(u, a + 1, Len(u))
<1>3. RowsUpTo(s, b + 1) = u
  <2>1. b + 1 < Len(s) \/ b + 1 = Len(s)
    BY <1>0
  <2>2. CASE b + 1 < Len(s)
    BY <2>2 DEF RowsUpTo
  <2>3. CASE b + 1 = Len(s)
    BY <2>3 DEF RowsUpTo
  <2> QED
    BY <2>1, <2>2, <2>3
<1>4. u \in Seq(Nodes) /\ Len(u) = b + 1 /\ \A k \in 1 .. b + 1 : u[k] = s[k]
  <2>1. \A k \in 1 .. b + 1 : s[k] \in Nodes
    BY <1>0
  <2>2. /\ u \in Seq(Nodes) /\ Len(u) = IF 1 <= b + 1 THEN (b + 1) - 1 + 1 ELSE 0
        /\ \A k \in 1 .. (b + 1) - 1 + 1 : u[k] = s[1 + k - 1]
    BY <1>0, <2>1, SubSeqProperties
  <2> QED
    BY <1>0, <2>2
<1> HIDE DEF u
<1>5. g \in Seq(Nodes) /\ Len(g) = b + 1 - a /\ \A k \in 1 .. b + 1 - a : g[k] = s[a + k]
  <2>0. Len(u) \in Int /\ a + 1 \in Int
    BY <1>4
  <2>1. \A k \in a + 1 .. Len(u) : u[k] \in Nodes
    BY <1>4
  <2>2. /\ g \in Seq(Nodes) /\ Len(g) = IF a + 1 <= Len(u) THEN Len(u) - (a + 1) + 1 ELSE 0
        /\ \A k \in 1 .. Len(u) - (a + 1) + 1 : g[k] = u[a + 1 + k - 1]
    BY <2>0, <2>1, SubSeqProperties
  <2>3. Len(g) = b + 1 - a
    BY <1>4, <2>2
  <2>4. \A k \in 1 .. b + 1 - a : g[k] = s[a + k]
    <3> SUFFICES ASSUME NEW k \in 1 .. b + 1 - a PROVE g[k] = s[a + k]
      OBVIOUS
    <3>1. k \in 1 .. Len(u) - (a + 1) + 1 /\ a + 1 + k - 1 = a + k /\ a + k \in 1 .. b + 1
      BY <1>4
    <3>2. g[k] = u[a + k]
      BY <2>2, <3>1
    <3> QED
      BY <1>4, <3>1, <3>2
  <2> QED
    BY <2>2, <2>3, <2>4
<1>6. RowsFrom(u, a) = g
  BY DEF RowsFrom
<1> HIDE DEF g
<1>7. \A n : AmongRows(g, n) <=> \E k \in a + 1 .. b + 1 : s[k] = n
  <2> SUFFICES ASSUME NEW n PROVE AmongRows(g, n) <=> \E k \in a + 1 .. b + 1 : s[k] = n
    OBVIOUS
  <2>1. DOMAIN g = 1 .. b + 1 - a
    BY <1>5
  <2>2. ASSUME AmongRows(g, n) PROVE \E k \in a + 1 .. b + 1 : s[k] = n
    <3>1. PICK j \in 1 .. b + 1 - a : g[j] = n
      BY <2>1, <2>2 DEF AmongRows
    <3>2. a + j \in a + 1 .. b + 1 /\ s[a + j] = n
      BY <1>5, <3>1
    <3> QED
      BY <3>2
  <2>3. ASSUME NEW k \in a + 1 .. b + 1, s[k] = n PROVE AmongRows(g, n)
    <3>1. k - a \in 1 .. b + 1 - a /\ a + (k - a) = k
      OBVIOUS
    <3>2. g[k - a] = n
      BY <1>5, <2>3, <3>1
    <3> QED
      BY <2>1, <3>1, <3>2 DEF AmongRows
  <2> QED
    BY <2>2, <2>3
<1> QED
  BY <1>1, <1>2, <1>3, <1>6, <1>7

\* Roots that leave take all that is below them along.
LEMMA RootsSeenLeaving ==
    ASSUME RootsOnTop, TreeOK, NEW s, view = Shown(s), RootSeq(s), isFlat \/ RootList(s),
           NEW c, NEW lo, NEW hi, IsCut(c, s, lo, hi),
           announced = <<[kind |-> "remove", parent |-> Root, first |-> lo - 1, last |-> hi - 1]>>,
           EndRemoveRows
    PROVE  view' = Shown(c)
<1> DEFINE a == [kind |-> "remove", parent |-> Root, first |-> lo - 1, last |-> hi - 1]
           gone == RowsFrom(RowsUpTo(view[Root], a.last + 1), a.first)
<1>0. /\ s \in Seq(Nodes) /\ RangeOf(s) \subseteq Present /\ Root \notin Nodes /\ Len(s) \in Nat
      /\ lo \in Int /\ hi \in Int /\ 1 <= lo /\ lo <= hi /\ hi <= Len(s)
      /\ c = SubSeq(s, 1, lo - 1) \o SubSeq(s, hi + 1, Len(s))
  BY NodesAssumption DEF RootSeq, IsCut
<1>1. Latest = a /\ Closes("remove") /\ OnlyOpen
  BY OneOpen
<1>2. a.parent = Root /\ a.first = lo - 1 /\ a.last = hi - 1
  OBVIOUS
<1>3. view[Root] = s
  BY ShownIs
<1>4. PICK x1, x2 : x1 = lo - 1 /\ x2 = hi - 1
  OBVIOUS
<1>5. /\ RowsUpTo(s, x1) = SubSeq(s, 1, x1) /\ RowsFrom(s, x2 + 1) = SubSeq(s, x2 + 2, Len(s))
      /\ \A n : AmongRows(RowsFrom(RowsUpTo(s, x2 + 1), x1), n) <=> \E k \in x1 + 1 .. x2 + 1 : s[k] = n
  <2>1. x1 \in Int /\ x2 \in Int /\ 0 <= x1 /\ x1 <= x2 /\ x2 < Len(s)
    BY <1>0, <1>4
  <2> QED
    BY <1>0, <2>1, RowsOfList
<1>6. RowsUpTo(view[Root], a.first) \o RowsFrom(view[Root], a.last + 1) = c
  <2>1. x2 + 2 = hi + 1
    BY <1>0, <1>4
  <2> QED
    BY <1>0, <1>2, <1>3, <1>4, <1>5, <2>1
<1>7. \A n : AmongRows(gone, n) <=> \E k \in lo .. hi : s[k] = n
  <2>1. x1 + 1 = lo /\ x2 + 1 = hi
    BY <1>0, <1>4
  <2> QED
    BY <1>2, <1>3, <1>4, <1>5, <2>1
<1> HIDE DEF gone
<1>8. \A n : AmongRows(gone, n) <=> n \in RangeOf(s) \ RangeOf(c)
  <2>1. \A m \in RangeOf(s) : m \in RangeOf(c) <=> ~(Place(s, m) >= lo /\ Place(s, m) <= hi)
    BY PlaceAfterCut
  <2>2. \A k \in lo .. hi : s[k] \in RangeOf(s) /\ Place(s, s[k]) = k
    <3>1. \A k \in lo .. hi : k \in DOMAIN s
      BY <1>0
    <3>2. \A k \in DOMAIN s : Place(s, s[k]) = k
      BY <1>0, PlaceIs DEF RootSeq
    <3> QED
      BY <3>1, <3>2 DEF RangeOf
  <2>3. \A m \in RangeOf(s) : Place(s, m) \in 1 .. Len(s) /\ s[Place(s, m)] = m
    BY <1>0, PlaceIs DEF RootSeq
  <2> SUFFICES ASSUME NEW n PROVE AmongRows(gone, n) <=> n \in RangeOf(s) \ RangeOf(c)
    OBVIOUS
  <2>4. ASSUME NEW k \in lo .. hi, s[k] = n PROVE n \in RangeOf(s) \ RangeOf(c)
    <3>1. Place(s, n) = k /\ n \in RangeOf(s)
      BY <2>2, <2>4
    <3>2. Place(s, n) >= lo /\ Place(s, n) <= hi
      BY <1>0, <3>1
    <3> QED
      BY <2>1, <3>1, <3>2
  <2>5. ASSUME n \in RangeOf(s) \ RangeOf(c) PROVE \E k \in lo .. hi : s[k] = n
    <3>1. Place(s, n) \in lo .. hi
      BY <1>0, <2>1, <2>3, <2>5
    <3> QED
      BY <2>3, <2>5, <3>1
  <2> QED
    BY <1>7, <2>4, <2>5
<1>9. view' = [x \in Nodes \cup {Root} |->
                  IF x = Root THEN c
                  ELSE IF x # Root /\ (x \notin Present \/ Listed(gone, x)) THEN <<>>
                  ELSE view[x]]
  <2>1. view' = [x \in Nodes \cup {Root} |->
                  IF x = a.parent THEN RowsUpTo(view[a.parent], a.first) \o RowsFrom(view[a.parent], a.last + 1)
                  ELSE IF x # Root /\ (x \notin Present \/ Listed(gone, x)) THEN <<>>
                  ELSE view[x]]
    BY <1>1, <1>2 DEF EndRemoveRows, gone
  <2> QED
    BY <1>2, <1>6, <2>1
<1>10. \A x \in Nodes : view'[x] = IF ~isFlat /\ x \in Below(RangeOf(c)) THEN ChildrenInOrder(x) ELSE <<>>
  <2> SUFFICES ASSUME NEW x \in Nodes
               PROVE  view'[x] = IF ~isFlat /\ x \in Below(RangeOf(c)) THEN ChildrenInOrder(x) ELSE <<>>
    OBVIOUS
  <2>1. x # Root
    BY <1>0
  <2>2. view'[x] = IF x \notin Present \/ Listed(gone, x) THEN <<>> ELSE view[x]
    BY <1>9, <2>1
  <2>3. view[x] = IF ~isFlat /\ x \in Below(RangeOf(s)) THEN ChildrenInOrder(x) ELSE <<>>
    BY ShownIs
  <2>4. CASE isFlat
    BY <2>2, <2>3, <2>4
  <2>5. CASE ~isFlat
    <3>1. RootList(s)
      BY <2>5
    <3>2. /\ \A n \in Below(RangeOf(s)) : n \in Below(RangeOf(c)) <=>
                 SelfAndAbove[n] \cap (RangeOf(s) \ RangeOf(c)) = {}
          /\ Below(RangeOf(c)) \subseteq Below(RangeOf(s))
      <4>1. Cuts(c, s, lo, hi)
        BY <3>1 DEF Cuts
      <4> QED
        BY <4>1, CutRoots
    <3>3. Listed(gone, x) <=> SelfAndAbove[x] \cap (RangeOf(s) \ RangeOf(c)) # {}
      BY <1>8 DEF Listed
    <3>4. Below(RangeOf(s)) \subseteq Present
      BY DEF Below
    <3> QED
      BY <2>2, <2>3, <2>5, <3>2, <3>3, <3>4
  <2> QED
    BY <2>4, <2>5
<1>11. IsTreeView(view') /\ view'[Root] = c
  BY <1>9 DEF IsTreeView
<1>12. HasTree(view', c)
  BY <1>10, <1>11 DEF HasTree
<1> QED
  BY <1>11, <1>12, TreeIsShown

\* What a listener has while rows first .. last of p have come and it is not yet told.
ViewBefore(s, p, first, last) ==
    /\ IsTreeView(view) /\ view[Root] = s
    /\ RowsUpTo(view[p], first) \o [k \in 1 .. last - first + 1 |-> index(first + k - 1, p)]
           \o RowsFrom(view[p], first) = ChildrenInOrder(p)
    /\ \A x \in Nodes \ (InRows(p, first, last) \cup {p}) : view[x] = Shown(s)[x]

\* Rows that come are read with all that is below them.
LEMMA RowsSeen ==
    ASSUME RootsOnTop, TreeOK, ~isFlat, NEW s, RootList(s), NEW p, NEW first \in Nat, NEW last \in Nat,
           ViewBefore(s, p, first, last), p \in Below(RangeOf(s)), first <= last, last < rowCount(p),
           announced = <<[kind |-> "insert", parent |-> p, first |-> first, last |-> last]>>,
           NEW t, Showing(t, s), EndInsertRows(t)
    PROVE  view' = Shown(s)
<1> DEFINE a == [kind |-> "insert", parent |-> p, first |-> first, last |-> last]
           new == [k \in 1 .. a.last - a.first + 1 |-> mapToSource(t, <<a.first + k - 1, a.parent>>)]
           rows == RowsUpTo(view[a.parent], a.first) \o new \o RowsFrom(view[a.parent], a.first)
           New == InRows(p, first, last)
<1>0. /\ s \in Seq(Nodes) /\ RangeOf(s) \subseteq Present /\ Root \notin Nodes /\ p \in Present /\ p \in Nodes /\ p # Root
      /\ RootSeq(s)
  BY NodesAssumption DEF RootList, RootSeq, Below, Present
<1>1. Latest = a /\ Closes("insert") /\ OnlyOpen
  BY OneOpen
<1>2. a.parent = p /\ a.first = first /\ a.last = last
  OBVIOUS
<1>3. new = [k \in 1 .. last - first + 1 |-> index(first + k - 1, p)]
  <2>1. PICK e : Hold(t, s, e) /\ Fits(e, s, srcRow) /\ AllMapped(e, s)
    BY DEF Showing
  <2>2. p \in DOMAIN e
    <3>1. hasChildren(p)
      BY RowCountType DEF hasChildren
    <3> QED
      BY <2>1, <3>1 DEF AllMapped
  <2>3. RowsApart(srcRow, DOMAIN e)
    <3>1. DOMAIN e \subseteq Present
      BY <2>1 DEF Fits, Below
    <3> QED
      BY <3>1, RowsNow DEF RowsApart
  <2>4. \A r : mapToSource(t, <<r, p>>) = index(r, p)
    BY <2>1, <2>2, <2>3, MapsTo
  <2>5. new = [k \in 1 .. last - first + 1 |-> mapToSource(t, <<first + k - 1, p>>)]
    BY <1>2
  <2>6. \A k \in 1 .. last - first + 1 : mapToSource(t, <<first + k - 1, p>>) = index(first + k - 1, p)
    <3> SUFFICES ASSUME NEW k \in 1 .. last - first + 1, NEW r, r = first + k - 1
                 PROVE  mapToSource(t, <<r, p>>) = index(r, p)
      OBVIOUS
    <3> QED
      BY <2>4
  <2> QED
    BY <2>5, <2>6
<1>4. rows = ChildrenInOrder(p)
  BY <1>2, <1>3 DEF ViewBefore
<1>5. RangeOf(new) = {n \in Children(p) : srcRow[n] \in first .. last}
  <2>1. DOMAIN new = 1 .. last - first + 1 /\ \A k \in 1 .. last - first + 1 : new[k] = index(first + k - 1, p)
    BY <1>3
  <2> HIDE DEF new
  <2>2. rowCount(p) \in Nat
    BY RowCountType
  <2>3. ASSUME NEW k \in 1 .. last - first + 1
        PROVE  new[k] \in Children(p) /\ srcRow[new[k]] \in first .. last
    <3>1. PICK r : r = first + k - 1
      OBVIOUS
    <3>2. r \in 0 .. rowCount(p) - 1 /\ r \in first .. last
      BY <2>2, <3>1
    <3>3. index(r, p) \in Children(p) /\ srcRow[index(r, p)] = r
      BY <1>0, <3>2, IndexExists DEF TreeOK
    <3> QED
      BY <2>1, <3>1, <3>2, <3>3
  <2>4. ASSUME NEW n \in Children(p), srcRow[n] \in first .. last
        PROVE  n \in RangeOf(new)
    <3>1. PICK r : r = srcRow[n]
      OBVIOUS
    <3>2. r - first + 1 \in 1 .. last - first + 1 /\ first + (r - first + 1) - 1 = r
      BY <2>4, <3>1
    <3>3. new[r - first + 1] = index(r, p)
      BY <2>1, <3>2
    <3>4. index(r, p) = n
      BY <1>0, <3>1, Kids
    <3> QED
      BY <2>1, <3>2, <3>3, <3>4 DEF RangeOf
  <2> QED
    BY <2>1, <2>3, <2>4 DEF RangeOf
<1>6. \A x \in Nodes : Listed(new, x) <=> x \in New
  <2> SUFFICES ASSUME NEW x \in Nodes PROVE Listed(new, x) <=> x \in New
    OBVIOUS
  <2>1. RangeOf(new) \subseteq Present
    BY <1>0, <1>5, Kids
  <2> HIDE DEF new
  <2>2. Listed(new, x) <=> x \in Below(RangeOf(new))
    BY <2>1, ListedIs
  <2>3. x \in Present => SelfAndAbove[x] \subseteq Present
    BY AboveFacts DEF TreeOK
  <2>4. Present \subseteq Nodes
    BY DEF Present
  <2> QED
    BY <1>5, <2>2, <2>3, <2>4 DEF Below, LiesWithin, InRows, Children
<1>7. view' = [x \in Nodes \cup {Root} |->
                  IF x = p THEN ChildrenInOrder(p)
                  ELSE IF x # Root /\ Listed(new, x) THEN ReadChildren(t, ListedIndex(s, x))
                  ELSE view[x]]
  <2>1. view' = [x \in Nodes \cup {Root} |->
                  IF x = a.parent THEN rows
                  ELSE IF x # Root /\ Listed(new, x)
                       THEN ReadChildren(t, ListedIndex(IF a.parent = Root THEN rows ELSE view[Root], x))
                  ELSE view[x]]
    BY <1>1 DEF EndInsertRows
  <2>2. (IF a.parent = Root THEN rows ELSE view[Root]) = s
    BY <1>0, <1>2 DEF ViewBefore
  <2> HIDE DEF new, rows
  <2> QED
    BY <1>2, <1>4, <2>1, <2>2
<1> HIDE DEF new
<1>8. New \subseteq Below(RangeOf(s)) /\ p \notin New
  <2>1. \A n \in New : p \in Above(n)
    <3> SUFFICES ASSUME NEW n \in New PROVE p \in Above(n)
      OBVIOUS
    <3>1. PICK b \in SelfAndAbove[n] : srcParent[b] = p
      BY DEF InRows
    <3>2. n \in Present
      BY DEF InRows
    <3>3. Ancestors(srcParent)[n] = SelfAndAbove[n] /\ Present = In(srcParent) /\ IsTree(srcParent)
      BY SelfAndAboveIsAncestors, PresentIs DEF TreeOK
    <3>4. b \in In(srcParent) /\ Ancestors(srcParent)[b] = {b} \cup Ancestors(srcParent)[p]
      BY <3>1, <3>2, <3>3, AncestorsClosed, AncestorsOfOne
    <3>5. p \in Ancestors(srcParent)[p]
      BY <1>0, <3>3, AncestorsOfOne
    <3>6. Ancestors(srcParent)[srcParent[b]] \subseteq Ancestors(srcParent)[srcParent[n]]
      BY <3>1, <3>2, <3>3, AboveAncestor
    <3> QED
      BY <3>1, <3>2, <3>3, <3>5, <3>6, AboveFacts
  <2>2. \A n \in New : n \in Present
    BY DEF InRows
  <2>3. \A n \in New : n \in Below(RangeOf(s))
    BY <2>1, <2>2, AboveShown
  <2>4. p \notin Above(p)
    BY <1>0, AboveFacts DEF TreeOK
  <2> QED
    BY <2>1, <2>3, <2>4
<1>9. \A x \in Nodes : view'[x] = IF ~isFlat /\ x \in Below(RangeOf(s)) THEN ChildrenInOrder(x) ELSE <<>>
  <2> SUFFICES ASSUME NEW x \in Nodes
               PROVE  view'[x] = IF x \in Below(RangeOf(s)) THEN ChildrenInOrder(x) ELSE <<>>
    OBVIOUS
  <2>1. x # Root
    BY <1>0
  <2>2. view'[x] = IF x = p THEN ChildrenInOrder(p)
                   ELSE IF x \in New THEN ReadChildren(t, ListedIndex(s, x)) ELSE view[x]
    BY <1>6, <1>7, <2>1
  <2>3. x \notin New /\ x # p => view[x] = IF x \in Below(RangeOf(s)) THEN ChildrenInOrder(x) ELSE <<>>
    BY ShownIs DEF ViewBefore
  <2>4. x \in New => ReadChildren(t, ListedIndex(s, x)) = ChildrenInOrder(x)
    BY <1>0, <1>8, ReadsShown
  <2> QED
    BY <1>8, <2>2, <2>3, <2>4
<1>10. IsTreeView(view') /\ view'[Root] = s
  BY <1>0, <1>7 DEF IsTreeView, ViewBefore
<1>11. HasTree(view', s)
  BY <1>9, <1>10 DEF HasTree
<1> QED
  BY <1>10, <1>11, TreeIsShown

\* What a listener has while rows first .. last of p have gone and it is not yet told.
ViewAfter(s, p, first, last) ==
    /\ IsTreeView(view) /\ view[Root] = s
    /\ RowsUpTo(view[p], first) \o RowsFrom(view[p], last + 1) = ChildrenInOrder(p)
    /\ \A n \in Present : ~AmongRows(RowsFrom(RowsUpTo(view[p], last + 1), first), n)
    /\ \A x \in Present \ {p} : view[x] = Shown(s)[x]

\* Rows that go are forgotten with all that was below them.
LEMMA RowsForgotten ==
    ASSUME TreeOK, ~isFlat, NEW s, RootList(s), NEW p, NEW first, NEW last,
           ViewAfter(s, p, first, last), p \in Below(RangeOf(s)),
           announced = <<[kind |-> "remove", parent |-> p, first |-> first, last |-> last]>>,
           EndRemoveRows
    PROVE  view' = Shown(s)
<1> DEFINE a == [kind |-> "remove", parent |-> p, first |-> first, last |-> last]
           gone == RowsFrom(RowsUpTo(view[p], last + 1), first)
<1>0. RangeOf(s) \subseteq Present /\ Root \notin Nodes /\ p \in Present /\ p \in Nodes /\ p # Root
  BY NodesAssumption DEF RootList, Below, Present
<1>1. Latest = a /\ Closes("remove") /\ OnlyOpen
  BY OneOpen
<1>2. view' = [x \in Nodes \cup {Root} |->
                  IF x = p THEN RowsUpTo(view[p], first) \o RowsFrom(view[p], last + 1)
                  ELSE IF x # Root /\ (x \notin Present \/ Listed(gone, x)) THEN <<>>
                  ELSE view[x]]
  BY <1>1 DEF EndRemoveRows
<1>3. \A x \in Present : ~Listed(gone, x)
  <2>1. \A x \in Present : SelfAndAbove[x] \subseteq Present
    BY AboveFacts DEF TreeOK
  <2> QED
    BY <2>1 DEF ViewAfter, Listed
<1> HIDE DEF gone
<1>4. \A x \in Nodes : view'[x] = IF ~isFlat /\ x \in Below(RangeOf(s)) THEN ChildrenInOrder(x) ELSE <<>>
  <2> SUFFICES ASSUME NEW x \in Nodes
               PROVE  view'[x] = IF x \in Below(RangeOf(s)) THEN ChildrenInOrder(x) ELSE <<>>
    OBVIOUS
  <2>1. x # Root
    BY <1>0
  <2>2. view'[x] = IF x = p THEN ChildrenInOrder(p)
                   ELSE IF x \notin Present \/ Listed(gone, x) THEN <<>> ELSE view[x]
    BY <1>2, <2>1 DEF ViewAfter
  <2>3. x \in Present /\ x # p => view[x] = IF x \in Below(RangeOf(s)) THEN ChildrenInOrder(x) ELSE <<>>
    BY ShownIs DEF ViewAfter
  <2>4. x \in Below(RangeOf(s)) => x \in Present
    BY DEF Below
  <2> QED
    BY <1>3, <2>2, <2>3, <2>4
<1>5. IsTreeView(view') /\ view'[Root] = s
  BY <1>0, <1>2 DEF IsTreeView, ViewAfter
<1>6. HasTree(view', s)
  BY <1>4, <1>5 DEF HasTree
<1> QED
  BY <1>5, <1>6, TreeIsShown

\* The rows as the tables have them while rows first .. last of p have come.
RowsBeforeInsert(p, first, last) ==
    [n \in Nodes |-> IF srcParent[n] = p /\ srcRow[n] > last THEN srcRow[n] - (last - first + 1) ELSE srcRow[n]]

\* The entries know nothing of the new rows.
EntriesBefore(e, s, p, first, last) ==
    /\ Fits(e, s, RowsBeforeInsert(p, first, last))
    /\ DOMAIN e \cap InRows(p, first, last) = {}
    /\ \A n \in Below(RangeOf(s)) \ (InRows(p, first, last) \cup {p}) : hasChildren(n) => n \in DOMAIN e
    /\ rowCount(p) # last - first + 1 => p \in DOMAIN e
TablesBefore(s, p, first, last) == \E e : Hold(Tables, s, e) /\ EntriesBefore(e, s, p, first, last)

\* Rows first .. last of p are in the source, and p is shown.
RowsOf(s, p, first, last) ==
    /\ RootList(s) /\ p \in Below(RangeOf(s))
    /\ first \in Nat /\ last \in Nat /\ first <= last /\ last < rowCount(p)

LEMMA NewRows ==
    ASSUME TreeOK, NEW s, NEW p, NEW first, NEW last, RowsOf(s, p, first, last)
    PROVE  /\ p \in Present /\ p \in Nodes /\ hasChildren(p) /\ rowCount(p) \in Nat
           /\ p \notin InRows(p, first, last)
           /\ \A n \in RangeOf(s) : n \notin InRows(p, first, last)
           /\ parent(p) \notin InRows(p, first, last) /\ parent(p) # p
           /\ InRows(p, first, last) \subseteq Below(RangeOf(s))
           /\ \A n \in Children(p) : n \in InRows(p, first, last) <=> srcRow[n] \in first .. last
<1>1. p \in Present /\ p \in Nodes /\ rowCount(p) \in Nat /\ hasChildren(p)
  BY RowCountType DEF RowsOf, Below, Present, hasChildren
<1>2. \A n \in InRows(p, first, last) : n \in Present /\ p \in Above(n)
  <2> SUFFICES ASSUME NEW n \in InRows(p, first, last) PROVE n \in Present /\ p \in Above(n)
    OBVIOUS
  <2>1. PICK b \in SelfAndAbove[n] : srcParent[b] = p
    BY DEF InRows
  <2>2. n \in Present
    BY DEF InRows
  <2>3. Ancestors(srcParent)[n] = SelfAndAbove[n] /\ Present = In(srcParent) /\ IsTree(srcParent)
    BY SelfAndAboveIsAncestors, PresentIs DEF TreeOK
  <2>4. p \in Ancestors(srcParent)[p]
    BY <1>1, <2>3, AncestorsOfOne
  <2>5. Ancestors(srcParent)[srcParent[b]] \subseteq Ancestors(srcParent)[srcParent[n]]
    BY <2>1, <2>2, <2>3, AboveAncestor
  <2> QED
    BY <2>1, <2>2, <2>3, <2>4, <2>5, AboveFacts
<1>3. \A n \in InRows(p, first, last) : n \in Below(RangeOf(s)) \ RangeOf(s)
  BY <1>2, AboveShown DEF RowsOf
<1>4. p \notin Above(p)
  BY <1>1, AboveFacts DEF TreeOK
<1>5. parent(p) \notin InRows(p, first, last) /\ parent(p) # p
  <2>1. CASE parent(p) = Root
    BY <1>1, <2>1, NodesAssumption DEF InRows, Present
  <2>2. CASE parent(p) # Root
    <3>1. parent(p) \in Above(p) /\ parent(p) \in Present
      BY <1>1, <2>2, AboveShown DEF RowsOf
    <3>2. Above(parent(p)) \subseteq Above(p)
      BY <1>1, <3>1, AboveFacts DEF TreeOK
    <3> QED
      BY <1>2, <1>4, <3>1, <3>2
  <2> QED
    BY <2>1, <2>2
<1>6. \A n \in Children(p) : n \in InRows(p, first, last) <=> srcRow[n] \in first .. last
  <2> SUFFICES ASSUME NEW n \in Children(p)
               PROVE  n \in InRows(p, first, last) <=> srcRow[n] \in first .. last
    OBVIOUS
  <2>1. n \in Present /\ srcParent[n] = p
    BY <1>1, Kids DEF Children
  <2>2. n \in InRows(p, first, last) <=> ((srcParent[n] = p /\ srcRow[n] \in first .. last) \/ srcParent[n] \in InRows(p, first, last))
    BY <2>1, ChildrenInRows DEF TreeOK
  <2> QED
    BY <1>2, <1>4, <2>1, <2>2
<1> QED
  BY <1>1, <1>2, <1>3, <1>4, <1>5, <1>6

\* The entry of p is made, if it has none; entries below it move.
LEMMA ParentReady ==
    ASSUME RootsOnTop, TreeOK, ~isFlat, NEW s, NEW p, NEW first, NEW last, RowsOf(s, p, first, last),
           NEW e, Hold(Tables, s, e), EntriesBefore(e, s, p, first, last),
           NEW t, t = (IF rowCount(p) = last - first + 1
                       THEN createParentMappings(Tables, parent(p), IndexRow(p), IndexRow(p))
                       ELSE updateInternalIndexes(Tables, mapFromSource(Tables, p), first, last - first + 1))
    PROVE  \E f : Hold(t, s, f) /\ Fits(f, s, srcRow) /\ RootsMapped(f, s) /\ p \in DOMAIN f
<1> DEFINE New == InRows(p, first, last)
           known == RowsBeforeInsert(p, first, last)
<1>0. /\ RootList(s) /\ p \in Below(RangeOf(s)) /\ first \in Nat /\ last \in Nat /\ first <= last /\ last < rowCount(p)
      /\ Fits(e, s, known) /\ DOMAIN e \subseteq Present
  BY DEF RowsOf, EntriesBefore, Fits, Below
<1>1. \A n \in DOMAIN e : /\ n \in Nodes /\ n \notin New /\ srcRow[n] \in Nat /\ parent(n) = srcParent[n]
                          /\ srcParent[n] = p => n \in Children(p) /\ ~(srcRow[n] \in first .. last)
  BY <1>0, NewRows DEF EntriesBefore, Present, Children, parent, TreeOK, SourceTypeOK
<1>2. CASE rowCount(p) = last - first + 1
  <2>1. Fits(e, s, srcRow)
    <3>1. \A n \in DOMAIN e : known[n] = srcRow[n]
      <4> SUFFICES ASSUME NEW n \in DOMAIN e PROVE known[n] = srcRow[n]
        OBVIOUS
      <4>1. srcParent[n] # p
        <5> SUFFICES ASSUME srcParent[n] = p PROVE FALSE
          OBVIOUS
        <5>1. n \in Children(p)
          BY <1>1
        <5>2. srcRow[n] \in 0 .. rowCount(p) - 1
          BY <1>0, <5>1, Kids, NewRows
        <5>3. srcRow[n] \in first .. last
          BY <1>0, <1>2, <5>2
        <5> QED
          BY <1>1, <5>3
      <4> QED
        BY <1>1, <4>1 DEF RowsBeforeInsert
    <3> HIDE DEF known
    <3> QED
      BY <1>0, <3>1, FitsAlike
  <2>2. p \in Present /\ p \in Nodes /\ parent(p) \in Present \cup {Root} /\ IndexRow(p) = srcRow[p] /\ parent(p) = srcParent[p]
    BY <1>0, NewRows, BelowIs DEF IndexRow
  <2>3. \A n \in Lacking(e, parent(p), IndexRow(p), IndexRow(p)) : n = p
    <3> SUFFICES ASSUME NEW n \in Children(parent(p)), srcRow[n] \in srcRow[p] .. srcRow[p] PROVE n = p
      BY <2>2 DEF Lacking
    <3>1. n \in Present /\ srcParent[n] = srcParent[p] /\ n \in Nodes
      BY <2>2, Kids DEF Children
    <3>2. srcRow[n] = srcRow[p]
      BY <2>2, <3>1 DEF TreeOK, SourceTypeOK
    <3> QED
      BY <2>2, <3>1, <3>2, RowsNow DEF RowsApart, parent
  <2>4. Reached(e, s, parent(p), IndexRow(p), IndexRow(p))
    <3>1. p \in RangeOf(s) \/ parent(p) \in DOMAIN e
      <4> SUFFICES ASSUME p \notin RangeOf(s) PROVE parent(p) \in DOMAIN e
        OBVIOUS
      <4>1. parent(p) \in Below(RangeOf(s))
        BY <1>0, BelowIs
      <4>2. hasChildren(parent(p))
        BY <2>2 DEF hasChildren, Children
      <4>3. parent(p) \notin New /\ parent(p) # p
        BY NewRows
      <4> QED
        BY <4>1, <4>2, <4>3 DEF EntriesBefore
    <3> QED
      BY <2>3, <3>1 DEF Reached
  <2>5. t = createParentMappings(Tables, parent(p), IndexRow(p), IndexRow(p))
    BY <1>2
  <2>6. Enlarged(t, s, e, Lacking(e, parent(p), IndexRow(p), IndexRow(p)))
    <3> HIDE DEF known, New
    <3> QED
      BY <1>0, <2>1, <2>2, <2>4, <2>5, CreatesFit
  <2>7. PICK f : Hold(t, s, f) /\ Fits(f, s, srcRow) /\ DOMAIN f = DOMAIN e \cup Lacking(e, parent(p), IndexRow(p), IndexRow(p))
    BY <2>6 DEF Enlarged
  <2>8. p \in DOMAIN f
    <3>1. p \in Children(parent(p)) /\ srcRow[p] \in srcRow[p] .. srcRow[p]
      BY <2>2 DEF Children, TreeOK, SourceTypeOK
    <3> QED
      BY <2>2, <2>7, <3>1, NewRows DEF Lacking
  <2>9. RootsMapped(f, s)
    <3> SUFFICES ASSUME NEW n \in RangeOf(s), hasChildren(n), n # p PROVE n \in DOMAIN e
      BY <2>7, <2>8 DEF RootsMapped
    <3>1. n \notin New /\ n \in Below(RangeOf(s))
      BY <1>0, NewRows, BelowIs
    <3> QED
      BY <3>1 DEF EntriesBefore
  <2> QED
    BY <2>7, <2>8, <2>9
<1>3. CASE rowCount(p) # last - first + 1
  <2>1. p \in DOMAIN e /\ p \in Nodes
    BY <1>3, NewRows DEF EntriesBefore
  <2>2. mapFromSource(Tables, p) = e[p]
    BY <2>1, MapsFrom
  <2> DEFINE f == Shifted(s, e, e[p], first, last - first + 1)
  <2>3. Hold(t, s, f)
    <3>1. t = updateInternalIndexes(Tables, e[p], first, last - first + 1)
      BY <1>3, <2>2
    <3> HIDE DEF f
    <3> QED
      BY <3>1, ShiftedIs DEF f
  <2>4. RowsApart(srcRow, DOMAIN e)
    BY <1>0, RowsNow DEF RowsApart
  <2>5. \A n \in DOMAIN e : /\ known[n] \in Nat
                            /\ srcParent[n] # p => known[n] = srcRow[n]
                            /\ srcParent[n] = p => \/ srcRow[n] < first /\ known[n] = srcRow[n]
                                                   \/ srcRow[n] > last /\ known[n] = srcRow[n] - (last - first + 1) /\ known[n] >= first
    <3> SUFFICES ASSUME NEW n \in DOMAIN e
                 PROVE  /\ known[n] \in Nat
                        /\ srcParent[n] # p => known[n] = srcRow[n]
                        /\ srcParent[n] = p => \/ srcRow[n] < first /\ known[n] = srcRow[n]
                                               \/ srcRow[n] > last /\ known[n] = srcRow[n] - (last - first + 1) /\ known[n] >= first
      OBVIOUS
    <3>1. known[n] = IF srcParent[n] = p /\ srcRow[n] > last THEN srcRow[n] - (last - first + 1) ELSE srcRow[n]
      BY <1>1 DEF RowsBeforeInsert
    <3> HIDE DEF known
    <3> QED
      BY <1>0, <1>1, <3>1
  <2> HIDE DEF known, New
  <2>6. RowsApart(known, DOMAIN e)
    <3> SUFFICES ASSUME NEW m \in DOMAIN e, NEW n \in DOMAIN e, parent(m) = parent(n), known[m] = known[n]
                 PROVE  m = n
      BY <2>5 DEF RowsApart
    <3>1. srcParent[m] = srcParent[n]
      BY <1>1
    <3>2. srcRow[m] = srcRow[n]
      BY <1>0, <1>1, <2>5, <3>1
    <3> QED
      BY <2>4, <3>2 DEF RowsApart
  <2>7. Shifts(e, s, known, srcRow, p, first, last - first + 1)
    <3>1. \A n \in DOMAIN e \ RangeOf(s) :
             srcRow[n] = IF parent(n) = p /\ known[n] >= first THEN known[n] + (last - first + 1) ELSE known[n]
      BY <1>0, <1>1, <2>5
    <3> QED
      BY <1>0, <2>1, <2>4, <2>6, <3>1 DEF Shifts
  <2>8. Fits(f, s, srcRow) /\ DOMAIN f = DOMAIN e
    BY <1>0, <2>7, LowerShift
  <2>9. RootsMapped(e, s)
    <3> SUFFICES ASSUME NEW n \in RangeOf(s), hasChildren(n), n # p PROVE n \in DOMAIN e
      BY <2>1 DEF RootsMapped
    <3>1. n \notin InRows(p, first, last) /\ n \in Below(RangeOf(s))
      BY <1>0, NewRows, BelowIs
    <3> QED
      BY <3>1 DEF EntriesBefore
  <2>10. RootsMapped(f, s)
    BY <2>8, <2>9 DEF RootsMapped
  <2> HIDE DEF f
  <2> QED
    BY <2>1, <2>3, <2>8, <2>10
<1> QED
  BY <1>2, <1>3

\* endInsertRows leaves tables that fit.
LEMMA InsertFits ==
    ASSUME RootsOnTop, TreeOK, ~isFlat, NEW s, NEW p, NEW first, NEW last, RowsOf(s, p, first, last),
           TablesBefore(s, p, first, last)
    PROVE  Fitting(endInsertRows(p, first, last), s)
<1>1. PICK e : Hold(Tables, s, e) /\ EntriesBefore(e, s, p, first, last)
  BY DEF TablesBefore
<1>2. PICK t : t = (IF rowCount(p) = last - first + 1
                    THEN createParentMappings(Tables, parent(p), IndexRow(p), IndexRow(p))
                    ELSE updateInternalIndexes(Tables, mapFromSource(Tables, p), first, last - first + 1))
  OBVIOUS
<1>3. endInsertRows(p, first, last) = createParentMappings(t, p, first, last)
  BY <1>2 DEF endInsertRows, RootsOnTop
<1>4. PICK f : Hold(t, s, f) /\ Fits(f, s, srcRow) /\ RootsMapped(f, s) /\ p \in DOMAIN f
  BY <1>1, <1>2, ParentReady
<1>5. Reached(f, s, p, first, last)
  <2>1. \A n \in Children(p) : parent(n) = p
    BY DEF Children, parent
  <2> QED
    BY <1>4, <2>1 DEF Reached, Lacking
<1>6. RootList(s) /\ p \in Present \cup {Root}
  BY NewRows DEF RowsOf
<1>7. Enlarged(createParentMappings(t, p, first, last), s, f, Lacking(f, p, first, last))
  BY <1>4, <1>5, <1>6, CreatesFit
<1>8. PICK g : Hold(endInsertRows(p, first, last), s, g) /\ Fits(g, s, srcRow) /\ DOMAIN g = DOMAIN f \cup Lacking(f, p, first, last)
  BY <1>3, <1>7 DEF Enlarged
<1>9. RootsMapped(g, s)
  BY <1>4, <1>8 DEF RootsMapped
<1> QED
  BY <1>6, <1>8, <1>9 DEF Fitting

\* The rows as the tables have them while rows first .. last of p have gone.
RowsBeforeRemoval(p, first, last) ==
    [n \in Nodes |-> IF srcParent[n] = p /\ srcRow[n] >= first THEN srcRow[n] + (last - first + 1) ELSE srcRow[n]]
Valid(e) == [n \in DOMAIN e \cap Present |-> e[n]]
TablesAfter(s, p, first, last) ==
    \E e : /\ Hold(Tables, s, e) /\ p \in DOMAIN Valid(e)
           /\ Fits(Valid(e), s, RowsBeforeRemoval(p, first, last)) /\ AllMapped(Valid(e), s)

\* endRemoveRows leaves tables that fit.
LEMMA RemovalFits ==
    ASSUME RootsOnTop, TreeOK, ~isFlat, NEW s, RootList(s), NEW p \in Nodes, NEW first \in Nat, NEW last \in Nat, first <= last,
           TablesAfter(s, p, first, last), ~m_recreateFirstChildMappingOnRemoval
    PROVE  Showing(recreated(endRemoveRows(p, <<first, last>>)), s)
<1>1. PICK e : /\ Hold(Tables, s, e) /\ p \in DOMAIN Valid(e)
               /\ Fits(Valid(e), s, RowsBeforeRemoval(p, first, last)) /\ AllMapped(Valid(e), s)
  BY DEF TablesAfter
<1> DEFINE known == RowsBeforeRemoval(p, first, last)
           valid == [Tables EXCEPT !.parents = [n \in DOMAIN @ \cap Present |-> @[n]]]
           moved == updateInternalIndexes(valid, e[p], last + 1, -(last - first + 1))
<1>2. PICK v : v = Valid(e)
  OBVIOUS
<1>3. Tables.parents = e /\ m_mappedParents = e
  BY <1>1 DEF Hold, Tables
<1>4. Hold(valid, s, v)
  <2>1. valid = [Tables EXCEPT !.parents = v]
    BY <1>2, <1>3 DEF Valid
  <2> HIDE DEF valid
  <2> QED
    BY <1>1, <2>1, HoldSet
<1>5. v[p] = e[p] /\ p \in DOMAIN e /\ p \in DOMAIN v /\ DOMAIN v \subseteq Present
  BY <1>1, <1>2 DEF Valid
<1>6. \A n \in DOMAIN v : /\ known[n] = IF srcParent[n] = p /\ srcRow[n] >= first THEN srcRow[n] + (last - first + 1) ELSE srcRow[n]
                          /\ srcRow[n] \in Nat /\ parent(n) = srcParent[n]
  BY <1>5 DEF RowsBeforeRemoval, Present, parent, TreeOK, SourceTypeOK
<1> HIDE DEF known
<1>7. RowsApart(srcRow, DOMAIN v)
  BY <1>5, RowsNow DEF RowsApart
<1>8. RowsApart(known, DOMAIN v)
  <2>1. \A n \in DOMAIN v : known[n] \in Nat
    BY <1>6
  <2> SUFFICES ASSUME NEW m \in DOMAIN v, NEW n \in DOMAIN v, parent(m) = parent(n), known[m] = known[n]
               PROVE  m = n
    BY <2>1 DEF RowsApart
  <2>2. srcRow[m] = srcRow[n]
    BY <1>6
  <2> QED
    BY <1>7, <2>2 DEF RowsApart
<1>9. Shifts(v, s, known, srcRow, p, last + 1, -(last - first + 1))
  <2>1. \A n \in DOMAIN v \ RangeOf(s) :
           srcRow[n] = IF parent(n) = p /\ known[n] >= last + 1 THEN known[n] + -(last - first + 1) ELSE known[n]
    BY <1>6
  <2>2. Fits(v, s, known)
    BY <1>1, <1>2 DEF known
  <2> QED
    BY <1>5, <1>7, <1>8, <2>1, <2>2 DEF Shifts
<1>10. PICK f : f = Shifted(s, v, v[p], last + 1, -(last - first + 1))
  OBVIOUS
<1>11. Fits(f, s, srcRow) /\ DOMAIN f = DOMAIN v
  BY <1>9, <1>10, LowerShift
<1>12. Hold(moved, s, f)
  <2> HIDE DEF valid
  <2> QED
    BY <1>4, <1>5, <1>10, ShiftedIs
<1>13. e[p] # NoIndex
  <2>1. RowsApart(known, {p}) /\ {p} \subseteq Below(RangeOf(s))
    <3>1. DOMAIN v \subseteq Below(RangeOf(s))
      BY <1>1, <1>2 DEF Fits
    <3> QED
      BY <1>5, <1>8, <3>1 DEF RowsApart
  <2>2. EntryAt(s, known, p) # NoIndex
    BY <2>1, EntriesApart
  <2>3. v[p] = EntryAt(s, known, p)
    BY <1>1, <1>2, <1>5 DEF Fits, known
  <2> QED
    BY <1>5, <2>2, <2>3
<1>14. endRemoveRows(p, <<first, last>>) = [moved EXCEPT !.roots = ValidRoots(@)]
  <2>1. Mapped(Tables, p)
    BY <1>3, <1>5 DEF Mapped
  <2>2. m_mappedParents[p] = e[p]
    BY <1>3
  <2> HIDE DEF valid
  <2> QED
    BY <1>13, <2>1, <2>2 DEF endRemoveRows, valid
<1>15. ValidRoots(s) = s
  BY ValidRootsAre DEF RootList
<1> HIDE DEF moved
<1>16. Hold(endRemoveRows(p, <<first, last>>), s, f)
  <2>1. moved.roots = s
    BY <1>12 DEF Hold
  <2>2. [moved EXCEPT !.roots = ValidRoots(@)] = [moved EXCEPT !.roots = s]
    BY <1>15, <2>1
  <2> QED
    BY <1>12, <1>14, <2>2, HoldSet
<1>17. recreated(endRemoveRows(p, <<first, last>>)) = endRemoveRows(p, <<first, last>>)
  BY DEF recreated
<1>18. AllMapped(f, s)
  BY <1>1, <1>2, <1>11 DEF AllMapped
<1> QED
  BY <1>11, <1>16, <1>17, <1>18 DEF Showing

----------------------------------------------------------------------------
(* Rows that come, and what the tables and a listener have of them.        *)

\* The tree f becomes rows first .. last of p.
Grown(f, p, first, last) ==
    /\ f \in Forests /\ DOMAIN f \subseteq Nodes \ Present /\ p \in Present \cup {Root}
    /\ first \in 0 .. rowCount(p) /\ last = first + Cardinality(Tops(f)) - 1
    /\ InsertRows(f, p, first)

LEMMA NextIndex ==
    ASSUME TreeOK', NEW p \in Nodes \cup {Root}
    PROVE  /\ \A n \in Children(p)' : index(srcRow[n], p)' = n
           /\ \A r \in 0 .. rowCount(p)' - 1 : index(r, p)' \in Children(p)' /\ srcRow'[index(r, p)'] = r
           /\ rowCount(p)' \in Nat
<1>1. Children(p)' = {n \in Nodes : srcParent'[n] = p} /\ rowCount(p)' = Cardinality({n \in Nodes : srcParent'[n] = p})
  BY DEF Children, rowCount
<1>2. \A m, n \in Children(p)' : srcRow'[m] = srcRow'[n] => m = n
  BY <1>1 DEF TreeOK, Numbered
<1>3. \A r \in 0 .. rowCount(p)' - 1 : \E n \in Children(p)' : srcRow'[n] = r
  BY <1>1, EveryRowTaken DEF TreeOK
<1>4. \A r : (\E n \in Children(p)' : srcRow'[n] = r) =>
             index(r, p)' \in Children(p)' /\ srcRow'[index(r, p)'] = r
  BY DEF index
<1>5. rowCount(p)' \in Nat
  BY <1>1, CountType
<1>6. \A n \in Children(p)' : index(srcRow[n], p)' = n
  <2> SUFFICES ASSUME NEW n \in Children(p)' PROVE  index(srcRow[n], p)' = n
    OBVIOUS
  <2>1. PICK r : r = srcRow'[n]
    OBVIOUS
  <2>2. index(r, p)' \in Children(p)' /\ srcRow'[index(r, p)'] = r
    BY <1>4, <2>1
  <2>3. index(srcRow[n], p)' = index(r, p)'
    BY <2>1 DEF index, Children
  <2> QED
    BY <1>2, <2>1, <2>2, <2>3
<1>7. \A r \in 0 .. rowCount(p)' - 1 : index(r, p)' \in Children(p)' /\ srcRow'[index(r, p)'] = r
  BY <1>3, <1>4
<1> QED
  BY <1>5, <1>6, <1>7

LEMMA GrownTree ==
    ASSUME TreeOK, TreeOK', NEW f, NEW p, NEW first, NEW last, Grown(f, p, first, last)
    PROVE  /\ Present' = Present \cup DOMAIN f /\ Present \cap DOMAIN f = {}
           /\ \A n \in Present : /\ SelfAndAbove'[n] = SelfAndAbove[n] /\ Above(n)' = Above(n)
                                 /\ parent(n)' = parent(n) /\ srcParent'[n] = srcParent[n]
                                 /\ srcRow'[n] = IF srcParent[n] = p /\ srcRow[n] >= first
                                                 THEN srcRow[n] + (last - first + 1) ELSE srcRow[n]
           /\ \A n \in DOMAIN f : /\ \A a \in SelfAndAbove'[n] : a \in DOMAIN f \/ a \in SelfAndAbove[p]
                                  /\ SelfAndAbove[p] \subseteq SelfAndAbove'[n]
                                  /\ \E a \in SelfAndAbove'[n] : a \in Tops(f)
           /\ \A n \in Tops(f) : srcParent'[n] = p /\ srcRow'[n] \in first .. last
           /\ \A x \in Present : x # p => Children(x)' = Children(x)
           /\ Children(p) \subseteq Children(p)'
           /\ rowCount(p)' = rowCount(p) + (last - first + 1)
           /\ last - first + 1 \in Nat /\ first \in Nat /\ Tops(f) \subseteq DOMAIN f
<1> DEFINE count == Cardinality(Tops(f))
<1>0. /\ f \in Forests /\ DOMAIN f \subseteq Nodes \ Present /\ p \in Present \cup {Root} /\ InsertRows(f, p, first)
      /\ first \in 0 .. rowCount(p) /\ last = first + count - 1
  BY DEF Grown
<1>1. /\ IsTree(srcParent) /\ IsTree(srcParent') /\ Present = In(srcParent) /\ Present' = In(srcParent')
      /\ \A i \in Present \cup {Root} : Ancestors(srcParent')[i] = Ancestors(srcParent)[i]
  BY <1>0, InsertRowsKeepsTree, PresentIs DEF TreeOK
<1>2. SelfAndAbove' = Ancestors(srcParent') /\ SelfAndAbove = Ancestors(srcParent)
  <2>1. SelfAndAbove' = Ancestors(srcParent')
    BY DEF SelfAndAbove, Ancestors, Climb, Indexes
  <2> QED
    BY <2>1, SelfAndAboveIsAncestors
<1>3. /\ count \in Nat /\ rowCount(p) \in Nat /\ Tops(f) \subseteq DOMAIN f /\ DOMAIN f \in SUBSET Nodes
      /\ \A n \in DOMAIN f : f[n].parent \in DOMAIN f \cup {Root} /\ f[n].row \in Nat
      /\ \A n \in Tops(f) : f[n].row \in 0 .. count - 1
  <2>1. \A n \in Tops(f) : f[n].row \in 0 .. count - 1
    BY <1>0, ForestNumbers DEF Tops
  <2> QED
    BY <1>0, <2>1, CountType, ForestFacts, RowCountType
<1>4. last - first + 1 = count /\ first \in Nat
  BY <1>0, <1>3
<1>5. \A n \in Present : /\ srcParent'[n] = srcParent[n] /\ srcParent[n] \in Present \cup {Root}
                         /\ srcRow'[n] = IF srcParent[n] = p /\ srcRow[n] >= first THEN srcRow[n] + count ELSE srcRow[n]
  <2>1. \A n \in Present : n \in Nodes /\ n \notin DOMAIN f /\ n \notin Tops(f)
    BY <1>0, <1>3 DEF Present
  <2> QED
    BY <1>0, <1>1, <2>1 DEF InsertRows, IsTree
<1>6. \A n \in DOMAIN f : /\ n \in Nodes
                          /\ n \in Tops(f) => srcParent'[n] = p /\ srcRow'[n] = first + f[n].row
                          /\ n \notin Tops(f) => srcParent'[n] \in DOMAIN f /\ srcParent'[n] = f[n].parent
  <2>1. \A n \in DOMAIN f : n \in Nodes /\ (n \in Tops(f) <=> f[n].parent = Root)
    BY <1>3 DEF Tops
  <2>2. \A n \in DOMAIN f : n \in Tops(f) => srcParent'[n] = p /\ srcRow'[n] = first + f[n].row
    BY <1>0, <2>1 DEF InsertRows
  <2>3. \A n \in DOMAIN f : n \notin Tops(f) => srcParent'[n] = f[n].parent
    BY <1>0, <2>1 DEF InsertRows
  <2> QED
    BY <1>3, <2>1, <2>2, <2>3
<1>7. \A n \in Nodes \ (Present \cup DOMAIN f) : srcParent'[n] = srcParent[n] /\ srcParent[n] = Absent
  <2>1. \A n \in Nodes \ (Present \cup DOMAIN f) : n \notin Tops(f) /\ srcParent[n] = Absent
    BY <1>3 DEF Present
  <2> QED
    BY <1>0, <2>1 DEF InsertRows
<1> HIDE DEF count
<1>8. Present' = Present \cup DOMAIN f
  <2>1. \A n \in Present : n \in Nodes /\ n \in Present'
    BY <1>0, <1>1, <1>5, NodesAssumption DEF Present, In
  <2>2. \A n \in DOMAIN f : srcParent'[n] # Absent
    <3>1. p # Absent
      BY <1>0, NodesAssumption DEF Present
    <3>2. \A n \in DOMAIN f : n # Absent
      BY <1>3, NodesAssumption
    <3> QED
      BY <1>6, <3>1, <3>2
  <2> QED
    BY <1>6, <1>7, <2>1, <2>2 DEF Present
<1>9. \A n \in Present : /\ SelfAndAbove'[n] = SelfAndAbove[n] /\ parent(n)' = parent(n) /\ Above(n)' = Above(n)
  <2> SUFFICES ASSUME NEW n \in Present
               PROVE  SelfAndAbove'[n] = SelfAndAbove[n] /\ parent(n)' = parent(n) /\ Above(n)' = Above(n)
    OBVIOUS
  <2>1. parent(n) = srcParent[n] /\ parent(n)' = srcParent'[n]
    BY DEF parent, Present
  <2> QED
    BY <1>1, <1>2, <1>5, <2>1 DEF Above
<1>10. \A n \in DOMAIN f : /\ n \in In(srcParent') /\ Ancestors(srcParent')[n] = {n} \cup Ancestors(srcParent')[srcParent'[n]]
  BY <1>1, <1>8, AncestorsOfOne
<1> DEFINE Good(n) == /\ \A a \in SelfAndAbove'[n] : a \in DOMAIN f \/ a \in SelfAndAbove[p]
                      /\ SelfAndAbove[p] \subseteq SelfAndAbove'[n]
                      /\ \E a \in SelfAndAbove'[n] : a \in Tops(f)
<1>11. \A n \in DOMAIN f : Good(n)
  <2>1. \A n \in Tops(f) : Good(n)
    <3> SUFFICES ASSUME NEW n \in Tops(f) PROVE Good(n)
      OBVIOUS
    <3>1. SelfAndAbove'[n] = {n} \cup SelfAndAbove[p]
      <4>1. srcParent'[n] = p /\ n \in DOMAIN f
        BY <1>3, <1>6
      <4>2. Ancestors(srcParent')[p] = Ancestors(srcParent)[p]
        BY <1>0, <1>1
      <4> QED
        BY <1>2, <1>10, <4>1, <4>2
    <3> QED
      BY <1>3, <3>1
  <2>2. \A n \in DOMAIN f \ Tops(f) : Good(srcParent'[n]) => Good(n)
    <3> SUFFICES ASSUME NEW n \in DOMAIN f \ Tops(f), Good(srcParent'[n]) PROVE Good(n)
      OBVIOUS
    <3>1. SelfAndAbove'[n] = {n} \cup SelfAndAbove'[srcParent'[n]]
      BY <1>2, <1>10
    <3> QED
      BY <3>1
  <2> DEFINE Bad == {n \in DOMAIN f : ~Good(n)}
  <2>3. Bad \in SUBSET In(srcParent')
    BY <1>10
  <2>4. Bad # {} => \E n \in Bad : srcParent'[n] \notin Bad
    BY <1>1, <2>3 DEF IsTree
  <2> HIDE DEF Good
  <2>5. ASSUME NEW n \in Bad, srcParent'[n] \notin Bad PROVE FALSE
    <3>1. n \notin Tops(f)
      BY <2>1
    <3>2. srcParent'[n] \in DOMAIN f
      BY <1>6, <3>1
    <3> QED
      BY <2>2, <2>5, <3>1, <3>2
  <2> QED
    BY <2>4, <2>5
<1>12. \A n \in Tops(f) : srcParent'[n] = p /\ srcRow'[n] \in first .. last
  <2> SUFFICES ASSUME NEW n \in Tops(f) PROVE srcParent'[n] = p /\ srcRow'[n] \in first .. last
    OBVIOUS
  <2>1. srcParent'[n] = p /\ srcRow'[n] = first + f[n].row /\ f[n].row \in 0 .. count - 1
    BY <1>3, <1>6
  <2> QED
    BY <1>0, <1>3, <1>4, <2>1 DEF count
<1>13. \A x \in Present : x # p => Children(x)' = Children(x)
  <2> SUFFICES ASSUME NEW x \in Present, x # p, NEW n \in Nodes
               PROVE  srcParent'[n] = x <=> srcParent[n] = x
    BY DEF Children
  <2>1. n \in DOMAIN f => srcParent'[n] # x /\ srcParent[n] # x
    <3>1. x \notin DOMAIN f /\ x # Absent
      BY <1>0, NodesAssumption DEF Present
    <3>2. n \in DOMAIN f => srcParent[n] = Absent
      BY <1>0 DEF Present
    <3> QED
      BY <1>6, <3>1, <3>2
  <2> QED
    BY <1>5, <1>7, <2>1
<1>14. Children(p) \subseteq Children(p)'
  <2>1. \A n \in Children(p) : n \in Present /\ n \in Nodes /\ srcParent[n] = p
    BY <1>0, NodesAssumption DEF Children, Present
  <2> QED
    BY <1>5, <2>1 DEF Children
<1>15. rowCount(p)' = rowCount(p) + count
  BY <1>0, InsertRowsCounts DEF count
<1> QED
  BY <1>0, <1>3, <1>4, <1>5, <1>8, <1>9, <1>11, <1>12, <1>13, <1>14, <1>15

LEMMA NextIs ==
    ASSUME TreeOK', NEW p \in Nodes \cup {Root}, NEW n \in Nodes, srcParent'[n] = p, NEW r, srcRow'[n] = r
    PROVE  index(r, p)' = n
<1>1. n \in Children(p)'
  BY DEF Children
<1>2. index(srcRow[n], p)' = n
  BY <1>1, NextIndex
<1>3. index(srcRow[n], p)' = index(r, p)'
  BY DEF index, Children
<1> QED
  BY <1>2, <1>3

\* The rows of q are the same.
LEMMA KidsSame ==
    ASSUME TreeOK, TreeOK', NEW q \in Present, Children(q)' = Children(q),
           \A n \in Children(q) : srcRow'[n] = srcRow[n]
    PROVE  ChildrenInOrder(q)' = ChildrenInOrder(q) /\ (hasChildren(q)' <=> hasChildren(q))
<1>1. rowCount(q)' = rowCount(q) /\ (hasChildren(q)' <=> hasChildren(q))
  BY DEF rowCount, hasChildren
<1>2. \A k \in 1 .. rowCount(q) : index(k - 1, q)' = index(k - 1, q)
  <2> SUFFICES ASSUME NEW k \in 1 .. rowCount(q), NEW r, r = k - 1 PROVE index(r, q)' = index(r, q)
    OBVIOUS
  <2>1. PICK n : n = index(r, q)
    OBVIOUS
  <2>2. n \in Children(q) /\ srcRow[n] = r
    <3>1. ChildrenInOrder(q)[k] \in Children(q) /\ ChildrenInOrder(q)[k] = index(k - 1, q) /\ srcRow[ChildrenInOrder(q)[k]] = k - 1
      BY Kids
    <3> QED
      BY <2>1, <3>1
  <2>3. n \in Nodes /\ srcParent'[n] = q /\ srcRow'[n] = r /\ q \in Nodes
    BY <2>2 DEF Children, Present
  <2> QED
    BY <2>1, <2>3, NextIs
<1>3. ChildrenInOrder(q)' = [k \in 1 .. rowCount(q)' |-> index(k - 1, q)']
  BY DEF ChildrenInOrder
<1>4. [k \in 1 .. rowCount(q)' |-> index(k - 1, q)'] = [k \in 1 .. rowCount(q) |-> index(k - 1, q)]
  BY <1>1, <1>2
<1> QED
  BY <1>1, <1>3, <1>4 DEF ChildrenInOrder

\* w is the list v with the m rows new in front of row a.
Joins(w, v, a, new, m) ==
    /\ a \in Nat /\ a <= Len(v) /\ m \in Nat /\ Len(new) = m
    /\ w = [k \in 1 .. Len(v) + m |-> w[k]]
    /\ \A k \in 1 .. a : w[k] = v[k]
    /\ \A k \in 1 .. m : w[a + k] = new[k]
    /\ \A k \in a + 1 .. Len(v) : w[k + m] = v[k]

LEMMA Joined ==
    ASSUME NEW v \in Seq(Nodes), NEW new \in Seq(Nodes), NEW w, NEW a, NEW m, Joins(w, v, a, new, m)
    PROVE  SubSeq(v, 1, a) \o new \o SubSeq(v, a + 1, Len(v)) = w
<1> USE DEF Joins
<1> DEFINE one == SubSeq(v, 1, a)
           two == SubSeq(v, a + 1, Len(v))
           all == (one \o new) \o two
<1>0. Len(v) \in Nat
  OBVIOUS
<1>1. one \in Seq(Nodes) /\ Len(one) = a /\ \A k \in 1 .. a : one[k] = v[k]
  <2>1. \A k \in 1 .. a : v[k] \in Nodes
    BY <1>0
  <2>2. /\ one \in Seq(Nodes) /\ Len(one) = IF 1 <= a THEN a - 1 + 1 ELSE 0
        /\ \A k \in 1 .. a - 1 + 1 : one[k] = v[1 + k - 1]
    BY <1>0, <2>1, SubSeqProperties
  <2> QED
    BY <1>0, <2>2
<1>2. two \in Seq(Nodes) /\ Len(two) = Len(v) - a /\ \A k \in 1 .. Len(v) - a : two[k] = v[a + k]
  <2>1. \A k \in a + 1 .. Len(v) : v[k] \in Nodes
    BY <1>0
  <2>2. /\ two \in Seq(Nodes) /\ Len(two) = IF a + 1 <= Len(v) THEN Len(v) - (a + 1) + 1 ELSE 0
        /\ \A k \in 1 .. Len(v) - (a + 1) + 1 : two[k] = v[a + 1 + k - 1]
    BY <1>0, <2>1, SubSeqProperties
  <2>3. Len(two) = Len(v) - a
    BY <1>0, <2>2
  <2>4. \A k \in 1 .. Len(v) - a : two[k] = v[a + k]
    <3> SUFFICES ASSUME NEW k \in 1 .. Len(v) - a PROVE two[k] = v[a + k]
      OBVIOUS
    <3>1. k \in 1 .. Len(v) - (a + 1) + 1 /\ a + 1 + k - 1 = a + k
      BY <1>0
    <3> QED
      BY <2>2, <3>1
  <2> QED
    BY <2>2, <2>3, <2>4
<1> HIDE DEF one, two
<1> DEFINE both == one \o new
<1>3. /\ both \in Seq(Nodes) /\ Len(both) = a + m
      /\ \A k \in 1 .. a + m : both[k] = IF k <= a THEN one[k] ELSE new[k - a]
  <2>1. both \in Seq(Nodes) /\ Len(both) = Len(one) + Len(new)
    BY <1>1, ConcatProperties
  <2>2. \A k \in 1 .. Len(one) + Len(new) : both[k] = IF k <= Len(one) THEN one[k] ELSE new[k - Len(one)]
    BY <1>1, ConcatProperties
  <2> HIDE DEF both
  <2> QED
    BY <1>1, <2>1, <2>2
<1>4. /\ all \in Seq(Nodes) /\ Len(all) = a + m + (Len(v) - a)
      /\ \A k \in 1 .. a + m + (Len(v) - a) : all[k] = IF k <= a + m THEN both[k] ELSE two[k - (a + m)]
  <2> HIDE DEF both
  <2>1. all \in Seq(Nodes) /\ Len(all) = Len(both) + Len(two)
    BY <1>2, <1>3, ConcatProperties DEF both
  <2>2. \A k \in 1 .. Len(both) + Len(two) : all[k] = IF k <= Len(both) THEN both[k] ELSE two[k - Len(both)]
    BY <1>2, <1>3, ConcatProperties DEF both
  <2> HIDE DEF all
  <2> QED
    BY <1>2, <1>3, <2>1, <2>2
<1> HIDE DEF both, all
<1>5. Len(all) = Len(v) + m /\ DOMAIN all = 1 .. Len(v) + m
  BY <1>0, <1>4
<1>6. \A k \in 1 .. Len(v) + m : all[k] = w[k]
  <2> SUFFICES ASSUME NEW k \in 1 .. Len(v) + m PROVE all[k] = w[k]
    OBVIOUS
  <2>0. k \in 1 .. a + m + (Len(v) - a)
    BY <1>0
  <2>1. CASE k <= a
    <3>1. k \in 1 .. a /\ k \in 1 .. a + m /\ k <= a + m
      BY <2>1
    <3>2. all[k] = both[k] /\ both[k] = one[k]
      BY <1>3, <1>4, <2>0, <2>1, <3>1
    <3>3. one[k] = v[k] /\ w[k] = v[k]
      BY <1>1, <3>1
    <3> QED
      BY <3>2, <3>3
  <2>2. CASE a < k /\ k <= a + m
    <3>1. k - a \in 1 .. m /\ k \in 1 .. a + m /\ a + (k - a) = k /\ ~(k <= a)
      BY <2>2
    <3>2. w[a + (k - a)] = new[k - a]
      BY <3>1
    <3> QED
      BY <1>3, <1>4, <2>0, <2>2, <3>1, <3>2
  <2>3. CASE a + m < k
    <3>1. k - m \in a + 1 .. Len(v) /\ (k - m) + m = k /\ ~(k <= a + m)
      BY <1>0, <2>3
    <3>2. w[(k - m) + m] = v[k - m]
      BY <3>1
    <3>3. k - (a + m) \in 1 .. Len(v) - a /\ a + (k - (a + m)) = k - m
      BY <1>0, <2>3
    <3>4. two[k - (a + m)] = v[k - m]
      BY <1>2, <3>3
    <3> QED
      BY <1>4, <2>0, <3>1, <3>2, <3>4
  <2> QED
    BY <2>1, <2>2, <2>3
<1>7. all = [k \in 1 .. Len(v) + m |-> all[k]]
  BY <1>4, <1>5
<1>8. [k \in 1 .. Len(v) + m |-> all[k]] = [k \in 1 .. Len(v) + m |-> w[k]]
  BY <1>6
<1> QED
  BY <1>7, <1>8 DEF all, both, one, two

\* The roots stay roots, and what comes below what is shown is below it, too.
LEMMA GrownBelow ==
    ASSUME TreeOK, TreeOK', NEW f, NEW p, NEW first, NEW last, Grown(f, p, first, last), NEW s, RootList(s)
    PROVE  /\ RootList(s)'
           /\ Below(RangeOf(s))' = Below(RangeOf(s)) \cup IF p \in Below(RangeOf(s)) THEN DOMAIN f ELSE {}
           /\ InRows(p, first, last)' = DOMAIN f
<1>1. /\ Present' = Present \cup DOMAIN f /\ Present \cap DOMAIN f = {}
      /\ \A n \in Present : SelfAndAbove'[n] = SelfAndAbove[n] /\ Above(n)' = Above(n)
  BY GrownTree
<1>2. \A n \in DOMAIN f : /\ \A a \in SelfAndAbove'[n] : a \in DOMAIN f \/ a \in SelfAndAbove[p]
                          /\ SelfAndAbove[p] \subseteq SelfAndAbove'[n]
                          /\ \E a \in SelfAndAbove'[n] : a \in Tops(f)
  BY GrownTree
<1>3. RootList(s)'
  <2>1. RootList(s)' <=> /\ s \in Seq(Nodes) /\ Injective(s) /\ RangeOf(s) \subseteq Present'
                         /\ \A m, n \in RangeOf(s) : m \notin Above(n)'
    BY DEF RootList, Injective, RangeOf
  <2> QED
    BY <1>1, <2>1 DEF RootList
<1>4. Below(RangeOf(s))' = {n \in Present' : SelfAndAbove'[n] \cap RangeOf(s) # {}}
  BY DEF Below, LiesWithin, RangeOf
<1>5. Below(RangeOf(s)) = {n \in Present : SelfAndAbove[n] \cap RangeOf(s) # {}}
  BY DEF Below, LiesWithin
<1>6. RangeOf(s) \subseteq Present
  BY DEF RootList
<1>7. \A n \in DOMAIN f : SelfAndAbove'[n] \cap RangeOf(s) # {} <=> p \in Below(RangeOf(s))
  <2>1. p \notin Present => SelfAndAbove[p] = {}
    <3>1. p \notin Present => p = Root
      BY DEF Grown
    <3>2. SelfAndAbove[Root] = {}
      BY SelfAndAboveIsAncestors, AncestorsOfOne DEF TreeOK
    <3> QED
      BY <3>1, <3>2
  <2> QED
    BY <1>1, <1>2, <1>5, <1>6, <2>1
<1>8. InRows(p, first, last)' = DOMAIN f
  <2>1. InRows(p, first, last)' = {n \in Present' : \E a \in SelfAndAbove'[n] : srcParent'[a] = p /\ srcRow'[a] \in first .. last}
    BY DEF InRows
  <2>2. \A a \in Tops(f) : srcParent'[a] = p /\ srcRow'[a] \in first .. last
    BY GrownTree
  <2>3. ASSUME NEW n \in Present, NEW a \in SelfAndAbove[n], srcParent'[a] = p, srcRow'[a] \in first .. last PROVE FALSE
    <3>1. a \in Present
      BY AboveFacts DEF TreeOK
    <3>2. srcParent[a] = p /\ srcRow'[a] = (IF srcRow[a] >= first THEN srcRow[a] + (last - first + 1) ELSE srcRow[a])
      BY <2>3, <3>1, GrownTree
    <3>3. srcRow[a] \in Nat /\ first \in Nat /\ last - first + 1 \in Nat /\ last \in Int
      <4>1. first \in Nat /\ last - first + 1 \in Nat
        BY GrownTree
      <4>2. last \in Int
        BY CountType, ForestFacts DEF Grown
      <4> QED
        BY <3>1, <4>1, <4>2 DEF TreeOK, SourceTypeOK, Present
    <3> QED
      BY <2>3, <3>2, <3>3
  <2> QED
    BY <1>1, <1>2, <2>1, <2>2, <2>3
<1> QED
  BY <1>1, <1>3, <1>4, <1>5, <1>7, <1>8

\* What is shown next.
LEMMA ShownNext ==
    ASSUME NEW s
    PROVE  Shown(s)' = [x \in Nodes \cup {Root} |->
                           IF x = Root THEN s
                           ELSE IF ~isFlat' /\ x \in Below(RangeOf(s))' THEN ChildrenInOrder(x)'
                           ELSE <<>>]
BY DEF Shown, RangeOf

LEMMA FlatNext ==
    ASSUME UNCHANGED m_filterBehavior
    PROVE  isFlat' = isFlat /\ (RootsOnTop' <=> RootsOnTop) /\ m_includeAllSelected' = m_includeAllSelected
           /\ m_startWithChildTrees' = m_startWithChildTrees
BY DEF isFlat, m_omitChildren, RootsOnTop, m_startWithChildTrees, m_includeAllSelected

LEMMA HoldNext ==
    ASSUME UNCHANGED tableVars, NEW s, NEW e
    PROVE  Hold(Tables, s, e)' <=> Hold(Tables, s, e)
BY DEF tableVars, Hold, Tables, IsTables

\* The entries stay where the rows do.
LEMMA FitsNext ==
    ASSUME NEW s, NEW e, Fits(e, s, srcRow), DOMAIN e \subseteq Below(RangeOf(s))',
           \A n \in DOMAIN e : parent(n)' = parent(n),
           \A n \in DOMAIN e \ RangeOf(s) : srcRow'[n] = srcRow[n]
    PROVE  Fits(e, s, srcRow)'
<1>1. Fits(e, s, srcRow)' <=>
         /\ DOMAIN e \subseteq Below(RangeOf(s))'
         /\ \A n \in DOMAIN e : e[n] = IF n \in RangeOf(s) THEN <<Place(s, n) - 1, Root>> ELSE <<srcRow'[n], parent(n)'>>
         /\ \A n \in DOMAIN e \ RangeOf(s) : parent(n)' \in DOMAIN e
         /\ IsMap(e)
  BY DEF Fits, EntryAt, IsMap, Place, RangeOf
<1> QED
  BY <1>1 DEF Fits, EntryAt

\* Rows that come below no row that is shown are not to be seen.
LEMMA GrowthUnseen ==
    ASSUME TreeOK, TreeOK', NEW f, NEW p, NEW first, NEW last, Grown(f, p, first, last),
           NEW s, Showing(Tables, s), RootSeq(s), isFlat \/ p \notin Below(RangeOf(s)),
           UNCHANGED <<m_filterBehavior, tableVars>>
    PROVE  Showing(Tables, s)' /\ Shown(s)' = Shown(s)
<1>1. isFlat' = isFlat
  BY FlatNext
<1>2. CASE isFlat
  <2>1. Showing(Tables, s)'
    BY <1>1, <1>2, HoldNext DEF Showing, EmptyMapping
  <2>2. Shown(s)' = Shown(s)
    BY <1>1, <1>2, ShownNext DEF Shown
  <2> QED
    BY <2>1, <2>2
<1>3. CASE ~isFlat
  <2>1. RootList(s) /\ p \notin Below(RangeOf(s))
    BY <1>3 DEF Showing
  <2>2. PICK e : Hold(Tables, s, e) /\ Fits(e, s, srcRow) /\ AllMapped(e, s)
    BY <1>3 DEF Showing
  <2>3. RootList(s)' /\ Below(RangeOf(s))' = Below(RangeOf(s))
    BY <2>1, GrownBelow
  <2>4. \A n \in Below(RangeOf(s)) : /\ n \in Present /\ n # p /\ n \in Nodes /\ n # Root
                                     /\ parent(n)' = parent(n)
                                     /\ Children(n)' = Children(n)
                                     /\ n \notin RangeOf(s) => srcRow'[n] = srcRow[n] /\ srcParent[n] # p
    <3> SUFFICES ASSUME NEW n \in Below(RangeOf(s))
                 PROVE  /\ n \in Present /\ n # p /\ n \in Nodes /\ n # Root
                        /\ parent(n)' = parent(n)
                        /\ Children(n)' = Children(n)
                        /\ n \notin RangeOf(s) => srcRow'[n] = srcRow[n] /\ srcParent[n] # p
      OBVIOUS
    <3>1. n \in Present /\ n # p /\ n \in Nodes /\ n # Root
      BY <2>1, NodesAssumption DEF Below, Present
    <3>2. parent(n)' = parent(n) /\ Children(n)' = Children(n)
      BY <3>1, GrownTree
    <3>3. n \notin RangeOf(s) => srcParent[n] # p
      BY <2>1, <3>1, BelowIs
    <3>4. n \notin RangeOf(s) => srcRow'[n] = srcRow[n]
      BY <3>1, <3>3, GrownTree
    <3> QED
      BY <3>1, <3>2, <3>3, <3>4
  <2>5. DOMAIN e \subseteq Below(RangeOf(s))
    BY <2>2 DEF Fits
  <2>6. Fits(e, s, srcRow)'
    BY <2>2, <2>3, <2>4, <2>5, FitsNext
  <2>7. \A n \in Below(RangeOf(s)) : ChildrenInOrder(n)' = ChildrenInOrder(n) /\ (hasChildren(n)' <=> hasChildren(n))
    <3> SUFFICES ASSUME NEW n \in Below(RangeOf(s))
                 PROVE  ChildrenInOrder(n)' = ChildrenInOrder(n) /\ (hasChildren(n)' <=> hasChildren(n))
      OBVIOUS
    <3>1. \A k \in Children(n) : k \in Present /\ srcParent[k] # p
      BY <2>4, Kids DEF Children
    <3>2. \A k \in Children(n) : srcRow'[k] = srcRow[k]
      BY <3>1, GrownTree
    <3> QED
      BY <2>4, <3>2, KidsSame
  <2>8. AllMapped(e, s)'
    <3>1. AllMapped(e, s)' <=> \A n \in Below(RangeOf(s))' : hasChildren(n)' => n \in DOMAIN e
      BY DEF AllMapped, RangeOf
    <3> QED
      BY <2>2, <2>3, <2>7, <3>1 DEF AllMapped
  <2>9. Showing(Tables, s)'
    <3>1. Hold(Tables, s, e)'
      BY <2>2, HoldNext
    <3> QED
      BY <1>1, <1>3, <2>3, <2>6, <2>8, <3>1 DEF Showing
  <2>10. Shown(s)' = Shown(s)
    <3>1. \A x \in Nodes \cup {Root} :
             (IF x = Root THEN s ELSE IF ~isFlat' /\ x \in Below(RangeOf(s))' THEN ChildrenInOrder(x)' ELSE <<>>)
             = (IF x = Root THEN s ELSE IF ~isFlat /\ x \in Below(RangeOf(s)) THEN ChildrenInOrder(x) ELSE <<>>)
      BY <1>1, <2>3, <2>7
    <3> QED
      BY <3>1, ShownNext DEF Shown
  <2> QED
    BY <2>9, <2>10
<1> QED
  BY <1>2, <1>3

\* Rows that come below a row that is shown are not in the tables yet.
LEMMA GrowthMapped ==
    ASSUME TreeOK, TreeOK', ~isFlat, NEW f, NEW p, NEW first, NEW last, Grown(f, p, first, last),
           NEW s, Showing(Tables, s), p \in Below(RangeOf(s)), UNCHANGED tableVars
    PROVE  TablesBefore(s, p, first, last)'
<1>1. PICK e : Hold(Tables, s, e) /\ Fits(e, s, srcRow) /\ AllMapped(e, s) /\ RootList(s)
  BY DEF Showing
<1>2. Hold(Tables, s, e)'
  BY <1>1, HoldNext
<1>3. /\ RootList(s)' /\ Below(RangeOf(s))' = Below(RangeOf(s)) \cup DOMAIN f /\ InRows(p, first, last)' = DOMAIN f
      /\ Present' = Present \cup DOMAIN f /\ Present \cap DOMAIN f = {}
  BY <1>1, GrownBelow, GrownTree
<1>4. DOMAIN e \subseteq Below(RangeOf(s)) /\ Below(RangeOf(s)) \subseteq Present /\ DOMAIN e \subseteq Nodes
  BY <1>1 DEF Fits, Below, Present
<1> DEFINE known == RowsBeforeInsert(p, first, last)'
<1>5. \A n \in DOMAIN e : known[n] = srcRow[n] /\ parent(n)' = parent(n)
  <2> SUFFICES ASSUME NEW n \in DOMAIN e PROVE known[n] = srcRow[n] /\ parent(n)' = parent(n)
    OBVIOUS
  <2>1. known[n] = IF srcParent'[n] = p /\ srcRow'[n] > last THEN srcRow'[n] - (last - first + 1) ELSE srcRow'[n]
    BY <1>4 DEF RowsBeforeInsert
  <2>2. /\ srcParent'[n] = srcParent[n] /\ parent(n)' = parent(n)
        /\ srcRow'[n] = IF srcParent[n] = p /\ srcRow[n] >= first THEN srcRow[n] + (last - first + 1) ELSE srcRow[n]
    BY <1>4, GrownTree
  <2>3. last - first + 1 \in Nat /\ first \in Nat /\ last \in Int
    <3>1. last \in Int
      BY CountType, ForestFacts DEF Grown
    <3> QED
      BY <3>1, GrownTree
  <2>4. srcRow[n] \in Nat
    BY <1>4 DEF TreeOK, SourceTypeOK
  <2> HIDE DEF known
  <2> QED
    BY <2>1, <2>2, <2>3, <2>4
<1>6. Fits(e, s, RowsBeforeInsert(p, first, last))'
  <2>1. Fits(e, s, RowsBeforeInsert(p, first, last))' <=>
         /\ DOMAIN e \subseteq Below(RangeOf(s))'
         /\ \A n \in DOMAIN e : e[n] = IF n \in RangeOf(s) THEN <<Place(s, n) - 1, Root>> ELSE <<known[n], parent(n)'>>
         /\ \A n \in DOMAIN e \ RangeOf(s) : parent(n)' \in DOMAIN e
         /\ IsMap(e)
    BY DEF Fits, EntryAt, IsMap, Place, RangeOf
  <2> HIDE DEF known
  <2> QED
    BY <1>1, <1>3, <1>4, <1>5, <2>1 DEF Fits, EntryAt
<1>7. \A n \in Below(RangeOf(s))' \ (InRows(p, first, last)' \cup {p}) : hasChildren(n)' => n \in DOMAIN e
  <2> SUFFICES ASSUME NEW n \in Below(RangeOf(s)), n # p PROVE hasChildren(n)' => n \in DOMAIN e
    BY <1>3
  <2>1. Children(n)' = Children(n)
    BY <1>4, GrownTree
  <2> QED
    BY <1>1, <2>1 DEF hasChildren, AllMapped
<1>8. rowCount(p)' # last - first + 1 => p \in DOMAIN e
  <2>1. rowCount(p)' = rowCount(p) + (last - first + 1) /\ last - first + 1 \in Nat /\ rowCount(p) \in Nat
    BY GrownTree, RowCountType
  <2>2. rowCount(p)' # last - first + 1 => hasChildren(p)
    BY <2>1, RowCountType DEF hasChildren
  <2> QED
    BY <1>1, <2>2 DEF AllMapped
<1>9. EntriesBefore(e, s, p, first, last)'
  <2>1. EntriesBefore(e, s, p, first, last)' <=>
          /\ Fits(e, s, RowsBeforeInsert(p, first, last))'
          /\ DOMAIN e \cap InRows(p, first, last)' = {}
          /\ \A n \in Below(RangeOf(s))' \ (InRows(p, first, last)' \cup {p}) : hasChildren(n)' => n \in DOMAIN e
          /\ rowCount(p)' # last - first + 1 => p \in DOMAIN e
    BY DEF EntriesBefore, RangeOf
  <2>2. DOMAIN e \cap InRows(p, first, last)' = {}
    BY <1>3, <1>4
  <2> QED
    BY <1>6, <1>7, <1>8, <2>1, <2>2
<1> QED
  BY <1>2, <1>9 DEF TablesBefore

\* And a listener has not been told of them.
LEMMA GrowthListed ==
    ASSUME TreeOK, TreeOK', ~isFlat, UNCHANGED m_filterBehavior,
           NEW f, NEW p, NEW first, NEW last, Grown(f, p, first, last),
           NEW s, RootList(s), p \in Below(RangeOf(s)), view = Shown(s), UNCHANGED view
    PROVE  ViewBefore(s, p, first, last)'
<1>0. isFlat' = isFlat
  BY FlatNext
<1>1. /\ RootList(s)' /\ Below(RangeOf(s))' = Below(RangeOf(s)) \cup DOMAIN f /\ InRows(p, first, last)' = DOMAIN f
      /\ Present' = Present \cup DOMAIN f /\ Present \cap DOMAIN f = {}
  BY GrownBelow, GrownTree
<1>2. p \in Present /\ p \in Nodes /\ p # Root /\ Below(RangeOf(s)) \subseteq Present
  BY NodesAssumption DEF Below, Present
<1> DEFINE count == last - first + 1
           new == [k \in 1 .. last - first + 1 |-> index(first + k - 1, p)']
           w == ChildrenInOrder(p)'
<1>3. /\ count \in Nat /\ first \in Nat /\ rowCount(p) \in Nat /\ first <= rowCount(p)
      /\ rowCount(p)' = rowCount(p) + count
  BY GrownTree, RowCountType DEF Grown
<1>4. PICK v : v = ChildrenInOrder(p)
  OBVIOUS
<1>5. /\ v \in Seq(Nodes) /\ Len(v) = rowCount(p)
      /\ \A k \in 1 .. rowCount(p) : v[k] \in Children(p) /\ srcRow[v[k]] = k - 1
  BY <1>2, <1>4, Kids
<1>6. w = [k \in 1 .. rowCount(p)' |-> index(k - 1, p)']
  BY DEF ChildrenInOrder
<1>7. new \in Seq(Nodes) /\ Len(new) = count /\ \A k \in 1 .. count : new[k] = index(first + k - 1, p)'
  <2>1. \A k \in 1 .. count : index(first + k - 1, p)' \in Nodes
    <3> SUFFICES ASSUME NEW k \in 1 .. count, NEW r, r = first + k - 1 PROVE index(r, p)' \in Nodes
      OBVIOUS
    <3>1. r \in 0 .. rowCount(p)' - 1
      BY <1>3
    <3>2. index(r, p)' \in Children(p)'
      BY <1>2, <3>1, NextIndex
    <3> QED
      BY <3>2 DEF Children
  <2>2. new \in [1 .. count -> Nodes]
    BY <2>1
  <2> QED
    BY <1>3, <2>2
<1>8. \A k \in 1 .. rowCount(p) : /\ v[k] \in Nodes /\ srcParent'[v[k]] = p
                                  /\ srcRow'[v[k]] = IF k - 1 >= first THEN k - 1 + count ELSE k - 1
  <2> SUFFICES ASSUME NEW k \in 1 .. rowCount(p)
               PROVE  /\ v[k] \in Nodes /\ srcParent'[v[k]] = p
                      /\ srcRow'[v[k]] = IF k - 1 >= first THEN k - 1 + count ELSE k - 1
    OBVIOUS
  <2>1. v[k] \in Children(p) /\ srcRow[v[k]] = k - 1
    BY <1>5
  <2>2. v[k] \in Present /\ srcParent[v[k]] = p
    BY <1>2, <2>1, Kids DEF Children
  <2> QED
    BY <2>1, <2>2, GrownTree DEF Present
<1>9. \A k \in 1 .. first : w[k] = v[k]
  <2> SUFFICES ASSUME NEW k \in 1 .. first, NEW r, r = k - 1 PROVE w[k] = v[k]
    OBVIOUS
  <2>1. k \in 1 .. rowCount(p) /\ k \in 1 .. rowCount(p)' /\ ~(k - 1 >= first)
    BY <1>3
  <2>2. srcRow'[v[k]] = r
    BY <1>8, <2>1
  <2>3. index(r, p)' = v[k]
    BY <1>2, <1>8, <2>1, <2>2, NextIs
  <2> QED
    BY <1>6, <2>1, <2>3
<1>10. \A k \in 1 .. count : w[first + k] = new[k]
  <2> SUFFICES ASSUME NEW k \in 1 .. count, NEW j, j = first + k, NEW r, r = first + k - 1
               PROVE  w[j] = new[k]
    OBVIOUS
  <2>1. j \in 1 .. rowCount(p)' /\ r = j - 1
    BY <1>3
  <2>2. w[j] = index(r, p)'
    BY <1>6, <2>1
  <2>3. new[k] = index(r, p)'
    BY <1>7
  <2> QED
    BY <2>2, <2>3
<1>11. \A k \in first + 1 .. Len(v) : w[k + count] = v[k]
  <2> SUFFICES ASSUME NEW k \in first + 1 .. Len(v), NEW j, j = k + count, NEW r, r = j - 1
               PROVE  w[j] = v[k]
    OBVIOUS
  <2>1. k \in 1 .. rowCount(p) /\ j \in 1 .. rowCount(p)' /\ k - 1 >= first /\ k - 1 + count = r
    BY <1>3, <1>5
  <2>2. srcRow'[v[k]] = r
    BY <1>8, <2>1
  <2>3. index(r, p)' = v[k]
    BY <1>2, <1>8, <2>1, <2>2, NextIs
  <2>4. w[j] = index(r, p)'
    BY <1>6, <2>1
  <2> QED
    BY <2>3, <2>4
<1>12. SubSeq(v, 1, first) \o new \o SubSeq(v, first + 1, Len(v)) = w
  <2>1. PICK m : m = count
    OBVIOUS
  <2>2. w = [k \in 1 .. Len(v) + m |-> w[k]]
    <3>1. rowCount(p)' = Len(v) + m
      BY <1>3, <1>5, <2>1
    <3>2. w = [k \in 1 .. rowCount(p)' |-> w[k]]
      BY <1>6
    <3> HIDE DEF w
    <3> QED
      BY <3>1, <3>2
  <2>3. m \in Nat /\ first \in Nat /\ first <= Len(v) /\ Len(new) = m
    BY <1>3, <1>5, <1>7, <2>1
  <2>4. \A k \in 1 .. first : w[k] = v[k]
    BY <1>9
  <2>5. \A k \in 1 .. m : w[first + k] = new[k]
    BY <1>10, <2>1
  <2>6. \A k \in first + 1 .. Len(v) : w[k + m] = v[k]
    BY <1>11, <2>1
  <2>7. new \in Seq(Nodes) /\ v \in Seq(Nodes)
    BY <1>5, <1>7
  <2> HIDE DEF w, new, count
  <2>8. Joins(w, v, first, new, m)
    BY <2>2, <2>3, <2>4, <2>5, <2>6 DEF Joins
  <2> QED
    BY <2>7, <2>8, Joined
<1>13. view[p] = v /\ view[Root] = s
  BY <1>2, <1>4, ShownIs
<1>14. RowsUpTo(v, first) = SubSeq(v, 1, first) /\ RowsFrom(v, first) = SubSeq(v, first + 1, Len(v))
  <2>1. first < Len(v) \/ first = Len(v)
    BY <1>3, <1>5
  <2> QED
    BY <2>1 DEF RowsUpTo, RowsFrom
<1>15. \A x \in Nodes \ (InRows(p, first, last)' \cup {p}) : view[x] = Shown(s)'[x]
  <2> SUFFICES ASSUME NEW x \in Nodes, x \notin DOMAIN f, x # p PROVE view[x] = Shown(s)'[x]
    BY <1>1
  <2>1. x # Root
    BY NodesAssumption
  <2>2. view[x] = IF x \in Below(RangeOf(s)) THEN ChildrenInOrder(x) ELSE <<>>
    BY ShownIs
  <2>3. Shown(s)'[x] = IF x \in Below(RangeOf(s))' THEN ChildrenInOrder(x)' ELSE <<>>
    BY <1>0, <2>1, ShownNext
  <2>4. x \in Below(RangeOf(s)) => ChildrenInOrder(x)' = ChildrenInOrder(x)
    <3> SUFFICES ASSUME x \in Below(RangeOf(s)) PROVE ChildrenInOrder(x)' = ChildrenInOrder(x)
      OBVIOUS
    <3>1. x \in Present
      BY <1>2
    <3>2. Children(x)' = Children(x)
      BY <3>1, GrownTree
    <3>3. \A n \in Children(x) : n \in Present /\ srcParent[n] # p
      BY <3>1, Kids DEF Children
    <3>4. \A n \in Children(x) : srcRow'[n] = srcRow[n]
      BY <3>3, GrownTree
    <3> QED
      BY <3>1, <3>2, <3>4, KidsSame
  <2> QED
    BY <1>1, <2>2, <2>3, <2>4
<1>16. IsTreeView(view)
  BY ShownIs DEF IsTreeView, Shown
<1>17. ViewBefore(s, p, first, last)' <=>
         /\ IsTreeView(view') /\ view'[Root] = s
         /\ RowsUpTo(view'[p], first) \o new \o RowsFrom(view'[p], first) = w
         /\ \A x \in Nodes \ (InRows(p, first, last)' \cup {p}) : view'[x] = Shown(s)'[x]
  BY DEF ViewBefore, IsTreeView, RowsUpTo, RowsFrom
<1> HIDE DEF w, new, count
<1> QED
  BY <1>12, <1>13, <1>14, <1>15, <1>16, <1>17

----------------------------------------------------------------------------
(* Rows that go, and what the tables and a listener have of them.          *)

\* Rows first .. last of p go.
Shrunk(p, first, last) ==
    /\ p \in Present \cup {Root}
    /\ first \in Nat /\ last \in Nat /\ first <= last /\ last < rowCount(p)
    /\ RemoveRows(p, first, last)

LEMMA ShrunkTree ==
    ASSUME TreeOK, TreeOK', NEW p, NEW first, NEW last, Shrunk(p, first, last)
    PROVE  /\ Present' = Present \ InRows(p, first, last) /\ InRows(p, first, last) \subseteq Present
           /\ p \in Present' \cup {Root}
           /\ \A n \in Present' : /\ SelfAndAbove'[n] = SelfAndAbove[n] /\ Above(n)' = Above(n)
                                  /\ parent(n)' = parent(n) /\ srcParent'[n] = srcParent[n]
                                  /\ parent(n) \in Present' \cup {Root}
                                  /\ srcRow[n] \in Nat
                                  /\ srcParent[n] = p => ~(srcRow[n] \in first .. last)
                                  /\ srcRow'[n] = IF srcParent[n] = p /\ srcRow[n] > last
                                                  THEN srcRow[n] - (last - first + 1) ELSE srcRow[n]
           /\ \A x \in Present' : /\ Children(x)' \subseteq Children(x)
                                  /\ x # p => Children(x)' = Children(x)
           /\ \A n \in Children(p) : /\ srcRow[n] \in first .. last => n \notin Present'
                                     /\ n \in Present' <=> ~(srcRow[n] \in first .. last)
           /\ rowCount(p)' = rowCount(p) - (last - first + 1)
           /\ last - first + 1 \in Nat /\ rowCount(p) \in Nat
<1> DEFINE gone == InRows(p, first, last)
           rest == Present \ gone
           count == last - first + 1
<1>0. /\ p \in Present \cup {Root} /\ first \in Nat /\ last \in Nat /\ first <= last /\ last < rowCount(p)
      /\ RemoveRows(p, first, last)
  BY DEF Shrunk
<1>1. Present' = rest /\ gone \subseteq Present
  BY <1>0, RemoveRowsKeepsOrder DEF InRows
<1>2. /\ \A n \in rest : srcParent[n] \in rest \cup {Root}
      /\ p \in rest \cup {Root} /\ Root \notin gone
  BY <1>0, RestOfTree, NodesAssumption DEF TreeOK, Present, InRows
<1>3. /\ \A n \in Nodes : srcParent'[n] = IF n \in gone THEN Absent ELSE srcParent[n]
      /\ \A n \in Nodes : srcRow'[n] = IF n \in gone THEN 0
                                       ELSE IF srcParent[n] = p /\ srcRow[n] > last THEN srcRow[n] - count
                                       ELSE srcRow[n]
  BY <1>0 DEF RemoveRows
<1>4. \A n \in Present : n \in gone <=> n \in {m \in Children(p) : srcRow[m] \in first .. last} \/ srcParent[n] \in gone
  BY <1>0, ChildrenInRows DEF TreeOK, Children, Present
<1>5. \A i \in rest \cup {Root} : Ancestors(srcParent')[i] = Ancestors(srcParent)[i]
  BY <1>0, RemoveRowsKeepsTree DEF TreeOK
<1>6. SelfAndAbove' = Ancestors(srcParent') /\ SelfAndAbove = Ancestors(srcParent)
  <2>1. SelfAndAbove' = Ancestors(srcParent')
    BY DEF SelfAndAbove, Ancestors, Climb, Indexes
  <2> QED
    BY <2>1, SelfAndAboveIsAncestors
<1> HIDE DEF gone
<1>7. \A n \in rest : /\ n \in Nodes /\ parent(n) = srcParent[n] /\ parent(n)' = srcParent'[n]
                      /\ Above(n) = SelfAndAbove[srcParent[n]] /\ Above(n)' = SelfAndAbove'[srcParent'[n]]
  BY DEF Above, parent, Present
<1>8. \A n \in rest : /\ SelfAndAbove'[n] = SelfAndAbove[n] /\ Above(n)' = Above(n)
                      /\ parent(n)' = parent(n) /\ srcParent'[n] = srcParent[n]
                      /\ parent(n) \in rest \cup {Root}
  BY <1>2, <1>3, <1>5, <1>6, <1>7
<1>9. \A n \in rest : /\ srcRow[n] \in Nat
                      /\ srcParent[n] = p => ~(srcRow[n] \in first .. last)
                      /\ srcRow'[n] = IF srcParent[n] = p /\ srcRow[n] > last THEN srcRow[n] - count ELSE srcRow[n]
  <2>1. \A n \in rest : srcParent[n] = p => ~(srcRow[n] \in first .. last)
    BY <1>4, <1>7 DEF Children
  <2>2. \A n \in rest : srcRow[n] \in Nat
    BY <1>7 DEF TreeOK, SourceTypeOK
  <2> QED
    BY <1>3, <1>7, <2>1, <2>2
<1>10. \A x \in rest \cup {Root} : \A n \in Nodes : srcParent'[n] = x => srcParent[n] = x
  BY <1>0, <1>3, NodesAssumption DEF Present
<1>11. \A x \in rest : x # p => \A n \in Nodes : srcParent[n] = x => srcParent'[n] = x
  <2> SUFFICES ASSUME NEW x \in rest, x # p, NEW n \in Nodes, srcParent[n] = x PROVE srcParent'[n] = x
    OBVIOUS
  <2>1. n \in Present
    BY NodesAssumption DEF Present
  <2>2. n \notin gone
    BY <1>4, <2>1 DEF Children
  <2> QED
    BY <1>3, <2>2
<1>12. \A n \in Children(p) : n \in Present /\ (n \in gone <=> srcRow[n] \in first .. last)
  <2> SUFFICES ASSUME NEW n \in Children(p) PROVE n \in Present /\ (n \in gone <=> srcRow[n] \in first .. last)
    OBVIOUS
  <2>1. n \in Nodes /\ srcParent[n] = p
    BY DEF Children
  <2>2. n \in Present
    BY <1>0, <2>1, NodesAssumption DEF Present
  <2> QED
    BY <1>2, <1>4, <2>1, <2>2
<1>13. rowCount(p)' = rowCount(p) - count
  <2> DEFINE old == Children(p)
             new == Children(p)'
             rows == {n \in Children(p) : srcRow[n] \in first .. last}
  <2>1. new = {n \in Nodes : srcParent'[n] = p}
    BY DEF Children
  <2>2. \A n \in Nodes : srcParent'[n] = p <=> srcParent[n] = p /\ ~(srcRow[n] \in first .. last)
    <3>1. p # Absent
      BY <1>0, NodesAssumption DEF Present
    <3> QED
      BY <1>3, <1>12, <3>1 DEF Children
  <2>3. new = old \ rows
    BY <2>1, <2>2 DEF Children
  <2>4. IsFiniteSet(rows) /\ Cardinality(rows) = count
    <3>1. p \in Nodes \cup {Root}
      BY <1>0 DEF Present
    <3> QED
      BY <1>0, <3>1, RowsCount DEF TreeOK
  <2>5. IsFiniteSet(old) /\ Cardinality(old) \in Nat
    BY CountType DEF Children
  <2>6. old \cap rows = rows
    OBVIOUS
  <2>7. rowCount(p)' = Cardinality(new) /\ rowCount(p) = Cardinality(old)
    BY DEF rowCount
  <2> HIDE DEF old, new, rows
  <2>8. Cardinality(old \ rows) = Cardinality(old) - Cardinality(old \cap rows)
    BY <2>5, FS_Difference
  <2> QED
    BY <2>3, <2>4, <2>6, <2>7, <2>8
<1>14. count \in Nat /\ rowCount(p) \in Nat
  BY <1>0, RowCountType
<1>15. \A x \in rest : Children(x)' \subseteq Children(x) /\ (x # p => Children(x)' = Children(x))
  <2> SUFFICES ASSUME NEW x \in rest PROVE Children(x)' \subseteq Children(x) /\ (x # p => Children(x)' = Children(x))
    OBVIOUS
  <2>1. Children(x) = {n \in Nodes : srcParent[n] = x} /\ Children(x)' = {n \in Nodes : srcParent'[n] = x}
    BY DEF Children
  <2> QED
    BY <1>10, <1>11, <2>1
<1> QED
  BY <1>1, <1>2, <1>8, <1>9, <1>12, <1>13, <1>14, <1>15 DEF gone

\* The roots stay roots, and what goes is no longer below them.
LEMMA ShrunkBelow ==
    ASSUME TreeOK, TreeOK', NEW p, NEW first, NEW last, Shrunk(p, first, last),
           NEW s, RootList(s), RangeOf(s) \subseteq Present'
    PROVE  /\ RootList(s)'
           /\ Below(RangeOf(s))' = Below(RangeOf(s)) \ InRows(p, first, last)
           /\ p \notin Below(RangeOf(s)) => Below(RangeOf(s)) \cap InRows(p, first, last) = {}
<1> DEFINE S == RangeOf(s)
           gone == InRows(p, first, last)
<1>0. p \in Present \cup {Root}
  BY DEF Shrunk
<1>1. /\ Present' = Present \ gone /\ gone \subseteq Present
      /\ \A n \in Present' : SelfAndAbove'[n] = SelfAndAbove[n] /\ Above(n)' = Above(n)
  BY ShrunkTree
<1>2. RootList(s)' <=> /\ s \in Seq(Nodes) /\ Injective(s) /\ S \subseteq Present'
                       /\ \A m, n \in S : m \notin Above(n)'
  BY DEF RootList, Injective, RangeOf
<1>3. RootList(s)'
  <2>1. \A m, n \in S : m \notin Above(n)'
    BY <1>1 DEF RootList
  <2> QED
    BY <1>2, <2>1 DEF RootList
<1>4. Below(RangeOf(s))' = {n \in Present' : SelfAndAbove'[n] \cap S # {}}
  BY DEF Below, LiesWithin, RangeOf
<1>5. Below(RangeOf(s))' = Below(S) \ gone
  BY <1>1, <1>4 DEF Below, LiesWithin
<1>6. ASSUME p \notin Below(S), NEW n \in Below(S), n \in gone PROVE FALSE
  <2>1. PICK a \in SelfAndAbove[n] : srcParent[a] = p /\ srcRow[a] \in first .. last
    BY <1>6 DEF InRows
  <2>2. PICK r \in S : r \in SelfAndAbove[n] /\ n \in Present
    BY <1>6 DEF Below, LiesWithin
  <2>3. a \in Present /\ r \in Present
    <3>1. SelfAndAbove[n] \subseteq Present
      BY <2>2, AboveFacts DEF TreeOK
    <3> QED
      BY <2>1, <2>2, <3>1
  <2>4. a \notin SelfAndAbove[r]
    <3>1. r \notin gone
      BY <1>1, <2>2
    <3> QED
      BY <2>1, <2>3, <3>1 DEF InRows
  <2>5. r \in SelfAndAbove[a]
    BY <2>1, <2>2, <2>4, AncestorsChain, SelfAndAboveIsAncestors, PresentIs DEF TreeOK
  <2>6. r \in Above(a) /\ parent(a) = p
    <3>1. SelfAndAbove[a] = {a} \cup Above(a) /\ SelfAndAbove[r] = {r} \cup Above(r)
      BY <2>3, AboveFacts DEF TreeOK
    <3>2. parent(a) = p
      BY <2>1, <2>3 DEF parent, Present
    <3> QED
      BY <2>4, <2>5, <3>1, <3>2
  <2>7. r \in SelfAndAbove[p]
    BY <2>6 DEF Above
  <2>8. p \in Present
    <3>1. SelfAndAbove[Root] = {}
      BY AncestorsOfOne, SelfAndAboveIsAncestors DEF TreeOK
    <3> QED
      BY <1>0, <2>7, <3>1
  <2> QED
    BY <1>6, <2>7, <2>8 DEF Below, LiesWithin
<1> QED
  BY <1>3, <1>5, <1>6

\* Rows that go from below no row that is shown are not missed.
LEMMA ShrinkUnseen ==
    ASSUME TreeOK, TreeOK', NEW p, NEW first, NEW last, Shrunk(p, first, last),
           NEW s, Showing(Tables, s), RootSeq(s), RangeOf(s) \subseteq Present',
           isFlat \/ p \notin Below(RangeOf(s)), UNCHANGED <<m_filterBehavior, tableVars>>
    PROVE  Showing(Tables, s)' /\ Shown(s)' = Shown(s)
<1>1. isFlat' = isFlat
  BY FlatNext
<1>2. CASE isFlat
  <2>1. Showing(Tables, s)'
    BY <1>1, <1>2, HoldNext DEF Showing, EmptyMapping
  <2>2. Shown(s)' = Shown(s)
    BY <1>1, <1>2, ShownNext DEF Shown
  <2> QED
    BY <2>1, <2>2
<1>3. CASE ~isFlat
  <2>1. RootList(s) /\ p \notin Below(RangeOf(s))
    BY <1>3 DEF Showing
  <2>2. PICK e : Hold(Tables, s, e) /\ Fits(e, s, srcRow) /\ AllMapped(e, s)
    BY <1>3 DEF Showing
  <2>3. RootList(s)' /\ Below(RangeOf(s))' = Below(RangeOf(s)) /\ Below(RangeOf(s)) \subseteq Present'
    BY <2>1, ShrunkBelow, ShrunkTree DEF Below
  <2>4. \A n \in Below(RangeOf(s)) : /\ n \in Present /\ n \in Present' /\ n # p
                                     /\ parent(n)' = parent(n)
                                     /\ Children(n)' = Children(n)
                                     /\ n \notin RangeOf(s) => srcRow'[n] = srcRow[n] /\ srcParent[n] # p
    <3> SUFFICES ASSUME NEW n \in Below(RangeOf(s))
                 PROVE  /\ n \in Present /\ n \in Present' /\ n # p
                        /\ parent(n)' = parent(n)
                        /\ Children(n)' = Children(n)
                        /\ n \notin RangeOf(s) => srcRow'[n] = srcRow[n] /\ srcParent[n] # p
      OBVIOUS
    <3>1. n \in Present /\ n # p /\ n \in Present'
      BY <2>1, <2>3 DEF Below
    <3>2. parent(n)' = parent(n) /\ Children(n)' = Children(n)
      BY <3>1, ShrunkTree
    <3>3. n \notin RangeOf(s) => srcParent[n] # p
      BY <2>1, <3>1, BelowIs
    <3>4. n \notin RangeOf(s) => srcRow'[n] = srcRow[n]
      BY <3>1, <3>3, ShrunkTree
    <3> QED
      BY <3>1, <3>2, <3>3, <3>4
  <2>5. DOMAIN e \subseteq Below(RangeOf(s))
    BY <2>2 DEF Fits
  <2>6. Fits(e, s, srcRow)'
    BY <2>2, <2>3, <2>4, <2>5, FitsNext
  <2>7. \A n \in Below(RangeOf(s)) : ChildrenInOrder(n)' = ChildrenInOrder(n) /\ (hasChildren(n)' <=> hasChildren(n))
    <3> SUFFICES ASSUME NEW n \in Below(RangeOf(s))
                 PROVE  ChildrenInOrder(n)' = ChildrenInOrder(n) /\ (hasChildren(n)' <=> hasChildren(n))
      OBVIOUS
    <3>1. n \in Present /\ n # Root /\ Children(n)' = Children(n)
      BY <2>4, NodesAssumption DEF Present
    <3>2. \A k \in Children(n) : k \in Present' /\ srcParent[k] # p
      <4> SUFFICES ASSUME NEW k \in Children(n) PROVE k \in Present' /\ srcParent[k] # p
        OBVIOUS
      <4>1. srcParent[k] = n /\ k \in Nodes
        BY DEF Children
      <4>2. srcParent'[k] = n
        BY <3>1 DEF Children
      <4> QED
        BY <2>4, <3>1, <4>1, <4>2, NodesAssumption DEF Present
    <3>3. \A k \in Children(n) : srcRow'[k] = srcRow[k]
      BY <3>2, ShrunkTree
    <3> QED
      BY <3>1, <3>3, KidsSame
  <2>8. AllMapped(e, s)'
    <3>1. AllMapped(e, s)' <=> \A n \in Below(RangeOf(s))' : hasChildren(n)' => n \in DOMAIN e
      BY DEF AllMapped, RangeOf
    <3> QED
      BY <2>2, <2>3, <2>7, <3>1 DEF AllMapped
  <2>9. Showing(Tables, s)'
    <3>1. Hold(Tables, s, e)'
      BY <2>2, HoldNext
    <3> QED
      BY <1>1, <1>3, <2>3, <2>6, <2>8, <3>1 DEF Showing
  <2>10. Shown(s)' = Shown(s)
    <3>1. \A x \in Nodes \cup {Root} :
             (IF x = Root THEN s ELSE IF ~isFlat' /\ x \in Below(RangeOf(s))' THEN ChildrenInOrder(x)' ELSE <<>>)
             = (IF x = Root THEN s ELSE IF ~isFlat /\ x \in Below(RangeOf(s)) THEN ChildrenInOrder(x) ELSE <<>>)
      BY <1>1, <2>3, <2>7
    <3> QED
      BY <3>1, ShownNext DEF Shown
  <2> QED
    BY <2>9, <2>10
<1> QED
  BY <1>2, <1>3

\* Of the rows that are shown the tables have those that go, too.
LEMMA ShrinkMapped ==
    ASSUME TreeOK, TreeOK', ~isFlat, NEW p, NEW first, NEW last, Shrunk(p, first, last),
           NEW s, Showing(Tables, s), RangeOf(s) \subseteq Present', p \in Below(RangeOf(s)), UNCHANGED tableVars
    PROVE  TablesAfter(s, p, first, last)'
<1>1. PICK e : Hold(Tables, s, e) /\ Fits(e, s, srcRow) /\ AllMapped(e, s) /\ RootList(s)
  BY DEF Showing
<1>2. Hold(Tables, s, e)'
  BY <1>1, HoldNext
<1>3. /\ RootList(s)' /\ Below(RangeOf(s))' = Below(RangeOf(s)) \ InRows(p, first, last)
      /\ Present' = Present \ InRows(p, first, last)
  BY <1>1, ShrunkBelow, ShrunkTree
<1>4. DOMAIN e \subseteq Below(RangeOf(s)) /\ Below(RangeOf(s)) \subseteq Present /\ DOMAIN e \subseteq Nodes
  BY <1>1 DEF Fits, Below, Present
<1>5. p \in Present /\ p \in Present' /\ p \in Nodes
  <2>1. p \in Present /\ p # Root
    BY <1>4, NodesAssumption DEF Present
  <2> QED
    BY <2>1, ShrunkTree DEF Present
<1> DEFINE known == RowsBeforeRemoval(p, first, last)'
           kept == [n \in DOMAIN e \cap Present' |-> e[n]]
<1>6. \A n \in Present' : known[n] = srcRow[n] /\ parent(n)' = parent(n)
  <2> SUFFICES ASSUME NEW n \in Present' PROVE known[n] = srcRow[n] /\ parent(n)' = parent(n)
    OBVIOUS
  <2>1. known[n] = IF srcParent'[n] = p /\ srcRow'[n] >= first THEN srcRow'[n] + (last - first + 1) ELSE srcRow'[n]
    BY DEF RowsBeforeRemoval, Present
  <2>2. /\ srcParent'[n] = srcParent[n] /\ parent(n)' = parent(n) /\ srcRow[n] \in Nat
        /\ srcParent[n] = p => ~(srcRow[n] \in first .. last)
        /\ srcRow'[n] = IF srcParent[n] = p /\ srcRow[n] > last THEN srcRow[n] - (last - first + 1) ELSE srcRow[n]
    BY ShrunkTree
  <2>3. first \in Nat /\ last \in Nat /\ first <= last
    BY DEF Shrunk
  <2> HIDE DEF known
  <2>4. CASE srcParent[n] = p
    <3>1. srcRow[n] < first \/ srcRow[n] > last
      BY <2>2, <2>3, <2>4
    <3> QED
      BY <2>1, <2>2, <2>3, <2>4, <3>1
  <2> QED
    BY <2>1, <2>2, <2>4
<1>7. p \in DOMAIN e
  <2>1. rowCount(p) > 0
    BY RowCountType DEF Shrunk
  <2>2. hasChildren(p)
    BY <1>5, <2>1, Kids
  <2> QED
    BY <1>1, <2>2 DEF AllMapped
<1>8. /\ Valid(e)' = kept /\ DOMAIN kept = DOMAIN e \cap Present'
      /\ \A n \in DOMAIN kept : kept[n] = e[n]
      /\ IsMap(kept)
  BY DEF Valid, IsMap
<1> HIDE DEF kept
<1>9. Fits(Valid(e), s, RowsBeforeRemoval(p, first, last))'
  <2>1. Fits(Valid(e), s, RowsBeforeRemoval(p, first, last))' <=>
         /\ DOMAIN kept \subseteq Below(RangeOf(s))'
         /\ \A n \in DOMAIN kept : kept[n] = IF n \in RangeOf(s) THEN <<Place(s, n) - 1, Root>> ELSE <<known[n], parent(n)'>>
         /\ \A n \in DOMAIN kept \ RangeOf(s) : parent(n)' \in DOMAIN kept
         /\ IsMap(kept)
    BY <1>8 DEF Fits, EntryAt, IsMap, Place, RangeOf
  <2>2. \A n \in DOMAIN kept : n \in DOMAIN e /\ n \in Present' /\ kept[n] = e[n]
    BY <1>8
  <2> HIDE DEF known
  <2>3. \A n \in DOMAIN kept \ RangeOf(s) : parent(n)' \in DOMAIN kept
    <3> SUFFICES ASSUME NEW n \in DOMAIN kept, n \notin RangeOf(s) PROVE parent(n)' \in DOMAIN kept
      OBVIOUS
    <3>1. parent(n) \in DOMAIN e /\ parent(n)' = parent(n)
      BY <1>1, <1>6, <2>2 DEF Fits
    <3>2. parent(n) \in Present' \cup {Root}
      BY <2>2, ShrunkTree
    <3>3. parent(n) # Root
      BY <1>4, <3>1, NodesAssumption
    <3> QED
      BY <1>8, <3>1, <3>2, <3>3
  <2>4. DOMAIN kept \subseteq Below(RangeOf(s))'
    BY <1>3, <1>4, <2>2
  <2>5. \A n \in DOMAIN kept : kept[n] = IF n \in RangeOf(s) THEN <<Place(s, n) - 1, Root>> ELSE <<known[n], parent(n)'>>
    BY <1>1, <1>6, <2>2 DEF Fits, EntryAt
  <2> QED
    BY <1>8, <2>1, <2>3, <2>4, <2>5
<1>10. AllMapped(Valid(e), s)'
  <2>1. AllMapped(Valid(e), s)' <=> \A n \in Below(RangeOf(s))' : hasChildren(n)' => n \in DOMAIN kept
    BY <1>8 DEF AllMapped, RangeOf
  <2>2. \A n \in Below(RangeOf(s))' : hasChildren(n)' => n \in DOMAIN kept
    <3> SUFFICES ASSUME NEW n \in Below(RangeOf(s))', hasChildren(n)' PROVE n \in DOMAIN kept
      OBVIOUS
    <3>1. n \in Below(RangeOf(s)) /\ n \in Present'
      BY <1>3, <1>4
    <3>2. Children(n)' \subseteq Children(n)
      BY <3>1, ShrunkTree
    <3>3. hasChildren(n)
      BY <3>2 DEF hasChildren
    <3> QED
      BY <1>1, <1>8, <3>1, <3>3 DEF AllMapped
  <2> QED
    BY <2>1, <2>2
<1>11. p \in DOMAIN Valid(e)'
  BY <1>5, <1>7, <1>8
<1>12. TablesAfter(s, p, first, last)' <=>
         \E f : /\ Hold(Tables, s, f)' /\ p \in DOMAIN Valid(f)'
                /\ Fits(Valid(f), s, RowsBeforeRemoval(p, first, last))' /\ AllMapped(Valid(f), s)'
  BY DEF TablesAfter
<1> HIDE DEF known
<1> QED
  BY <1>2, <1>9, <1>10, <1>11, <1>12

LEMMA CutIs ==
    ASSUME NEW c, NEW s, NEW lo, NEW hi, IsCut(c, s, lo, hi)
    PROVE  /\ c \in Seq(Nodes) /\ Len(c) = Len(s) - (hi - lo + 1)
           /\ \A k \in 1 .. Len(s) - (hi - lo + 1) : c[k] = IF k < lo THEN s[k] ELSE s[k + (hi - lo + 1)]
<1>0. /\ s \in Seq(Nodes) /\ Injective(s) /\ Len(s) \in Nat
      /\ lo \in Int /\ hi \in Int /\ 1 <= lo /\ lo <= hi /\ hi <= Len(s)
  BY DEF IsCut
<1> USE <1>0
<1> QED
  BY CutOut DEF IsCut

\* And a listener has not been told that they have gone.
LEMMA ShrinkListed ==
    ASSUME TreeOK, TreeOK', ~isFlat, UNCHANGED m_filterBehavior,
           NEW p, NEW first, NEW last, Shrunk(p, first, last),
           NEW s, RootList(s), RangeOf(s) \subseteq Present', p \in Below(RangeOf(s)),
           view = Shown(s), UNCHANGED view
    PROVE  ViewAfter(s, p, first, last)'
<1>0. isFlat' = isFlat
  BY FlatNext
<1>1. /\ RootList(s)' /\ Below(RangeOf(s))' = Below(RangeOf(s)) \ InRows(p, first, last)
      /\ Present' = Present \ InRows(p, first, last)
  BY ShrunkBelow, ShrunkTree
<1>2. p \in Present /\ p \in Nodes /\ p # Root /\ Below(RangeOf(s)) \subseteq Present /\ p \in Present'
  <2>1. p \in Present /\ p # Root /\ p \in Nodes
    BY NodesAssumption DEF Below, Present
  <2> QED
    BY <2>1, ShrunkTree DEF Below
<1> DEFINE w == ChildrenInOrder(p)'
<1>3. PICK count : count = last - first + 1
  OBVIOUS
<1>4. /\ count \in Nat /\ first \in Nat /\ last \in Nat /\ first <= last /\ last < rowCount(p) /\ rowCount(p) \in Nat
      /\ rowCount(p)' = rowCount(p) - count /\ count = last - first + 1
  BY <1>3, ShrunkTree DEF Shrunk
<1>5. PICK v : v = ChildrenInOrder(p)
  OBVIOUS
<1>6. /\ v \in Seq(Nodes) /\ Len(v) = rowCount(p)
      /\ \A k \in 1 .. rowCount(p) : v[k] \in Children(p) /\ srcRow[v[k]] = k - 1
  BY <1>2, <1>5, Kids
<1>7. w = [k \in 1 .. rowCount(p)' |-> index(k - 1, p)']
  BY DEF ChildrenInOrder
<1>8. \A k \in 1 .. rowCount(p) : ~(k - 1 \in first .. last) =>
         /\ v[k] \in Nodes /\ srcParent'[v[k]] = p
         /\ srcRow'[v[k]] = IF k - 1 > last THEN k - 1 - count ELSE k - 1
  <2> SUFFICES ASSUME NEW k \in 1 .. rowCount(p), ~(k - 1 \in first .. last)
               PROVE  /\ v[k] \in Nodes /\ srcParent'[v[k]] = p
                      /\ srcRow'[v[k]] = IF k - 1 > last THEN k - 1 - count ELSE k - 1
    OBVIOUS
  <2>1. v[k] \in Children(p) /\ srcRow[v[k]] = k - 1
    BY <1>6
  <2>2. v[k] \in Present' /\ srcParent[v[k]] = p
    BY <2>1, ShrunkTree DEF Children
  <2> QED
    BY <1>3, <2>1, <2>2, ShrunkTree DEF Present
<1> DEFINE cut == SubSeq(v, 1, (first + 1) - 1) \o SubSeq(v, (last + 1) + 1, Len(v))
<1>9. /\ cut \in Seq(Nodes) /\ Len(cut) = rowCount(p) - count
      /\ \A k \in 1 .. rowCount(p) - count : cut[k] = IF k < first + 1 THEN v[k] ELSE v[k + count]
  <2>1. PICK lo, hi : lo = first + 1 /\ hi = last + 1
    OBVIOUS
  <2>2. lo \in Int /\ hi \in Int /\ 1 <= lo /\ lo <= hi /\ hi <= Len(v) /\ hi - lo + 1 = count
    BY <1>4, <1>6, <2>1
  <2>3. cut = SubSeq(v, 1, lo - 1) \o SubSeq(v, hi + 1, Len(v))
    BY <2>1
  <2>4. /\ cut \in Seq(Nodes) /\ Len(cut) = Len(v) - (hi - lo + 1)
        /\ \A k \in 1 .. Len(v) - (hi - lo + 1) : cut[k] = IF k < lo THEN v[k] ELSE v[k + (hi - lo + 1)]
    <3>1. Injective(v)
      <4>1. \A j, k \in 1 .. rowCount(p) : v[j] = v[k] => j = k
        <5> SUFFICES ASSUME NEW j \in 1 .. rowCount(p), NEW k \in 1 .. rowCount(p), v[j] = v[k] PROVE j = k
          OBVIOUS
        <5>1. j - 1 = k - 1
          BY <1>6
        <5> QED
          BY <1>4, <5>1
      <4> QED
        BY <1>6, <4>1 DEF Injective
    <3>2. IsCut(cut, v, lo, hi)
      BY <1>6, <2>2, <2>3, <3>1 DEF IsCut
    <3> HIDE DEF cut
    <3> QED
      BY <3>2, CutIs
  <2> HIDE DEF cut
  <2> QED
    BY <1>6, <2>1, <2>2, <2>4
<1> HIDE DEF cut
<1>10. \A k \in 1 .. rowCount(p) - count : cut[k] = w[k]
  <2> SUFFICES ASSUME NEW k \in 1 .. rowCount(p) - count, NEW r, r = k - 1, NEW j, j = IF k < first + 1 THEN k ELSE k + count
               PROVE  cut[k] = w[k]
    OBVIOUS
  <2>1. /\ j \in 1 .. rowCount(p) /\ ~(j - 1 \in first .. last) /\ k \in 1 .. rowCount(p)'
        /\ r = IF j - 1 > last THEN j - 1 - count ELSE j - 1
    BY <1>4
  <2>2. cut[k] = v[j]
    BY <1>9
  <2>3. srcRow'[v[j]] = r /\ v[j] \in Nodes /\ srcParent'[v[j]] = p
    BY <1>8, <2>1
  <2>4. index(r, p)' = v[j]
    BY <1>2, <2>3, NextIs
  <2>5. w[k] = index(r, p)'
    BY <1>7, <2>1
  <2> QED
    BY <2>2, <2>4, <2>5
<1>11. cut = w
  <2>1. w = [k \in 1 .. rowCount(p) - count |-> w[k]]
    BY <1>4, <1>7
  <2>2. cut = [k \in 1 .. rowCount(p) - count |-> cut[k]]
    BY <1>9
  <2> HIDE DEF w
  <2>3. [k \in 1 .. rowCount(p) - count |-> cut[k]] = [k \in 1 .. rowCount(p) - count |-> w[k]]
    BY <1>10
  <2> QED
    BY <2>1, <2>2, <2>3
<1>12. view[p] = v /\ view[Root] = s
  BY <1>2, <1>5, ShownIs
<1>13. /\ RowsUpTo(v, first) = SubSeq(v, 1, first) /\ RowsFrom(v, last + 1) = SubSeq(v, last + 2, Len(v))
       /\ \A n : AmongRows(RowsFrom(RowsUpTo(v, last + 1), first), n) <=> \E k \in first + 1 .. last + 1 : v[k] = n
  <2>1. first \in Int /\ last \in Int /\ 0 <= first /\ last < Len(v)
    BY <1>4, <1>6
  <2> QED
    BY <1>4, <1>6, <2>1, RowsOfList
<1>14. RowsUpTo(v, first) \o RowsFrom(v, last + 1) = w
  <2>1. (first + 1) - 1 = first /\ (last + 1) + 1 = last + 2
    BY <1>4
  <2> HIDE DEF w
  <2> QED
    BY <1>11, <1>13, <2>1 DEF cut
<1>15. \A n \in Present' : ~AmongRows(RowsFrom(RowsUpTo(v, last + 1), first), n)
  <2> SUFFICES ASSUME NEW k \in first + 1 .. last + 1 PROVE v[k] \notin Present'
    BY <1>13
  <2>1. k \in 1 .. rowCount(p) /\ k - 1 \in first .. last
    BY <1>4
  <2>2. v[k] \in Children(p) /\ srcRow[v[k]] \in first .. last
    BY <1>6, <2>1
  <2> QED
    BY <2>2, ShrunkTree
<1>16. \A x \in Present' \ {p} : view[x] = Shown(s)'[x]
  <2> SUFFICES ASSUME NEW x \in Present', x # p PROVE view[x] = Shown(s)'[x]
    OBVIOUS
  <2>1. x # Root /\ x \in Nodes /\ x \in Present /\ x \notin InRows(p, first, last)
    BY <1>1, NodesAssumption DEF Present
  <2>2. view[x] = IF x \in Below(RangeOf(s)) THEN ChildrenInOrder(x) ELSE <<>>
    BY <2>1, ShownIs
  <2>3. Shown(s)'[x] = IF x \in Below(RangeOf(s))' THEN ChildrenInOrder(x)' ELSE <<>>
    BY <1>0, <2>1, ShownNext
  <2>4. ChildrenInOrder(x)' = ChildrenInOrder(x)
    <3>1. Children(x)' = Children(x)
      BY ShrunkTree
    <3>2. \A k \in Children(x) : k \in Present' /\ srcParent[k] # p
      <4> SUFFICES ASSUME NEW k \in Children(x) PROVE k \in Present' /\ srcParent[k] # p
        OBVIOUS
      <4>1. srcParent[k] = x /\ k \in Nodes
        BY DEF Children
      <4>2. srcParent'[k] = x
        BY <3>1 DEF Children
      <4> QED
        BY <2>1, <4>1, <4>2, NodesAssumption DEF Present
    <3>3. \A k \in Children(x) : srcRow'[k] = srcRow[k]
      BY <3>2, ShrunkTree
    <3> QED
      BY <2>1, <3>1, <3>3, KidsSame
  <2> QED
    BY <1>1, <2>1, <2>2, <2>3, <2>4
<1>17. IsTreeView(view)
  BY ShownIs DEF IsTreeView, Shown
<1>18. ViewAfter(s, p, first, last)' <=>
         /\ IsTreeView(view') /\ view'[Root] = s
         /\ RowsUpTo(view'[p], first) \o RowsFrom(view'[p], last + 1) = w
         /\ \A n \in Present' : ~AmongRows(RowsFrom(RowsUpTo(view'[p], last + 1), first), n)
         /\ \A x \in Present' \ {p} : view'[x] = Shown(s)'[x]
  BY DEF ViewAfter, IsTreeView, RowsUpTo, RowsFrom, AmongRows
<1> HIDE DEF w
<1> QED
  BY <1>12, <1>14, <1>15, <1>16, <1>17, <1>18

----------------------------------------------------------------------------
(* What the tables and a listener have at each point of a call.            *)

\* The tables are out of date, and will be made anew.
Aside == \/ phase \in {"resetting", "reset"}
         \/ phase \in {"relayouting", "relayouted"} /\ selection # {}
         \/ emptied

\* The source has changed, and the proxy has not heard of it.
Coming == m_rowsInserted /\ phase = "inserted"
Going == m_rowsRemoved /\ phase = "removed"
InStep == ~Aside /\ ~Coming /\ ~Going /\ phase # "rootAdded"

\* No reset and no layout change is open.
Clear == \A k \in DOMAIN announced : announced[k].kind \in {"insert", "remove"}

Standing(s, p, first, last) ==
    /\ InStep => Fitting(Tables, s)
    /\ InStep /\ Clear => Showing(Tables, s) /\ view = Shown(s)
    /\ Coming => /\ RowsOf(s, p, first, last)
                 /\ TablesBefore(s, p, first, last) /\ ViewBefore(s, p, first, last)
    /\ Going => /\ RootList(s)
                /\ TablesAfter(s, p, first, last) /\ ViewAfter(s, p, first, last)

\* The rows of the source that are announced are those of a row that is shown, and no
\* others are; so are the roots.
Announcing(s, p, first, last) ==
    /\ ~m_recreateFirstChildMappingOnRemoval
    /\ m_rowsInserted =>
          /\ ~isFlat /\ first <= last /\ p \in Below(RangeOf(s))
          /\ announced = <<[kind |-> "insert", parent |-> p, first |-> first, last |-> last]>>
    /\ m_rowsRemoved =>
          /\ ~isFlat /\ first <= last /\ p \in Below(RangeOf(s)) /\ m_proxyRemoveRows = <<first, last>>
          /\ announced = <<[kind |-> "remove", parent |-> p, first |-> first, last |-> last]>>
    /\ (phase = "inserting" /\ ~m_rowsInserted) \/ (phase = "removing" /\ ~m_rowsRemoved) =>
          isFlat \/ p \notin Below(RangeOf(s))
    /\ phase = "rootsLeaving" =>
          announced = <<[kind |-> "remove", parent |-> Root,
                         first |-> RemovalPair[1], last |-> RemovalPair[2]]>>
    /\ phase = "rootComing" =>
          Latest = [kind |-> "insert", parent |-> Root, first |-> NewRootRow, last |-> NewRootRow]

\* The new root is in the list, at row: t is what the tables were without it.
NewlyListed(t, s, row) ==
    /\ s \in Seq(Nodes) /\ Injective(s) /\ row \in 0 .. Len(s)
    /\ NewRoot \in Nodes \ RangeOf(s)
    /\ m_rootIndexList = Seqs!InsertAt(s, row + 1, NewRoot)
    /\ t = [Tables EXCEPT !.roots = s] /\ Fitting(t, s)
    /\ Clear => view = Shown(s)
    /\ RootAnnounced => Latest = [kind |-> "insert", parent |-> Root, first |-> row, last |-> row]

At(s, p, first, last) == s = m_rootIndexList /\ p = op.parent /\ first = op.first /\ last = op.last

RowsInv ==
    /\ ~m_rowsRemoved => ~m_recreateFirstChildMappingOnRemoval
    /\ RootsOnTop => \E s, p, first, last : /\ At(s, p, first, last)
                                            /\ Standing(s, p, first, last) /\ Announcing(s, p, first, last)
    /\ RootsOnTop /\ phase = "rootAdded" => \E t, s, row : NewlyListed(t, s, row)

\* All that is said of the tree stays while it does.
LEMMA SameRows ==
    ASSUME UNCHANGED srcVars
    PROVE  /\ \A q : /\ Children(q)' = Children(q) /\ (hasChildren(q)' <=> hasChildren(q))
                     /\ rowCount(q)' = rowCount(q) /\ ChildrenInOrder(q)' = ChildrenInOrder(q)
                     /\ parent(q)' = parent(q)
           /\ \A r, q : index(r, q)' = index(r, q)
           /\ \A S : Below(S)' = Below(S)
           /\ \A s : RootList(s)' <=> RootList(s)
           /\ \A q, a, b : InRows(q, a, b)' = InRows(q, a, b)
           /\ Present' = Present
<1>1. /\ Present' = Present /\ SelfAndAbove' = SelfAndAbove
      /\ \A n : Above(n)' = Above(n) /\ parent(n)' = parent(n)
      /\ \A q : rowCount(q)' = rowCount(q)
      /\ \A q, a, b : InRows(q, a, b)' = InRows(q, a, b)
  BY SameTree
<1>2. \A q : Children(q)' = Children(q) /\ (hasChildren(q)' <=> hasChildren(q))
  BY DEF srcVars, Children, hasChildren
<1>3. \A r, q : index(r, q)' = index(r, q)
  BY DEF srcVars, Children, index
<1>4. \A S : Below(S)' = Below(S)
  <2> SUFFICES ASSUME NEW S PROVE Below(S)' = Below(S)
    OBVIOUS
  <2>1. Below(S)' = {n \in Present' : SelfAndAbove'[n] \cap S # {}}
    BY DEF Below, LiesWithin
  <2> QED
    BY <1>1, <2>1 DEF Below, LiesWithin
<1>5. \A s : RootList(s)' <=> RootList(s)
  BY <1>1 DEF RootList, Injective, RangeOf
<1>6. \A q : ChildrenInOrder(q)' = ChildrenInOrder(q)
  BY <1>1, <1>3 DEF ChildrenInOrder
<1> QED
  BY <1>1, <1>2, <1>3, <1>4, <1>5, <1>6

LEMMA SameShown ==
    ASSUME UNCHANGED <<srcVars, m_filterBehavior>>, NEW s
    PROVE  Shown(s)' = Shown(s)
<1>1. isFlat' = isFlat
  BY FlatNext
<1>2. \A x \in Nodes \cup {Root} :
         (IF x = Root THEN s ELSE IF ~isFlat' /\ x \in Below(RangeOf(s))' THEN ChildrenInOrder(x)' ELSE <<>>)
         = (IF x = Root THEN s ELSE IF ~isFlat /\ x \in Below(RangeOf(s)) THEN ChildrenInOrder(x) ELSE <<>>)
  <2>1. Below(RangeOf(s))' = Below(RangeOf(s)) /\ \A x : ChildrenInOrder(x)' = ChildrenInOrder(x)
    <3>1. Below(RangeOf(s))' = {n \in Present' : SelfAndAbove'[n] \cap RangeOf(s) # {}}
      BY DEF Below, LiesWithin, RangeOf
    <3> QED
      BY <3>1, SameRows, SameTree DEF Below, LiesWithin
  <2> QED
    BY <1>1, <2>1
<1> QED
  BY <1>2, ShownNext DEF Shown

\* The tables are set to t.
LEMMA SetIs ==
    ASSUME NEW t, IsTables(t), SetTables(t)
    PROVE  /\ \A s, e : Hold(Tables, s, e)' <=> Hold(t, s, e)
           /\ m_rootIndexList' = t.roots
<1>1. \A s, e : Hold(Tables, s, e)' <=> t.roots = s /\ t.parents = e /\ t.firsts = EmptyMapping
  BY DEF SetTables, Tables, Hold, IsTables, EmptyMapping
<1> QED
  BY <1>1 DEF Hold, SetTables

\* What the tables are to have for the roots s stays while the source does.
LEMMA PartsStay ==
    ASSUME UNCHANGED <<srcVars, m_filterBehavior>>, NEW s
    PROVE  /\ isFlat' = isFlat /\ (RootList(s)' <=> RootList(s))
           /\ \A e : Fits(e, s, srcRow) => Fits(e, s, srcRow)'
           /\ \A e : (RootsMapped(e, s) => RootsMapped(e, s)') /\ (AllMapped(e, s) => AllMapped(e, s)')
<1>1. isFlat' = isFlat
  BY FlatNext
<1>2. /\ RootList(s)' <=> RootList(s)
      /\ Below(RangeOf(s))' = Below(RangeOf(s))
      /\ \A q : (hasChildren(q)' <=> hasChildren(q)) /\ parent(q)' = parent(q)
  <2>1. Below(RangeOf(s))' = {n \in Present' : SelfAndAbove'[n] \cap RangeOf(s) # {}}
    BY DEF Below, LiesWithin, RangeOf
  <2> QED
    BY <2>1, SameRows, SameTree DEF Below, LiesWithin
<1>5. \A e : Fits(e, s, srcRow) => Fits(e, s, srcRow)'
  <2> SUFFICES ASSUME NEW e, Fits(e, s, srcRow) PROVE Fits(e, s, srcRow)'
    OBVIOUS
  <2>1. DOMAIN e \subseteq Below(RangeOf(s))'
    BY <1>2 DEF Fits
  <2> QED
    BY <1>2, <2>1, FitsNext DEF srcVars
<1>6. \A e : (RootsMapped(e, s) => RootsMapped(e, s)') /\ (AllMapped(e, s) => AllMapped(e, s)')
  <2> SUFFICES ASSUME NEW e PROVE (RootsMapped(e, s) => RootsMapped(e, s)') /\ (AllMapped(e, s) => AllMapped(e, s)')
    OBVIOUS
  <2>1. RootsMapped(e, s)' <=> \A n \in RangeOf(s) : hasChildren(n)' => n \in DOMAIN e
    BY DEF RootsMapped, RangeOf
  <2>2. AllMapped(e, s)' <=> \A n \in Below(RangeOf(s))' : hasChildren(n)' => n \in DOMAIN e
    BY DEF AllMapped, RangeOf
  <2> QED
    BY <1>2, <2>1, <2>2 DEF RootsMapped, AllMapped
<1> QED
  BY <1>1, <1>2, <1>5, <1>6

LEMMA SetFits ==
    ASSUME NEW t, IsTables(t), SetTables(t), UNCHANGED <<srcVars, m_filterBehavior>>, NEW s
    PROVE  /\ Fitting(t, s) => Fitting(Tables, s)'
           /\ Showing(t, s) => Showing(Tables, s)'
<1>1. /\ isFlat' = isFlat /\ (RootList(s)' <=> RootList(s))
      /\ \A e : Fits(e, s, srcRow) => Fits(e, s, srcRow)'
      /\ \A e : (RootsMapped(e, s) => RootsMapped(e, s)') /\ (AllMapped(e, s) => AllMapped(e, s)')
  BY PartsStay
<1>3. \A e : Hold(Tables, s, e)' <=> Hold(t, s, e)
  BY SetIs
<1>4. Hold(Tables, s, EmptyMapping)' <=> Hold(t, s, EmptyMapping)
  BY <1>3 DEF EmptyMapping
<1>7. Fitting(t, s) => Fitting(Tables, s)'
  <2>1. CASE isFlat
    BY <1>1, <1>4, <2>1 DEF Fitting
  <2>2. CASE ~isFlat
    BY <1>1, <1>3, <2>2 DEF Fitting
  <2> QED
    BY <2>1, <2>2
<1>8. Showing(t, s) => Showing(Tables, s)'
  <2>1. CASE isFlat
    BY <1>1, <1>4, <2>1 DEF Showing
  <2>2. CASE ~isFlat
    BY <1>1, <1>3, <2>2 DEF Showing
  <2> QED
    BY <2>1, <2>2
<1> QED
  BY <1>7, <1>8

\* Other tables, t, that fit the roots s go on doing so.
LEMMA FittingStays ==
    ASSUME UNCHANGED <<srcVars, m_filterBehavior>>, NEW t, NEW s, Fitting(t, s)
    PROVE  Fitting(t, s)'
<1>1. /\ isFlat' = isFlat /\ (RootList(s)' <=> RootList(s))
      /\ \A e : Fits(e, s, srcRow) => Fits(e, s, srcRow)'
      /\ \A e : RootsMapped(e, s) => RootsMapped(e, s)'
  BY PartsStay
<1>2. \A e : Hold(t, s, e)' <=> Hold(t, s, e)
  BY DEF Hold, IsTables, EmptyMapping
<1>3. Hold(t, s, EmptyMapping)' <=> Hold(t, s, EmptyMapping)
  BY DEF Hold, IsTables, EmptyMapping
<1>4. CASE isFlat
  BY <1>1, <1>3, <1>4 DEF Fitting
<1>5. CASE ~isFlat
  BY <1>1, <1>2, <1>5 DEF Fitting
<1> QED
  BY <1>4, <1>5

LEMMA SetTablesSame ==
    ASSUME UNCHANGED tableVars
    PROVE  \E t : t = Tables /\ IsTables(t) /\ SetTables(t)
<1>1. PICK t : t = Tables
  OBVIOUS
<1>2. t.roots = m_rootIndexList /\ t.firsts = m_mappedFirstChildren /\ t.parents = m_mappedParents
  BY <1>1 DEF Tables
<1>3. IsTables(t)
  BY <1>1, TablesAre
<1> QED
  BY <1>1, <1>2, <1>3 DEF tableVars, SetTables

\* What the tables and a listener lack of a change of the source stays while nothing changes.
LEMMA SameBehind ==
    ASSUME UNCHANGED <<srcVars, tableVars, m_filterBehavior, view>>, NEW s, NEW p, NEW first, NEW last
    PROVE  /\ RowsOf(s, p, first, last) => RowsOf(s, p, first, last)'
           /\ RootList(s) => RootList(s)'
           /\ TablesBefore(s, p, first, last) => TablesBefore(s, p, first, last)'
           /\ ViewBefore(s, p, first, last) => ViewBefore(s, p, first, last)'
           /\ TablesAfter(s, p, first, last) => TablesAfter(s, p, first, last)'
           /\ ViewAfter(s, p, first, last) => ViewAfter(s, p, first, last)'
<1>1. /\ \A q : /\ Children(q)' = Children(q) /\ (hasChildren(q)' <=> hasChildren(q))
                /\ rowCount(q)' = rowCount(q) /\ ChildrenInOrder(q)' = ChildrenInOrder(q)
                /\ parent(q)' = parent(q)
      /\ \A r, q : index(r, q)' = index(r, q)
      /\ \A q, a, b : InRows(q, a, b)' = InRows(q, a, b)
      /\ Present' = Present /\ SelfAndAbove' = SelfAndAbove
      /\ RootList(s)' <=> RootList(s)
  BY SameRows, SameTree
<1>2. Below(RangeOf(s))' = Below(RangeOf(s))
  <2>1. Below(RangeOf(s))' = {n \in Present' : SelfAndAbove'[n] \cap RangeOf(s) # {}}
    BY DEF Below, LiesWithin, RangeOf
  <2> QED
    BY <1>1, <2>1 DEF Below, LiesWithin
<1>3. srcParent' = srcParent /\ srcRow' = srcRow /\ view' = view /\ UNCHANGED tableVars
  BY DEF srcVars
<1>4. RowsOf(s, p, first, last) => RowsOf(s, p, first, last)'
  BY <1>1, <1>2 DEF RowsOf
\* The entries.
<1>5. \A e, row : Fits(e, s, row) => Fits(e, s, row)'
  <2> SUFFICES ASSUME NEW e, NEW row, Fits(e, s, row) PROVE Fits(e, s, row)'
    OBVIOUS
  <2>1. Fits(e, s, row)' <=>
         /\ DOMAIN e \subseteq Below(RangeOf(s))'
         /\ \A n \in DOMAIN e : e[n] = IF n \in RangeOf(s) THEN <<Place(s, n) - 1, Root>> ELSE <<row[n], parent(n)'>>
         /\ \A n \in DOMAIN e \ RangeOf(s) : parent(n)' \in DOMAIN e
         /\ IsMap(e)
    BY DEF Fits, EntryAt, IsMap, Place, RangeOf
  <2> QED
    BY <1>1, <1>2, <2>1 DEF Fits, EntryAt
<1>6. TablesBefore(s, p, first, last) => TablesBefore(s, p, first, last)'
  <2> SUFFICES ASSUME NEW e, Hold(Tables, s, e), EntriesBefore(e, s, p, first, last)
               PROVE  Hold(Tables, s, e)' /\ EntriesBefore(e, s, p, first, last)'
    BY DEF TablesBefore
  <2>1. Hold(Tables, s, e)'
    BY <1>3, HoldNext
  <2>2. PICK row : row = RowsBeforeInsert(p, first, last)
    OBVIOUS
  <2>3. RowsBeforeInsert(p, first, last)' = row
    BY <1>3, <2>2 DEF RowsBeforeInsert
  <2>4. Fits(e, s, row)'
    BY <1>5, <2>2 DEF EntriesBefore
  <2>5. Fits(e, s, RowsBeforeInsert(p, first, last))'
    BY <2>3, <2>4 DEF Fits, EntryAt
  <2>6. EntriesBefore(e, s, p, first, last)' <=>
          /\ Fits(e, s, RowsBeforeInsert(p, first, last))'
          /\ DOMAIN e \cap InRows(p, first, last)' = {}
          /\ \A n \in Below(RangeOf(s))' \ (InRows(p, first, last)' \cup {p}) : hasChildren(n)' => n \in DOMAIN e
          /\ rowCount(p)' # last - first + 1 => p \in DOMAIN e
    BY DEF EntriesBefore, RangeOf
  <2> QED
    BY <1>1, <1>2, <2>1, <2>5, <2>6 DEF EntriesBefore
<1>7. TablesAfter(s, p, first, last) => TablesAfter(s, p, first, last)'
  <2> SUFFICES ASSUME NEW e, Hold(Tables, s, e), p \in DOMAIN Valid(e),
                      Fits(Valid(e), s, RowsBeforeRemoval(p, first, last)), AllMapped(Valid(e), s)
               PROVE  /\ Hold(Tables, s, e)' /\ (p \in DOMAIN Valid(e))'
                      /\ Fits(Valid(e), s, RowsBeforeRemoval(p, first, last))' /\ AllMapped(Valid(e), s)'
    BY DEF TablesAfter
  <2>1. Hold(Tables, s, e)'
    BY <1>3, HoldNext
  <2>2. PICK row : row = RowsBeforeRemoval(p, first, last)
    OBVIOUS
  <2>3. RowsBeforeRemoval(p, first, last)' = row
    BY <1>3, <2>2 DEF RowsBeforeRemoval
  <2>4. PICK v : v = Valid(e)
    OBVIOUS
  <2>5. Valid(e)' = v
    BY <1>1, <2>4 DEF Valid
  <2>6. Fits(v, s, row)'
    BY <1>5, <2>2, <2>4
  <2>7. Fits(Valid(e), s, RowsBeforeRemoval(p, first, last))'
    BY <2>3, <2>5, <2>6 DEF Fits, EntryAt, IsMap
  <2>8. AllMapped(Valid(e), s)' <=> \A n \in Below(RangeOf(s))' : hasChildren(n)' => n \in DOMAIN Valid(e)'
    BY DEF AllMapped, RangeOf
  <2> QED
    BY <1>1, <1>2, <2>1, <2>4, <2>5, <2>7, <2>8 DEF AllMapped
<1>8. Shown(s)' = Shown(s)
  BY SameShown
<1>9. ViewBefore(s, p, first, last) => ViewBefore(s, p, first, last)'
  <2>1. ViewBefore(s, p, first, last)' <=>
          /\ IsTreeView(view') /\ view'[Root] = s
          /\ RowsUpTo(view'[p], first) \o [k \in 1 .. last - first + 1 |-> index(first + k - 1, p)']
                 \o RowsFrom(view'[p], first) = ChildrenInOrder(p)'
          /\ \A x \in Nodes \ (InRows(p, first, last)' \cup {p}) : view'[x] = Shown(s)'[x]
    BY DEF ViewBefore, IsTreeView, RowsUpTo, RowsFrom
  <2>2. [k \in 1 .. last - first + 1 |-> index(first + k - 1, p)'] = [k \in 1 .. last - first + 1 |-> index(first + k - 1, p)]
    BY <1>1
  <2> QED
    BY <1>1, <1>3, <1>8, <2>1, <2>2 DEF ViewBefore
<1>10. ViewAfter(s, p, first, last) => ViewAfter(s, p, first, last)'
  <2>1. ViewAfter(s, p, first, last)' <=>
          /\ IsTreeView(view') /\ view'[Root] = s
          /\ RowsUpTo(view'[p], first) \o RowsFrom(view'[p], last + 1) = ChildrenInOrder(p)'
          /\ \A n \in Present' : ~AmongRows(RowsFrom(RowsUpTo(view'[p], last + 1), first), n)
          /\ \A x \in Present' \ {p} : view'[x] = Shown(s)'[x]
    BY DEF ViewAfter, IsTreeView, RowsUpTo, RowsFrom, AmongRows
  <2> QED
    BY <1>1, <1>3, <1>8, <2>1 DEF ViewAfter
<1> QED
  BY <1>1, <1>4, <1>6, <1>7, <1>9, <1>10

\* Without roots there is nothing to be shown.
LEMMA EmptyShowing ==
    ASSUME NEW t
    PROVE  /\ Hold(t, <<>>, EmptyMapping) => Showing(t, <<>>) /\ Fitting(t, <<>>)
           /\ Fitting(t, <<>>) => Hold(t, <<>>, EmptyMapping)
<1>1. RootList(<<>>) /\ RangeOf(<<>>) = {} /\ Below({}) = {}
  BY NoRoots DEF RootList, Below, LiesWithin
<1>2. IsMap(EmptyMapping) /\ DOMAIN EmptyMapping = {}
  BY DEF IsMap, EmptyMapping
<1>3. /\ Fits(EmptyMapping, <<>>, srcRow) /\ AllMapped(EmptyMapping, <<>>) /\ RootsMapped(EmptyMapping, <<>>)
  BY <1>1, <1>2 DEF Fits, AllMapped, RootsMapped
<1>4. ASSUME NEW e, Fits(e, <<>>, srcRow)
      PROVE  e = EmptyMapping
  <2>1. DOMAIN e = {} /\ IsMap(e)
    BY <1>1, <1>4 DEF Fits
  <2> QED
    BY <1>2, <2>1 DEF IsMap, EmptyMapping
<1> QED
  BY <1>1, <1>3, <1>4 DEF Showing, Fitting

LEMMA ShownEmpty == Shown(<<>>) = [x \in Nodes \cup {Root} |-> <<>>]
<1>1. RangeOf(<<>>) = {} /\ Below({}) = {}
  BY NoRoots DEF Below, LiesWithin
<1> QED
  BY <1>1 DEF Shown

\* The next state, from what is in it.
LEMMA RowsInvNext ==
    ASSUME NEW s, NEW p, NEW first, NEW last, At(s, p, first, last)',
           Standing(s, p, first, last)', Announcing(s, p, first, last)', phase' # "rootAdded"
    PROVE  RowsInv'
<1>1. ~m_recreateFirstChildMappingOnRemoval'
  BY DEF Announcing
<1>2. \E q, r, a, b : At(q, r, a, b)' /\ Standing(q, r, a, b)' /\ Announcing(q, r, a, b)'
  OBVIOUS
<1> QED
  BY <1>1, <1>2 DEF RowsInv

\* What the tables and a listener have stays while nothing of it changes.
LEMMA SameStanding ==
    ASSUME UNCHANGED <<srcVars, tableVars, m_filterBehavior, view>>,
           NEW s, NEW p, NEW first, NEW last, Standing(s, p, first, last),
           NEW q, NEW a, NEW b,
           InStep' => InStep, InStep' /\ Clear' => Clear,
           Coming' => Coming /\ q = p /\ a = first /\ b = last,
           Going' => Going /\ q = p /\ a = first /\ b = last
    PROVE  Standing(s, q, a, b)'
<1>1. PICK t : t = Tables /\ IsTables(t) /\ SetTables(t)
  BY SetTablesSame
<1>2. (Fitting(Tables, s) => Fitting(Tables, s)') /\ (Showing(Tables, s) => Showing(Tables, s)')
  BY <1>1, SetFits
<1>3. Shown(s)' = Shown(s) /\ view' = view
  BY SameShown
<1>4. InStep' => Fitting(Tables, s)'
  BY <1>2 DEF Standing
<1>5. InStep' /\ Clear' => Showing(Tables, s)' /\ view' = Shown(s)'
  BY <1>2, <1>3 DEF Standing
<1>6. Coming' => /\ RowsOf(s, q, a, b)'
                 /\ TablesBefore(s, q, a, b)' /\ ViewBefore(s, q, a, b)'
  BY SameBehind DEF Standing
<1>7. Going' => RootList(s)' /\ TablesAfter(s, q, a, b)' /\ ViewAfter(s, q, a, b)'
  BY SameBehind DEF Standing
<1> QED
  BY <1>4, <1>5, <1>6, <1>7 DEF Standing

\* Where the tables and a listener are up to date.
LEMMA StandingInStep ==
    ASSUME NEW s, NEW p, NEW first, NEW last, ~m_rowsInserted', ~m_rowsRemoved',
           ~Aside' => Fitting(Tables, s)',
           ~Aside' /\ Clear' => Showing(Tables, s)' /\ view' = Shown(s)'
    PROVE  Standing(s, p, first, last)'
<1>1. ~Coming' /\ ~Going' /\ (InStep' => ~Aside')
  BY DEF Coming, Going, InStep
<1> QED
  BY <1>1 DEF Standing

\* Where no rows of the source are on their way.
LEMMA NothingAnnounced ==
    ASSUME NEW s, NEW p, NEW first, NEW last, ~m_rowsInserted', ~m_rowsRemoved',
           ~m_recreateFirstChildMappingOnRemoval',
           phase' \notin {"inserting", "removing", "rootsLeaving", "rootComing", "rootAdded"}
    PROVE  Announcing(s, p, first, last)'
BY DEF Announcing

\* The places of the roots that go and of the one that comes stay while what they depend on does.
LEMMA SamePlaces ==
    ASSUME UNCHANGED <<srcVars, m_filterBehavior, selection, tableVars, change,
                       m_pendingSelectionChanges>>, RootsOnTop
    PROVE  RemovalPair' = RemovalPair /\ NewRootRow' = NewRootRow
<1>1. RemovalBlock' = RemovalBlock
  BY RootsSame DEF tableVars
<1>2. RootsOnTop'
  BY FlatNext
<1>3. PICK B : B = RemovalBlock
  OBVIOUS
<1>31. PICK i, j : i = Least(B) /\ j = Greatest(B) + 1
  OBVIOUS
<1>32. \A k : RowsBefore(Tables, k) = k - 1
  BY Zenon DEF RowsBefore, RootsOnTop
<1>33. \A k : RowsBefore(Tables, k)' = k - 1
  BY <1>2, Zenon DEF RowsBefore, RootsOnTop
<1>34. RemovalPair = <<RowsBefore(Tables, i), RowsBefore(Tables, j) - 1>>
  BY <1>3, <1>31, Zenon DEF RemovalPair, BlockPair
<1>35. RemovalPair' = <<RowsBefore(Tables, i)', RowsBefore(Tables, j)' - 1>>
  BY <1>1, <1>3, <1>31 DEF RemovalPair, BlockPair, Least, Greatest, RowsBefore
<1>4. RemovalPair' = RemovalPair
  <2>1. RowsBefore(Tables, i) = i - 1 /\ RowsBefore(Tables, j) = j - 1
    BY <1>32
  <2>2. RowsBefore(Tables, i)' = i - 1 /\ RowsBefore(Tables, j)' = j - 1
    BY <1>33
  <2> QED
    BY <1>34, <1>35, <2>1, <2>2, Zenon
<1>5. /\ SelfAndAbove' = SelfAndAbove /\ \A n : Above(n)' = Above(n)
      /\ m_rootIndexList' = m_rootIndexList /\ srcRow' = srcRow /\ srcParent' = srcParent
  BY SameTree DEF srcVars, tableVars
<1>6. PICK s : s = m_rootIndexList
  OBVIOUS
<1>7. PICK n : n = NewRoot
  OBVIOUS
<1>8. NewRoot' = n
  BY <1>7 DEF NewRoot
<1>9. NewRootRow' = getRootListRow(s, n)'
  BY <1>5, <1>6, <1>8 DEF NewRootRow, getRootListRow, SearchStop, commonParent, OnPath, BranchRow, Least
<1>10. getRootListRow(s, n)' = getRootListRow(s, n)
  <2>1. \A k, x : OnPath(s, k, x)' <=> OnPath(s, k, x)
    BY <1>5 DEF OnPath
  <2>2. commonParent(s, n)' = commonParent(s, n)
    BY <1>5, <2>1 DEF commonParent
  <2>3. \A x, y : BranchRow(x, y)' = BranchRow(x, y)
    BY <1>5 DEF BranchRow
  <2>4. PICK c : c = commonParent(s, n)
    OBVIOUS
  <2>5. PICK F : F = {k \in DOMAIN s : OnPath(s, k, c)}
    OBVIOUS
  <2>6. F = {k \in DOMAIN s : OnPath(s, k, c)'}
    BY <2>1, <2>5
  <2>7. PICK G : G = {k \in Least(F) + 1 .. Len(s) : ~(OnPath(s, k, c) /\ 0 <= BranchRow(c, s[k])
                                                    /\ BranchRow(c, s[k]) < BranchRow(c, n))}
    OBVIOUS
  <2>8. G = {k \in Least(F) + 1 .. Len(s) : ~(OnPath(s, k, c)' /\ 0 <= BranchRow(c, s[k])'
                                             /\ BranchRow(c, s[k])' < BranchRow(c, n)')}
    BY <2>1, <2>3, <2>7
  <2>9. SearchStop(s, n) = IF BranchRow(c, s[Least(F)]) >= BranchRow(c, n) THEN Least(F)
                           ELSE IF G # {} THEN Least(G) ELSE Len(s) + 1
    BY <2>4, <2>5, <2>7, Zenon DEF SearchStop
  <2>10. SearchStop(s, n)' = IF BranchRow(c, s[Least(F)])' >= BranchRow(c, n)' THEN Least(F)
                             ELSE IF G # {} THEN Least(G) ELSE Len(s) + 1
    <3>1. commonParent(s, n)' = c
      BY <2>2, <2>4
    <3> QED
      BY <3>1, <2>6, <2>8 DEF SearchStop, BranchRow, Least, OnPath
  <2>11. SearchStop(s, n)' = SearchStop(s, n)
    BY <2>3, <2>9, <2>10
  <2> QED
    BY <2>11 DEF getRootListRow
<1> QED
  BY <1>4, <1>6, <1>7, <1>9, <1>10 DEF NewRootRow

\* Where a step changes nothing of the tables, of the source and of what a listener has.
LEMMA NothingSeen ==
    ASSUME RootsOnTop, RowsInv, UNCHANGED <<srcVars, tableVars, m_filterBehavior, view>>,
           ~m_rowsInserted', ~m_rowsRemoved',
           m_recreateFirstChildMappingOnRemoval' = m_recreateFirstChildMappingOnRemoval,
           phase' \notin {"inserting", "removing", "rootsLeaving", "rootComing", "rootAdded"},
           ~Aside' => InStep, ~Aside' /\ Clear' => Clear
    PROVE  RowsInv'
<1>1. PICK s, p, first, last : At(s, p, first, last) /\ Standing(s, p, first, last) /\ Announcing(s, p, first, last)
  BY DEF RowsInv
<1>2. PICK q, a, b : q = op'.parent /\ a = op'.first /\ b = op'.last
  OBVIOUS
<1>3. At(s, q, a, b)'
  BY <1>1, <1>2 DEF At, tableVars
<1>4. ~Coming' /\ ~Going' /\ (InStep' => ~Aside')
  BY DEF Coming, Going, InStep
<1>5. Standing(s, q, a, b)'
  BY <1>1, <1>4, SameStanding
<1>6. Announcing(s, q, a, b)'
  BY <1>1, NothingAnnounced DEF Announcing
<1> QED
  BY <1>3, <1>5, <1>6, RowsInvNext

\* The tables are emptied, within a reset or a layout change.
LEMMA EmptyNext ==
    ASSUME Hold(Tables, <<>>, EmptyMapping)'
    PROVE  Showing(Tables, <<>>)' /\ Fitting(Tables, <<>>)'
<1>1. RootList(<<>>)' /\ RangeOf(<<>>) = {} /\ Below({})' = {} /\ Below(RangeOf(<<>>))' = {}
  BY NoRoots DEF RootList, Below, LiesWithin, RangeOf, Injective
<1>2. IsMap(EmptyMapping) /\ DOMAIN EmptyMapping = {}
  BY DEF IsMap, EmptyMapping
<1>3. PICK e : e = EmptyMapping
  OBVIOUS
<1>4. /\ Fits(e, <<>>, srcRow)' /\ AllMapped(e, <<>>)' /\ RootsMapped(e, <<>>)'
  <2>1. DOMAIN e = {} /\ IsMap(e)
    BY <1>2, <1>3
  <2> QED
    BY <1>1, <2>1 DEF Fits, AllMapped, RootsMapped, IsMap, RangeOf
<1>5. Hold(Tables, <<>>, e)'
  BY <1>3 DEF Hold
<1> QED
  BY <1>1, <1>4, <1>5 DEF Showing, Fitting

LEMMA Emptied ==
    ASSUME SetTables(EmptyTables), ~m_rowsInserted', ~m_rowsRemoved', ~m_recreateFirstChildMappingOnRemoval',
           phase' \notin {"inserting", "removing", "rootsLeaving", "rootComing", "rootAdded"}, ~Clear'
    PROVE  RowsInv'
<1>1. PICK q, a, b : q = op'.parent /\ a = op'.first /\ b = op'.last
  OBVIOUS
<1>2. PICK t : t = EmptyTables
  OBVIOUS
<1>3. t.roots = <<>> /\ t.parents = EmptyMapping /\ t.firsts = EmptyMapping
  BY <1>2 DEF EmptyTables
<1>4. m_rootIndexList' = <<>> /\ m_mappedParents' = EmptyMapping /\ m_mappedFirstChildren' = EmptyMapping
  BY <1>2, <1>3 DEF SetTables
<1>5. Hold(Tables, <<>>, EmptyMapping)'
  BY <1>4 DEF Hold, Tables, IsTables, EmptyMapping
<1>6. Fitting(Tables, <<>>)'
  BY <1>5, EmptyNext
<1>7. At(<<>>, q, a, b)'
  BY <1>1, <1>4 DEF At
<1>8. Standing(<<>>, q, a, b)'
  BY <1>6, StandingInStep
<1>9. Announcing(<<>>, q, a, b)'
  BY NothingAnnounced
<1> QED
  BY <1>7, <1>8, <1>9, RowsInvNext

\* A reset, or a layout change, is open.
LEMMA NotClear ==
    ASSUME One("reset") \/ One("layout")
    PROVE  ~Clear
<1>1. PICK a : announced = <<a>> /\ a.kind \in {"reset", "layout"}
  BY DEF One
<1>2. 1 \in DOMAIN announced /\ announced[1].kind \notin {"insert", "remove"}
  BY <1>1
<1> QED
  BY <1>2 DEF Clear

LEMMA NotClearNext ==
    ASSUME One("reset")' \/ One("layout")'
    PROVE  ~Clear'
<1>1. PICK a : announced' = <<a>> /\ a.kind \in {"reset", "layout"}
  BY DEF One
<1>2. 1 \in DOMAIN announced' /\ announced'[1].kind \notin {"insert", "remove"}
  BY <1>1
<1> QED
  BY <1>2 DEF Clear

\* Nor within a reset in which rows are announced.
LEMMA NotClearWithin ==
    /\ \A kind : InReset(kind) => ~Clear
    /\ \A kind : InReset(kind)' => ~Clear'
<1>1. ASSUME NEW kind, InReset(kind) PROVE ~Clear
  <2>1. PICK a, b : announced = <<a, b>> /\ a.kind = "reset"
    BY <1>1 DEF InReset
  <2>2. 1 \in DOMAIN announced /\ announced[1].kind \notin {"insert", "remove"}
    BY <2>1
  <2> QED
    BY <2>2 DEF Clear
<1>2. ASSUME NEW kind, InReset(kind)' PROVE ~Clear'
  <2>1. PICK a, b : announced' = <<a, b>> /\ a.kind = "reset"
    BY <1>2 DEF InReset
  <2>2. 1 \in DOMAIN announced' /\ announced'[1].kind \notin {"insert", "remove"}
    BY <2>1
  <2> QED
    BY <2>2 DEF Clear
<1> QED
  BY <1>1, <1>2

\* Nothing is open, or one insertion or removal.
LEMMA ClearWhen ==
    /\ announced = <<>> => Clear
    /\ One("insert") \/ One("remove") => Clear
<1>1. announced = <<>> => Clear
  BY DEF Clear
<1>2. ASSUME One("insert") \/ One("remove") PROVE Clear
  <2>1. PICK a : announced = <<a>> /\ a.kind \in {"insert", "remove"}
    BY <1>2 DEF One
  <2> QED
    BY <2>1 DEF Clear
<1> QED
  BY <1>1, <1>2

\* The tables are set, and a listener has been told, or is to read all anew.
LEMMA SetNext ==
    ASSUME UNCHANGED <<srcVars, m_filterBehavior>>,
           NEW t, IsTables(t), SetTables(t), NEW s, s = m_rootIndexList', Fitting(t, s),
           Clear' => Showing(t, s) /\ view' = Shown(s),
           ~m_rowsInserted', ~m_rowsRemoved', ~m_recreateFirstChildMappingOnRemoval',
           phase' \notin {"inserting", "removing", "rootsLeaving", "rootComing", "rootAdded"}
    PROVE  RowsInv'
<1>1. PICK q, a, b : q = op'.parent /\ a = op'.first /\ b = op'.last
  OBVIOUS
<1>2. At(s, q, a, b)'
  BY <1>1 DEF At
<1>3. Fitting(Tables, s)' /\ (Showing(t, s) => Showing(Tables, s)')
  BY SetFits
<1>4. Shown(s)' = Shown(s)
  BY SameShown
<1>5. Standing(s, q, a, b)'
  BY <1>3, <1>4, StandingInStep
<1>6. Announcing(s, q, a, b)'
  BY NothingAnnounced
<1> QED
  BY <1>2, <1>5, <1>6, RowsInvNext

\* The tables are out of date.
LEMMA AsideNext ==
    ASSUME Aside', ~m_rowsInserted', ~m_rowsRemoved', ~m_recreateFirstChildMappingOnRemoval',
           phase' \notin {"inserting", "removing", "rootsLeaving", "rootComing", "rootAdded"}
    PROVE  RowsInv'
<1>1. PICK s, q, a, b : s = m_rootIndexList' /\ q = op'.parent /\ a = op'.first /\ b = op'.last
  OBVIOUS
<1>2. At(s, q, a, b)'
  BY <1>1 DEF At
<1>3. Standing(s, q, a, b)'
  BY StandingInStep
<1>4. Announcing(s, q, a, b)'
  BY NothingAnnounced
<1> QED
  BY <1>2, <1>3, <1>4, RowsInvNext

\* Nothing is selected, and the source changes.
LEMMA EmptyStays ==
    ASSUME RootsOnTop, RowsInv, m_rootIndexList = <<>>, InStep, Clear, UNCHANGED <<tableVars, view>>,
           ~m_rowsInserted', ~m_rowsRemoved', ~m_recreateFirstChildMappingOnRemoval',
           phase' \notin {"inserting", "removing", "rootsLeaving", "rootComing", "rootAdded"}
    PROVE  RowsInv'
<1>1. PICK p, first, last : Standing(<<>>, p, first, last)
  BY DEF RowsInv, At
<1>2. Fitting(Tables, <<>>) /\ view = Shown(<<>>)
  BY <1>1 DEF Standing
<1>3. PICK t : t = Tables
  OBVIOUS
<1>4. Hold(Tables, <<>>, EmptyMapping)
  BY <1>2, <1>3, EmptyShowing
<1>5. PICK e : e = EmptyMapping
  OBVIOUS
<1>6. Hold(Tables, <<>>, e)'
  BY <1>4, <1>5, HoldNext
<1>7. Hold(Tables, <<>>, EmptyMapping)'
  BY <1>5, <1>6 DEF Hold, EmptyMapping
<1>8. Showing(Tables, <<>>)' /\ Fitting(Tables, <<>>)'
  BY <1>7, EmptyNext
<1>9. view' = Shown(<<>>)'
  <2>1. Below(RangeOf(<<>>))' = {}
    BY NoRoots DEF Below, LiesWithin, RangeOf
  <2>2. Shown(<<>>)' = [x \in Nodes \cup {Root} |-> <<>>]
    BY <2>1 DEF Shown
  <2> QED
    BY <1>2, <2>2, ShownEmpty
<1>10. PICK q, a, b : q = op'.parent /\ a = op'.first /\ b = op'.last
  OBVIOUS
<1>11. At(<<>>, q, a, b)'
  BY <1>10 DEF At, tableVars
<1>12. Standing(<<>>, q, a, b)'
  BY <1>8, <1>9, StandingInStep
<1>13. Announcing(<<>>, q, a, b)'
  BY NothingAnnounced
<1> QED
  BY <1>11, <1>12, <1>13, RowsInvNext

\* Nothing is a root while nothing is selected.
LEMMA NoneSelected ==
    ASSUME Flow, Scope, RootsInv, phase = "idle", hasSource
    PROVE  m_rootIndexList = <<>> <=> selection = {}
<1>1. RootSet = Target(selection)
  BY DEF RootsInv, Settled, Flow, Earlier
<1>2. RootSet = {} <=> m_rootIndexList = <<>>
  <2>1. m_rootIndexList \in Seq(Nodes)
    BY DEF RootsInv, RootTypes
  <2>2. CASE m_rootIndexList # <<>>
    <3>1. Len(m_rootIndexList) \in Nat \ {0} /\ DOMAIN m_rootIndexList = 1 .. Len(m_rootIndexList)
      BY <2>1, <2>2, EmptySeq
    <3>2. 1 \in DOMAIN m_rootIndexList
      BY <3>1
    <3> QED
      BY <2>2, <3>2 DEF RootSet, RangeOf
  <2> QED
    BY <2>2, NoRoots DEF RootSet
<1> QED
  BY <1>1, <1>2, NothingSelected DEF Scope, TreeOK

----------------------------------------------------------------------------
(* What a selection change, a call of a slot and each handler do to them.    *)

\* The list of roots is one of indexes that are in the source.
LEMMA RootsAreRootSeq ==
    ASSUME RootsInv, OrderInv, phase # "reset", NEW s, s = m_rootIndexList
    PROVE  RootSeq(s)
BY DEF RootsInv, RootTypes, OrderInv, RootSet, RootSeq

\* A listener reads everything again.
LEMMA ReadingSeen ==
    ASSUME RootsOnTop, Flow, Flow', Scope, RootsInv, OrderInv, RowsInv,
           FinishLayout \/ FinishReset
    PROVE  RowsInv'
<1>1. /\ phase \in {"layoutRebuilt", "rebuilt"} /\ ReadsAll
      /\ UNCHANGED <<srcVars, m_filterBehavior>> /\ phase' = "idle"
      /\ m_recreateFirstChildMappingOnRemoval' = m_recreateFirstChildMappingOnRemoval
  BY DEF FinishLayout, FinishReset, Finishes, Enters, selectVars, rowFlags
<1>2. PICK s, p, first, last : At(s, p, first, last) /\ Standing(s, p, first, last) /\ Announcing(s, p, first, last)
  BY DEF RowsInv
<1>3. InStep
  BY <1>1 DEF Flow, InStep, Aside, Coming, Going
<1>4. PICK t : t = Fetched(Tables)
  OBVIOUS
<1>5. PICK u : u = Tables
  OBVIOUS
<1>6. TreeOK
  BY DEF Scope
<1>7. Fitting(u, s)
  BY <1>2, <1>3, <1>5 DEF Standing
<1>8. Showing(t, s)
  BY <1>4, <1>5, <1>6, <1>7, ReadFits
<1>9. Fitting(t, s)
  BY <1>6, <1>8, ShowingFits
<1>10. SameRoots(u, t) /\ IsTables(u) /\ u.roots = m_rootIndexList
  BY <1>4, <1>5, RepairsKeepRoots, TablesAre
<1>11. IsTables(t) /\ SetTables(t) /\ view' = ReadTree(t)
  BY <1>1, <1>4, <1>10 DEF SameRoots, ReadsAll
<1>12. s = m_rootIndexList'
  BY <1>2, <1>10, <1>11 DEF SameRoots, SetTables, At
<1>13. view' = Shown(s)
  BY <1>1, <1>2, <1>6, <1>8, <1>11, RootsAreRootSeq, TreeRead DEF At
<1>14. ~m_rowsInserted' /\ ~m_rowsRemoved'
  BY <1>1 DEF Flow
<1> QED
  BY <1>1, <1>2, <1>8, <1>9, <1>11, <1>12, <1>13, <1>14, SetNext DEF Announcing

LEMMA FittingHas ==
    ASSUME NEW t, NEW s
    PROVE  (Showing(t, s) \/ Fitting(t, s)) => IsTables(t) /\ t.roots = s
BY DEF Showing, Fitting, Hold

\* Where the children are shown, no root is above another.
LEMMA NotAllSelected ==
    ASSUME RootsOnTop, ~isFlat
    PROVE  ~m_includeAllSelected
BY DEF RootsOnTop, isFlat, m_omitChildren, m_startWithChildTrees, m_includeAllSelected

\* What is announced while selectionChanged() runs, outside its own announcements.
LEMMA ChangeAnnounced ==
    ASSUME Flow, SignalInv, phase \in {"changing", "adding"}
    PROVE  /\ ~m_rowsInserted /\ ~m_rowsRemoved
           /\ resume \notin {"rebuilt", "layoutRebuilt"} => announced = <<>>
           /\ resume = "rebuilt" => One("reset")
           /\ resume = "layoutRebuilt" => One("layout")
           /\ m_resetting => resume \in {"rebuilt", "layoutRebuilt"}
<1>1. Where = resume /\ resume \in {"idle", "toRemove", "inserted", "removed", "draining", "layoutRebuilt", "rebuilt"}
  BY DEF Where, ChangePhases, Flow
<1>2. ~m_rowsInserted /\ ~m_rowsRemoved /\ ~emptied
  BY DEF Flow
<1>3. Outer
  BY DEF SignalInv, RootAnnounced
<1>4. m_resetting => resume \in {"rebuilt", "layoutRebuilt"}
  BY <1>1 DEF Flow
<1> QED
  BY <1>1, <1>2, <1>3, <1>4 DEF Outer

\* The block of roots that goes.
LEMMA BlockIs ==
    ASSUME RootsOnTop, RootsInv, RemovalBlock # {}, NEW s, s = m_rootIndexList
    PROVE  \E lo, hi : /\ lo = Least(RemovalBlock) /\ hi = Greatest(RemovalBlock)
                       /\ lo \in Int /\ hi \in Int /\ 1 <= lo /\ lo <= hi /\ hi <= Len(s)
                       /\ RemovalPair = <<lo - 1, hi - 1>>
<1>1. PICK lo, hi : lo = Least(RemovalBlock) /\ hi = Greatest(RemovalBlock)
  OBVIOUS
<1>2. m_rootIndexList \in Seq(Nodes)
  BY DEF RootsInv, RootTypes
<1>3. PICK D : D = DoomedRoots
  OBVIOUS
<1>4. lo \in DOMAIN s /\ hi \in DOMAIN s /\ lo <= hi
  BY <1>1, <1>2, <1>3, RemovalBlockIs, DoomedBlockIs
<1>5. DOMAIN s = 1 .. Len(s) /\ Len(s) \in Nat
  BY <1>2
<1>6. lo \in Int /\ hi \in Int /\ 1 <= lo /\ lo <= hi /\ hi <= Len(s)
  BY <1>4, <1>5
<1>7. PICK j : j = hi + 1
  OBVIOUS
<1>8. RowsBefore(Tables, lo) = lo - 1 /\ RowsBefore(Tables, j) = j - 1
  BY Zenon DEF RowsBefore, RootsOnTop
<1>9. RemovalPair = <<RowsBefore(Tables, lo), RowsBefore(Tables, j) - 1>>
  BY <1>1, <1>7, Zenon DEF RemovalPair, BlockPair
<1>10. RemovalPair = <<lo - 1, hi - 1>>
  <2>1. j - 1 - 1 = hi - 1
    BY <1>6, <1>7
  <2> QED
    BY <1>8, <1>9, <2>1, Zenon
<1> QED
  BY <1>1, <1>6, <1>10

LEMMA RootsLeavingAnnounced ==
    ASSUME RootsOnTop, Flow, Flow', RootsInv, SignalInv, RowsInv, AnnounceRootsLeaving
    PROVE  RowsInv'
<1>1. /\ phase = "changing" /\ phase' = "rootsLeaving" /\ RemovalBlock # {}
      /\ announced' = Append(announced, [kind |-> "remove", parent |-> Root,
                                         first |-> RemovalPair[1], last |-> RemovalPair[2]])
      /\ UNCHANGED <<srcVars, tableVars, m_filterBehavior, selection, view, change,
                     m_pendingSelectionChanges, op, m_recreateFirstChildMappingOnRemoval,
                     m_rowsInserted, m_rowsRemoved>>
  BY DEF AnnounceRootsLeaving, Enters, Begin, selectVars, rowFlags
<1>2. PICK s, p, first, last : At(s, p, first, last) /\ Standing(s, p, first, last) /\ Announcing(s, p, first, last)
  BY DEF RowsInv
<1>3. m_rootIndexList # <<>>
  BY <1>1, DoomedAreRoots DEF RootsInv
<1>4. resume \notin {"rebuilt", "layoutRebuilt"}
  BY <1>1, <1>3 DEF RootsInv
<1>5. announced = <<>> /\ ~m_rowsInserted /\ ~m_rowsRemoved
  BY <1>1, <1>4, ChangeAnnounced
<1>6. At(s, p, first, last)'
  BY <1>1, <1>2 DEF At, tableVars
<1>7. InStep
  BY <1>1 DEF Flow, InStep, Aside, Coming, Going
<1>8. Clear
  BY <1>5, ClearWhen
<1>9. ~Coming' /\ ~Going'
  BY <1>1 DEF Coming, Going
<1>10. Standing(s, p, first, last)'
  BY <1>1, <1>2, <1>7, <1>8, <1>9, SameStanding
<1>11. announced' = <<[kind |-> "remove", parent |-> Root, first |-> RemovalPair[1], last |-> RemovalPair[2]]>>
  BY <1>1, <1>5
<1>12. RemovalPair' = RemovalPair
  BY <1>1, SamePlaces
<1>13. ~m_rowsInserted' /\ ~m_rowsRemoved' /\ ~m_recreateFirstChildMappingOnRemoval'
  BY <1>1, <1>2, <1>5 DEF Announcing
<1>14. Announcing(s, p, first, last)'
  <2>1. announced' = <<[kind |-> "remove", parent |-> Root, first |-> RemovalPair'[1], last |-> RemovalPair'[2]]>>
    BY <1>11, <1>12
  <2> QED
    BY <1>1, <1>13, <2>1 DEF Announcing
<1> QED
  BY <1>1, <1>6, <1>10, <1>14, RowsInvNext

LEMMA RootsLeave ==
    ASSUME RootsOnTop, Flow, Flow', Scope, RootsInv, OrderInv, SignalInv, RowsInv, RemoveRoots
    PROVE  RowsInv'
<1>1. PICK s, p, first, last : At(s, p, first, last) /\ Standing(s, p, first, last) /\ Announcing(s, p, first, last)
  BY DEF RowsInv
<1>2. phase \in {"changing", "rootsLeaving"} /\ RemovalBlock # {} /\ s = m_rootIndexList
  BY <1>1 DEF RemoveRoots, RootsInv, At
<1>3. PICK lo, hi : /\ lo = Least(RemovalBlock) /\ hi = Greatest(RemovalBlock)
                    /\ lo \in Int /\ hi \in Int /\ 1 <= lo /\ lo <= hi /\ hi <= Len(s)
                    /\ RemovalPair = <<lo - 1, hi - 1>>
  BY <1>2, BlockIs
<1>4. PICK pair : pair = RemovalPair
  OBVIOUS
<1>5. PICK c : c = SubSeq(s, 1, lo - 1) \o SubSeq(s, hi + 1, Len(s))
  OBVIOUS
<1>6. PICK k : k = [Tables EXCEPT !.roots = c]
  OBVIOUS
<1>7. PICK u : u = updateInternalTopIndexes(removeParentMappings(k, pair[1], pair[2]), pair[2] + 1,
                                            -(pair[2] - pair[1] + 1))
  OBVIOUS
<1>8. Tables.roots = s
  BY <1>2, TablesAre
<1>9. k = [Tables EXCEPT !.roots = SubSeq(@, 1, Least(RemovalBlock) - 1)
                                   \o SubSeq(@, Greatest(RemovalBlock) + 1, Len(@))]
  BY <1>3, <1>5, <1>6, <1>8
<1>10. /\ pair[1] = lo - 1 /\ pair[2] = hi - 1
       /\ pair[2] - pair[1] + 1 = hi - lo + 1 /\ pair[2] + 1 = hi /\ ~(pair[2] - pair[1] + 1 <= 0)
  BY <1>3, <1>4
<1>11. phase = "rootsLeaving" /\ SetTables(u) /\ EndRemoveRows
  BY <1>4, <1>7, <1>9, <1>10, Zenon DEF RemoveRoots, RootsOnTop
<1>12. u = updateInternalTopIndexes(removeParentMappings(k, lo - 1, hi - 1), hi, -(hi - lo + 1))
  BY <1>7, <1>10
<1>13. announced = <<[kind |-> "remove", parent |-> Root, first |-> lo - 1, last |-> hi - 1]>>
  BY <1>1, <1>4, <1>10, <1>11 DEF Announcing
<1>14. Clear /\ One("remove")
  BY <1>11, ClearWhen DEF SignalInv
<1>15. InStep
  BY <1>11 DEF Flow, InStep, Aside, Coming, Going
<1>16. PICK t : t = Tables
  OBVIOUS
<1>17. Showing(t, s) /\ view = Shown(s)
  BY <1>1, <1>14, <1>15, <1>16 DEF Standing
<1>18. TreeOK
  BY DEF Scope
<1>19. IsCut(c, s, lo, hi)
  BY <1>2, <1>3, <1>5 DEF RootsInv, RootTypes, IsCut
<1>20. Showing(u, c)
  BY <1>6, <1>12, <1>16, <1>17, <1>18, <1>19, CutFits
<1>21. RootSeq(s)
  BY <1>2, RootsAreRootSeq
<1>22. isFlat \/ RootList(s)
  BY <1>17 DEF Showing
<1>23. view' = Shown(c)
  BY <1>11, <1>13, <1>17, <1>18, <1>19, <1>21, <1>22, RootsSeenLeaving
<1>24. IsTables(u) /\ u.roots = c
  BY <1>20, FittingHas
<1>25. c = m_rootIndexList'
  BY <1>11, <1>24 DEF SetTables
<1>26. Fitting(u, c)
  BY <1>18, <1>20, ShowingFits
<1>27. /\ UNCHANGED <<srcVars, m_filterBehavior, m_recreateFirstChildMappingOnRemoval, m_rowsInserted, m_rowsRemoved>>
       /\ phase' = "changing"
  BY DEF RemoveRoots, Enters, selectVars, rowFlags
<1>28. ~m_rowsInserted' /\ ~m_rowsRemoved' /\ ~m_recreateFirstChildMappingOnRemoval'
  BY <1>1, <1>11, <1>27 DEF Flow, Announcing
<1> QED
  BY <1>11, <1>20, <1>23, <1>24, <1>25, <1>26, <1>27, <1>28, SetNext

\* Where the roots are the rows on top, a root has one row.
LEMMA OneRowOnTop ==
    ASSUME RootsOnTop
    PROVE  RowsOfRoot(NewRoot) # 0
<1>1. RowsOfRoot(NewRoot) = IF m_startWithChildTrees THEN rowCount(NewRoot) ELSE 1
  BY DEF RowsOfRoot
<1>2. ~m_startWithChildTrees
  BY DEF RootsOnTop
<1>3. RowsOfRoot(NewRoot) = 1
  BY <1>1, <1>2
<1> QED
  BY <1>3

\* The new root and its place.
LEMMA NewRootIs ==
    ASSUME RootsOnTop, RootsInv, Scope, change.add # <<>>,
           phase \in {"adding", "rootComing"} \/ RootsRemoved
    PROVE  /\ Target(selection) = RootSet \cup Added /\ RootSet \cap Added = {}
           /\ NewRoot \in Present /\ NewRoot \notin RootSet
           /\ NewRootRow \in 0 .. Len(m_rootIndexList)
<1>0. /\ m_rootIndexList \in Seq(Nodes) /\ change.add \in Seq(Nodes)
      /\ TreeOK /\ selection \subseteq Present
  BY DEF RootsInv, RootTypes, Scope
<1>1. Target(selection) = RootSet \cup Added /\ RootSet \cap Added = {}
  BY RootsRemain DEF RootsInv
<1>2. NewRoot \in Added
  <2>1. Len(change.add) \in Nat \ {0} /\ DOMAIN change.add = 1 .. Len(change.add)
    BY <1>0, EmptySeq
  <2>2. NewRoot = change.add[1] /\ 1 \in DOMAIN change.add
    BY <1>0, <2>1 DEF NewRoot
  <2> QED
    BY <2>2 DEF Added, RangeOf
<1>3. Target(selection) \subseteq Present
  BY <1>0 DEF Target, getRootRanges
<1>4. NewRoot \in Present /\ RootSet \subseteq Present /\ NewRoot \notin RootSet
  BY <1>1, <1>2, <1>3
<1>5. NewRootRow \in 0 .. Len(m_rootIndexList)
  <2>1. CASE m_rootIndexList = <<>>
    BY <2>1 DEF NewRootRow, getRootListRow
  <2>2. CASE m_rootIndexList # <<>>
    <3>1. SearchStop(m_rootIndexList, NewRoot) \in 1 .. Len(m_rootIndexList) + 1
      BY <1>0, <1>4, <2>2, SearchInRange DEF TreeOK, RootSet
    <3>2. NewRootRow = SearchStop(m_rootIndexList, NewRoot) - 1
      BY <2>2 DEF NewRootRow, getRootListRow
    <3>3. Len(m_rootIndexList) \in Nat
      BY <1>0
    <3> QED
      BY <3>1, <3>2, <3>3
  <2> QED
    BY <2>1, <2>2
<1> QED
  BY <1>1, <1>4, <1>5

LEMMA AnnouncedRoot ==
    ASSUME RootsOnTop, Flow, Flow', Scope, RootsInv, SignalInv, SignalInv', RowsInv, AnnounceRoot
    PROVE  RowsInv'
<1>0. Inserting /\ change.add # <<>> /\ RootsRemoved /\ ~m_resetting
  BY DEF AnnounceRoot, Inserting
<1>1. NewRootRow \in 0 .. Len(m_rootIndexList)
  BY <1>0, NewRootIs
<1>2. PICK at : at = NewRootRow
  OBVIOUS
<1>3. at \in Int
  <2>1. Len(m_rootIndexList) \in Nat
    BY DEF RootsInv, RootTypes
  <2> QED
    BY <1>1, <1>2, <2>1
<1>4. PICK count, start : count = RowsOfRoot(NewRoot) /\ start = getTargetRow(Tables, NewRootRow)
  OBVIOUS
<1>5. count = 1 /\ start = at
  BY <1>2, <1>4, Zenon DEF RowsOfRoot, getTargetRow, RootsOnTop
<1>6. start + count - 1 = at
  BY <1>3, <1>5
<1>7. PICK rec : rec = [kind |-> "insert", parent |-> Root, first |-> at, last |-> at]
  OBVIOUS
<1>8. announced' = Append(announced, [kind |-> "insert", parent |-> Root, first |-> start, last |-> start + count - 1])
  BY <1>4, Zenon DEF AnnounceRoot, Begin
<1>9. announced' = Append(announced, rec)
  BY <1>5, <1>6, <1>7, <1>8
<1>10. /\ phase \in {"changing", "adding"} /\ phase' = "rootComing" /\ resume' = resume
       /\ UNCHANGED <<srcVars, tableVars, m_filterBehavior, selection, view, change,
                      m_pendingSelectionChanges, op, m_recreateFirstChildMappingOnRemoval,
                      m_rowsInserted, m_rowsRemoved>>
  BY <1>0 DEF AnnounceRoot, Enters, selectVars, rowFlags, RootsRemoved
<1>11. PICK s, p, first, last : At(s, p, first, last) /\ Standing(s, p, first, last) /\ Announcing(s, p, first, last)
  BY DEF RowsInv
<1>12. /\ ~m_rowsInserted /\ ~m_rowsRemoved
       /\ announced = <<>> \/ (resume = "rebuilt" /\ One("reset"))
  BY <1>0, <1>10, ChangeAnnounced DEF Flow, Where, ChangePhases
<1>13. Latest' = rec /\ (Clear' => Clear)
  <2>1. CASE announced = <<>>
    <3>1. announced' = <<rec>>
      BY <1>9, <2>1
    <3> QED
      BY <2>1, <3>1, ClearWhen DEF Latest
  <2>2. CASE resume = "rebuilt" /\ One("reset")
    <3>1. PICK a : announced = <<a>>
      BY <2>2 DEF One
    <3>2. announced' = <<a, rec>>
      BY <1>9, <3>1, AppendToOne
    <3>3. InReset("insert")'
      BY <1>10, <2>2 DEF SignalInv, RootAnnounced
    <3> QED
      BY <3>2, <3>3, NotClearWithin DEF Latest
  <2> QED
    BY <1>12, <2>1, <2>2
<1>14. NewRootRow' = NewRootRow
  BY <1>10, SamePlaces
<1>15. At(s, p, first, last)'
  BY <1>10, <1>11 DEF At, tableVars
<1>16. InStep /\ ~Coming' /\ ~Going'
  BY <1>10 DEF Flow, InStep, Aside, Coming, Going
<1>17. Standing(s, p, first, last)'
  BY <1>10, <1>11, <1>13, <1>16, SameStanding
<1>18. Announcing(s, p, first, last)'
  <2>1. Latest' = [kind |-> "insert", parent |-> Root, first |-> NewRootRow', last |-> NewRootRow']
    BY <1>2, <1>7, <1>13, <1>14
  <2>2. ~m_rowsInserted' /\ ~m_rowsRemoved' /\ ~m_recreateFirstChildMappingOnRemoval'
    BY <1>10, <1>11, <1>12 DEF Announcing
  <2> QED
    BY <1>10, <2>1, <2>2 DEF Announcing
<1> QED
  BY <1>10, <1>15, <1>17, <1>18, RowsInvNext

\* The list with a new root is again one of roots.
LEMMA RootsWithNew ==
    ASSUME Scope, NEW w \in Seq(Nodes), Injective(w), RangeOf(w) \subseteq Target(selection), ~m_includeAllSelected
    PROVE  RootList(w)
BY DEF Scope, Target, getRootRanges, RootList

\* What a step may do to the filter behaviour, and to the notes about rows that go.
LEMMA StepKeeps ==
    ASSUME [Next]_vars
    PROVE  /\ m_filterBehavior' = m_filterBehavior \/ \E behavior \in Behaviors : SetFilterBehavior(behavior)
           /\ \/ UNCHANGED <<m_rowsRemoved, m_recreateFirstChildMappingOnRemoval>>
              \/ m_rowsRemoved'
              \/ ~m_recreateFirstChildMappingOnRemoval'
<1> USE DEF selectVars, rowFlags
<1>1. CASE Begins
  <2>1. CASE SetSourceModel \/ \E S \in SUBSET Present : Select(S) \/ SetSelectionModel(S)
    BY <2>1 DEF SetSourceModel, StartsOver, Select, Selects, SetSelectionModel
  <2>2. ASSUME NEW p, NEW first, NEW last, AboutToInsert(p, first, last) \/ AboutToRemove(p, first, last)
        PROVE  UNCHANGED <<m_filterBehavior, m_rowsRemoved, m_recreateFirstChildMappingOnRemoval>>
    BY <2>2 DEF AboutToInsert, AboutToRemove
  <2>3. ASSUME NEW p, NEW first, NEW last, NEW q, NEW dest, AboutToMove(p, first, last, q, dest) \/ AboutToRelayout(p)
        PROVE  UNCHANGED <<m_filterBehavior, m_rowsRemoved, m_recreateFirstChildMappingOnRemoval>>
    BY <2>3 DEF AboutToMove, AboutToRelayout, LayoutAboutToBeChanged
  <2>4. CASE AboutToReset
    BY <2>4 DEF AboutToReset
  <2>5. CASE \E behavior \in Behaviors : SetFilterBehavior(behavior)
    BY <2>5 DEF SetFilterBehavior, StartsOver
  <2> QED
    BY <1>1, <2>1, <2>2, <2>3, <2>4, <2>5 DEF Begins
<1>2. CASE Interrupts
  BY <1>2 DEF Interrupts, ClearRelayouting, SelectInserting, SelectRemoving, SelectResetting, Selects
<1>3. CASE HandleRowsAboutToBeRemoved
  BY <1>3 DEF HandleRowsAboutToBeRemoved
<1>4. CASE HandleRowsRemoved
  BY <1>4 DEF HandleRowsRemoved
<1>5. CASE HandleRowsInserted
  BY <1>5 DEF HandleRowsInserted
<1>6. CASE AnnounceRootsLeaving \/ RemoveRoots \/ AnnounceRoot \/ ListRoot \/ InsertRoot \/ FinishChange
  BY <1>6 DEF AnnounceRootsLeaving, RemoveRoots, AnnounceRoot, ListRoot, InsertRoot, FinishChange
<1>7. CASE (\E f \in Forests : SourceInserts(f) \/ SourceResets(f)) \/ SourceRemoves \/ SourceRelayouts
  BY <1>7 DEF SourceInserts, SourceResets, SourceRemoves, SourceRelayouts
<1>8. CASE DrainPending \/ FinishInsert \/ HandleLayoutChanged \/ FinishLayout \/ HandleModelReset \/ Rebuild \/ FinishReset
  BY <1>8 DEF DrainPending, FinishInsert, HandleLayoutChanged, FinishLayout, HandleModelReset, Rebuild, FinishReset
<1>9. CASE UNCHANGED vars
  BY <1>9 DEF vars
<1> QED
  BY <1>1, <1>2, <1>3, <1>4, <1>5, <1>6, <1>7, <1>8, <1>9 DEF Next, Continues

\* The flags where no rows are on their way.
LEMMA NoneOnTheirWay ==
    ASSUME Flow', RowsInv, [Next]_vars, phase' \notin {"inserting", "inserted", "removing", "removed"}
    PROVE  ~m_rowsInserted' /\ ~m_rowsRemoved' /\ ~m_recreateFirstChildMappingOnRemoval'
<1>1. ~m_rowsInserted' /\ ~m_rowsRemoved'
  BY DEF Flow
<1> QED
  BY <1>1, StepKeeps DEF RowsInv

\* The new root is put in the list.
LEMMA RootIsListed ==
    ASSUME RootsOnTop, Flow, Flow', Scope, RootsInv, RowsInv, [Next]_vars, ListRoot
    PROVE  RowsInv'
<1>1. PICK s, p, first, last : At(s, p, first, last) /\ Standing(s, p, first, last) /\ Announcing(s, p, first, last)
  BY DEF RowsInv
<1>2. /\ phase \in {"changing", "adding", "rootComing"} /\ phase' = "rootAdded" /\ change.add # <<>>
      /\ phase = "rootComing" \/ RootsRemoved
      /\ UNCHANGED <<srcVars, m_filterBehavior, m_mappedFirstChildren, m_mappedParents, m_resetting,
                     announced, view, change, op, resume>>
  BY DEF ListRoot, Inserting, RootsRemoved, Enters, selectVars, resetFlags, RootsInv
<1>3. s = m_rootIndexList /\ InStep
  BY <1>1, <1>2 DEF At, InStep, Aside, Coming, Going, Flow
<1>4. PICK row : row = NewRootRow
  OBVIOUS
<1>5. /\ NewRoot \in Present /\ NewRoot \notin RangeOf(s) /\ row \in 0 .. Len(s)
      /\ s \in Seq(Nodes) /\ Injective(s) /\ NewRoot' = NewRoot
  <2>1. NewRoot' = NewRoot
    BY <1>2 DEF NewRoot
  <2>2. s \in Seq(Nodes) /\ Injective(s)
    BY <1>3 DEF RootsInv, RootTypes, Injective
  <2> QED
    BY <1>2, <1>3, <1>4, <2>1, <2>2, NewRootIs DEF RootSet, RangeOf
<1>6. PICK t : t = Tables
  OBVIOUS
<1>7. Fitting(t, s)'
  <2>1. Fitting(t, s)
    BY <1>1, <1>3, <1>6 DEF Standing
  <2> QED
    BY <1>2, <2>1, FittingStays
<1>8. t = [Tables EXCEPT !.roots = s]'
  BY <1>2, <1>3, <1>6 DEF Tables
<1>9. m_rootIndexList' = Seqs!InsertAt(s, row + 1, NewRoot')
  BY <1>3, <1>4, <1>5 DEF ListRoot
<1>10. Clear' => view' = Shown(s)'
  <2>1. Clear' => Clear
    BY <1>2 DEF Clear
  <2>2. Shown(s)' = Shown(s)
    BY <1>2, SameShown
  <2> QED
    BY <1>1, <1>2, <1>3, <2>1, <2>2 DEF Standing
<1>11. RootAnnounced' => Latest' = [kind |-> "insert", parent |-> Root, first |-> row, last |-> row]
  <2>1. RootAnnounced' => ~m_resetting
    BY <1>2 DEF RootAnnounced
  <2>2. RowsOfRoot(NewRoot) # 0
    BY OneRowOnTop
  <2>3. ~m_resetting => phase = "rootComing"
    BY <2>2 DEF ListRoot
  <2>4. Latest' = Latest
    BY <1>2 DEF Latest
  <2> QED
    BY <1>1, <1>4, <2>1, <2>3, <2>4 DEF Announcing
<1>12. NewlyListed(t, s, row)'
  <2>1. (NewRoot \in Nodes \ RangeOf(s))'
    BY <1>5 DEF Present, RangeOf
  <2>2. (s \in Seq(Nodes) /\ Injective(s) /\ row \in 0 .. Len(s))'
    BY <1>5 DEF Injective
  <2> QED
    BY <1>7, <1>8, <1>9, <1>10, <1>11, <2>1, <2>2 DEF NewlyListed
<1>13. ~m_rowsInserted' /\ ~m_rowsRemoved' /\ ~m_recreateFirstChildMappingOnRemoval'
  BY <1>2, NoneOnTheirWay
<1>14. PICK w, q, a, b : w = m_rootIndexList' /\ q = op'.parent /\ a = op'.first /\ b = op'.last
  OBVIOUS
<1>15. At(w, q, a, b)' /\ Announcing(w, q, a, b)' /\ Standing(w, q, a, b)'
  <2>1. ~Coming' /\ ~Going' /\ ~InStep'
    BY <1>2 DEF Coming, Going, InStep
  <2> QED
    BY <1>2, <1>13, <1>14, <2>1 DEF At, Announcing, Standing
<1> QED
  BY <1>12, <1>13, <1>15 DEF RowsInv

\* Where the new root has not been announced, a reset or a layout change is open.
LEMMA AnnouncedOrNot ==
    ASSUME RootsOnTop, Flow, SignalInv, phase = "rootAdded"
    PROVE  IF m_resetting THEN One("reset") \/ One("layout")
           ELSE /\ RootAnnounced /\ resume # "layoutRebuilt"
                /\ IF resume = "rebuilt" THEN InReset("insert") ELSE One("insert")
<1>1. RowsOfRoot(NewRoot) # 0
  BY OneRowOnTop
<1>2. CASE ~m_resetting
  BY <1>1, <1>2 DEF RootAnnounced, SignalInv
<1>3. CASE m_resetting
  <2>1. Outer
    BY <1>3 DEF RootAnnounced, SignalInv
  <2>2. Where = resume /\ resume \in {"rebuilt", "layoutRebuilt"}
    BY <1>3 DEF Where, ChangePhases, Flow
  <2> QED
    BY <1>3, <2>1, <2>2 DEF Outer
<1> QED
  BY <1>2, <1>3

\* Its rows follow.
LEMMA RootComes ==
    ASSUME RootsOnTop, Flow, Flow', Scope, RootsInv, OrderInv, SignalInv, SignalInv',
           RowsInv, [Next]_vars, InsertRoot
    PROVE  RowsInv'
<1>1. /\ phase = "rootAdded" /\ phase' = "adding" /\ change.add # <<>>
      /\ UNCHANGED <<srcVars, m_filterBehavior, selection, resume>>
  BY DEF InsertRoot, selectVars, RootsInv
<1>2. PICK old, s, row : NewlyListed(old, s, row)
  BY <1>1 DEF RowsInv
<1>3. PICK n : n = NewRoot
  OBVIOUS
<1>4. PICK w : w = Seqs!InsertAt(s, row + 1, n)
  OBVIOUS
<1>5. /\ s \in Seq(Nodes) /\ Injective(s) /\ row \in 0 .. Len(s) /\ n \in Nodes /\ n \notin RangeOf(s)
      /\ m_rootIndexList = w
  BY <1>2, <1>3, <1>4 DEF NewlyListed
<1>6. /\ w \in Seq(Nodes) /\ Injective(w) /\ RangeOf(w) = RangeOf(s) \cup {n}
  BY <1>4, <1>5, PlaceAfterInsert
<1>7. RootSet = RangeOf(w)
  BY <1>5 DEF RootSet
<1>8. TreeOK /\ RootSeq(w) /\ RootSeq(s) /\ n \in Present
  <2>1. RootSeq(w)
    BY <1>1, <1>5, RootsAreRootSeq
  <2>2. RangeOf(w) \subseteq Present
    BY <2>1 DEF RootSeq
  <2> QED
    BY <1>5, <1>6, <2>1, <2>2 DEF RootSeq, Scope
<1>9. isFlat \/ RootList(w)
  <2>1. RangeOf(w) \subseteq Target(selection)
    BY <1>1, <1>7 DEF RootsInv
  <2> QED
    BY <1>6, <2>1, NotAllSelected, RootsWithNew
<1>10. PICK t : t = WithRoot(n)
  OBVIOUS
<1>11. Fitting(t, w)
  <2>1. Fitting(old, s) /\ old = [Tables EXCEPT !.roots = s]
    BY <1>2 DEF NewlyListed
  <2>2. Tables = [old EXCEPT !.roots = w]
    <3>1. Tables = [roots |-> w, firsts |-> m_mappedFirstChildren, parents |-> m_mappedParents]
      BY <1>5 DEF Tables
    <3>2. old = [roots |-> s, firsts |-> m_mappedFirstChildren, parents |-> m_mappedParents]
      BY <2>1 DEF Tables
    <3> QED
      BY <3>1, <3>2
  <2> QED
    BY <1>4, <1>5, <1>8, <1>9, <1>10, <2>1, <2>2, RootFits
<1>12. PICK f : f = Fetched(t)
  OBVIOUS
<1>13. Showing(f, w)
  BY <1>8, <1>11, <1>12, ReadFits
<1>14. Fitting(f, w) /\ IsTables(f) /\ IsTables(t)
  BY <1>8, <1>11, <1>13, ShowingFits, FittingHas
<1>15. ~m_rowsInserted' /\ ~m_rowsRemoved' /\ ~m_recreateFirstChildMappingOnRemoval'
  BY <1>1, NoneOnTheirWay
<1>16. RowsOfRoot(NewRoot) # 0
  BY OneRowOnTop
<1>17. t.roots = w /\ f.roots = w
  BY <1>11, <1>14, FittingHas
<1>18. CASE ~m_resetting
  <2>1. SetTables(f) /\ EndInsertRows(f)
    BY <1>3, <1>10, <1>12, <1>16, <1>18 DEF InsertRoot
  <2>2. /\ RootAnnounced /\ resume # "layoutRebuilt"
        /\ IF resume = "rebuilt" THEN InReset("insert") ELSE One("insert")
    BY <1>1, <1>18, AnnouncedOrNot
  <2>3. Clear' => view' = Shown(w)
    <3>1. CASE resume = "rebuilt"
      <4>1. One("reset")'
        BY <1>1, <3>1 DEF SignalInv, RootAnnounced, Outer, Where, ChangePhases
      <4> QED
        BY <4>1, NotClearNext
    <3>2. CASE resume # "rebuilt"
      <4>1. One("insert")
        BY <2>2, <3>2
      <4>2. PICK a : announced = <<a>>
        BY <4>1 DEF One
      <4>3. Latest = a
        BY <4>2 DEF Latest
      <4>4. announced = <<[kind |-> "insert", parent |-> Root, first |-> row, last |-> row]>>
        BY <1>2, <2>2, <4>2, <4>3 DEF NewlyListed
      <4>5. view = Shown(s)
        BY <1>2, <4>1, ClearWhen DEF NewlyListed
      <4> QED
        BY <1>4, <1>5, <1>8, <1>13, <2>1, <4>4, <4>5, RootSeen
    <3> QED
      BY <3>1, <3>2
  <2>4. m_rootIndexList' = w
    BY <1>17, <2>1 DEF SetTables
  <2> QED
    BY <1>1, <1>13, <1>14, <1>15, <2>1, <2>3, <2>4, SetNext
<1>19. CASE m_resetting
  <2>1. SetTables(t) /\ announced' = announced
    BY <1>3, <1>10, <1>19 DEF InsertRoot
  <2>2. One("reset") \/ One("layout")
    BY <1>1, <1>19, AnnouncedOrNot
  <2>3. ~Clear'
    BY <2>1, <2>2, NotClear DEF Clear
  <2>4. m_rootIndexList' = w
    BY <1>17, <2>1 DEF SetTables
  <2> QED
    BY <1>1, <1>11, <1>14, <1>15, <2>1, <2>3, <2>4, SetNext
<1> QED
  BY <1>18, <1>19

\* Tables that show the roots fit them, in the next state as well.
LEMMA ShowingFitsNext ==
    ASSUME TreeOK', NEW s, Showing(Tables, s)'
    PROVE  Fitting(Tables, s)'
<1>1. CASE isFlat'
  BY <1>1 DEF Showing, Fitting
<1>2. CASE ~isFlat'
  <2>1. RootList(s)' /\ \E e : Hold(Tables, s, e)' /\ Fits(e, s, srcRow)' /\ AllMapped(e, s)'
    BY <1>2 DEF Showing
  <2>2. RangeOf(s) \subseteq Below(RangeOf(s))'
    <3>1. RangeOf(s) \subseteq Present'
      BY <2>1 DEF RootList, RangeOf
    <3>2. \A n \in Present' : n \in SelfAndAbove'[n]
      <4>1. SelfAndAbove' = Ancestors(srcParent') /\ Present' = In(srcParent')
        BY PresentIs DEF SelfAndAbove, Ancestors, Climb, Indexes
      <4>2. IsTree(srcParent')
        BY DEF TreeOK, IsTree
      <4> QED
        BY <4>1, <4>2, AncestorsOfOne
    <3>3. Below(RangeOf(s))' = {n \in Present' : SelfAndAbove'[n] \cap RangeOf(s) # {}}
      BY DEF Below, LiesWithin, RangeOf
    <3> QED
      BY <3>1, <3>2, <3>3
  <2>3. ASSUME NEW e, AllMapped(e, s)' PROVE RootsMapped(e, s)'
    <3>1. \A n \in Below(RangeOf(s))' : hasChildren(n)' => n \in DOMAIN e
      BY <2>3 DEF AllMapped, RangeOf
    <3>2. RootsMapped(e, s)' <=> \A n \in RangeOf(s) : hasChildren(n)' => n \in DOMAIN e
      BY DEF RootsMapped, RangeOf
    <3> QED
      BY <2>2, <3>1, <3>2
  <2> QED
    BY <1>2, <2>1, <2>3 DEF Fitting
<1> QED
  BY <1>1, <1>2

\* An index of the source is mapped when it is shown.
LEMMA ShownTest ==
    ASSUME RootsOnTop, TreeOK, ~isFlat, NEW t, NEW s, Showing(t, s), NEW n \in Present
    PROVE  /\ mapFromSource(t, n) = IF n \in Below(RangeOf(s)) THEN EntryAt(s, srcRow, n) ELSE NoIndex
           /\ mapFromSource(t, n) # NoIndex <=> n \in Below(RangeOf(s))
<1>1. PICK e : Hold(t, s, e) /\ Fits(e, s, srcRow) /\ AllMapped(e, s) /\ RootList(s)
  BY DEF Showing
<1>2. n \in Below(RangeOf(s)) \ RangeOf(s) => parent(n) \in DOMAIN e
  <2>1. n \in Below(RangeOf(s)) \ RangeOf(s) => parent(n) \in Below(RangeOf(s)) /\ parent(n) = srcParent[n]
    BY <1>1, BelowIs
  <2>2. \A q : q = srcParent[n] => hasChildren(q)
    BY DEF hasChildren, Children, Present
  <2> QED
    BY <1>1, <2>1, <2>2 DEF AllMapped
<1>3. mapFromSource(t, n) = IF n \in Below(RangeOf(s)) THEN EntryAt(s, srcRow, n) ELSE NoIndex
  BY <1>1, <1>2, MapsShown
<1>4. n \in Below(RangeOf(s)) => EntryAt(s, srcRow, n) # NoIndex
  <2>1. RowsApart(srcRow, Present)
    BY RowsNow
  <2>2. Below(RangeOf(s)) \subseteq Present
    BY DEF Below
  <2>3. RowsApart(srcRow, Below(RangeOf(s)))
    BY <2>1, <2>2 DEF RowsApart
  <2> QED
    BY <1>1, <2>3, EntriesApart
<1> QED
  BY <1>3, <1>4

\* Nothing is below no roots.
LEMMA SomeRoot ==
    ASSUME NEW s, NEW n, n \in Below(RangeOf(s))
    PROVE  s # <<>>
BY NoRoots DEF Below, LiesWithin

\* Which rows that are to come are announced.
LEMMA InsertAnnounced ==
    ASSUME RootsOnTop, Flow, Scope, RootsInv, phase = "idle", hasSource,
           NEW s, s = m_rootIndexList, Showing(Tables, s), RootSeq(s),
           NEW p \in Present \cup {Root}, NEW first \in Nat, NEW last \in Nat
    PROVE  /\ AnnouncesInsert(p, first, last) <=> ~isFlat /\ p \in Below(RangeOf(s))
           /\ AnnouncesInsert(p, first, last) => insertPair(p, first, last) = <<first, last>>
<1>1. isFlat <=> m_omitChildren
  BY DEF isFlat, RootsOnTop, m_startWithChildTrees
<1>2. insertPair(p, first, last) = IF IsShown(p) THEN <<first, last>> ELSE NoPair
  BY Zenon DEF insertPair, RootsOnTop
<1>3. <<first, last>> # NoPair
  BY DEF NoPair, NoRow
<1>4. AnnouncesInsert(p, first, last) <=> selection # {} /\ ~isFlat /\ p # Root /\ IsShown(p)
  BY <1>1, <1>2, <1>3 DEF AnnouncesInsert
<1>5. TreeOK /\ Root \notin Present
  BY NodesAssumption DEF Scope, Present
<1>6. PICK t : t = Tables
  OBVIOUS
<1>7. ASSUME ~isFlat, p # Root
      PROVE  IsShown(p) <=> p \in Below(RangeOf(s))
  BY <1>5, <1>6, <1>7, ShownTest DEF IsShown
<1>8. p \in Below(RangeOf(s)) => selection # {} /\ p # Root
  <2>1. p \in Below(RangeOf(s)) => p # Root
    BY <1>5 DEF Below
  <2> QED
    BY <2>1, SomeRoot, NoneSelected
<1> QED
  BY <1>2, <1>4, <1>7, <1>8

LEMMA RowsToCome ==
    ASSUME RootsOnTop, Flow, Scope, RootsInv, OrderInv, SignalInv, RowsInv,
           NEW p \in Nodes \cup {Root}, NEW first \in 0 .. rowCount(p),
           NEW last \in first .. first + MaxForest - 1, AboutToInsert(p, first, last)
    PROVE  RowsInv'
<1>1. /\ phase = "idle" /\ hasSource /\ ~emptied /\ phase' = "inserting" /\ p \in Present \cup {Root}
      /\ op' = [NoOp EXCEPT !.parent = p, !.first = first, !.last = last]
      /\ UNCHANGED <<srcVars, tableVars, m_filterBehavior, selection, view, m_rowsRemoved,
                     m_recreateFirstChildMappingOnRemoval>>
  BY DEF AboutToInsert, MayInsert, Starts, Enters, selectVars
<1>2. ~m_rowsInserted /\ ~m_rowsRemoved /\ announced = <<>>
  BY <1>1 DEF Flow, SignalInv, RootAnnounced, Outer, Where, ChangePhases
<1>3. PICK s, q, a, b : At(s, q, a, b) /\ Standing(s, q, a, b) /\ Announcing(s, q, a, b)
  BY DEF RowsInv
<1>4. InStep /\ Clear
  BY <1>1, <1>2, ClearWhen DEF Flow, InStep, Aside, Coming, Going
<1>5. s = m_rootIndexList /\ Showing(Tables, s) /\ view = Shown(s) /\ RootSeq(s)
  BY <1>1, <1>3, <1>4, RootsAreRootSeq DEF At, Standing
<1>6. op'.parent = p /\ op'.first = first /\ op'.last = last
  BY <1>1 DEF NoOp
<1>7. At(s, p, first, last)'
  BY <1>1, <1>5, <1>6 DEF At, tableVars
<1>8. ~Coming' /\ ~Going'
  BY <1>1 DEF Coming, Going
<1>9. Standing(s, p, first, last)'
  BY <1>1, <1>3, <1>4, <1>8, SameStanding
<1>10. first \in Nat /\ last \in Nat /\ first <= last
  <2>1. rowCount(p) \in Nat
    BY <1>1, Kids DEF Scope
  <2>2. first \in Int /\ 0 <= first
    BY <2>1
  <2>3. last \in Int /\ first <= last
    BY <2>2, NodesAssumption
  <2> QED
    BY <2>2, <2>3
<1>11. /\ AnnouncesInsert(p, first, last) <=> ~isFlat /\ p \in Below(RangeOf(s))
       /\ AnnouncesInsert(p, first, last) => insertPair(p, first, last) = <<first, last>>
  BY <1>1, <1>5, <1>10, InsertAnnounced
<1>12. isFlat' = isFlat /\ Below(RangeOf(s))' = Below(RangeOf(s))
  <2>1. Below(RangeOf(s))' = {n \in Present' : SelfAndAbove'[n] \cap RangeOf(s) # {}}
    BY DEF Below, LiesWithin, RangeOf
  <2> QED
    BY <1>1, <2>1, FlatNext, SameTree DEF Below, LiesWithin
<1>13. ~m_rowsRemoved' /\ ~m_recreateFirstChildMappingOnRemoval'
  BY <1>1, <1>2, <1>3 DEF Announcing
<1>14. CASE AnnouncesInsert(p, first, last)
  <2>1. announced' = Append(announced, [kind |-> "insert", parent |-> p, first |-> first, last |-> last])
    <3>1. PICK pair : pair = insertPair(p, first, last)
      OBVIOUS
    <3>2. announced' = Append(announced, [kind |-> "insert", parent |-> p, first |-> pair[1], last |-> pair[2]])
      BY <1>14, <3>1 DEF AboutToInsert, RootsOnTop, Begin
    <3>3. pair[1] = first /\ pair[2] = last
      BY <1>11, <1>14, <3>1
    <3> QED
      BY <3>2, <3>3
  <2>2. announced' = <<[kind |-> "insert", parent |-> p, first |-> first, last |-> last]>>
    BY <1>2, <2>1
  <2>3. m_rowsInserted'
    BY <1>14 DEF AboutToInsert
  <2>4. Announcing(s, p, first, last)'
    BY <1>1, <1>10, <1>11, <1>12, <1>13, <1>14, <2>2, <2>3 DEF Announcing
  <2> QED
    BY <1>1, <1>7, <1>9, <2>4, RowsInvNext
<1>15. CASE ~AnnouncesInsert(p, first, last)
  <2>1. m_rowsInserted' = m_rowsInserted
    BY <1>15 DEF AboutToInsert
  <2>2. Announcing(s, p, first, last)'
    BY <1>1, <1>2, <1>11, <1>12, <1>13, <1>15, <2>1 DEF Announcing
  <2> QED
    BY <1>1, <1>7, <1>9, <2>2, RowsInvNext
<1> QED
  BY <1>14, <1>15

\* The arguments of the running operation.
LEMMA OpIs ==
    ASSUME Flow
    PROVE  \E p, first, last, target, dest :
              /\ p \in Nodes \cup {Root} /\ first \in Nat /\ last \in Nat
              /\ op = [parent |-> p, first |-> first, last |-> last, target |-> target, dest |-> dest]
              /\ op.parent = p /\ op.first = first /\ op.last = last
BY DEF Flow

\* Rows have come that are announced, or are not to be seen.
LEMMA RowsCome ==
    ASSUME RootsOnTop, Flow, Scope, Scope', RootsInv, OrderInv, SignalInv, RowsInv,
           NEW f \in Forests, SourceInserts(f)
    PROVE  RowsInv'
<1>1. PICK p, first, last, target, dest :
         /\ p \in Nodes \cup {Root} /\ first \in Nat /\ last \in Nat
         /\ op = [parent |-> p, first |-> first, last |-> last, target |-> target, dest |-> dest]
         /\ op.parent = p /\ op.first = first /\ op.last = last
  BY OpIs
<1>2. /\ phase = "inserting" /\ phase' = "inserted" /\ op' = op
      /\ UNCHANGED <<tableVars, m_filterBehavior, emptied, m_rowsInserted, m_rowsRemoved,
                     m_recreateFirstChildMappingOnRemoval, announced, view>>
  BY DEF SourceInserts, Enters, selectVars, rowFlags, viewVars
<1>3. DOMAIN f \subseteq Nodes \ Present /\ InsertRows(f, p, first) /\ Cardinality(Tops(f)) = last - first + 1
  BY <1>1 DEF SourceInserts, Fresh
<1>4. Grown(f, p, first, last)
  <2>1. p \in Present \cup {Root} /\ first \in 0 .. rowCount(p)
    BY <1>1, <1>2 DEF Scope
  <2>2. last = first + Cardinality(Tops(f)) - 1
    BY <1>1, <1>3
  <2> QED
    BY <1>3, <2>1, <2>2 DEF Grown
<1>5. TreeOK /\ TreeOK'
  BY DEF Scope
<1>6. PICK s, q, a, b : At(s, q, a, b) /\ Standing(s, q, a, b) /\ Announcing(s, q, a, b)
  BY DEF RowsInv
<1>7. s = m_rootIndexList /\ Standing(s, p, first, last) /\ Announcing(s, p, first, last)
  BY <1>1, <1>6 DEF At
<1>8. ~m_rowsRemoved /\ Clear /\ InStep
  BY <1>2, ClearWhen DEF Flow, SignalInv, RootAnnounced, Outer, Where, ChangePhases, InStep, Aside, Coming, Going
<1>9. Showing(Tables, s) /\ view = Shown(s) /\ RootSeq(s)
  BY <1>2, <1>7, <1>8, RootsAreRootSeq DEF Standing
<1>10. At(s, p, first, last)'
  BY <1>1, <1>2, <1>7 DEF At, tableVars
<1>11. ~Aside' /\ ~Going'
  BY <1>2, <1>8 DEF InStep, Aside, Going
<1>12. ~m_recreateFirstChildMappingOnRemoval'
  BY <1>2, <1>7 DEF Announcing
<1>13. CASE m_rowsInserted
  <2>1. /\ ~isFlat /\ first <= last /\ p \in Below(RangeOf(s))
        /\ announced = <<[kind |-> "insert", parent |-> p, first |-> first, last |-> last]>>
    BY <1>7, <1>13 DEF Announcing
  <2>2. RootList(s)
    BY <1>9, <2>1 DEF Showing
  <2>3. /\ RootList(s)'
        /\ Below(RangeOf(s))' = Below(RangeOf(s)) \cup IF p \in Below(RangeOf(s)) THEN DOMAIN f ELSE {}
    BY <1>4, <1>5, <2>2, GrownBelow
  <2>4. p \in Below(RangeOf(s))'
    BY <2>1, <2>3
  <2>5. last < rowCount(p)'
    <3>1. /\ rowCount(p)' = rowCount(p) + (last - first + 1) /\ first <= rowCount(p)
          /\ rowCount(p) \in Nat
      BY <1>4, <1>5, GrownTree, Kids DEF Grown
    <3> QED
      BY <1>1, <3>1
  <2>6. RowsOf(s, p, first, last)'
    BY <1>1, <2>1, <2>3, <2>4, <2>5 DEF RowsOf
  <2>7. TablesBefore(s, p, first, last)'
    BY <1>2, <1>4, <1>5, <1>9, <2>1, GrowthMapped
  <2>8. ViewBefore(s, p, first, last)'
    BY <1>2, <1>4, <1>5, <1>9, <2>1, <2>2, GrowthListed
  <2>9. Coming'
    BY <1>2, <1>13 DEF Coming
  <2>10. Standing(s, p, first, last)'
    BY <1>11, <2>6, <2>7, <2>8, <2>9 DEF Standing, InStep
  <2>11. isFlat' = isFlat
    BY <1>2, FlatNext
  <2>12. Announcing(s, p, first, last)'
    BY <1>2, <1>8, <1>12, <2>1, <2>4, <2>11 DEF Announcing
  <2> QED
    BY <1>2, <1>10, <2>10, <2>12, RowsInvNext
<1>14. CASE ~m_rowsInserted
  <2>1. isFlat \/ p \notin Below(RangeOf(s))
    BY <1>2, <1>7, <1>14 DEF Announcing
  <2>2. Showing(Tables, s)' /\ Shown(s)' = Shown(s)
    BY <1>2, <1>4, <1>5, <1>9, <2>1, GrowthUnseen
  <2>3. Fitting(Tables, s)'
    BY <1>5, <2>2, ShowingFitsNext
  <2>4. view' = Shown(s)'
    BY <1>2, <1>9, <2>2
  <2>5. ~m_rowsInserted' /\ ~m_rowsRemoved'
    BY <1>2, <1>8, <1>14
  <2>6. Standing(s, p, first, last)'
    BY <2>2, <2>3, <2>4, <2>5, StandingInStep
  <2>7. Announcing(s, p, first, last)'
    BY <1>2, <1>12, <2>5, NothingAnnounced
  <2> QED
    BY <1>2, <1>10, <2>6, <2>7, RowsInvNext
<1> QED
  BY <1>13, <1>14

\* Rows that have come are in the tables, and a listener is told.
LEMMA RowsAreIn ==
    ASSUME RootsOnTop, Flow, Flow', Scope, RootsInv, OrderInv, SignalInv, RowsInv,
           HandleRowsInserted
    PROVE  RowsInv'
<1>1. PICK p, first, last, target, dest :
         /\ p \in Nodes \cup {Root} /\ first \in Nat /\ last \in Nat
         /\ op = [parent |-> p, first |-> first, last |-> last, target |-> target, dest |-> dest]
         /\ op.parent = p /\ op.first = first /\ op.last = last
  BY OpIs
<1>2. /\ phase = "inserted" /\ phase' \in {"idle", "draining"} /\ ~m_rowsInserted' /\ ~m_rowsRemoved
      /\ UNCHANGED <<srcVars, selection, m_filterBehavior, m_rowsRemoved,
                     m_recreateFirstChildMappingOnRemoval>>
  BY DEF HandleRowsInserted, Enters, Finishes, selectVars, Flow
<1>3. PICK s, q, a, b : At(s, q, a, b) /\ Standing(s, q, a, b) /\ Announcing(s, q, a, b)
  BY DEF RowsInv
<1>4. s = m_rootIndexList /\ Standing(s, p, first, last) /\ Announcing(s, p, first, last)
  BY <1>1, <1>3 DEF At
<1>5. CASE ~m_rowsInserted
  <2>1. UNCHANGED <<tableVars, view>> /\ phase' = "idle"
    BY <1>5 DEF HandleRowsInserted, viewVars, Enters, Finishes
  <2>2. InStep /\ Clear
    BY <1>2, <1>5, ClearWhen DEF SignalInv, RootAnnounced, Outer, Where, ChangePhases, Flow, InStep, Aside, Coming, Going
  <2> QED
    BY <1>2, <2>1, <2>2, NothingSeen
<1>6. CASE m_rowsInserted
  <2>1. /\ ~isFlat /\ first <= last /\ p \in Below(RangeOf(s))
        /\ announced = <<[kind |-> "insert", parent |-> p, first |-> first, last |-> last]>>
    BY <1>4, <1>6 DEF Announcing
  <2>2. RowsOf(s, p, first, last) /\ TablesBefore(s, p, first, last) /\ ViewBefore(s, p, first, last)
    BY <1>2, <1>4, <1>6 DEF Standing, Coming
  <2>3. PICK t : /\ t = Fetched(endInsertRows(op.parent, op.first, op.last))
                 /\ SetTables(t) /\ EndInsertRows(t)
    BY <1>6 DEF HandleRowsInserted
  <2>4. TreeOK /\ RootList(s) /\ last < rowCount(p)
    BY <2>2 DEF Scope, RowsOf
  <2>5. Showing(t, s)
    <3>1. PICK u : u = endInsertRows(p, first, last)
      OBVIOUS
    <3>2. Fitting(u, s)
      BY <2>1, <2>2, <2>4, <3>1, InsertFits
    <3>3. t = Fetched(u)
      BY <1>1, <2>3, <3>1
    <3> QED
      BY <2>4, <3>2, <3>3, ReadFits
  <2>6. view' = Shown(s)
    BY <1>1, <2>1, <2>2, <2>3, <2>4, <2>5, RowsSeen
  <2>7. IsTables(t) /\ Fitting(t, s)
    BY <2>4, <2>5, ShowingFits, FittingHas
  <2>8. m_rootIndexList' = s
    BY <1>4, InsertionKeepsRoots
  <2>9. ~m_recreateFirstChildMappingOnRemoval'
    BY <1>2, <1>4 DEF Announcing
  <2> QED
    BY <1>2, <2>3, <2>5, <2>6, <2>7, <2>8, <2>9, SetNext
<1> QED
  BY <1>5, <1>6

\* A slot selects while the rows that come are announced: that waits.
LEMMA SelectedWhileInserting ==
    ASSUME RootsOnTop, Flow, Scope, SignalInv, RowsInv, NEW S, SelectInserting(S)
    PROVE  RowsInv'
<1>1. /\ phase \in {"inserting", "inserted"} /\ (phase = "inserting" => m_rowsInserted) /\ Selects(S, phase)
  BY DEF SelectInserting
<1>2. UNCHANGED <<srcVars, tableVars, m_filterBehavior, emptied, view, announced, op, m_rowsInserted, m_rowsRemoved,
                  m_proxyRemoveRows, m_recreateFirstChildMappingOnRemoval>>
  BY <1>1 DEF Selects, rowFlags, viewVars
<1>3. ~m_rowsRemoved /\ ~m_sourceModelResetting
  BY <1>1 DEF Flow
<1>4. CASE m_rowsInserted
  <2>1. phase' = phase
    BY <1>1, <1>3, <1>4 DEF Selects, selectionChanged
  <2>2. PICK s, p, first, last : At(s, p, first, last) /\ Standing(s, p, first, last) /\ Announcing(s, p, first, last)
    BY DEF RowsInv
  <2>3. At(s, p, first, last)'
    BY <1>2, <2>2 DEF At, tableVars
  <2>4. Clear' <=> Clear
    BY <1>2 DEF Clear
  <2>5. InStep' <=> InStep
    BY <1>1, <1>2, <2>1 DEF Flow, InStep, Aside, Coming, Going
  <2>6. (Coming' <=> Coming) /\ (Going' <=> Going)
    BY <1>2, <2>1 DEF Coming, Going
  <2>7. Standing(s, p, first, last)'
    BY <1>2, <2>2, <2>4, <2>5, <2>6, SameStanding
  <2>8. isFlat' = isFlat /\ Below(RangeOf(s))' = Below(RangeOf(s))
    <3>1. Below(RangeOf(s))' = {n \in Present' : SelfAndAbove'[n] \cap RangeOf(s) # {}}
      BY DEF Below, LiesWithin, RangeOf
    <3> QED
      BY <1>2, <3>1, FlatNext, SameTree DEF Below, LiesWithin
  <2>9. Announcing(s, p, first, last)'
    BY <1>1, <1>2, <1>3, <1>4, <2>1, <2>2, <2>8 DEF Announcing
  <2> QED
    BY <1>1, <2>1, <2>3, <2>7, <2>9, RowsInvNext
<1>5. CASE ~m_rowsInserted
  <2>1. phase = "inserted" /\ announced = <<>> /\ InStep /\ Clear
    BY <1>1, <1>3, <1>5, ClearWhen DEF SignalInv, RootAnnounced, Outer, Where, ChangePhases, Flow, InStep, Aside, Coming, Going
  <2>2. phase' \in {"inserted", "changing"}
    BY <1>1, <1>3, <1>5, <2>1 DEF Selects, selectionChanged, Processes
  <2> QED
    BY <1>2, <1>3, <1>5, <2>1, <2>2, NothingSeen
<1> QED
  BY <1>4, <1>5

\* While rows are to go, the roots are among what is selected.
LEMMA RootsSelected ==
    ASSUME Flow, RootsInv, phase \in {"toRemove", "removing", "removed"}, NEW s, s = m_rootIndexList
    PROVE  RangeOf(s) \subseteq selection
<1>1. RootSet = Target(selection)
  BY DEF RootsInv, Settled, Flow, Earlier
<1> QED
  BY <1>1 DEF RootSet, Target, getRootRanges

\* What is below a row that goes goes, too.
LEMMA WithinRows ==
    ASSUME TreeOK, NEW p, NEW first, NEW last, NEW n \in Present, LiesWithin(InRows(p, first, last), n)
    PROVE  n \in InRows(p, first, last)
<1>1. PICK a : a \in SelfAndAbove[n] /\ a \in InRows(p, first, last)
  BY DEF LiesWithin
<1>2. PICK b : b \in SelfAndAbove[a] /\ srcParent[b] = p /\ srcRow[b] \in first .. last
  BY <1>1 DEF InRows
<1>3. a \in Present /\ SelfAndAbove[n] = {n} \cup Above(n) /\ \A c \in Above(n) : Above(c) \subseteq Above(n)
  BY <1>1, AboveFacts DEF TreeOK, InRows
<1>4. SelfAndAbove[a] = {a} \cup Above(a)
  BY <1>3, AboveFacts DEF TreeOK
<1>5. b \in SelfAndAbove[n]
  BY <1>1, <1>2, <1>3, <1>4
<1> QED
  BY <1>2, <1>5 DEF InRows

\* Rows that are to go are announced when they are rows of the proxy.
LEMMA RemovalAnnounced ==
    ASSUME RootsOnTop, Flow, Scope, RootsInv, phase = "toRemove",
           NEW s, s = m_rootIndexList, Showing(Tables, s), RootSeq(s),
           NEW p \in Present \cup {Root}, NEW first \in Nat, NEW last \in Nat,
           last < rowCount(p), selection \cap InRows(p, first, last) = {}
    PROVE  /\ Mapped(Tables, p) <=> ~isFlat /\ p \in Below(RangeOf(s))
           /\ removePair(p, first, last) = IF Mapped(Tables, p) THEN <<first, last>> ELSE NoPair
           /\ MappedIndexes(m_mappedFirstChildren) = {}
           /\ ~isFlat /\ p \in Below(RangeOf(s)) => selection # {}
<1>1. TreeOK /\ Tables.roots = m_rootIndexList /\ Tables.firsts = m_mappedFirstChildren
  BY DEF Scope, Tables
<1>2. hasChildren(p)
  BY <1>1, Kids
<1>3. PICK e : Hold(Tables, s, e) /\ (isFlat => e = EmptyMapping)
               /\ (~isFlat => Fits(e, s, srcRow) /\ AllMapped(e, s))
  BY DEF Showing
<1>4. Mapped(Tables, p) <=> p \in DOMAIN e
  BY <1>3 DEF Mapped, Hold
<1>5. p \in DOMAIN e <=> ~isFlat /\ p \in Below(RangeOf(s))
  BY <1>2, <1>3, EmptyShift DEF Fits, AllMapped
<1>6. MappedIndexes(m_mappedFirstChildren) = {}
  BY <1>1, <1>3, EmptyShift DEF Hold
<1>7. {root \in Seqs!ToSet(m_rootIndexList) : LiesWithin(InRows(p, first, last), root)} = {}
  <2>1. Seqs!ToSet(m_rootIndexList) \subseteq selection /\ Seqs!ToSet(m_rootIndexList) \subseteq Present
    BY RootsSelected DEF Seqs!ToSet, RangeOf, RootSeq
  <2> QED
    BY <1>1, <2>1, WithinRows
<1>8. DoomedBlock({}) = {}
  BY DEF DoomedBlock
<1>9. isFlat <=> m_omitChildren
  BY DEF isFlat, RootsOnTop, m_startWithChildTrees
<1>10. ~isFlat => ~m_includeAllSelected
  BY NotAllSelected
<1>11. removePair(p, first, last) = IF ~m_includeAllSelected /\ ~m_omitChildren /\ Mapped(Tables, p)
                                    THEN <<first, last>> ELSE NoPair
  BY <1>7, <1>8, Zenon DEF removePair, RootsOnTop
<1>12. p \in Below(RangeOf(s)) => selection # {}
  BY RootsSelected, NoRoots DEF Below, LiesWithin
<1> QED
  BY <1>4, <1>5, <1>6, <1>9, <1>10, <1>11, <1>12

LEMMA RowsToGo ==
    ASSUME RootsOnTop, Flow, Scope, RootsInv, OrderInv, SignalInv, RowsInv,
           HandleRowsAboutToBeRemoved
    PROVE  RowsInv'
<1>1. PICK p, first, last, target, dest :
         /\ p \in Nodes \cup {Root} /\ first \in Nat /\ last \in Nat
         /\ op = [parent |-> p, first |-> first, last |-> last, target |-> target, dest |-> dest]
         /\ op.parent = p /\ op.first = first /\ op.last = last
  BY OpIs
<1>2. /\ phase = "toRemove" /\ phase' = "removing" /\ op' = op
      /\ UNCHANGED <<srcVars, tableVars, m_filterBehavior, view, m_rowsInserted>>
  BY DEF HandleRowsAboutToBeRemoved, Enters, rowFlags, selectVars
<1>3. ~m_rowsInserted /\ ~m_rowsRemoved /\ announced = <<>>
  BY <1>2 DEF Flow, SignalInv, RootAnnounced, Outer, Where, ChangePhases
<1>4. PICK s, q, a, b : At(s, q, a, b) /\ Standing(s, q, a, b) /\ Announcing(s, q, a, b)
  BY DEF RowsInv
<1>5. InStep /\ Clear
  BY <1>2, <1>3, ClearWhen DEF Flow, InStep, Aside, Coming, Going
<1>6. s = m_rootIndexList /\ Showing(Tables, s) /\ RootSeq(s) /\ ~m_recreateFirstChildMappingOnRemoval
  BY <1>2, <1>4, <1>5, RootsAreRootSeq DEF At, Standing, Announcing
<1>7. At(s, p, first, last)'
  BY <1>1, <1>2, <1>6 DEF At, tableVars
<1>8. ~Coming' /\ ~Going'
  BY <1>2 DEF Coming, Going
<1>9. Standing(s, p, first, last)'
  BY <1>2, <1>4, <1>5, <1>8, SameStanding
<1>10. /\ p \in Present \cup {Root} /\ first <= last /\ last < rowCount(p)
       /\ selection \cap InRows(p, first, last) = {}
  BY <1>1, <1>2 DEF Scope, Where, ChangePhases
<1>11. /\ Mapped(Tables, p) <=> ~isFlat /\ p \in Below(RangeOf(s))
       /\ removePair(p, first, last) = IF Mapped(Tables, p) THEN <<first, last>> ELSE NoPair
       /\ MappedIndexes(m_mappedFirstChildren) = {}
       /\ ~isFlat /\ p \in Below(RangeOf(s)) => selection # {}
  BY <1>1, <1>2, <1>6, <1>10, RemovalAnnounced
<1>12. isFlat' = isFlat /\ Below(RangeOf(s))' = Below(RangeOf(s))
  <2>1. Below(RangeOf(s))' = {n \in Present' : SelfAndAbove'[n] \cap RangeOf(s) # {}}
    BY DEF Below, LiesWithin, RangeOf
  <2> QED
    BY <1>2, <2>1, FlatNext, SameTree DEF Below, LiesWithin
<1>13. PICK pair : pair = removePair(op.parent, op.first, op.last)
  OBVIOUS
<1>14. pair = IF Mapped(Tables, p) THEN <<first, last>> ELSE NoPair
  BY <1>1, <1>11, <1>13
<1>15. CASE Mapped(Tables, p)
  <2>1. pair = <<first, last>> /\ pair # NoPair /\ selection # {}
    <3>1. <<first, last>> # NoPair
      BY <1>1 DEF NoPair, NoRow
    <3> QED
      BY <1>11, <1>14, <1>15, <3>1
  <2>2. /\ m_rowsRemoved' = TRUE /\ m_proxyRemoveRows' = pair
        /\ m_recreateFirstChildMappingOnRemoval'
              = (index(op.first, op.parent) \in MappedIndexes(m_mappedFirstChildren))
        /\ Begin("remove", IF Mapped(Tables, op.parent) THEN op.parent ELSE Root, pair[1], pair[2])
    BY <1>13, <2>1 DEF HandleRowsAboutToBeRemoved
  <2>3. announced' = Append(announced, [kind |-> "remove", parent |-> p, first |-> first, last |-> last])
    BY <1>1, <1>15, <2>1, <2>2 DEF Begin
  <2>4. announced' = <<[kind |-> "remove", parent |-> p, first |-> first, last |-> last]>>
    BY <1>3, <2>3
  <2>5. ~m_recreateFirstChildMappingOnRemoval'
    BY <1>11, <2>2
  <2>6. Announcing(s, p, first, last)'
    BY <1>2, <1>3, <1>10, <1>11, <1>12, <1>15, <2>1, <2>2, <2>4, <2>5 DEF Announcing
  <2> QED
    BY <1>2, <1>7, <1>9, <2>6, RowsInvNext
<1>16. CASE ~Mapped(Tables, p)
  <2>1. UNCHANGED <<m_rowsRemoved, m_recreateFirstChildMappingOnRemoval>>
    BY <1>13, <1>14, <1>16 DEF HandleRowsAboutToBeRemoved, rowFlags
  <2>2. Announcing(s, p, first, last)'
    BY <1>2, <1>3, <1>6, <1>11, <1>12, <1>16, <2>1 DEF Announcing
  <2> QED
    BY <1>2, <1>7, <1>9, <2>2, RowsInvNext
<1> QED
  BY <1>15, <1>16

\* Rows have gone that are announced, or were not to be seen.
LEMMA RowsGo ==
    ASSUME RootsOnTop, Flow, Scope, Scope', RootsInv, OrderInv, SignalInv, RowsInv,
           SourceRemoves
    PROVE  RowsInv'
<1>1. PICK p, first, last, target, dest :
         /\ p \in Nodes \cup {Root} /\ first \in Nat /\ last \in Nat
         /\ op = [parent |-> p, first |-> first, last |-> last, target |-> target, dest |-> dest]
         /\ op.parent = p /\ op.first = first /\ op.last = last
  BY OpIs
<1>2. /\ phase = "removing" /\ phase' = "removed" /\ op' = op /\ RemoveRows(p, first, last)
      /\ UNCHANGED <<tableVars, m_filterBehavior, selection, emptied, m_rowsInserted, m_rowsRemoved,
                     m_proxyRemoveRows, m_recreateFirstChildMappingOnRemoval, announced, view>>
  BY <1>1 DEF SourceRemoves, Enters, selectVars, rowFlags, viewVars
<1>3. /\ p \in Present \cup {Root} /\ first <= last /\ last < rowCount(p)
      /\ selection \cap InRows(p, first, last) = {}
  BY <1>1, <1>2 DEF Scope, Where, ChangePhases
<1>4. Shrunk(p, first, last)
  BY <1>1, <1>2, <1>3 DEF Shrunk
<1>5. TreeOK /\ TreeOK'
  BY DEF Scope
<1>6. PICK s, q, a, b : At(s, q, a, b) /\ Standing(s, q, a, b) /\ Announcing(s, q, a, b)
  BY DEF RowsInv
<1>7. s = m_rootIndexList /\ Standing(s, p, first, last) /\ Announcing(s, p, first, last)
  BY <1>1, <1>6 DEF At
<1>8. ~m_rowsInserted /\ Clear /\ InStep
  BY <1>2, ClearWhen DEF Flow, SignalInv, RootAnnounced, Outer, Where, ChangePhases, InStep, Aside, Coming, Going
<1>9. Showing(Tables, s) /\ view = Shown(s) /\ RootSeq(s)
  BY <1>2, <1>7, <1>8, RootsAreRootSeq DEF Standing
<1>10. At(s, p, first, last)'
  BY <1>1, <1>2, <1>7 DEF At, tableVars
<1>11. ~Aside' /\ ~Coming'
  BY <1>2, <1>8 DEF InStep, Aside, Coming
<1>12. ~m_recreateFirstChildMappingOnRemoval'
  BY <1>2, <1>7 DEF Announcing
<1>13. RangeOf(s) \subseteq Present'
  <2>1. Present' = Present \ InRows(p, first, last)
    BY <1>4, <1>5, ShrunkTree
  <2>2. RangeOf(s) \subseteq selection
    BY <1>2, <1>7, RootsSelected
  <2> QED
    BY <1>3, <1>9, <2>1, <2>2 DEF RootSeq
<1>14. CASE m_rowsRemoved
  <2>1. /\ ~isFlat /\ p \in Below(RangeOf(s)) /\ m_proxyRemoveRows = <<first, last>>
        /\ announced = <<[kind |-> "remove", parent |-> p, first |-> first, last |-> last]>>
    BY <1>7, <1>14 DEF Announcing
  <2>2. RootList(s)
    BY <1>9, <2>1 DEF Showing
  <2>3. /\ RootList(s)'
        /\ Below(RangeOf(s))' = Below(RangeOf(s)) \ InRows(p, first, last)
    BY <1>4, <1>5, <1>13, <2>2, ShrunkBelow
  <2>4. p \in Below(RangeOf(s))'
    <3>1. p \in Present' \cup {Root} /\ Present' = Present \ InRows(p, first, last)
      BY <1>4, <1>5, ShrunkTree
    <3>2. p \in Present /\ p # Root
      BY <2>1, NodesAssumption DEF Below, Present
    <3> QED
      BY <2>1, <2>3, <3>1, <3>2
  <2>5. TablesAfter(s, p, first, last)'
    BY <1>2, <1>4, <1>5, <1>9, <1>13, <2>1, ShrinkMapped
  <2>6. ViewAfter(s, p, first, last)'
    BY <1>2, <1>4, <1>5, <1>9, <1>13, <2>1, <2>2, ShrinkListed
  <2>7. Going'
    BY <1>2, <1>14 DEF Going
  <2>8. Standing(s, p, first, last)'
    BY <1>11, <2>3, <2>5, <2>6, <2>7 DEF Standing, InStep
  <2>9. isFlat' = isFlat
    BY <1>2, FlatNext
  <2>10. Announcing(s, p, first, last)'
    BY <1>2, <1>3, <1>8, <1>12, <2>1, <2>4, <2>9 DEF Announcing
  <2> QED
    BY <1>2, <1>10, <2>8, <2>10, RowsInvNext
<1>15. CASE ~m_rowsRemoved
  <2>1. isFlat \/ p \notin Below(RangeOf(s))
    BY <1>2, <1>7, <1>15 DEF Announcing
  <2>2. Showing(Tables, s)' /\ Shown(s)' = Shown(s)
    BY <1>2, <1>4, <1>5, <1>9, <1>13, <2>1, ShrinkUnseen
  <2>3. Fitting(Tables, s)'
    BY <1>5, <2>2, ShowingFitsNext
  <2>4. view' = Shown(s)'
    BY <1>2, <1>9, <2>2
  <2>5. ~m_rowsInserted' /\ ~m_rowsRemoved'
    BY <1>2, <1>8, <1>15
  <2>6. Standing(s, p, first, last)'
    BY <2>2, <2>3, <2>4, <2>5, StandingInStep
  <2>7. Announcing(s, p, first, last)'
    BY <1>2, <1>12, <2>5, NothingAnnounced
  <2> QED
    BY <1>2, <1>10, <2>6, <2>7, RowsInvNext
<1> QED
  BY <1>14, <1>15

\* Rows that have gone are out of the tables, and a listener is told.
LEMMA RowsAreOut ==
    ASSUME RootsOnTop, Flow, Scope, RootsInv, OrderInv, SignalInv, RowsInv,
           HandleRowsRemoved
    PROVE  RowsInv'
<1>1. PICK p, first, last, target, dest :
         /\ p \in Nodes \cup {Root} /\ first \in Nat /\ last \in Nat
         /\ op = [parent |-> p, first |-> first, last |-> last, target |-> target, dest |-> dest]
         /\ op.parent = p /\ op.first = first /\ op.last = last
  BY OpIs
<1>2. /\ phase = "removed" /\ phase' = "idle"
      /\ UNCHANGED <<srcVars, selection, m_filterBehavior>>
  BY DEF HandleRowsRemoved, Enters, Finishes, selectVars
<1>3. PICK s, q, a, b : At(s, q, a, b) /\ Standing(s, q, a, b) /\ Announcing(s, q, a, b)
  BY DEF RowsInv
<1>4. s = m_rootIndexList /\ Standing(s, p, first, last) /\ Announcing(s, p, first, last) /\ ~m_rowsInserted
  BY <1>1, <1>2, <1>3 DEF At, Flow
<1>5. CASE ~m_rowsRemoved
  <2>1. UNCHANGED <<tableVars, view, rowFlags>>
    BY <1>5 DEF HandleRowsRemoved, viewVars
  <2>2. InStep /\ Clear
    BY <1>2, <1>5, ClearWhen DEF SignalInv, RootAnnounced, Outer, Where, ChangePhases, Flow, InStep, Aside, Coming, Going
  <2>3. UNCHANGED <<m_rowsInserted, m_rowsRemoved, m_recreateFirstChildMappingOnRemoval>>
    BY <2>1 DEF rowFlags
  <2> QED
    BY <1>2, <1>4, <1>5, <2>1, <2>2, <2>3, NothingSeen
<1>6. CASE m_rowsRemoved
  <2>1. /\ ~isFlat /\ first <= last /\ p \in Below(RangeOf(s)) /\ m_proxyRemoveRows = <<first, last>>
        /\ ~m_recreateFirstChildMappingOnRemoval
        /\ announced = <<[kind |-> "remove", parent |-> p, first |-> first, last |-> last]>>
    BY <1>4, <1>6 DEF Announcing
  <2>2. RootList(s) /\ TablesAfter(s, p, first, last) /\ ViewAfter(s, p, first, last)
    BY <1>2, <1>4, <1>6 DEF Standing, Going
  <2>3. PICK t : t = recreated(endRemoveRows(op.parent, m_proxyRemoveRows)) /\ SetTables(t)
    BY <1>6 DEF HandleRowsRemoved
  <2>4. /\ EndRemoveRows /\ ~m_rowsRemoved' /\ ~m_recreateFirstChildMappingOnRemoval' /\ ~m_rowsInserted'
    BY <1>4, <1>6 DEF HandleRowsRemoved
  <2>5. TreeOK /\ p \in Nodes
    BY <2>1 DEF Scope, Below, Present
  <2>6. Showing(t, s)
    BY <1>1, <2>1, <2>2, <2>3, <2>5, RemovalFits
  <2>7. view' = Shown(s)
    BY <2>1, <2>2, <2>4, <2>5, RowsForgotten
  <2>8. IsTables(t) /\ Fitting(t, s)
    BY <2>5, <2>6, ShowingFits, FittingHas
  <2>9. m_rootIndexList' = s
    BY <1>4, RemovalKeepsRoots
  <2> QED
    BY <1>2, <2>3, <2>4, <2>6, <2>7, <2>8, <2>9, SetNext
<1> QED
  BY <1>5, <1>6

\* A step that changes nothing that is to be seen.
LEMMA NothingNew ==
    ASSUME RootsOnTop, RowsInv, UNCHANGED <<srcVars, tableVars, m_filterBehavior, view, rowFlags, announced>>,
           ~m_rowsInserted, ~m_rowsRemoved, ~Aside, phase # "rootAdded",
           phase' \notin {"inserting", "removing", "rootsLeaving", "rootComing", "rootAdded"}
    PROVE  RowsInv'
<1>1. InStep
  BY DEF InStep, Coming, Going
<1>2. Clear' <=> Clear
  BY DEF Clear
<1> QED
  BY <1>1, <1>2, NothingSeen DEF rowFlags

\* The selection changes where no rows are on their way.
LEMMA SelectedMeanwhile ==
    ASSUME RootsOnTop, Flow, RowsInv, NEW S, NEW next, Selects(S, next), ~m_rowsInserted, ~m_rowsRemoved,
           next = phase, phase \in {"idle", "inserted", "removed"}, ~emptied
    PROVE  RowsInv'
<1>1. /\ UNCHANGED <<srcVars, tableVars, m_filterBehavior, view, rowFlags, announced>>
      /\ phase' \in {phase, "changing"}
  BY DEF Selects, selectionChanged, Processes, viewVars
<1> QED
  BY <1>1, NothingNew DEF Aside

\* A reset begins in which the tables are emptied.
LEMMA StartedOver ==
    ASSUME Flow', SignalInv', RowsInv, [Next]_vars, StartsOver
    PROVE  RowsInv'
<1>1. SetTables(EmptyTables) /\ phase' = "cleared" /\ resume' = "rebuilt"
  BY DEF StartsOver
<1>2. ~Clear'
  BY <1>1, NotClearNext DEF SignalInv, RootAnnounced, Outer
<1> QED
  BY <1>1, <1>2, NoneOnTheirWay, Emptied

\* Another selection model, while nothing is selected.
LEMMA OtherSelectionModel ==
    ASSUME RootsOnTop, "selectionModelLoaded" \notin Operations, Flow, Scope, RootsInv, SignalInv, RowsInv,
           NEW S, SetSelectionModel(S)
    PROVE  RowsInv'
<1>1. /\ phase = "idle" /\ hasSource /\ selection = {} /\ phase' = "cleared"
      /\ m_rootIndexList' = <<>> /\ view' = [x \in Nodes \cup {Root} |-> <<>>]
      /\ UNCHANGED <<srcVars, m_filterBehavior, m_mappedFirstChildren, m_mappedParents, rowFlags, announced>>
  BY DEF SetSelectionModel, MaySetSelectionModel, Starts
<1>8. ~emptied
  BY DEF SetSelectionModel, MaySetSelectionModel, Starts
<1>2. m_rootIndexList = <<>>
  BY <1>1, NoneSelected
<1>3. ~m_rowsInserted /\ ~m_rowsRemoved /\ ~Aside /\ announced = <<>>
  BY <1>1, <1>8 DEF Flow, Aside, SignalInv, RootAnnounced, Outer, Where, ChangePhases
<1>4. InStep /\ Clear
  BY <1>1, <1>3, ClearWhen DEF InStep, Coming, Going
<1>5. view = Shown(<<>>)
  <2>1. PICK p, first, last : Standing(<<>>, p, first, last)
    BY <1>2 DEF RowsInv, At
  <2> QED
    BY <1>4, <2>1 DEF Standing
<1>6. view' = view
  BY <1>1, <1>5, ShownEmpty
<1>7. UNCHANGED tableVars
  BY <1>1, <1>2 DEF tableVars
<1> QED
  BY <1>1, <1>3, <1>6, <1>7, NothingNew

\* A layout change is announced.
LEMMA LayoutAnnounced ==
    ASSUME RootsOnTop, Flow, Flow', Scope, RootsInv, SignalInv, RowsInv, [Next]_vars,
           LayoutAboutToBeChanged, phase = "idle", hasSource, ~emptied
    PROVE  RowsInv'
<1>1. /\ phase' = "relayouting" /\ m_rootIndexList' = <<>>
      /\ UNCHANGED <<srcVars, selection, m_filterBehavior, m_mappedFirstChildren, m_mappedParents, rowFlags, view>>
  BY DEF LayoutAboutToBeChanged, Enters, selectVars
<1>2. CASE selection = {}
  <2>1. m_rootIndexList = <<>>
    BY <1>2, NoneSelected
  <2>2. UNCHANGED <<tableVars, announced>>
    BY <1>1, <2>1 DEF LayoutAboutToBeChanged, tableVars
  <2>3. ~m_rowsInserted /\ ~m_rowsRemoved /\ ~Aside
    BY DEF Flow, Aside
  <2> QED
    BY <1>1, <2>2, <2>3, NothingNew
<1>3. CASE selection # {}
  BY <1>1, <1>3, NoneOnTheirWay, AsideNext DEF Aside
<1> QED
  BY <1>2, <1>3

\* The source has another order.
LEMMA Relayouted ==
    ASSUME RootsOnTop, Flow, Flow', RootsInv, SignalInv, RowsInv, [Next]_vars, SourceRelayouts
    PROVE  RowsInv'
<1>1. /\ phase = "relayouting" /\ phase' = "relayouted"
      /\ UNCHANGED <<selection, emptied, m_filterBehavior, tableVars, view, announced>>
  BY DEF SourceRelayouts, Enters, selectVars, viewVars
<1>2. ~m_rowsInserted' /\ ~m_rowsRemoved' /\ ~m_recreateFirstChildMappingOnRemoval'
  BY <1>1, NoneOnTheirWay
<1>3. CASE selection = {} /\ ~emptied
  <2>1. m_rootIndexList = <<>> /\ announced = <<>>
    BY <1>1, <1>3 DEF RootsInv, SignalInv, RootAnnounced, Outer, Where, ChangePhases
  <2>2. InStep /\ Clear
    BY <1>1, <1>3, <2>1, ClearWhen DEF Flow, InStep, Aside, Coming, Going
  <2> QED
    BY <1>1, <1>2, <2>1, <2>2, EmptyStays
<1>4. CASE selection # {} \/ emptied
  BY <1>1, <1>2, <1>4, AsideNext DEF Aside
<1> QED
  BY <1>3, <1>4

\* The tables are emptied when the layout has changed, or the source was reset.
LEMMA LayoutHandled ==
    ASSUME RootsOnTop, Flow, Flow', SignalInv', RowsInv, [Next]_vars, HandleLayoutChanged
    PROVE  RowsInv'
<1>1. phase = "relayouted"
  BY DEF HandleLayoutChanged
<1>4. CASE emptied /\ Finishes
  <2>1. emptied' /\ phase' = "idle"
    BY <1>4 DEF HandleLayoutChanged, selectVars, Finishes, Enters
  <2> QED
    BY <2>1, NoneOnTheirWay, AsideNext DEF Aside
<1>2. CASE selection = {} /\ ~emptied /\ Finishes /\ UNCHANGED tableVars
  <2>1. ~m_rowsInserted /\ ~m_rowsRemoved /\ ~Aside
    BY <1>1, <1>2 DEF Flow, Aside
  <2>2. UNCHANGED <<srcVars, m_filterBehavior, view, rowFlags, announced>> /\ phase' = "idle"
    BY <1>2 DEF HandleLayoutChanged, Finishes, Enters, selectVars, viewVars
  <2> QED
    BY <1>1, <1>2, <2>1, <2>2, NothingNew
<1>3. CASE SetTables(EmptyTables) /\ Processes(selection, {}, "layoutRebuilt")
  <2>1. phase' = "layoutRebuilt" \/ (phase' = "changing" /\ resume' = "layoutRebuilt")
    BY <1>3 DEF Processes
  <2>2. ~Clear'
    BY <2>1, NotClearNext DEF SignalInv, RootAnnounced, Outer, Where, ChangePhases
  <2> QED
    BY <1>3, <2>1, <2>2, NoneOnTheirWay, Emptied
<1> QED
  BY <1>2, <1>3, <1>4 DEF HandleLayoutChanged

LEMMA ResetHandled ==
    ASSUME Flow', SignalInv', RowsInv, [Next]_vars, HandleModelReset
    PROVE  RowsInv'
<1>1. CASE phase' = "reset"
  BY <1>1, NoneOnTheirWay, AsideNext DEF Aside
<1>2. CASE SetTables(EmptyTables) /\ phase' = "cleared" /\ resume' = "rebuilt"
  <2>1. ~Clear'
    BY <1>2, NotClearNext DEF SignalInv, RootAnnounced, Outer
  <2> QED
    BY <1>2, <2>1, NoneOnTheirWay, Emptied
<1> QED
  BY <1>1, <1>2 DEF HandleModelReset, Enters

\* Nothing happens.
LEMMA NothingHappens ==
    ASSUME RootsOnTop, RowsInv, UNCHANGED vars
    PROVE  RowsInv'
<1>1. UNCHANGED <<srcVars, m_filterBehavior, selection, tableVars, change, m_pendingSelectionChanges,
                  view, announced, op, phase, m_rowsInserted, m_rowsRemoved, m_proxyRemoveRows,
                  m_recreateFirstChildMappingOnRemoval>>
  BY DEF vars, selectVars, changeVars, rowFlags, viewVars
<1>9. UNCHANGED <<emptied, m_resetting, NewRoot>> /\ (RootAnnounced' <=> RootAnnounced)
  <2>1. UNCHANGED <<emptied, m_resetting>>
    BY DEF vars, selectVars, resetFlags
  <2> QED
    BY <1>1, <2>1, RowsOfNewRoot DEF RootAnnounced
<1>2. PICK s, p, first, last : At(s, p, first, last) /\ Standing(s, p, first, last) /\ Announcing(s, p, first, last)
  BY DEF RowsInv
<1>3. At(s, p, first, last)'
  BY <1>1, <1>2 DEF At, tableVars
<1>4. /\ (Clear' <=> Clear) /\ (InStep' <=> InStep) /\ (Coming' <=> Coming) /\ (Going' <=> Going)
  BY <1>1, <1>9 DEF Clear, Flow, InStep, Aside, Coming, Going
<1>5. Standing(s, p, first, last)'
  BY <1>1, <1>2, <1>4, SameStanding
<1>6. isFlat' = isFlat /\ Below(RangeOf(s))' = Below(RangeOf(s)) /\ RemovalPair' = RemovalPair /\ NewRootRow' = NewRootRow
  <2>1. Below(RangeOf(s))' = {n \in Present' : SelfAndAbove'[n] \cap RangeOf(s) # {}}
    BY DEF Below, LiesWithin, RangeOf
  <2> QED
    BY <1>1, <2>1, FlatNext, SameTree, SamePlaces DEF Below, LiesWithin
<1>7. Latest' = Latest
  BY <1>1 DEF Latest
<1>8. Announcing(s, p, first, last)'
  BY <1>1, <1>2, <1>6, <1>7 DEF Announcing
<1>10. CASE phase # "rootAdded"
  BY <1>1, <1>3, <1>5, <1>8, <1>10, RowsInvNext
<1>11. CASE phase = "rootAdded"
  <2>1. PICK t, u, row : NewlyListed(t, u, row)
    BY <1>11 DEF RowsInv
  <2>2. Fitting(t, u)' /\ Shown(u)' = Shown(u)
    BY <1>1, <2>1, FittingStays, SameShown DEF NewlyListed
  <2>3. (NewRoot \in Nodes \ RangeOf(u))' /\ (m_rootIndexList = Seqs!InsertAt(u, row + 1, NewRoot))'
    BY <1>1, <1>9, <2>1 DEF NewlyListed, RangeOf, tableVars
  <2>4. (u \in Seq(Nodes) /\ Injective(u) /\ row \in 0 .. Len(u))'
    BY <2>1 DEF NewlyListed, Injective
  <2>5. (t = [Tables EXCEPT !.roots = u])'
    BY <1>1, <2>1 DEF NewlyListed, Tables, tableVars
  <2>6. NewlyListed(t, u, row)'
    BY <1>1, <1>4, <1>7, <1>9, <2>1, <2>2, <2>3, <2>4, <2>5 DEF NewlyListed
  <2>7. ~m_recreateFirstChildMappingOnRemoval'
    BY <1>8 DEF Announcing
  <2> QED
    BY <1>3, <1>5, <1>8, <2>6, <2>7 DEF RowsInv
<1> QED
  BY <1>10, <1>11

\* The rest of selectionChanged(), of an insertion and of a reset.
LEMMA ContinuesUnseen ==
    ASSUME RootsOnTop, Flow, RowsInv,
           FinishChange \/ DrainPending \/ FinishInsert \/ Rebuild
    PROVE  RowsInv'
<1>1. /\ UNCHANGED <<srcVars, tableVars, m_filterBehavior, view, rowFlags, announced>>
      /\ phase \in {"changing", "adding", "draining", "cleared"}
  BY DEF FinishChange, RootsRemoved, DrainPending, FinishInsert, Rebuild, selectVars, viewVars, ChangePhases
<1>2. ~m_rowsInserted /\ ~m_rowsRemoved /\ ~Aside
  BY <1>1 DEF Flow, Aside, ChangePhases
<1>3. phase' \notin {"inserting", "removing", "rootsLeaving", "rootComing", "rootAdded"}
  BY DEF FinishChange, RootsRemoved, DrainPending, FinishInsert, Finishes, Enters, Rebuild, Processes, Flow, ChangePhases
<1> QED
  BY <1>1, <1>2, <1>3, NothingNew

LEMMA RowsToGoUnseen ==
    ASSUME RootsOnTop, Flow, RowsInv, NEW p, NEW first, NEW last, AboutToRemove(p, first, last)
    PROVE  RowsInv'
<1>1. /\ UNCHANGED <<srcVars, tableVars, m_filterBehavior, view, rowFlags, announced>>
      /\ phase = "idle" /\ phase' \in {"toRemove", "changing"}
  BY DEF AboutToRemove, Starts, selectionChanged, Processes, viewVars, Flow
<1>2. ~m_rowsInserted /\ ~m_rowsRemoved /\ ~Aside
  BY <1>1 DEF AboutToRemove, Starts, Flow, Aside
<1> QED
  BY <1>1, <1>2, NothingNew

\* A reset begins, and the source is another.
LEMMA ResetBegins ==
    ASSUME Flow', RowsInv, [Next]_vars, AboutToReset \/ \E f \in Forests : SourceResets(f)
    PROVE  RowsInv'
<1>1. phase' \in {"resetting", "reset"}
  BY DEF AboutToReset, SourceResets, Enters
<1> QED
  BY <1>1, NoneOnTheirWay, AsideNext DEF Aside

\* A slot changes the selection.
LEMMA SlotSelects ==
    ASSUME RootsOnTop, CalmSelections, Flow, Flow', Scope, SignalInv, RowsInv, [Next]_vars,
           NEW S \in SUBSET Present, SelectInserting(S) \/ SelectRemoving(S) \/ SelectResetting(S)
    PROVE  RowsInv'
<1>1. CASE SelectInserting(S)
  BY <1>1, SelectedWhileInserting
<1>2. CASE SelectRemoving(S)
  <2>1. phase = "removed" /\ ~m_rowsRemoved /\ ~m_rowsInserted /\ Selects(S, phase) /\ ~emptied
    BY <1>2 DEF SelectRemoving, CalmSelections, Flow
  <2> QED
    BY <2>1, SelectedMeanwhile
<1>3. CASE SelectResetting(S)
  <2>1. phase = "reset" /\ m_sourceModelResetting /\ ~m_rowsInserted /\ ~m_rowsRemoved
    BY <1>3 DEF SelectResetting, Flow
  <2>2. phase' = "reset"
    BY <1>3, <2>1 DEF SelectResetting, Selects, selectionChanged, Processes
  <2> QED
    BY <2>2, NoneOnTheirWay, AsideNext DEF Aside
<1> QED
  BY <1>1, <1>2, <1>3

\* A slot clears the selection, and the tables are left as they are.
LEMMA Cleared ==
    ASSUME Flow', RowsInv, [Next]_vars, ClearRelayouting
    PROVE  RowsInv'
<1>1. emptied' /\ phase' \in {"relayouting", "relayouted"}
  BY DEF ClearRelayouting, changeVars
<1> QED
  BY <1>1, NoneOnTheirWay, AsideNext DEF Aside

Known == Flow /\ Scope /\ RootsInv /\ SignalInv /\ OrderInv

\* Each step of a proxy with the roots on the top level.
LEMMA RowsKept ==
    ASSUME CalmSelections, "selectionModelLoaded" \notin Operations,
           RootsOnTop, Known, Known', RowsInv, [Next]_vars
    PROVE  RowsInv'
<1>a. Flow /\ Scope /\ RootsInv /\ SignalInv /\ OrderInv /\ Flow' /\ Scope' /\ RootsInv' /\ SignalInv' /\ OrderInv'
  BY DEF Known
<1>1. CASE Begins
  <2>1. CASE SetSourceModel
    BY <1>a, <2>1, StartedOver DEF SetSourceModel
  <2>2. ASSUME NEW S \in SUBSET Present, Select(S) \/ SetSelectionModel(S)
        PROVE  RowsInv'
    <3>1. CASE Select(S)
      <4>1. phase = "idle" /\ Selects(S, "idle") /\ ~m_rowsInserted /\ ~m_rowsRemoved /\ ~emptied
        BY <1>a, <3>1 DEF Select, Starts, Flow
      <4> QED
        BY <1>a, <4>1, SelectedMeanwhile
    <3>2. CASE SetSelectionModel(S)
      BY <1>a, <3>2, OtherSelectionModel
    <3> QED
      BY <2>2, <3>1, <3>2
  <2>3. ASSUME NEW p \in Nodes \cup {Root}, NEW first \in 0 .. rowCount(p),
               NEW last \in first .. first + MaxForest - 1, AboutToInsert(p, first, last)
        PROVE  RowsInv'
    BY <1>a, <2>3, RowsToCome
  <2>4. ASSUME NEW p, NEW first, NEW last, AboutToRemove(p, first, last)
        PROVE  RowsInv'
    BY <1>a, <2>4, RowsToGoUnseen
  <2>5. ASSUME NEW p, NEW first, NEW last, NEW q, NEW dest,
               AboutToMove(p, first, last, q, dest) \/ AboutToRelayout(p)
        PROVE  RowsInv'
    <3>1. LayoutAboutToBeChanged /\ phase = "idle" /\ hasSource /\ ~emptied
      BY <2>5 DEF AboutToMove, AboutToRelayout, Starts
    <3> QED
      BY <1>a, <3>1, LayoutAnnounced
  <2>6. CASE AboutToReset
    BY <1>a, <2>6, ResetBegins
  <2>7. ASSUME NEW behavior \in Behaviors, SetFilterBehavior(behavior)
        PROVE  RowsInv'
    BY <1>a, <2>7, StartedOver DEF SetFilterBehavior
  <2> QED
    BY <1>1, <2>1, <2>2, <2>3, <2>4, <2>5, <2>6, <2>7 DEF Begins
<1>2. CASE Continues
  <2>1. CASE AnnounceRootsLeaving
    BY <1>a, <2>1, RootsLeavingAnnounced
  <2>2. CASE RemoveRoots
    BY <1>a, <2>2, RootsLeave
  <2>3. CASE AnnounceRoot
    BY <1>a, <2>3, AnnouncedRoot
  <2>4. CASE InsertRoot
    BY <1>a, <2>4, RootComes
  <2>16. CASE ListRoot
    BY <1>a, <2>16, RootIsListed
  <2>5. CASE FinishChange \/ DrainPending \/ FinishInsert \/ Rebuild
    BY <1>a, <2>5, ContinuesUnseen
  <2>6. ASSUME NEW f \in Forests, SourceInserts(f) PROVE RowsInv'
    BY <1>a, <2>6, RowsCome
  <2>7. CASE HandleRowsInserted
    BY <1>a, <2>7, RowsAreIn
  <2>8. CASE HandleRowsAboutToBeRemoved
    BY <1>a, <2>8, RowsToGo
  <2>9. CASE SourceRemoves
    BY <1>a, <2>9, RowsGo
  <2>10. CASE HandleRowsRemoved
    BY <1>a, <2>10, RowsAreOut
  <2>11. CASE SourceRelayouts
    BY <1>a, <2>11, Relayouted
  <2>12. CASE HandleLayoutChanged
    BY <1>a, <2>12, LayoutHandled
  <2>13. CASE FinishLayout \/ FinishReset
    BY <1>a, <2>13, ReadingSeen
  <2>14. CASE \E f \in Forests : SourceResets(f)
    BY <1>a, <2>14, ResetBegins
  <2>15. CASE HandleModelReset
    BY <1>a, <2>15, ResetHandled
  <2> QED
    BY <1>2, <2>1, <2>2, <2>3, <2>4, <2>5, <2>6, <2>7, <2>8, <2>9, <2>10, <2>11, <2>12, <2>13, <2>14, <2>15,
       <2>16 DEF Continues
<1>3. CASE Interrupts
  BY <1>a, <1>3, SlotSelects, Cleared DEF Interrupts
<1>4. CASE UNCHANGED vars
  BY <1>4, NothingHappens
<1> QED
  BY <1>1, <1>2, <1>3, <1>4 DEF Next

\* Each step.
LEMMA RowsStep ==
    ASSUME CalmSelections, "selectionModelLoaded" \notin Operations,
           Known, Known', RowsInv, [Next]_vars
    PROVE  RowsInv'
<1>1. CASE \E behavior \in Behaviors : SetFilterBehavior(behavior)
  BY <1>1, StartedOver DEF SetFilterBehavior, Known
<1>2. CASE RootsOnTop
  BY <1>2, RowsKept
<1>3. CASE ~RootsOnTop /\ m_filterBehavior' = m_filterBehavior
  <2>1. ~RootsOnTop'
    BY <1>3, FlatNext
  <2>2. ~m_rowsRemoved' => ~m_recreateFirstChildMappingOnRemoval'
    BY StepKeeps DEF RowsInv
  <2> QED
    BY <2>1, <2>2 DEF RowsInv
<1> QED
  BY <1>1, <1>2, <1>3, StepKeeps

LEMMA RowsInit == Init => RowsInv
<1> SUFFICES ASSUME Init PROVE RowsInv
  OBVIOUS
<1>1. /\ m_rootIndexList = <<>> /\ m_mappedFirstChildren = EmptyMapping /\ m_mappedParents = EmptyMapping
      /\ ~m_rowsInserted /\ ~m_rowsRemoved /\ ~m_recreateFirstChildMappingOnRemoval
      /\ phase = "idle" /\ view = [x \in Nodes \cup {Root} |-> <<>>]
  BY DEF Init
<1>2. PICK t : t = Tables
  OBVIOUS
<1>3. Hold(t, <<>>, EmptyMapping)
  BY <1>1, <1>2, TablesAre DEF Hold, Tables
<1>4. Showing(Tables, <<>>) /\ Fitting(Tables, <<>>)
  BY <1>2, <1>3, EmptyShowing
<1>5. view = Shown(<<>>)
  BY <1>1, ShownEmpty
<1>6. PICK p, first, last : p = op.parent /\ first = op.first /\ last = op.last
  OBVIOUS
<1>7. Standing(<<>>, p, first, last)
  BY <1>1, <1>4, <1>5 DEF Standing, Coming, Going
<1>8. Announcing(<<>>, p, first, last)
  BY <1>1 DEF Announcing
<1> QED
  BY <1>1, <1>6, <1>7, <1>8 DEF RowsInv, At

LEMMA RowsAlways ==
    CalmSelections /\ "selectionModelLoaded" \notin Operations => (Spec => [](Invariant /\ RowsInv))
<1> SUFFICES ASSUME CalmSelections, "selectionModelLoaded" \notin Operations
             PROVE  Spec => [](Invariant /\ RowsInv)
  OBVIOUS
<1>1. Spec => []Invariant
  BY InvariantHolds
<1>2. Invariant /\ Invariant' /\ RowsInv /\ [Next]_vars => RowsInv'
  BY RowsStep DEF Invariant, Known
<1> QED
  BY <1>1, <1>2, RowsInit, PTL DEF Spec

\* Where a listener may read, it has what the tables say.
LEMMA QuietRows ==
    ASSUME RootsOnTop, Known, RowsInv, Quiet
    PROVE  \E s : s = m_rootIndexList /\ Showing(Tables, s) /\ view = Shown(s) /\ RootSeq(s)
<1>1. Clear /\ phase \notin {"inserted", "removed", "relayouting", "relayouted", "reset", "cleared", "rootAdded"}
  BY DEF Quiet, Clear
<1>2. phase # "resetting" /\ ~emptied
  BY <1>1, NotClear DEF Known, Flow, SignalInv, RootAnnounced, Outer, Where, ChangePhases
<1>3. InStep
  BY <1>1, <1>2 DEF Flow, InStep, Aside, Coming, Going
<1>4. PICK s, p, first, last : At(s, p, first, last) /\ Standing(s, p, first, last)
  BY DEF RowsInv
<1>5. s = m_rootIndexList /\ Showing(Tables, s) /\ view = Shown(s)
  BY <1>1, <1>3, <1>4 DEF At, Standing
<1>6. RootSeq(s)
  BY <1>1, <1>5, RootsAreRootSeq DEF Known
<1> QED
  BY <1>5, <1>6

LEMMA IdleIsQuiet ==
    ASSUME Known, phase = "idle", ~emptied
    PROVE  Quiet
<1>1. announced = <<>>
  BY DEF Known, SignalInv, RootAnnounced, Outer, Where, ChangePhases
<1> QED
  BY <1>1 DEF Quiet

\* A row that is shown, mapped to the proxy and back.
LEMMA MapsThere ==
    ASSUME RootsOnTop, TreeOK, NEW t, NEW s, Showing(t, s), RootSeq(s), NEW x \in Below(RangeOf(s)),
           isFlat => x \in RangeOf(s)
    PROVE  /\ mapFromSource(t, x) = EntryAt(s, srcRow, x)
           /\ mapToSource(t, EntryAt(s, srcRow, x)) = x
           /\ ~isFlat /\ hasChildren(x) => Mapped(t, x)
<1>1. x \in Present /\ x \in Nodes
  BY DEF Below, Present
<1>2. s \in Seq(Nodes) /\ Injective(s)
  BY DEF RootSeq
<1>3. \A r : mapToSource(t, <<r, Root>>) = IF r + 1 \in DOMAIN s THEN s[r + 1] ELSE Root
  BY <1>2, TopMaps
<1>4. CASE x \in RangeOf(s)
  <2>1. Place(s, x) \in 1 .. Len(s) /\ s[Place(s, x)] = x /\ DOMAIN s = 1 .. Len(s)
    BY <1>2, <1>4, PlaceIs
  <2>2. EntryAt(s, srcRow, x) = <<Place(s, x) - 1, Root>>
    BY <1>4 DEF EntryAt
  <2>3. PICK r : r = Place(s, x) - 1
    OBVIOUS
  <2>4. r + 1 = Place(s, x)
    BY <2>1, <2>3
  <2>5. mapToSource(t, EntryAt(s, srcRow, x)) = x
    BY <1>3, <2>1, <2>2, <2>3, <2>4
  <2>6. CASE isFlat
    <3>1. Hold(t, s, EmptyMapping)
      BY <2>6 DEF Showing
    <3>2. PICK e : e = EmptyMapping
      OBVIOUS
    <3>3. mapFromSource(t, x) = <<Place(s, x) - 1, Root>>
      BY <1>1, <1>4, <3>1, <3>2, MapsFrom, EmptyShift
    <3> QED
      BY <2>2, <2>5, <2>6, <3>3
  <2>7. CASE ~isFlat
    <3>1. mapFromSource(t, x) = EntryAt(s, srcRow, x)
      BY <1>1, <2>7, ShownTest
    <3>2. hasChildren(x) => Mapped(t, x)
      BY <2>7 DEF Showing, AllMapped, Hold, Mapped
    <3> QED
      BY <2>5, <3>1, <3>2
  <2> QED
    BY <2>6, <2>7
<1>5. CASE x \notin RangeOf(s)
  <2>1. ~isFlat
    BY <1>5
  <2>2. PICK e : Hold(t, s, e) /\ Fits(e, s, srcRow) /\ AllMapped(e, s) /\ RootList(s)
    BY <2>1 DEF Showing
  <2>3. parent(x) \in Below(RangeOf(s)) /\ parent(x) = srcParent[x] /\ parent(x) \in Present \cup {Root}
    BY <1>1, <1>5, <2>2, BelowIs
  <2>4. x \in Children(parent(x))
    BY <1>1, <2>3 DEF Children, Present
  <2>5. hasChildren(parent(x)) /\ index(srcRow[x], parent(x)) = x
    BY <2>3, <2>4, Kids DEF hasChildren
  <2>6. parent(x) \in DOMAIN e
    BY <2>2, <2>3, <2>5 DEF AllMapped
  <2>7. RowsApart(srcRow, DOMAIN e)
    BY <2>2, RowsNow DEF RowsApart, Fits, Below
  <2>8. EntryAt(s, srcRow, x) = <<srcRow[x], parent(x)>>
    BY <1>5 DEF EntryAt
  <2>9. mapToSource(t, <<srcRow[x], parent(x)>>) = index(srcRow[x], parent(x))
    BY <2>2, <2>6, <2>7, MapsTo
  <2>10. mapFromSource(t, x) = EntryAt(s, srcRow, x)
    BY <1>1, <2>1, ShownTest
  <2>11. hasChildren(x) => Mapped(t, x)
    BY <2>2 DEF AllMapped, Hold, Mapped
  <2> QED
    BY <2>5, <2>8, <2>9, <2>10, <2>11
<1> QED
  BY <1>4, <1>5

\* No entry is left over.
LEMMA NoneStale ==
    ASSUME RootsOnTop, Known, RowsInv
    PROVE  NoStaleParents
<1> SUFFICES ASSUME Quiet, NEW n \in DOMAIN m_mappedParents
             PROVE  n \in Present /\ mapToSource(Tables, m_mappedParents[n]) = n
  BY DEF NoStaleParents
<1>1. PICK s : s = m_rootIndexList /\ Showing(Tables, s) /\ view = Shown(s) /\ RootSeq(s)
  BY QuietRows
<1>2. PICK t : t = Tables
  OBVIOUS
<1>3. t.parents = m_mappedParents
  BY <1>2 DEF Tables
<1>4. ~isFlat
  BY <1>1, <1>2, <1>3, EmptyShift DEF Showing, Hold
<1>5. n \in Below(RangeOf(s)) /\ m_mappedParents[n] = EntryAt(s, srcRow, n)
  BY <1>1, <1>2, <1>3, <1>4 DEF Showing, Hold, Fits
<1>6. mapToSource(t, EntryAt(s, srcRow, n)) = n
  BY <1>1, <1>2, <1>4, <1>5, MapsThere DEF Known, Scope
<1> QED
  BY <1>2, <1>5, <1>6 DEF Below

\* What a listener reads is what it was told.
LEMMA MidwayRead ==
    ASSUME RootsOnTop, Known, RowsInv
    PROVE  ReadableMidway
<1> SUFFICES ASSUME Quiet
             PROVE  /\ ReadTree(Tables) = view
                    /\ \A k \in DOMAIN view[Root] : indexIsValid(Tables, k - 1)
                    /\ \A x \in Nodes \cup {Root} : x = Root \/ Listed(view[Root], x) =>
                          (view[x] # <<>>) = hasRows(Tables, x)
  BY DEF ReadableMidway
<1>1. PICK s : s = m_rootIndexList /\ Showing(Tables, s) /\ view = Shown(s) /\ RootSeq(s)
  BY QuietRows
<1>2. PICK t : t = Tables
  OBVIOUS
<1>3. TreeOK /\ t.roots = s
  BY <1>1, <1>2 DEF Known, Scope, Tables
<1>4. ReadTree(t) = view
  BY <1>1, <1>2, <1>3, TreeRead
<1>5. view[Root] = s /\ s \in Seq(Nodes)
  BY <1>1, ShownIs DEF RootSeq
<1>6. ASSUME NEW k \in DOMAIN s PROVE indexIsValid(t, k - 1)
  <2>1. k - 1 < Len(t.roots)
    BY <1>3, <1>5, <1>6
  <2> QED
    BY <2>1, Zenon DEF indexIsValid, RootsOnTop
<1>7. hasRows(t, Root) <=> s # <<>>
  BY <1>3, Zenon DEF hasRows, RootsOnTop
<1>8. ASSUME NEW x \in Nodes, Listed(s, x)
      PROVE  view[x] # <<>> <=> hasRows(t, x)
  <2>1. x \in Below(RangeOf(s)) /\ x # Root
    BY <1>1, <1>3, <1>8, ListedIs, NodesAssumption DEF RootSeq
  <2>2. view[x] = IF ~isFlat THEN ChildrenInOrder(x) ELSE <<>>
    BY <1>1, <2>1, ShownIs
  <2>3. s # <<>>
    BY <2>1, SomeRoot
  <2>4. hasRows(t, x) <=> ~isFlat /\ hasChildren(x)
    BY <1>3, <2>1, <2>3 DEF hasRows
  <2>5. ChildrenInOrder(x) # <<>> <=> hasChildren(x)
    <3>1. /\ ChildrenInOrder(x) \in Seq(Nodes) /\ Len(ChildrenInOrder(x)) = rowCount(x)
          /\ rowCount(x) = 0 <=> ~hasChildren(x)
      BY <1>3, <2>1, Kids DEF Below
    <3> QED
      BY <3>1, EmptySeq
  <2> QED
    BY <2>2, <2>4, <2>5
<1>9. hasRows(t, Root) \in BOOLEAN /\ \A x : hasRows(t, x) \in BOOLEAN
  BY DEF hasRows
<1> QED
  BY <1>2, <1>4, <1>5, <1>6, <1>7, <1>8, <1>9

\* Each row a listener has maps to its index and back.
LEMMA BackAndForth ==
    ASSUME RootsOnTop, Known, RowsInv
    PROVE  MapsBackAndForth
<1> SUFFICES ASSUME Quiet, NEW x \in Nodes, Listed(view[Root], x), isFlat => AmongRows(view[Root], x)
             PROVE  /\ mapFromSource(Fetched(Tables), x) = ListedIndex(view[Root], x)
                    /\ mapToSource(Fetched(Tables), ListedIndex(view[Root], x)) = x
                    /\ ~isFlat /\ hasChildren(x) => Mapped(Fetched(Tables), x)
  BY DEF MapsBackAndForth
<1>1. PICK s : s = m_rootIndexList /\ Showing(Tables, s) /\ view = Shown(s) /\ RootSeq(s)
  BY QuietRows
<1>2. PICK t : t = Tables
  OBVIOUS
<1>3. TreeOK
  BY DEF Known, Scope
<1>4. Showing(Fetched(t), s)
  BY <1>1, <1>2, <1>3, ShowingFits, ReadFits
<1>5. PICK u : u = Fetched(t)
  OBVIOUS
<1>6. view[Root] = s
  BY <1>1, ShownIs
<1>7. /\ AmongRows(s, x) <=> x \in RangeOf(s)
      /\ x \in Below(RangeOf(s)) /\ ListedIndex(s, x) = EntryAt(s, srcRow, x)
  BY <1>1, <1>3, <1>6, ListedIs DEF RootSeq
<1> QED
  BY <1>1, <1>2, <1>3, <1>4, <1>5, <1>6, <1>7, MapsThere

----------------------------------------------------------------------------
(* What the selection calls for.                                           *)

\* A list of roots is such a list.
LEMMA ListIsOfSet ==
    ASSUME NEW s \in Seq(Nodes), Injective(s)
    PROVE  s \in Seqs!SetToSeqs(RangeOf(s))
<1> DEFINE S == RangeOf(s)
           D == 1 .. Len(s)
<1>1. Len(s) \in Nat /\ DOMAIN s = D /\ s \in [D -> S] /\ S \in SUBSET Nodes
  BY DEF RangeOf
<1>2. s \in Bijection(D, S)
  BY <1>1 DEF Injective, RangeOf, Bijection, Injection, Surjection, IsInjective
<1>3. IsFiniteSet(D) /\ Cardinality(D) = Len(s)
  BY <1>1, FS_Interval
<1>4. Cardinality(S) = Len(s)
  BY <1>2, <1>3, FS_Bijection DEF ExistsBijection
<1>5. Seqs!Cardinality(S) = Len(s)
  BY <1>4 DEF Seqs!Cardinality, Cardinality
<1>6. \A j, k \in D : j # k => s[j] # s[k]
  BY <1>1 DEF Injective
<1>7. s \in {g \in [D -> S] : \A i, j \in D : i # j => g[i] # g[j]}
  <2> HIDE DEF D, S
  <2> QED
    BY <1>1, <1>6
<1> HIDE DEF S
<1>8. s \in Seqs!SetToSeqs(S)
  BY <1>5, <1>7 DEF Seqs!SetToSeqs
<1> QED
  BY <1>8 DEF S

\* The indexes of a set have one order only.
LEMMA OneOrder ==
    ASSUME TreeOK, NEW s \in Seq(Nodes), NEW f \in Seq(Nodes), Injective(s), Injective(f),
           RangeOf(f) = RangeOf(s), RangeOf(s) \subseteq Present, Len(f) = Len(s), IsSorted(s), IsSorted(f)
    PROVE  f = s
<1> DEFINE D == 1 .. Len(s)
           Differ == {k \in D : f[k] # s[k]}
<1>1. Len(s) \in Nat /\ DOMAIN s = D /\ DOMAIN f = D
  OBVIOUS
<1>2. Differ = {}
  <2> SUFFICES ASSUME Differ # {} PROVE FALSE
    OBVIOUS
  <2>1. Differ \in SUBSET Nat
    OBVIOUS
  <2>2. PICK k \in Differ : \A j \in Differ : k <= j
    BY <2>1, LeastIs
  <2>3. \A j \in D : j < k => f[j] = s[j]
    BY <2>2
  <2>4. k \in D /\ f[k] # s[k] /\ f[k] \in Present /\ s[k] \in Present
    BY <1>1, <2>2 DEF RangeOf
  <2>5. PICK i \in D : f[i] = s[k]
    BY <1>1, <2>4 DEF RangeOf
  <2>6. k < i
    BY <1>1, <2>3, <2>4, <2>5 DEF Injective
  <2>7. PICK m \in D : s[m] = f[k]
    BY <1>1, <2>4 DEF RangeOf
  <2>8. k < m
    BY <1>1, <2>3, <2>4, <2>7 DEF Injective
  <2>9. Before(f[k], s[k]) /\ Before(s[k], f[k])
    BY <1>1, <2>4, <2>5, <2>6, <2>7, <2>8 DEF IsSorted
  <2> QED
    BY <2>4, <2>9, BeforeOrders
<1>3. \A k \in D : f[k] = s[k]
  BY <1>2
<1> HIDE DEF D
<1> QED
  BY <1>1, <1>3

\* When no call is under way the roots are the indexes that the selection calls for.
LEMMA RootsCalledFor ==
    ASSUME Known, phase = "idle", hasSource
    PROVE  ShownRoots = m_rootIndexList
<1>1. PICK s : s = m_rootIndexList
  OBVIOUS
<1>2. m_pendingSelectionChanges = <<>>
  BY DEF Known, Flow
<1>3. RangeOf(s) = Target(selection) /\ s \in Seq(Nodes) /\ Injective(s)
  BY <1>1, <1>2 DEF Known, RootsInv, RootTypes, Settled, Earlier, RootSet
<1>4. RangeOf(s) \subseteq Present /\ IsSorted(s) /\ TreeOK
  BY <1>1 DEF Known, OrderInv, RootSet, Scope
<1>5. PICK S \in SUBSET Nodes : S = Target(selection)
  BY <1>3 DEF RangeOf
<1>6. ShownRoots = CHOOSE f \in Seqs!SetToSeqs(S) : IsSorted(f)
  BY <1>5 DEF ShownRoots, Target, IsSorted
<1>7. s \in Seqs!SetToSeqs(S)
  BY <1>3, <1>5, ListIsOfSet
<1>8. PICK f : f = ShownRoots
  OBVIOUS
<1>9. f \in Seqs!SetToSeqs(S) /\ IsSorted(f)
  BY <1>4, <1>6, <1>7, <1>8
<1>10. f \in Seq(Nodes) /\ Injective(f) /\ RangeOf(f) = S /\ Len(f) = Cardinality(S)
  BY <1>9, ListsOfSet
<1>11. Len(s) = Cardinality(S)
  BY <1>7, ListsOfSet
<1>12. f = s
  BY <1>3, <1>4, <1>5, <1>9, <1>10, <1>11, OneOrder
<1> QED
  BY <1>1, <1>8, <1>12

\* The rows are those of the selection.
LEMMA SelectionShown ==
    ASSUME RootsOnTop, Known, RowsInv
    PROVE  ShowsSelection
<1> SUFFICES ASSUME phase = "idle", hasSource, ~emptied, NEW x \in Nodes \cup {Root}
             PROVE  view[x] = IF x = Root THEN ShownTop
                              ELSE IF ~isFlat /\ Listed(ShownTop, x) THEN ChildrenInOrder(x)
                              ELSE <<>>
  BY DEF ShowsSelection
<1>1. Quiet
  BY IdleIsQuiet
<1>2. PICK s : s = m_rootIndexList /\ Showing(Tables, s) /\ view = Shown(s) /\ RootSeq(s)
  BY <1>1, QuietRows
<1>3. ShownTop = s
  BY <1>2, RootsCalledFor, Zenon DEF ShownTop, RootsOnTop
<1>4. TreeOK
  BY DEF Known, Scope
<1>5. x # Root => (Listed(s, x) <=> x \in Below(RangeOf(s)))
  BY <1>2, <1>4, ListedIs DEF RootSeq
<1> QED
  BY <1>2, <1>3, <1>5, ShownIs

----------------------------------------------------------------------------
(* dataChanged.                                                            *)

\* The runs of neighbouring rows.
RunStarts(rows) == {r \in rows : r - 1 \notin rows}
RunEnd(rows, r) == Greatest({e \in rows : r .. e \subseteq rows})

LEMMA RunsAre ==
    ASSUME NEW rows \in SUBSET Nat, NEW bound \in Nat, \A n \in rows : n <= bound
    PROVE  /\ \A r \in rows : RunEnd(rows, r) \in rows /\ r .. RunEnd(rows, r) \subseteq rows
           /\ \A r \in rows : \A e \in rows : r .. e \subseteq rows => e <= RunEnd(rows, r)
           /\ \A k \in rows : \E r \in RunStarts(rows) : r <= k /\ r .. k \subseteq rows
<1>1. ASSUME NEW r \in rows
      PROVE  /\ RunEnd(rows, r) \in rows /\ r .. RunEnd(rows, r) \subseteq rows
             /\ \A e \in rows : r .. e \subseteq rows => e <= RunEnd(rows, r)
  <2> DEFINE E == {e \in rows : r .. e \subseteq rows}
  <2>1. E \in SUBSET Nat /\ \A e \in E : e <= bound
    OBVIOUS
  <2>2. r \in E
    BY r .. r = {r}
  <2>3. RunEnd(rows, r) = Greatest(E)
    BY DEF RunEnd
  <2>4. Greatest(E) \in E /\ \A e \in E : e <= Greatest(E)
    <3> HIDE DEF E
    <3> QED
      BY <2>1, <2>2, GreatestIs
  <2> QED
    BY <2>3, <2>4
<1>2. ASSUME NEW k \in rows
      PROVE  \E r \in RunStarts(rows) : r <= k /\ r .. k \subseteq rows
  <2> DEFINE A == {a \in rows : a <= k /\ a .. k \subseteq rows}
  <2>1. A \in SUBSET Nat
    OBVIOUS
  <2>2. k \in A
    BY k .. k = {k}
  <2>3. PICK r : r \in A /\ \A a \in A : r <= a
    <3> HIDE DEF A
    <3> QED
      BY <2>1, <2>2, LeastIs
  <2>4. r \in Nat /\ k \in Nat /\ r <= k
    BY <2>3
  <2>5. r - 1 \notin rows
    <3> SUFFICES ASSUME r - 1 \in rows PROVE FALSE
      OBVIOUS
    <3>1. \A n \in (r - 1) .. k : n = r - 1 \/ n \in r .. k
      BY <2>4
    <3>2. r - 1 \in A
      BY <2>3, <2>4, <3>1
    <3> QED
      BY <2>3, <2>4, <3>2
  <2> QED
    BY <2>3, <2>5 DEF RunStarts
<1> QED
  BY <1>1, <1>2

\* The ranges announced have the changed root rows in them and no others, all but
\* the last of them when it stands alone.
LEMMA RangesAre ==
    ASSUME NEW rows \in SUBSET Nat, NEW bound \in Nat, \A n \in rows : n <= bound
    PROVE  /\ \A r \in ContinuousRanges(rows) : r[1] .. r[2] \subseteq rows
           /\ \A k \in rows : \/ \E r \in ContinuousRanges(rows) : k \in r[1] .. r[2]
                              \/ k = Greatest(rows) /\ k - 1 \notin rows
<1>1. CASE rows = {}
  BY <1>1 DEF ContinuousRanges
<1>2. CASE rows # {}
  <2>1. PICK least : least = Least(rows) /\ least \in rows
    BY <1>2, LeastIs
  <2>2. RunStarts(rows) \in SUBSET Nat /\ RunStarts(rows) # {} /\ RunStarts(rows) \subseteq rows
    BY <2>1, RunsAre DEF RunStarts
  <2>3. PICK g : g = Greatest(RunStarts(rows)) /\ g \in RunStarts(rows) /\ \A r \in RunStarts(rows) : r <= g
    <3>1. \A r \in RunStarts(rows) : r <= bound
      BY <2>2
    <3> QED
      BY <2>2, <3>1, GreatestIs
  <2>4. PICK e : e = RunEnd(rows, g)
    OBVIOUS
  <2>5. PICK R : R = {<<r, RunEnd(rows, r)>> : r \in RunStarts(rows)}
    OBVIOUS
  <2>6. ContinuousRanges(rows) = (R \ {<<g, e>>}) \cup {<<least, least>>}
                                    \cup (IF g # e THEN {<<g, e>>} ELSE {})
    <3>1. ContinuousRanges(rows) =
             ({<<r, RunEnd(rows, r)>> : r \in RunStarts(rows)}
                 \ {<<Greatest(RunStarts(rows)), RunEnd(rows, Greatest(RunStarts(rows)))>>})
                \cup {<<Least(rows), Least(rows)>>}
                \cup (IF Greatest(RunStarts(rows)) # RunEnd(rows, Greatest(RunStarts(rows)))
                      THEN {<<Greatest(RunStarts(rows)), RunEnd(rows, Greatest(RunStarts(rows)))>>} ELSE {})
      BY <1>2 DEF ContinuousRanges, RunStarts, RunEnd
    <3> QED
      BY <2>1, <2>3, <2>4, <2>5, <3>1
  <2>7. ASSUME NEW r \in ContinuousRanges(rows) PROVE r[1] .. r[2] \subseteq rows
    <3>1. r \in R \/ r = <<least, least>>
      BY <2>3, <2>4, <2>5, <2>6
    <3>2. least .. least \subseteq rows
      <4>1. \A n \in least .. least : n = least
        BY <2>1
      <4> QED
        BY <2>1, <4>1
    <3>3. ASSUME r \in R PROVE r[1] .. r[2] \subseteq rows
      <4>1. PICK q \in RunStarts(rows) : r = <<q, RunEnd(rows, q)>>
        BY <2>5, <3>3
      <4>2. PICK f : f = RunEnd(rows, q)
        OBVIOUS
      <4>3. q .. f \subseteq rows
        BY <2>2, <4>2, RunsAre
      <4>4. r[1] = q /\ r[2] = f
        BY <4>1, <4>2
      <4> QED
        BY <4>3, <4>4
    <3>4. r = <<least, least>> => r[1] = least /\ r[2] = least
      OBVIOUS
    <3> QED
      BY <3>1, <3>2, <3>3, <3>4
  <2>8. ASSUME NEW k \in rows, \A r \in ContinuousRanges(rows) : k \notin r[1] .. r[2]
        PROVE  k = Greatest(rows) /\ k - 1 \notin rows
    <3>1. PICK r \in RunStarts(rows) : r <= k /\ r .. k \subseteq rows
      BY RunsAre
    <3>2. PICK f : f = RunEnd(rows, r) /\ k <= f /\ f \in rows
      BY <2>2, <3>1, RunsAre
    <3>3. k \in r .. f /\ <<r, f>> \in R
      BY <2>2, <2>5, <3>1, <3>2
    <3>4. <<r, f>> = <<g, e>> /\ g = e
      BY <2>6, <2>8, <3>3
    <3>5. k = g /\ RunEnd(rows, k) = k /\ k - 1 \notin rows
      <4>1. r = g /\ f = e /\ r = f
        BY <3>4
      <4>2. k = r
        BY <2>2, <3>1, <3>2, <4>1
      <4> QED
        BY <2>3, <2>4, <4>1, <4>2 DEF RunStarts
    <3>6. ASSUME NEW m \in rows PROVE m <= k
      <4> SUFFICES ASSUME k < m PROVE FALSE
        OBVIOUS
      <4>1. PICK a \in RunStarts(rows) : a <= m /\ a .. m \subseteq rows
        BY RunsAre
      <4>2. a <= k
        BY <2>3, <3>5, <4>1
      <4>3. k .. m \subseteq rows
        BY <2>2, <4>1, <4>2
      <4>4. m <= RunEnd(rows, k)
        BY <4>3, RunsAre
      <4> QED
        BY <3>5, <4>4
    <3>7. Greatest(rows) \in rows /\ k <= Greatest(rows)
      BY GreatestIs
    <3>8. Greatest(rows) \in Nat /\ k \in Nat /\ Greatest(rows) <= k
      BY <3>6, <3>7
    <3> QED
      BY <3>5, <3>7, <3>8
  <2> QED
    BY <2>7, <2>8
<1> QED
  BY <1>1, <1>2

\* The rows that a change of rows of p can be told of.
LEMMA TopOfRows ==
    ASSUME RootsOnTop, TreeOK, NEW t, NEW s, Showing(t, s), RootSeq(s), NEW n \in Present
    PROVE  /\ mapFromSource(t, n) # NoIndex /\ mapFromSource(t, n)[2] # Root
                 <=> ~isFlat /\ n \in Below(RangeOf(s)) \ RangeOf(s)
           /\ ~isFlat /\ n \in Below(RangeOf(s)) \ RangeOf(s) =>
                 mapFromSource(t, n) = <<srcRow[n], parent(n)>>
<1>0. n \in Nodes
  BY DEF Present
<1>1. CASE isFlat
  <2>1. Hold(t, s, EmptyMapping)
    BY <1>1 DEF Showing
  <2>2. PICK e : e = EmptyMapping
    OBVIOUS
  <2>3. mapFromSource(t, n) = IF n \in RangeOf(s) THEN <<Place(s, n) - 1, Root>> ELSE NoIndex
    BY <1>0, <2>1, <2>2, MapsFrom, EmptyShift
  <2> QED
    BY <1>1, <2>3
<1>2. CASE ~isFlat
  <2>1. mapFromSource(t, n) = IF n \in Below(RangeOf(s)) THEN EntryAt(s, srcRow, n) ELSE NoIndex
    BY <1>2, ShownTest
  <2>2. RootList(s) /\ RowsApart(srcRow, Below(RangeOf(s)))
    BY <1>2, RowsNow DEF Showing, RowsApart, Below
  <2>3. n \in Below(RangeOf(s)) => /\ EntryAt(s, srcRow, n)[2] = Root <=> n \in RangeOf(s)
                                   /\ EntryAt(s, srcRow, n) # NoIndex
    BY <2>2, EntriesApart
  <2>4. n \notin RangeOf(s) => EntryAt(s, srcRow, n) = <<srcRow[n], parent(n)>>
    BY DEF EntryAt
  <2> QED
    BY <1>2, <2>1, <2>3, <2>4
<1> QED
  BY <1>1, <1>2

\* Rows first .. last of a parent that has them.
LEMMA RowThere ==
    ASSUME TreeOK, NEW p \in Present \cup {Root}, NEW r \in 0 .. rowCount(p) - 1
    PROVE  /\ index(r, p) \in Children(p) /\ index(r, p) \in Present /\ parent(index(r, p)) = p
           /\ srcRow[index(r, p)] = r
           /\ r + 1 \in DOMAIN ChildrenInOrder(p) /\ ChildrenInOrder(p)[r + 1] = index(r, p)
<1>0. rowCount(p) \in Nat
  BY Kids
<1>1. PICK k : k = r + 1 /\ k \in 1 .. rowCount(p) /\ k - 1 = r
  BY <1>0
<1>2. /\ ChildrenInOrder(p)[k] \in Children(p) /\ ChildrenInOrder(p)[k] = index(k - 1, p)
      /\ srcRow[ChildrenInOrder(p)[k]] = k - 1 /\ Children(p) \subseteq Present
      /\ k \in DOMAIN ChildrenInOrder(p)
  BY <1>1, Kids
<1>3. \A n \in Children(p) : parent(n) = p
  BY <1>2 DEF Children, parent, Present
<1> QED
  BY <1>1, <1>2, <1>3

\* Each changed row is told of, and no other.
LEMMA ChangesReach ==
    ASSUME RootsOnTop, Known, RowsInv
    PROVE  DataChangesReach
<1> SUFFICES ASSUME phase = "idle", ~emptied, NEW p \in Present \cup {Root}, NEW last \in 0 .. rowCount(p) - 1,
                    NEW first \in 0 .. last
             PROVE  LET ranges == sourceDataChanged(p, first, last)
                        changed(n) == parent(n) = p /\ srcRow[n] \in first .. last
                        roots == ChangedRootRows(p, first, last)
                    IN  /\ \A r \in ranges : \A row \in r[2] .. r[3] :
                               row + 1 \in DOMAIN view[r[1]] /\ changed(view[r[1]][row + 1])
                        /\ \A x \in Nodes \cup {Root} : \A k \in DOMAIN view[x] :
                               \/ ~changed(view[x][k])
                               \/ \E r \in ranges : r[1] = x /\ k - 1 \in r[2] .. r[3]
                               \/ /\ x = Root /\ ~m_startWithChildTrees
                                  /\ k - 1 = Greatest(roots) /\ k - 2 \notin roots
  BY DEF DataChangesReach
<1> DEFINE changed(n) == parent(n) = p /\ srcRow[n] \in first .. last
<1>1. PICK s : s = m_rootIndexList /\ Showing(Tables, s) /\ view = Shown(s) /\ RootSeq(s)
  BY IdleIsQuiet, QuietRows
<1>2. TreeOK /\ s \in Seq(Nodes) /\ RangeOf(s) \subseteq Present /\ Len(s) \in Nat /\ rowCount(p) \in Nat
      /\ Root \notin Nodes
  BY <1>1, Kids, NodesAssumption DEF Known, Scope, RootSeq
<1>3. first \in 0 .. rowCount(p) - 1 /\ last \in 0 .. rowCount(p) - 1 /\ first <= last
  BY <1>2
<1>4. PICK x0, x1 : x0 = index(first, p) /\ x1 = index(last, p)
  OBVIOUS
<1>5. /\ x0 \in Present /\ parent(x0) = p /\ srcRow[x0] = first /\ x0 \in Children(p)
      /\ x1 \in Present /\ parent(x1) = p /\ srcRow[x1] = last
  BY <1>2, <1>3, <1>4, RowThere
<1>6. PICK top, bottom : top = mapFromSource(Tables, x0) /\ bottom = mapFromSource(Tables, x1)
  OBVIOUS
<1>7. PICK rows : rows = ChangedRootRows(p, first, last)
  OBVIOUS
<1>8. PICK ranges : ranges = sourceDataChanged(p, first, last)
  OBVIOUS
<1>9. ranges = IF m_filterBehavior = "ExactSelection" \/ ~(top # NoIndex /\ top[2] # Root)
               THEN {<<Root, r[1], r[2]>> : r \in ContinuousRanges(rows)}
               ELSE {<<top[2], top[1], bottom[1]>>}
  BY <1>4, <1>6, <1>7, <1>8, Zenon DEF sourceDataChanged, RootsOnTop
<1>10. /\ view[Root] = s
       /\ \A x \in Nodes : view[x] = IF ~isFlat /\ x \in Below(RangeOf(s)) THEN ChildrenInOrder(x) ELSE <<>>
  BY <1>1, ShownIs
<1>11. ASSUME NEW x \in Nodes, NEW k \in DOMAIN view[x]
       PROVE  /\ ~isFlat /\ x \in Below(RangeOf(s)) /\ k \in 1 .. rowCount(x)
              /\ parent(view[x][k]) = x /\ srcRow[view[x][k]] = k - 1
  <2>1. ~isFlat /\ x \in Below(RangeOf(s)) /\ view[x] = ChildrenInOrder(x)
    BY <1>10, <1>11
  <2>2. x \in Present
    BY <2>1 DEF Below
  <2>3. k \in 1 .. rowCount(x) /\ rowCount(x) \in Nat
    BY <1>2, <1>11, <2>1, <2>2, Kids
  <2>4. PICK r : r = k - 1 /\ r \in 0 .. rowCount(x) - 1 /\ r + 1 = k
    BY <2>3
  <2> QED
    BY <1>2, <2>1, <2>2, <2>3, <2>4, RowThere
<1>12. CASE top # NoIndex /\ top[2] # Root
  <2>1. ~isFlat /\ x0 \in Below(RangeOf(s)) /\ x0 \notin RangeOf(s)
    BY <1>1, <1>2, <1>5, <1>6, <1>12, TopOfRows
  <2>2. RootList(s)
    BY <1>1, <2>1 DEF Showing
  <2>3. p \in Below(RangeOf(s)) /\ p \in Nodes
    BY <1>2, <1>5, <2>1, <2>2, BelowIs DEF Below, Present
  <2>4. x1 \in Below(RangeOf(s)) /\ x1 \notin RangeOf(s)
    BY <1>2, <1>5, <2>2, <2>3, BelowIs
  <2>5. top = <<first, p>> /\ bottom = <<last, p>>
    BY <1>1, <1>2, <1>5, <1>6, <2>1, <2>4, TopOfRows
  <2>6. m_filterBehavior # "ExactSelection"
    BY <2>1 DEF isFlat, m_omitChildren
  <2>7. ranges = {<<p, first, last>>}
    BY <1>9, <1>12, <2>5, <2>6
  <2>8. ASSUME NEW row \in first .. last
        PROVE  row + 1 \in DOMAIN view[p] /\ changed(view[p][row + 1])
    <3>1. row \in 0 .. rowCount(p) - 1
      BY <1>2, <1>3
    <3>2. view[p] = ChildrenInOrder(p)
      BY <1>10, <2>1, <2>3
    <3> QED
      BY <1>2, <3>1, <3>2, RowThere
  <2>9. ASSUME NEW x \in Nodes \cup {Root}, NEW k \in DOMAIN view[x], changed(view[x][k])
        PROVE  x = p /\ k - 1 \in first .. last
    <3>1. CASE x = Root
      <4>1. view[x][k] \in RangeOf(s)
        BY <1>10, <2>9, <3>1 DEF RangeOf
      <4> QED
        BY <1>2, <2>2, <2>3, <2>9, <4>1, BelowIs
    <3>2. CASE x # Root
      BY <1>11, <2>9, <3>2
    <3> QED
      BY <3>1, <3>2
  <2> HIDE DEF changed
  <2>10. PICK q : q = <<p, first, last>> /\ q[1] = p /\ q[2] = first /\ q[3] = last /\ ranges = {q}
    BY <2>7
  <2>11. \A r \in ranges : \A row \in r[2] .. r[3] :
            row + 1 \in DOMAIN view[r[1]] /\ changed(view[r[1]][row + 1])
    BY <2>8, <2>10
  <2>12. \A x \in Nodes \cup {Root} : \A k \in DOMAIN view[x] :
            changed(view[x][k]) => \E r \in ranges : r[1] = x /\ k - 1 \in r[2] .. r[3]
    BY <2>9, <2>10
  <2> USE DEF changed
  <2> QED
    BY <1>8, <2>11, <2>12
<1>13. CASE ~(top # NoIndex /\ top[2] # Root)
  <2>1. isFlat \/ x0 \notin Below(RangeOf(s)) \/ x0 \in RangeOf(s)
    BY <1>1, <1>2, <1>5, <1>6, <1>13, TopOfRows
  <2>2. rows = {k - 1 : k \in {j \in DOMAIN s : changed(s[j])}}
    BY <1>1, <1>7 DEF ChangedRootRows
  <2>3. DOMAIN s = 1 .. Len(s)
    BY <1>2
  <2>4. \A row : row \in rows <=> row \in 0 .. Len(s) - 1 /\ changed(s[row + 1])
    <3> HIDE DEF changed
    <3>1. ASSUME NEW row \in rows PROVE row \in 0 .. Len(s) - 1 /\ changed(s[row + 1])
      <4>1. PICK k \in {j \in DOMAIN s : changed(s[j])} : row = k - 1
        BY <2>2
      <4>2. row + 1 = k /\ row \in 0 .. Len(s) - 1
        BY <1>2, <2>3, <4>1
      <4> QED
        BY <4>1, <4>2
    <3>2. ASSUME NEW row \in 0 .. Len(s) - 1, changed(s[row + 1]) PROVE row \in rows
      <4>1. PICK k : k = row + 1 /\ k \in 1 .. Len(s) /\ k - 1 = row
        BY <1>2
      <4> QED
        BY <2>2, <2>3, <3>2, <4>1
    <3> QED
      BY <3>1, <3>2
  <2> HIDE DEF changed
  <2>5. rows \in SUBSET Nat /\ \A n \in rows : n <= Len(s)
    BY <1>2, <2>4
  <2>6. /\ \A r \in ContinuousRanges(rows) : r[1] .. r[2] \subseteq rows
        /\ \A k \in rows : \/ \E r \in ContinuousRanges(rows) : k \in r[1] .. r[2]
                           \/ k = Greatest(rows) /\ k - 1 \notin rows
    BY <1>2, <2>5, RangesAre
  <2>7. ranges = {<<Root, r[1], r[2]>> : r \in ContinuousRanges(rows)}
    BY <1>9, <1>13
  <2>8. ASSUME NEW q \in ranges, NEW row \in q[2] .. q[3]
        PROVE  row + 1 \in DOMAIN view[q[1]] /\ changed(view[q[1]][row + 1])
    <3>1. PICK r \in ContinuousRanges(rows) : q = <<Root, r[1], r[2]>>
      BY <2>7
    <3>2. q[1] = Root /\ q[2] = r[1] /\ q[3] = r[2]
      BY <3>1
    <3>3. row \in rows
      BY <2>6, <2>8, <3>2
    <3>4. row \in 0 .. Len(s) - 1 /\ changed(s[row + 1])
      BY <2>4, <3>3
    <3> QED
      BY <1>2, <1>10, <2>3, <3>2, <3>4
  <2>9. ASSUME NEW k \in DOMAIN s, changed(s[k]), ~(k - 1 = Greatest(rows) /\ k - 2 \notin rows)
        PROVE  \E q \in ranges : q[1] = Root /\ k - 1 \in q[2] .. q[3]
    <3>1. PICK row : row = k - 1 /\ row \in 0 .. Len(s) - 1 /\ row + 1 = k /\ row - 1 = k - 2
      BY <1>2, <2>3
    <3>2. row \in rows
      BY <2>4, <2>9, <3>1
    <3>3. PICK r \in ContinuousRanges(rows) : row \in r[1] .. r[2]
      BY <2>6, <2>9, <3>1, <3>2
    <3>4. PICK q : q = <<Root, r[1], r[2]>>
      OBVIOUS
    <3>5. q \in ranges /\ q[1] = Root /\ q[2] = r[1] /\ q[3] = r[2]
      BY <2>7, <3>4
    <3> QED
      BY <3>1, <3>3, <3>5
  <2>10. ASSUME NEW x \in Nodes, NEW k \in DOMAIN view[x] PROVE ~changed(view[x][k])
    <3> SUFFICES ASSUME changed(view[x][k]) PROVE FALSE
      OBVIOUS
    <3>1. ~isFlat /\ x \in Below(RangeOf(s)) /\ x = p
      BY <1>11, <2>10 DEF changed
    <3>2. RootList(s)
      BY <1>1, <3>1 DEF Showing
    <3>3. x0 \in Below(RangeOf(s)) /\ x0 \notin RangeOf(s)
      BY <1>2, <1>5, <3>1, <3>2, BelowIs
    <3> QED
      BY <2>1, <3>1, <3>3
  <2>11. \A x \in Nodes \cup {Root} : \A k \in DOMAIN view[x] :
            \/ ~changed(view[x][k])
            \/ \E r \in ranges : r[1] = x /\ k - 1 \in r[2] .. r[3]
            \/ x = Root /\ k - 1 = Greatest(rows) /\ k - 2 \notin rows
    BY <1>10, <2>9, <2>10
  <2>12. \A r \in ranges : \A row \in r[2] .. r[3] :
            row + 1 \in DOMAIN view[r[1]] /\ changed(view[r[1]][row + 1])
    BY <2>8
  <2>13. ~m_startWithChildTrees
    BY Zenon DEF RootsOnTop
  <2> HIDE DEF m_startWithChildTrees
  <2> USE DEF changed
  <2> QED
    BY <1>7, <1>8, <2>11, <2>12, <2>13
<1> QED
  BY <1>12, <1>13

----------------------------------------------------------------------------
(* Selections, searches and drops.                                         *)

\* Is n shown when the roots are s?
InProxy(s, n) == IF isFlat THEN n \in RangeOf(s) ELSE n \in Below(RangeOf(s))

\* An index is found in the proxy exactly when it is shown.
LEMMA FoundThere ==
    ASSUME RootsOnTop, TreeOK, NEW t, NEW s, Showing(t, s), RootSeq(s), NEW n \in Present
    PROVE  /\ mapFromSource(t, n) = IF InProxy(s, n) THEN EntryAt(s, srcRow, n) ELSE NoIndex
           /\ InProxy(s, n) => EntryAt(s, srcRow, n) # NoIndex
           /\ n \in RangeOf(s) => EntryAt(s, srcRow, n) = <<Place(s, n) - 1, Root>>
           /\ n \notin RangeOf(s) => EntryAt(s, srcRow, n) = <<srcRow[n], parent(n)>>
<1>0. n \in Nodes
  BY DEF Present
<1>1. /\ n \in RangeOf(s) => EntryAt(s, srcRow, n) = <<Place(s, n) - 1, Root>>
      /\ n \notin RangeOf(s) => EntryAt(s, srcRow, n) = <<srcRow[n], parent(n)>>
  BY DEF EntryAt
<1>2. CASE isFlat
  <2>1. Hold(t, s, EmptyMapping)
    BY <1>2 DEF Showing
  <2>2. PICK e : e = EmptyMapping
    OBVIOUS
  <2>3. mapFromSource(t, n) = IF n \in RangeOf(s) THEN <<Place(s, n) - 1, Root>> ELSE NoIndex
    BY <1>0, <2>1, <2>2, MapsFrom, EmptyShift
  <2>4. n \in RangeOf(s) => EntryAt(s, srcRow, n) # NoIndex
    <3> SUFFICES ASSUME n \in RangeOf(s) PROVE <<Place(s, n) - 1, Root>> # NoIndex
      BY <1>1
    <3>1. Place(s, n) \in 1 .. Len(s) /\ Len(s) \in Nat
      BY PlaceIs DEF RootSeq
    <3>2. PICK k : k = Place(s, n) - 1 /\ k \in Nat
      BY <3>1
    <3> QED
      BY <3>2 DEF NoIndex, NoRow
  <2> QED
    BY <1>1, <1>2, <2>3, <2>4 DEF InProxy
<1>3. CASE ~isFlat
  <2>1. mapFromSource(t, n) = IF n \in Below(RangeOf(s)) THEN EntryAt(s, srcRow, n) ELSE NoIndex
    BY <1>3, ShownTest
  <2>2. RootList(s) /\ RowsApart(srcRow, Below(RangeOf(s)))
    BY <1>3, RowsNow DEF Showing, RowsApart, Below
  <2>3. n \in Below(RangeOf(s)) => EntryAt(s, srcRow, n) # NoIndex
    BY <2>2, EntriesApart
  <2> QED
    BY <1>1, <1>3, <2>1, <2>3 DEF InProxy
<1> QED
  BY <1>2, <1>3

\* The rows a listener has are the indexes that the proxy maps them to.
LEMMA RowsMapTo ==
    ASSUME RootsOnTop, TreeOK, NEW t, NEW s, Showing(t, s), RootSeq(s),
           NEW x \in Nodes \cup {Root}, NEW r \in Int, r + 1 \in DOMAIN Shown(s)[x]
    PROVE  /\ mapToSource(t, <<r, x>>) = Shown(s)[x][r + 1] /\ Shown(s)[x][r + 1] \in Present
           /\ x # Root => /\ ~isFlat /\ x \in Below(RangeOf(s)) /\ Shown(s)[x] = ChildrenInOrder(x)
                          /\ parent(Shown(s)[x][r + 1]) = x /\ srcRow[Shown(s)[x][r + 1]] = r
<1>0. s \in Seq(Nodes) /\ RangeOf(s) \subseteq Present /\ Root \notin Nodes
  BY NodesAssumption DEF RootSeq
<1>1. CASE x = Root
  <2>1. Shown(s)[x] = s
    BY <1>1, ShownIs
  <2>2. mapToSource(t, <<r, Root>>) = s[r + 1]
    BY <1>0, <2>1, TopMaps
  <2> QED
    BY <1>0, <1>1, <2>1, <2>2 DEF RangeOf
<1>2. CASE x # Root
  <2>1. ~isFlat /\ x \in Below(RangeOf(s)) /\ Shown(s)[x] = ChildrenInOrder(x)
    BY <1>2, ShownIs
  <2>2. x \in Present
    BY <2>1 DEF Below
  <2>3. PICK k : k = r + 1 /\ k \in 1 .. rowCount(x) /\ rowCount(x) \in Nat
    BY <2>1, <2>2, Kids
  <2>4. /\ ChildrenInOrder(x)[k] \in Children(x) /\ ChildrenInOrder(x)[k] = index(k - 1, x)
        /\ srcRow[ChildrenInOrder(x)[k]] = k - 1 /\ Children(x) \subseteq Present
    BY <2>2, <2>3, Kids
  <2>5. hasChildren(x)
    BY <2>4 DEF hasChildren
  <2>6. PICK e : Hold(t, s, e) /\ Fits(e, s, srcRow) /\ AllMapped(e, s) /\ RootList(s)
    BY <2>1 DEF Showing
  <2>7. x \in DOMAIN e /\ RowsApart(srcRow, DOMAIN e)
    BY <2>1, <2>5, <2>6, RowsNow DEF AllMapped, RowsApart, Fits, Below
  <2>8. mapToSource(t, <<r, x>>) = index(r, x)
    BY <2>6, <2>7, MapsTo
  <2>9. parent(ChildrenInOrder(x)[k]) = x
    BY <2>4 DEF Children, parent
  <2>10. mapToSource(t, <<r, x>>) = ChildrenInOrder(x)[k] /\ srcRow[ChildrenInOrder(x)[k]] = r
    <3>1. PICK j : j = k - 1
      OBVIOUS
    <3>2. srcRow[ChildrenInOrder(x)[k]] = j /\ ChildrenInOrder(x)[k] = index(j, x) /\ j \in Nat /\ j + 1 = k
      BY <2>3, <2>4, <3>1
    <3>3. ChildrenInOrder(x)[r + 1] = index(j, x)
      BY <2>3, <3>2
    <3> QED
      BY <2>3, <2>4, <2>8, <3>2, <3>3
  <2> QED
    BY <1>2, <2>1, <2>3, <2>4, <2>9, <2>10
<1> QED
  BY <1>1, <1>2

\* What comes between two rows of p in depth-first order is one of the rows between
\* them, or below one of these.
LEMMA BetweenRows ==
    ASSUME TreeOK, NEW x \in Present, NEW z \in Present, NEW y \in Present,
           srcParent[x] = srcParent[z], x = y \/ Before(x, y), y = z \/ Before(y, z)
    PROVE  \E c \in SelfAndAbove[y] : /\ srcParent[c] = srcParent[x] /\ c \in Present
                                      /\ srcRow[x] <= srcRow[c] /\ srcRow[c] <= srcRow[z]
<1>1. /\ \A i \in Present : /\ SelfAndAbove[i] = {i} \cup Above(i) /\ i \notin Above(i)
                            /\ Above(i) \subseteq Present /\ Above(i) = SelfAndAbove[srcParent[i]]
                            /\ srcParent[i] \in Present \cup {Root} /\ srcRow[i] \in Nat
  <2>1. Numbered(srcParent, srcRow) /\ IsTree(srcParent) /\ Present = In(srcParent)
    BY PresentIs DEF TreeOK
  <2>2. \A i \in Present : srcRow[i] \in Nat
    BY <2>1, RowsType
  <2>3. \A i \in Present : Above(i) = SelfAndAbove[srcParent[i]]
    BY DEF Above, parent, Present
  <2> QED
    BY <2>1, <2>2, <2>3, AboveFacts, AncestorsOfOne
<1>2. PICK p : p = srcParent[x]
  OBVIOUS
<1>3. p \in Above(y) \cup {Root}
  <2> SUFFICES ASSUME p # Root PROVE p \in Above(y)
    OBVIOUS
  <2>1. p \in Present /\ p \in Above(x) /\ p \in Above(z)
    BY <1>1, <1>2
  <2>2. Before(p, x)
    BY <2>1 DEF Before
  <2>3. Before(p, y)
    BY <2>1, <2>2, BeforeOrders
  <2>4. p \in Ancestors(srcParent)[y]
    <3>1. IsTree(srcParent) /\ Numbered(srcParent, srcRow) /\ Present = In(srcParent)
      BY PresentIs DEF TreeOK
    <3>2. Precedes(srcParent, srcRow, p, y)
      BY <2>1, <2>3, BeforeIsPrecedes
    <3>3. y = z \/ Precedes(srcParent, srcRow, y, z)
      BY BeforeIsPrecedes
    <3>4. p \in Ancestors(srcParent)[z]
      BY <1>1, <2>1, SelfAndAboveIsAncestors
    <3> QED
      BY <2>1, <3>1, <3>2, <3>3, <3>4, SubtreeConvex
  <2>5. p \in SelfAndAbove[y]
    BY <2>4, SelfAndAboveIsAncestors
  <2>6. p # y
    BY <2>1, <2>3, BeforeOrders
  <2> QED
    BY <1>1, <2>5, <2>6
<1>4. PICK c \in SelfAndAbove[y] : srcParent[c] = p
  BY <1>3, BranchIs
<1>5. c \in Present /\ x \in SelfAndAbove[x] /\ z \in SelfAndAbove[z]
  BY <1>1
<1>6. ~Before(y, x) /\ ~Before(z, y)
  BY BeforeOrders
<1>7. ~(srcRow[c] < srcRow[x]) /\ ~(srcRow[z] < srcRow[c])
  BY <1>2, <1>4, <1>5, <1>6 DEF Before
<1>8. srcRow[c] \in Nat /\ srcRow[x] \in Nat /\ srcRow[z] \in Nat
  BY <1>1, <1>5
<1> QED
  BY <1>2, <1>4, <1>5, <1>7, <1>8

\* Indexes with a row and a parent have these for themselves.
LEMMA OneAtRow ==
    ASSUME TreeOK, NEW m \in Present, NEW n \in Present, parent(m) = parent(n), srcRow[m] = srcRow[n]
    PROVE  m = n
BY RowsNow DEF RowsApart

\* The one index of a range of one.
LEMMA RangeOfOne ==
    ASSUME TreeOK, NEW m \in Present
    PROVE  {n \in Present : /\ parent(n) = parent(m) /\ parent(n) = parent(m)
                            /\ srcRow[n] \in srcRow[m] .. srcRow[m]} = {m}
<1>1. \A n \in Present : srcRow[n] \in Nat
  BY RowsNow DEF RowsApart
<1>2. ASSUME NEW n \in Present, srcRow[n] \in srcRow[m] .. srcRow[m] PROVE srcRow[n] = srcRow[m]
  BY <1>1, <1>2
<1>3. srcRow[m] \in srcRow[m] .. srcRow[m]
  BY <1>1
<1> QED
  BY <1>2, <1>3, OneAtRow

\* Rows selected in the proxy select their indexes in the source.
LEMMA SelectedToSource ==
    ASSUME RootsOnTop, TreeOK, NEW t, NEW s, Showing(t, s), RootSeq(s),
           NEW x \in Nodes \cup {Root}, NEW first \in Nat, NEW last \in Nat, first <= last,
           last + 1 \in DOMAIN Shown(s)[x],
           x # Root \/ first = last \/ m_filterBehavior \in {"SubTrees", "SubTreeRoots"}
    PROVE  InRanges(mapSelectionToSource(t, x, first, last)) = {Shown(s)[x][k + 1] : k \in first .. last}
<1>1. PICK v : v = Shown(s)[x]
  OBVIOUS
<1>2. \A k \in first .. last : k \in Int /\ k + 1 \in DOMAIN v
  <2>1. v \in Seq(Nodes)
    <3>1. CASE x = Root
      BY <1>1, <3>1, ShownIs DEF RootSeq
    <3>2. CASE x # Root
      <4>1. (v = ChildrenInOrder(x) /\ x \in Present) \/ v = <<>>
        BY <1>1, <3>2, ShownIs DEF Below
      <4>2. x \in Present => ChildrenInOrder(x) \in Seq(Nodes)
        BY Kids
      <4>3. <<>> \in Seq(Nodes)
        OBVIOUS
      <4> QED
        BY <4>1, <4>2, <4>3
    <3> QED
      BY <3>1, <3>2
  <2>2. DOMAIN v = 1 .. Len(v) /\ Len(v) \in Nat
    BY <2>1
  <2> QED
    BY <1>1, <2>2
<1>3. \A k \in first .. last :
         /\ mapToSource(t, <<k, x>>) = v[k + 1] /\ v[k + 1] \in Present
         /\ x # Root => /\ x \in Below(RangeOf(s)) /\ v = ChildrenInOrder(x)
                        /\ parent(v[k + 1]) = x /\ srcRow[v[k + 1]] = k
  BY <1>1, <1>2, RowsMapTo
<1>4. first \in first .. last /\ last \in first .. last
  OBVIOUS
<1>5. CASE x = Root /\ (m_filterBehavior # "ExactSelection" \/ first = last)
  <2>1. mapSelectionToSource(t, x, first, last) = {<<v[k + 1], v[k + 1]>> : k \in first .. last}
    <3>1. CASE m_filterBehavior # "ExactSelection"
      <4>1. mapSelectionToSource(t, x, first, last) =
               {<<mapToSource(t, <<row, x>>), mapToSource(t, <<row, x>>)>> : row \in first .. last}
        BY <1>5, <3>1 DEF mapSelectionToSource
      <4> QED
        BY <1>3, <4>1
    <3>2. CASE m_filterBehavior = "ExactSelection"
      <4>1. mapSelectionToSource(t, x, first, last) = {<<mapToSource(t, <<first, x>>), mapToSource(t, <<last, x>>)>>}
        BY <3>2 DEF mapSelectionToSource
      <4>2. first = last /\ \A k \in first .. last : k = first
        BY <1>5, <3>2
      <4>3. mapToSource(t, <<first, x>>) = v[first + 1] /\ mapToSource(t, <<last, x>>) = v[first + 1]
        BY <1>3, <1>4, <4>2
      <4> QED
        BY <1>4, <4>1, <4>2, <4>3
    <3> QED
      BY <3>1, <3>2
  <2>2. PICK R : R = {<<v[k + 1], v[k + 1]>> : k \in first .. last}
    OBVIOUS
  <2>3. \A r \in R : \E k \in first .. last :
           r[1] = v[k + 1] /\ r[2] = v[k + 1] /\ v[k + 1] \in Present
    <3> SUFFICES ASSUME NEW r \in R
                 PROVE  \E k \in first .. last :
                           r[1] = v[k + 1] /\ r[2] = v[k + 1] /\ v[k + 1] \in Present
      OBVIOUS
    <3>1. PICK k \in first .. last : r = <<v[k + 1], v[k + 1]>>
      BY <2>2
    <3>2. PICK m : m = v[k + 1]
      OBVIOUS
    <3>3. r[1] = m /\ r[2] = m
      BY <3>1, <3>2
    <3> QED
      BY <1>3, <3>2, <3>3
  <2>4. \A r \in R : {n \in Present : /\ parent(n) = parent(r[1]) /\ parent(n) = parent(r[2])
                                      /\ srcRow[n] \in srcRow[r[1]] .. srcRow[r[2]]} = {r[1]}
    <3> SUFFICES ASSUME NEW r \in R
                 PROVE  {n \in Present : /\ parent(n) = parent(r[1]) /\ parent(n) = parent(r[2])
                                         /\ srcRow[n] \in srcRow[r[1]] .. srcRow[r[2]]} = {r[1]}
      OBVIOUS
    <3>1. PICK m \in Present : r[1] = m /\ r[2] = m
      BY <2>3
    <3> QED
      BY <3>1, RangeOfOne
  <2>5. InRanges(R) = UNION {{r[1]} : r \in R}
    BY <2>4 DEF InRanges
  <2>6. \A k \in first .. last : <<v[k + 1], v[k + 1]>> \in R
    BY <2>2
  <2>7. UNION {{r[1]} : r \in R} = {v[k + 1] : k \in first .. last}
    BY <2>3, <2>6
  <2> QED
    BY <1>1, <2>1, <2>2, <2>5, <2>7
<1>6. CASE x # Root
  <2>1. mapSelectionToSource(t, x, first, last) = {<<v[first + 1], v[last + 1]>>}
    BY <1>3, <1>4, <1>6 DEF mapSelectionToSource
  <2>2. PICK a, b : a = v[first + 1] /\ b = v[last + 1]
    OBVIOUS
  <2>3. parent(a) = x /\ parent(b) = x /\ srcRow[a] = first /\ srcRow[b] = last
    BY <1>3, <1>4, <1>6, <2>2
  <2>4. InRanges({<<a, b>>}) = {n \in Present : parent(n) = x /\ srcRow[n] \in first .. last}
    <3>1. InRanges({<<a, b>>}) =
             UNION {{n \in Present : /\ parent(n) = parent(r[1]) /\ parent(n) = parent(r[2])
                                     /\ srcRow[n] \in srcRow[r[1]] .. srcRow[r[2]]} : r \in {<<a, b>>}}
      BY DEF InRanges
    <3>2. <<a, b>>[1] = a /\ <<a, b>>[2] = b
      OBVIOUS
    <3>3. InRanges({<<a, b>>}) =
             {n \in Present : /\ parent(n) = parent(<<a, b>>[1]) /\ parent(n) = parent(<<a, b>>[2])
                              /\ srcRow[n] \in srcRow[<<a, b>>[1]] .. srcRow[<<a, b>>[2]]}
      BY <3>1, Zenon
    <3> QED
      BY <2>3, <3>2, <3>3
  <2>5. ASSUME NEW n \in Present, parent(n) = x, srcRow[n] \in first .. last
        PROVE  \E k \in first .. last : n = v[k + 1]
    <3>1. PICK k \in first .. last : srcRow[n] = k
      BY <2>5
    <3> QED
      BY <1>3, <1>6, <2>5, <3>1, OneAtRow
  <2>6. \A k \in first .. last : /\ v[k + 1] \in Present /\ parent(v[k + 1]) = x
                                 /\ srcRow[v[k + 1]] \in first .. last
    BY <1>3, <1>6
  <2>7. {n \in Present : parent(n) = x /\ srcRow[n] \in first .. last} = {v[k + 1] : k \in first .. last}
    BY <2>5, <2>6
  <2>8. mapSelectionToSource(t, x, first, last) = {<<a, b>>}
    BY <2>1, <2>2
  <2> QED
    BY <1>1, <2>4, <2>7, <2>8
<1>7. x = Root => m_filterBehavior # "ExactSelection" \/ first = last
  OBVIOUS
<1> QED
  BY <1>5, <1>6, <1>7

\* What is dropped in front of a row comes to stand there in the source.
LEMMA DroppedInFront ==
    ASSUME RootsOnTop, TreeOK, NEW t, NEW s, Showing(t, s), RootSeq(s),
           NEW x \in Nodes \cup {Root}, NEW k \in DOMAIN Shown(s)[x]
    PROVE  dropMimeData(t, x, k - 1) = <<parent(Shown(s)[x][k]), srcRow[Shown(s)[x][k]]>>
<1>1. PICK v : v = Shown(s)[x]
  OBVIOUS
<1>2. /\ v \in Seq(Nodes)
      /\ x = Root => topLevelRowCount(t) = Len(v)
      /\ x # Root => ~isFlat /\ rowCount(x) = Len(v)
  <2>1. CASE x = Root
    <3>1. v = s
      BY <1>1, <2>1, ShownIs
    <3> QED
      BY <2>1, <3>1, TopMaps DEF RootSeq
  <2>2. CASE x # Root
    <3>1. ~isFlat /\ v = ChildrenInOrder(x) /\ x \in Present
      BY <1>1, <2>2, ShownIs DEF Below
    <3> QED
      BY <2>2, <3>1, Kids
  <2> QED
    BY <2>1, <2>2
<1>3. PICK r : r = k - 1 /\ r \in Int /\ r + 1 = k /\ r # Len(v)
  BY <1>1, <1>2
<1>4. mapToSource(t, <<r, x>>) = v[k]
  BY <1>1, <1>3, RowsMapTo
<1>5. dropMimeData(t, x, r) = <<parent(v[k]), srcRow[v[k]]>>
  BY <1>2, <1>3, <1>4 DEF dropMimeData
<1> QED
  BY <1>1, <1>3, <1>5

\* The rows that a range of the proxy selects, and what rows first .. last of p select
\* in it and what they should.
RangeRows(r) == {<<row, r[1][2]>> : row \in r[1][1] .. r[2][1]}
RowsSelected(t, p, first, last) == UNION {RangeRows(r) : r \in mapSelectionFromSource(t, p, first, last)}
RowsToSelect(s, p, first, last) == {EntryAt(s, srcRow, index(k, p)) : k \in first .. last}

\* The one range that rows selected in the source make in the proxy.
EntriesBetween(a, b) == {<<row, a[2]>> : row \in a[1] .. b[1]}

LEMMA OneRange ==
    ASSUME NEW t, NEW p, NEW first, NEW last, NEW a, NEW b, a # NoIndex,
           mapFromSource(t, index(first, p)) = a, mapFromSource(t, index(last, p)) = b
    PROVE  RowsSelected(t, p, first, last) = EntriesBetween(a, b)
<1>1. mapSelectionFromSource(t, p, first, last) = {<<a, b>>}
  BY DEF mapSelectionFromSource
<1>2. UNION {RangeRows(r) : r \in {<<a, b>>}} = RangeRows(<<a, b>>)
  OBVIOUS
<1>3. RangeRows(<<a, b>>) = EntriesBetween(a, b)
  BY DEF RangeRows, EntriesBetween
<1> QED
  BY <1>1, <1>2, <1>3 DEF RowsSelected

\* Neighbouring rows of the source that are roots stand side by side in the proxy.
LEMMA RootsSideBySide ==
    ASSUME TreeOK, NEW s, RootSeq(s), IsSorted(s), \A m, n \in RangeOf(s) : m \notin Above(n),
           NEW p \in Present \cup {Root}, NEW last \in 0 .. rowCount(p) - 1, NEW first \in 0 .. last,
           \A k \in first .. last : index(k, p) \in RangeOf(s)
    PROVE  \A k : k \in Place(s, index(first, p)) .. Place(s, index(last, p))
                    <=> \E j \in first .. last : k = Place(s, index(j, p))
<1>1. s \in Seq(Nodes) /\ Injective(s) /\ RangeOf(s) \subseteq Present /\ DOMAIN s = 1 .. Len(s) /\ Len(s) \in Nat
  BY DEF RootSeq
<1>2. rowCount(p) \in Nat
  BY Kids
<1>3. \A j \in first .. last : j \in 0 .. rowCount(p) - 1
  BY <1>2
<1>4. \A j \in first .. last : /\ index(j, p) \in Children(p) /\ index(j, p) \in Present
                               /\ srcRow[index(j, p)] = j /\ srcParent[index(j, p)] = p
  BY <1>3, RowThere DEF Children
<1>5. \A n \in RangeOf(s) : Place(s, n) \in 1 .. Len(s) /\ s[Place(s, n)] = n
  BY <1>1, PlaceIs
<1>6. \A m, n \in RangeOf(s) : Before(m, n) => Place(s, m) < Place(s, n)
  <2> SUFFICES ASSUME NEW m \in RangeOf(s), NEW n \in RangeOf(s), Before(m, n), ~(Place(s, m) < Place(s, n))
               PROVE  FALSE
    OBVIOUS
  <2>1. Place(s, m) = Place(s, n) \/ Place(s, n) < Place(s, m)
    BY <1>5
  <2>2. m = n \/ Before(n, m)
    BY <1>1, <1>5, <2>1 DEF IsSorted
  <2> QED
    BY <1>1, <2>2, BeforeOrders
<1>7. first \in first .. last /\ last \in first .. last /\ first \in Nat /\ last \in Nat
  BY <1>2
<1>8. \A i \in Present : SelfAndAbove[i] = {i} \cup Above(i)
  BY AboveFacts DEF TreeOK
<1>9. \A i, j \in first .. last : i < j => Place(s, index(i, p)) < Place(s, index(j, p))
  <2> SUFFICES ASSUME NEW i \in first .. last, NEW j \in first .. last, i < j
               PROVE  Place(s, index(i, p)) < Place(s, index(j, p))
    OBVIOUS
  <2>1. index(i, p) \in SelfAndAbove[index(i, p)] /\ index(j, p) \in SelfAndAbove[index(j, p)]
    BY <1>4, <1>8
  <2>2. Before(index(i, p), index(j, p))
    BY <1>4, <2>1 DEF Before
  <2> QED
    BY <1>6, <2>2
<1>10. ASSUME NEW j \in first .. last
       PROVE  Place(s, index(j, p)) \in Place(s, index(first, p)) .. Place(s, index(last, p))
  <2>1. (j = first \/ first < j) /\ (j = last \/ j < last)
    BY <1>7
  <2>2. /\ Place(s, index(j, p)) \in Nat /\ Place(s, index(first, p)) \in Nat /\ Place(s, index(last, p)) \in Nat
    BY <1>1, <1>5, <1>7
  <2>3. j # first => Place(s, index(first, p)) < Place(s, index(j, p))
    BY <1>7, <1>9, <2>1
  <2>4. j # last => Place(s, index(j, p)) < Place(s, index(last, p))
    BY <1>7, <1>9, <2>1
  <2> QED
    BY <2>2, <2>3, <2>4
<1>11. ASSUME NEW k \in Place(s, index(first, p)) .. Place(s, index(last, p))
       PROVE  \E j \in first .. last : k = Place(s, index(j, p))
  <2>1. PICK x, z : x = index(first, p) /\ z = index(last, p)
    OBVIOUS
  <2>2. /\ x \in Present /\ z \in Present /\ srcParent[x] = p /\ srcParent[z] = p
        /\ srcRow[x] = first /\ srcRow[z] = last
        /\ Place(s, x) \in 1 .. Len(s) /\ s[Place(s, x)] = x /\ Place(s, z) \in 1 .. Len(s) /\ s[Place(s, z)] = z
    BY <1>4, <1>5, <1>7, <2>1
  <2>3. k \in 1 .. Len(s) /\ Place(s, x) <= k /\ k <= Place(s, z)
    BY <1>1, <2>1, <2>2
  <2>4. PICK y : y = s[k]
    OBVIOUS
  <2>5. y \in RangeOf(s) /\ y \in Present /\ Place(s, y) = k
    BY <1>1, <2>3, <2>4, PlaceIs DEF RangeOf
  <2>6. (x = y \/ Before(x, y)) /\ (y = z \/ Before(y, z))
    <3>1. (Place(s, x) = k \/ Place(s, x) < k) /\ (k = Place(s, z) \/ k < Place(s, z))
      BY <2>2, <2>3
    <3> QED
      BY <1>1, <2>2, <2>3, <2>4, <3>1 DEF IsSorted
  <2>7. PICK c \in SelfAndAbove[y] : srcParent[c] = p /\ c \in Present /\ first <= srcRow[c] /\ srcRow[c] <= last
    <3>1. srcParent[x] = srcParent[z]
      BY <2>2
    <3>2. \E c \in SelfAndAbove[y] : /\ srcParent[c] = srcParent[x] /\ c \in Present
                                     /\ srcRow[x] <= srcRow[c] /\ srcRow[c] <= srcRow[z]
      <4>1. x \in Present /\ z \in Present
        BY <2>2
      <4> QED
        BY <2>5, <2>6, <3>1, <4>1, BetweenRows
    <3> QED
      BY <2>2, <3>2
  <2>8. c \in Children(p)
    BY <2>7 DEF Children, Present
  <2>9. c = index(srcRow[c], p) /\ srcRow[c] \in Nat
    BY <2>8, Kids
  <2>10. PICK j : j = srcRow[c] /\ j \in first .. last
    BY <1>7, <2>7, <2>9
  <2>11. c \in RangeOf(s)
    BY <2>9, <2>10
  <2>12. c = y
    BY <1>8, <2>5, <2>7, <2>11
  <2> QED
    BY <2>5, <2>9, <2>10, <2>12
<1> QED
  BY <1>10, <1>11

\* Rows selected in the source select their rows in the proxy.
LEMMA SelectedFromSource ==
    ASSUME RootsOnTop, TreeOK, NEW t, NEW s, Showing(t, s), RootSeq(s), IsSorted(s),
           NEW p \in Present \cup {Root}, NEW last \in 0 .. rowCount(p) - 1, NEW first \in 0 .. last,
           \A k \in first .. last : InProxy(s, index(k, p)),
           first = last \/ \A m, n \in RangeOf(s) : m \notin Above(n)
    PROVE  RowsSelected(t, p, first, last) = RowsToSelect(s, p, first, last)
<1>1. rowCount(p) \in Nat
  BY Kids
<1>2. \A j \in first .. last : j \in 0 .. rowCount(p) - 1
  BY <1>1
<1>3. \A j \in first .. last : /\ index(j, p) \in Present /\ srcRow[index(j, p)] = j /\ parent(index(j, p)) = p
                               /\ j \in Nat
  BY <1>1, <1>2, RowThere
<1>4. \A j \in first .. last :
         /\ mapFromSource(t, index(j, p)) = EntryAt(s, srcRow, index(j, p))
         /\ EntryAt(s, srcRow, index(j, p)) # NoIndex
         /\ index(j, p) \in RangeOf(s) => EntryAt(s, srcRow, index(j, p)) = <<Place(s, index(j, p)) - 1, Root>>
         /\ index(j, p) \notin RangeOf(s) => EntryAt(s, srcRow, index(j, p)) = <<j, p>>
  BY <1>3, FoundThere
<1>5. PICK a, b : a = EntryAt(s, srcRow, index(first, p)) /\ b = EntryAt(s, srcRow, index(last, p))
  OBVIOUS
<1>6. first \in first .. last /\ last \in first .. last /\ first \in Nat /\ last \in Nat
  BY <1>1
<1>7. RowsSelected(t, p, first, last) = EntriesBetween(a, b)
  <2>1. a # NoIndex /\ mapFromSource(t, index(first, p)) = a /\ mapFromSource(t, index(last, p)) = b
    BY <1>4, <1>5, <1>6
  <2> QED
    BY <2>1, OneRange
<1>8. PICK E : E = {EntryAt(s, srcRow, index(k, p)) : k \in first .. last}
  OBVIOUS
<1>9. E = RowsToSelect(s, p, first, last)
  BY <1>8 DEF RowsToSelect
<1>10. \A n \in RangeOf(s) : Place(s, n) \in 1 .. Len(s)
  BY PlaceIs DEF RootSeq
<1>11. Len(s) \in Nat
  BY DEF RootSeq
<1>12. CASE first = last
  <2>1. E = {a} /\ b = a
    <3>1. \A k \in first .. last : k = first
      BY <1>6, <1>12
    <3> QED
      BY <1>5, <1>6, <1>8, <1>12, <3>1
  <2>2. PICK i, q : i \in Int /\ a = <<i, q>>
    BY <1>3, <1>4, <1>5, <1>6, <1>10, <1>11
  <2>3. a[1] = i /\ a[2] = q /\ \A row \in i .. i : row = i
    BY <2>2
  <2>4. EntriesBetween(a, a) = {<<row, q>> : row \in i .. i}
    BY <2>3 DEF EntriesBetween
  <2>5. i \in i .. i
    BY <2>2
  <2>6. EntriesBetween(a, a) = {a}
    BY <2>2, <2>3, <2>4, <2>5
  <2> QED
    BY <1>7, <1>9, <2>1, <2>6
<1>13. CASE ~isFlat /\ p \in Below(RangeOf(s))
  <2>1. RootList(s)
    BY <1>13 DEF Showing
  <2>2. \A j \in first .. last : EntryAt(s, srcRow, index(j, p)) = <<j, p>>
    BY <1>3, <1>4, <1>13, <2>1, BelowIs
  <2>3. a = <<first, p>> /\ b = <<last, p>>
    BY <1>5, <1>6, <2>2
  <2>4. EntriesBetween(a, b) = {<<row, p>> : row \in first .. last}
    BY <2>3 DEF EntriesBetween
  <2>5. E = {<<k, p>> : k \in first .. last}
    BY <1>8, <2>2
  <2> QED
    BY <1>7, <1>9, <2>4, <2>5
<1>14. CASE (isFlat \/ p \notin Below(RangeOf(s))) /\ first # last
  <2>1. \A j \in first .. last : index(j, p) \in RangeOf(s)
    <3>1. CASE isFlat
      BY <3>1 DEF InProxy
    <3>2. CASE ~isFlat
      <4>1. RootList(s)
        BY <3>2 DEF Showing
      <4>2. \A j \in first .. last : index(j, p) \in Below(RangeOf(s)) /\ parent(index(j, p)) \notin Below(RangeOf(s))
        BY <1>3, <1>14, <3>2 DEF InProxy
      <4> QED
        BY <4>1, <4>2, BelowIs
    <3> QED
      BY <3>1, <3>2
  <2>2. \A j \in first .. last : EntryAt(s, srcRow, index(j, p)) = <<Place(s, index(j, p)) - 1, Root>>
    BY <1>4, <2>1
  <2>3. PICK c, d : c = Place(s, index(first, p)) /\ d = Place(s, index(last, p))
    OBVIOUS
  <2>4. \A k : k \in c .. d <=> \E j \in first .. last : k = Place(s, index(j, p))
    BY <1>14, <2>1, <2>3, RootsSideBySide
  <2>5. c \in Nat /\ d \in Nat
    BY <1>6, <1>10, <1>11, <2>1, <2>3
  <2>6. PICK i, h : i = c - 1 /\ h = d - 1
    OBVIOUS
  <2>7. a = <<i, Root>> /\ b = <<h, Root>>
    BY <1>5, <1>6, <2>2, <2>3, <2>6
  <2>8. EntriesBetween(a, b) = {<<row, Root>> : row \in i .. h}
    BY <2>7 DEF EntriesBetween
  <2>9. ASSUME NEW row \in i .. h PROVE <<row, Root>> \in E
    <3>1. PICK k : k = row + 1 /\ k \in c .. d /\ k - 1 = row
      BY <2>5, <2>6
    <3>2. PICK j \in first .. last : k = Place(s, index(j, p))
      BY <2>4, <3>1
    <3>3. EntryAt(s, srcRow, index(j, p)) = <<row, Root>>
      BY <2>2, <3>1, <3>2
    <3> QED
      BY <1>8, <3>3
  <2>10. ASSUME NEW j \in first .. last
         PROVE  \E row \in i .. h : EntryAt(s, srcRow, index(j, p)) = <<row, Root>>
    <3>1. PICK k : k = Place(s, index(j, p)) /\ k \in c .. d
      BY <2>4
    <3>2. PICK row : row = k - 1 /\ row \in i .. h
      BY <2>5, <2>6, <3>1
    <3> QED
      BY <2>2, <3>1, <3>2
  <2>11. EntriesBetween(a, b) = E
    BY <1>8, <2>8, <2>9, <2>10
  <2> QED
    BY <1>7, <1>9, <2>11
<1> QED
  BY <1>12, <1>13, <1>14

\* Selections, searches and drops reach the rows and the indexes they are meant for.
LEMMA MapBack ==
    ASSUME RootsOnTop, Known, RowsInv
    PROVE  SelectionsMapBack
<1> SUFFICES ASSUME phase = "idle", hasSource, ~emptied
             PROVE  LET t == Fetched(Tables)
                        shown(n) == IF isFlat THEN AmongRows(view[Root], n) ELSE Listed(view[Root], n)
                        at(n) == ListedIndex(view[Root], n)
                    IN  /\ \A x \in Nodes \cup {Root} : \A last \in 0 .. Len(view[x]) - 1 : \A first \in 0 .. last :
                              x # Root \/ first = last \/ m_filterBehavior \in {"SubTrees", "SubTreeRoots"} =>
                                  InRanges(mapSelectionToSource(t, x, first, last))
                                      = {view[x][k + 1] : k \in first .. last}
                        /\ \A p \in Present \cup {Root} : \A last \in 0 .. rowCount(p) - 1 : \A first \in 0 .. last :
                              LET nodes == {index(k, p) : k \in first .. last}
                              IN  (\A n \in nodes : shown(n)) /\ (first = last \/ m_filterBehavior # "ExactSelection") =>
                                      UNION {{<<row, r[1][2]>> : row \in r[1][1] .. r[2][1]} :
                                                 r \in mapSelectionFromSource(t, p, first, last)}
                                          = {at(n) : n \in nodes}
                        /\ \A n \in Present : match(t, {n}) = IF shown(n) THEN {at(n)} ELSE {}
                        /\ \A x \in Nodes \cup {Root} : \A k \in DOMAIN view[x] :
                              dropMimeData(t, x, k - 1) = <<parent(view[x][k]), srcRow[view[x][k]]>>
  BY DEF SelectionsMapBack
<1> DEFINE shown(n) == IF isFlat THEN AmongRows(view[Root], n) ELSE Listed(view[Root], n)
           at(n) == ListedIndex(view[Root], n)
<1>1. PICK s : s = m_rootIndexList /\ Showing(Tables, s) /\ view = Shown(s) /\ RootSeq(s)
  BY IdleIsQuiet, QuietRows
<1>2. TreeOK /\ IsSorted(s) /\ s \in Seq(Nodes) /\ RangeOf(s) \subseteq Present
  BY <1>1 DEF Known, Scope, OrderInv, RootSeq
<1>3. PICK u : u = Tables
  OBVIOUS
<1>4. Showing(Fetched(u), s)
  BY <1>1, <1>2, <1>3, ShowingFits, ReadFits
<1>5. PICK t : t = Fetched(u)
  OBVIOUS
<1>6. Showing(t, s) /\ t = Fetched(Tables)
  BY <1>3, <1>4, <1>5
<1>7. view[Root] = s
  BY <1>1, ShownIs
<1>8. \A n \in Present : (shown(n) <=> InProxy(s, n)) /\ at(n) = EntryAt(s, srcRow, n)
  <2> SUFFICES ASSUME NEW n \in Present
               PROVE  (shown(n) <=> InProxy(s, n)) /\ at(n) = EntryAt(s, srcRow, n)
    OBVIOUS
  <2>1. n \in Nodes
    BY DEF Present
  <2>2. /\ AmongRows(s, n) <=> n \in RangeOf(s)
        /\ Listed(s, n) <=> n \in Below(RangeOf(s))
        /\ ListedIndex(s, n) = EntryAt(s, srcRow, n)
    BY <1>2, <2>1, ListedIs
  <2> QED
    BY <1>7, <2>2 DEF InProxy
<1>9. m_filterBehavior # "ExactSelection" => \A m, n \in RangeOf(s) : m \notin Above(n)
  <2> SUFFICES ASSUME m_filterBehavior # "ExactSelection" PROVE \A m, n \in RangeOf(s) : m \notin Above(n)
    OBVIOUS
  <2>1. m_pendingSelectionChanges = <<>>
    BY DEF Known, Flow
  <2>2. RangeOf(s) = Target(selection)
    BY <1>1, <2>1 DEF Known, RootsInv, Settled, Earlier, RootSet
  <2>3. ~m_includeAllSelected
    BY DEF m_includeAllSelected, RootsOnTop, m_startWithChildTrees
  <2>4. RangeOf(s) = getRootRanges(selection)
    BY <2>2, <2>3, Zenon DEF Target
  <2> QED
    BY <2>4 DEF getRootRanges
<1> HIDE DEF shown, at
<1>10. ASSUME NEW x \in Nodes \cup {Root}, NEW last \in 0 .. Len(view[x]) - 1, NEW first \in 0 .. last,
              x # Root \/ first = last \/ m_filterBehavior \in {"SubTrees", "SubTreeRoots"}
       PROVE  InRanges(mapSelectionToSource(t, x, first, last)) = {view[x][k + 1] : k \in first .. last}
  <2>1. PICK v : v = view[x]
    OBVIOUS
  <2>2. v \in Seq(Nodes)
    <3>1. CASE x = Root
      BY <1>2, <1>7, <2>1, <3>1
    <3>2. CASE x # Root
      <4>1. (v = ChildrenInOrder(x) /\ x \in Present) \/ v = <<>>
        BY <1>1, <2>1, <3>2, ShownIs DEF Below
      <4>2. x \in Present => ChildrenInOrder(x) \in Seq(Nodes)
        BY <1>2, Kids
      <4>3. <<>> \in Seq(Nodes)
        OBVIOUS
      <4> QED
        BY <4>1, <4>2, <4>3
    <3> QED
      BY <3>1, <3>2
  <2>3. first \in Nat /\ last \in Nat /\ first <= last /\ last + 1 \in DOMAIN v
    BY <2>1, <2>2
  <2> QED
    BY <1>1, <1>2, <1>6, <1>10, <2>1, <2>3, SelectedToSource
<1>11. ASSUME NEW p \in Present \cup {Root}, NEW last \in 0 .. rowCount(p) - 1, NEW first \in 0 .. last,
              \A n \in {index(k, p) : k \in first .. last} : shown(n),
              first = last \/ m_filterBehavior # "ExactSelection"
       PROVE  UNION {{<<row, r[1][2]>> : row \in r[1][1] .. r[2][1]} :
                        r \in mapSelectionFromSource(t, p, first, last)}
                 = {at(n) : n \in {index(k, p) : k \in first .. last}}
  <2>1. \A k \in first .. last : k \in 0 .. rowCount(p) - 1
    <3>1. rowCount(p) \in Nat
      BY <1>2, Kids
    <3> QED
      BY <3>1
  <2>2. \A k \in first .. last : index(k, p) \in Present
    BY <1>2, <2>1, RowThere
  <2>3. \A k \in first .. last : InProxy(s, index(k, p))
    BY <1>8, <1>11, <2>2
  <2>4. first = last \/ \A m, n \in RangeOf(s) : m \notin Above(n)
    BY <1>9, <1>11
  <2>5. {at(n) : n \in {index(k, p) : k \in first .. last}} = RowsToSelect(s, p, first, last)
    BY <1>8, <2>2 DEF RowsToSelect
  <2>6. RowsSelected(t, p, first, last) = RowsToSelect(s, p, first, last)
    BY <1>1, <1>2, <1>6, <2>3, <2>4, SelectedFromSource
  <2> QED
    BY <2>5, <2>6 DEF RowsSelected, RangeRows
<1>12. ASSUME NEW n \in Present
       PROVE  match(t, {n}) = IF shown(n) THEN {at(n)} ELSE {}
  <2>1. match(t, {n}) = {mapFromSource(t, n)} \ {NoIndex}
    BY DEF match
  <2>2. /\ mapFromSource(t, n) = IF InProxy(s, n) THEN EntryAt(s, srcRow, n) ELSE NoIndex
        /\ InProxy(s, n) => EntryAt(s, srcRow, n) # NoIndex
    BY <1>1, <1>2, <1>6, FoundThere
  <2> QED
    BY <1>8, <2>1, <2>2
<1>13. ASSUME NEW x \in Nodes \cup {Root}, NEW k \in DOMAIN view[x]
       PROVE  dropMimeData(t, x, k - 1) = <<parent(view[x][k]), srcRow[view[x][k]]>>
  BY <1>1, <1>2, <1>6, DroppedInFront
<1> USE DEF shown, at
<1> QED
  BY <1>6, <1>10, <1>11, <1>12, <1>13

----------------------------------------------------------------------------
(* The theorems.  Selections change as in the runs (CalmSelections), and    *)
(* the selection model is not exchanged for one that has a selection.       *)

\* In the behaviours that put the selected indexes themselves on the top level, and
\* whenever no call is under way, a listener that only follows the signals of
\* KSelectionProxyModel has the selected roots in depth-first order and all that is
\* below them, or nothing below them where the behaviour leaves it out.
THEOREM ShownRows ==
    CalmSelections /\ "selectionModelLoaded" \notin Operations =>
        (Spec => [](RootsOnTop => ShowsSelection))
<1>1. Invariant /\ RowsInv => (RootsOnTop => ShowsSelection)
  BY SelectionShown DEF Invariant, Known
<1> QED
  BY <1>1, RowsAlways, PTL

\* Between the begin... and the end... of rows that come or go, and between two roots of
\* one selectionChanged(), but not in a slot of rootIndexAdded(), rowCount(), index() and hasChildren() answer for exactly the
\* rows that a listener has been told of, and find a root for each top-level row.
THEOREM ReadAtAnyTime ==
    CalmSelections /\ "selectionModelLoaded" \notin Operations =>
        (Spec => [](RootsOnTop => ReadableMidway))
<1>1. Invariant /\ RowsInv => (RootsOnTop => ReadableMidway)
  BY MidwayRead DEF Invariant, Known
<1> QED
  BY <1>1, RowsAlways, PTL

\* At those times, too, mapFromSource() and mapToSource() take each row to its index and
\* back, and each row that has rows of its own has its entry in m_mappedParents.
THEOREM MappedBothWays ==
    CalmSelections /\ "selectionModelLoaded" \notin Operations =>
        (Spec => [](RootsOnTop => MapsBackAndForth))
<1>1. Invariant /\ RowsInv => (RootsOnTop => MapsBackAndForth)
  BY BackAndForth DEF Invariant, Known
<1> QED
  BY <1>1, RowsAlways, PTL

\* No entry of m_mappedParents outlives the row it is for: insertions, removals, moves,
\* layout changes, resets and deselections take theirs away or rename them.
THEOREM NoEntryLeftOver ==
    CalmSelections /\ "selectionModelLoaded" \notin Operations =>
        (Spec => [](RootsOnTop => NoStaleParents))
<1>1. Invariant /\ RowsInv => (RootsOnTop => NoStaleParents)
  BY NoneStale DEF Invariant, Known
<1> QED
  BY <1>1, RowsAlways, PTL

\* dataChanged() of the source is passed on for the rows that show a changed index and
\* no others; the one that is missed is a last changed root that stands alone.
THEOREM EachChangeHeard ==
    CalmSelections /\ "selectionModelLoaded" \notin Operations =>
        (Spec => [](RootsOnTop => DataChangesReach))
<1>1. Invariant /\ RowsInv => (RootsOnTop => DataChangesReach)
  BY ChangesReach DEF Invariant, Known
<1> QED
  BY <1>1, RowsAlways, PTL

\* mapSelectionToSource(), mapSelectionFromSource(), match() and dropMimeData() reach the
\* indexes and the rows that they are asked for, for source trees of any size: what is
\* between two roots that are neighbours in the source is below the first of them, and
\* so is no root.
THEOREM SelectionsReach ==
    CalmSelections /\ "selectionModelLoaded" \notin Operations =>
        (Spec => [](RootsOnTop => SelectionsMapBack))
<1>1. Invariant /\ RowsInv => (RootsOnTop => SelectionsMapBack)
  BY MapBack DEF Invariant, Known
<1> QED
  BY <1>1, RowsAlways, PTL
=============================================================================
