-------------------- MODULE KDescendantsProxyModelProofs --------------------
(***************************************************************************)
(* Proofs about KDescendantsProxyModel, for source trees of any size: its  *)
(* types, the pairing of its signals, and from "The invariant of the rows" *)
(* on what a listener holds and what m_mapping answers.                    *)
(***************************************************************************)
EXTENDS KDescendantsProxyModel, SourceTreeTheorems, SequenceTheorems

----------------------------------------------------------------------------
(* What the queries return.                                                *)

LEMMA LeastType == \A S : Least(S) \in S \cup {NoRow}
BY DEF Least

LEMMA GreatestType == \A S : Greatest(S) \in S \cup {NoRow}
BY DEF Greatest

LEMMA PassedOverType == \A n, i : Cardinality(PassedOver(n, i)) \in Nat
<1>1. \A n, i : PassedOver(n, i) \in SUBSET Nodes
  BY DEF PassedOver
<1> QED
  BY <1>1, CountType

LEMMA MapFromSourceType ==
    ASSUME NEW m, IsMapping(m)
    PROVE  \A i : mapFromSource(m, i) \in Int
<1> TAKE i
<1>1. BlockRows(m, i) \subseteq Int
  BY DEF BlockRows, IsMapping
<1>2. Least(BlockRows(m, i)) \in Int
  BY <1>1, LeastType DEF NoRow
<1>3. Cardinality(PassedOver(m[Least(BlockRows(m, i))], i)) \in Int
  BY PassedOverType
<1> QED
  BY <1>2, <1>3 DEF mapFromSource, NoRow

LEMMA MapToSourceType == \A m, row : mapToSource(m, row) \in Nodes \cup {Root}
BY DEF mapToSource

LEMMA AtType == \A v, r : IsMapping(v) => At(v, r) \in Nodes \cup {Root}
BY DEF At, IsMapping

LEMMA RowsUpToType == \A i, top : rowsUpTo(i, top) \in Nat
<1>1. \A i, top :
         {z \in Nodes : \E y \in SelfAndAbove[i] :
             /\ srcParent[z] = srcParent[y] /\ srcRow[z] <= srcRow[y]
             /\ y \notin SelfAndAbove[top]} \in SUBSET Nodes
  OBVIOUS
<1> QED
  BY <1>1, CountType DEF rowsUpTo

----------------------------------------------------------------------------
(* The operators on mappings.                                              *)

LEMMA MappedRowType == \A m, idx : IsMapping(m) => MappedRow(m, idx) \in Int
<1> SUFFICES ASSUME NEW m, NEW idx, IsMapping(m)
             PROVE  MappedRow(m, idx) \in Int
  OBVIOUS
<1>1. CASE idx \in MappedIndexes(m)
  <2>1. \E r \in DOMAIN m : m[r] = idx
    BY <1>1 DEF MappedIndexes
  <2> QED
    BY <1>1, <2>1 DEF MappedRow, IsMapping
<1> QED
  BY <1>1 DEF MappedRow

LEMMA MapShiftType ==
    ASSUME NEW m, IsMapping(m), NEW start \in Int, NEW offset \in Int
    PROVE  IsMapping(MapShift(m, start, offset))
<1> DEFINE moved == {r \in DOMAIN m : r >= start}
           targets == {r + offset : r \in moved}
           kept == {r \in DOMAIN m : r < start} \ targets
<1>1. DOMAIN m \subseteq Int /\ \A r \in DOMAIN m : m[r] \in Nodes \cup {Root}
  BY DEF IsMapping
<1>2. ASSUME NEW k \in targets
      PROVE  k \in Int /\ m[k - offset] \in Nodes \cup {Root}
  <2>1. PICK r \in moved : k = r + offset
    OBVIOUS
  <2>2. r \in Int /\ r \in DOMAIN m
    BY <1>1
  <2>3. k - offset = r
    BY <2>1, <2>2
  <2> QED
    BY <1>1, <2>1, <2>2, <2>3
<1>3. kept \subseteq DOMAIN m
  OBVIOUS
<1>4. MapShift(m, start, offset) =
         [r \in kept \cup targets |-> IF r \in targets THEN m[r - offset] ELSE m[r]]
  BY DEF MapShift
<1> HIDE DEF kept, targets
<1> QED
  BY <1>1, <1>2, <1>3, <1>4 DEF IsMapping

LEMMA MapInsertType ==
    ASSUME NEW m, IsMapping(m), NEW idx \in Nodes \cup {Root}, NEW row \in Int
    PROVE  IsMapping(MapInsert(m, idx, row))
BY DEF IsMapping, MapInsert

LEMMA MapRemoveType == \A m, idx : IsMapping(m) => IsMapping(MapRemove(m, idx))
BY DEF IsMapping, MapRemove

LEMMA MapEraseType == \A m, q, r : IsMapping(m) => IsMapping(MapErase(m, q, r))
BY DEF IsMapping, MapErase

LEMMA InvalidatedType == \A m, gone : IsMapping(m) => IsMapping(Invalidated(m, gone))
BY DEF IsMapping, Invalidated

LEMMA EmptyMappingType == IsMapping(EmptyMapping)
BY DEF IsMapping, EmptyMapping

LEMMA InsertStartType ==
    ASSUME IsMapping(m_mapping)
    PROVE  \A p, first : insertStart(p, first) \in Int
BY MapFromSourceType DEF insertStart

LEMMA NewEndRowType ==
    ASSUME SourceTypeOK, NEW m, IsMapping(m), NEW start \in Int
    PROVE  \A p : newEndRow(m, p, start) \in Int
<1> TAKE p
<1> DEFINE newEnd == index(rowCount(p) - 1, p)
           above == Greatest({r \in DOMAIN m : r < start})
<1>1. IndexRow(newEnd) \in Int
  BY IndexRowType
<1>2. MappedRow(m, firstDeepest[newEnd]) - rowsUpTo(firstDeepest[newEnd], newEnd) \in Int
  BY MappedRowType, RowsUpToType
<1>3. Greatest(DOMAIN m) + Cardinality(TrailingLeaves(p)) \in Int
  <2>1. TrailingLeaves(p) \in SUBSET Nodes
    BY DEF TrailingLeaves, Children
  <2>2. Greatest(DOMAIN m) \in Int
    BY GreatestType DEF IsMapping, NoRow
  <2> QED
    BY <2>1, <2>2, CountType
<1>4. rowCount(p) - 1 + rowsUpTo(p, Root) \in Int
  BY RowCountType, RowsUpToType
<1>5. rowBelowAbove(m, p, above) \in Int
  <2>1. above \in Int
    <3>1. {r \in DOMAIN m : r < start} \subseteq Int
      BY DEF IsMapping
    <3> QED
      BY <3>1, GreatestType DEF NoRow
  <2>2. rowsUpTo(p, m[above]) \in Int /\ rowsUpTo(p, parent(prevParent(m, p, above))) \in Int
    BY RowsUpToType
  <2>3. IndexRow(prevParent(m, p, above)) \in Int
    BY IndexRowType
  <2> QED
    BY <1>1, <2>1, <2>2, <2>3 DEF rowBelowAbove
<1> QED
  BY <1>1, <1>2, <1>3, <1>4, <1>5 DEF newEndRow

----------------------------------------------------------------------------
(* Signals.                                                                *)

Announcements == [kind : {"insert", "remove", "reset", "unmatched"}, first : Int, last : Int]

ViewTypeOK ==
    /\ announced \in Seq(Announcements)
    /\ IsMapping(view)
    /\ viewCount \in Int

LEMMA BeginType ==
    ASSUME announced \in Seq(Announcements), NEW kind \in {"insert", "remove", "reset"},
           NEW first \in Int, NEW last \in Int, Begin(kind, first, last)
    PROVE  announced' \in Seq(Announcements)
<1>1. [kind |-> kind, first |-> first, last |-> last] \in Announcements
  BY DEF Announcements
<1> QED
  BY <1>1 DEF Begin

\* Only the begin... call of a step concerns the listener.
LEMMA BeginKeepsView ==
    ASSUME ViewTypeOK, NEW kind \in {"insert", "remove", "reset"},
           NEW first \in Int, NEW last \in Int, Begin(kind, first, last),
           UNCHANGED <<view, viewCount>>
    PROVE  ViewTypeOK'
<1>1. announced' \in Seq(Announcements)
  BY BeginType DEF ViewTypeOK
<1> QED
  BY <1>1 DEF ViewTypeOK, IsMapping

LEMMA EndType ==
    ASSUME announced \in Seq(Announcements), NEW kind, End(kind)
    PROVE  announced' \in Seq(Announcements)
<1>1. CASE Closes(kind)
  <2>1. announced' = SubSeq(announced, 1, Len(announced) - 1)
    BY <1>1 DEF End
  <2>2. Len(announced) \in Nat /\ \A i \in 1 .. Len(announced) : announced[i] \in Announcements
    OBVIOUS
  <2>3. /\ 1 \in Int /\ Len(announced) - 1 \in Int
        /\ \A i \in 1 .. Len(announced) - 1 : announced[i] \in Announcements
    BY <2>2
  <2> QED
    BY <2>1, <2>3, SubSeqProperties
<1>2. CASE ~Closes(kind)
  <2>1. [kind |-> "unmatched", first |-> 0, last |-> 0] \in Announcements
    BY DEF Announcements
  <2>2. announced' = Append(announced, [kind |-> "unmatched", first |-> 0, last |-> 0])
    BY <1>2 DEF End
  <2> QED
    BY <2>1, <2>2
<1> QED
  BY <1>1, <1>2

LEMMA LastAnnouncement ==
    ASSUME announced \in Seq(Announcements), NEW kind, Closes(kind)
    PROVE  announced[Len(announced)] \in Announcements
<1>1. announced # <<>>
  BY DEF Closes
<1>2. Len(announced) \in 1 .. Len(announced)
  BY <1>1
<1> QED
  BY <1>2

LEMMA EndInsertRowsType ==
    ASSUME ViewTypeOK, NEW m, EndInsertRows(m)
    PROVE  ViewTypeOK'
<1>1. announced' \in Seq(Announcements)
  BY EndType DEF EndInsertRows, ViewTypeOK
<1>2. CASE Closes("insert")
  <2> DEFINE a == announced[Len(announced)]
             count == a.last - a.first + 1
  <2>1. a \in Announcements
    BY <1>2, LastAnnouncement DEF ViewTypeOK
  <2>2. count \in Int /\ a.first \in Int /\ a.last \in Int
    BY <2>1 DEF Announcements
  <2>3. /\ viewCount' = viewCount + count
        /\ view' = [r \in 0 .. viewCount + count - 1 |->
                       IF r < a.first THEN At(view, r)
                       ELSE IF r <= a.last THEN mapToSource(m, r)
                       ELSE At(view, r - count)]
    BY <1>2 DEF EndInsertRows
  <2>4. \A r : At(view, r) \in Nodes \cup {Root} /\ mapToSource(m, r) \in Nodes \cup {Root}
    BY AtType, MapToSourceType DEF ViewTypeOK
  <2> HIDE DEF a, count
  <2>5. viewCount' \in Int
    BY <2>2, <2>3 DEF ViewTypeOK
  <2>6. IsMapping(view')
    BY <2>2, <2>3, <2>4 DEF IsMapping, ViewTypeOK
  <2> QED
    BY <1>1, <2>5, <2>6 DEF ViewTypeOK, IsMapping
<1>3. CASE ~Closes("insert")
  BY <1>1, <1>3 DEF EndInsertRows, ViewTypeOK, IsMapping
<1> QED
  BY <1>2, <1>3

LEMMA EndRemoveRowsType ==
    ASSUME ViewTypeOK, EndRemoveRows
    PROVE  ViewTypeOK'
<1>1. announced' \in Seq(Announcements)
  BY EndType DEF EndRemoveRows, ViewTypeOK
<1>2. CASE Closes("remove")
  <2> DEFINE a == announced[Len(announced)]
             count == a.last - a.first + 1
  <2>1. a \in Announcements
    BY <1>2, LastAnnouncement DEF ViewTypeOK
  <2>2. count \in Int /\ a.first \in Int /\ a.last \in Int
    BY <2>1 DEF Announcements
  <2>3. /\ viewCount' = viewCount - count
        /\ view' = [r \in 0 .. viewCount - count - 1 |->
                       IF r < a.first THEN At(view, r) ELSE At(view, r + count)]
    BY <1>2 DEF EndRemoveRows
  <2>4. \A r : At(view, r) \in Nodes \cup {Root}
    BY AtType DEF ViewTypeOK
  <2> HIDE DEF a, count
  <2>5. viewCount' \in Int
    BY <2>2, <2>3 DEF ViewTypeOK
  <2>6. IsMapping(view')
    BY <2>2, <2>3, <2>4 DEF IsMapping, ViewTypeOK
  <2> QED
    BY <1>1, <2>5, <2>6 DEF ViewTypeOK, IsMapping
<1>3. CASE ~Closes("remove")
  BY <1>1, <1>3 DEF EndRemoveRows, ViewTypeOK, IsMapping
<1> QED
  BY <1>2, <1>3

LEMMA EndResetModelType ==
    ASSUME ViewTypeOK, NEW m, NEW rows \in Int, EndResetModel(m, rows)
    PROVE  ViewTypeOK'
<1>1. announced' \in Seq(Announcements)
  BY EndType DEF EndResetModel, ViewTypeOK
<1>2. viewCount' \in Int
  BY DEF EndResetModel
<1>3. IsMapping(view')
  BY MapToSourceType DEF EndResetModel, IsMapping
<1> QED
  BY <1>1, <1>2, <1>3 DEF ViewTypeOK, IsMapping

----------------------------------------------------------------------------
(* Type correctness.                                                       *)

RowsTypeOK == IsMapping(m_mapping) /\ m_rowCount \in Int

QueueTypeOK == m_pendingParents \in Seq(Nodes \cup {Root})

PairsTypeOK == m_insertPair \in Int \X Int /\ m_removePair \in Int \X Int

UserTypeOK ==
    /\ m_expandsByDefault \in BOOLEAN
    /\ m_expandedSourceIndexes \subseteq (IF m_expandsByDefault THEN {} ELSE Nodes)
    /\ m_collapsedSourceIndexes \subseteq (IF m_expandsByDefault THEN Nodes ELSE {})

LayoutTypeOK == m_relayouting \in BOOLEAN /\ IsMapping(m_layoutChangePersistentIndexes)

\* The rows of the running operation are in order: needed where the tree changes,
\* for the rows to stay natural numbers.
ControlTypeOK ==
    /\ phase \in Phases /\ resume \in Phases
    /\ op \in [parent : Nodes \cup {Root}, first : Nat, last : Nat,
               target : Nodes \cup {Root}, dest : Nat]
    /\ op.first <= op.last

TInv ==
    /\ SourceTypeOK /\ RowsTypeOK /\ QueueTypeOK /\ PairsTypeOK
    /\ UserTypeOK /\ LayoutTypeOK /\ ControlTypeOK /\ ViewTypeOK

LEMMA TInvImpliesTypeOK == TInv => TypeOK
BY DEF TInv, TypeOK, RowsTypeOK, QueueTypeOK, PairsTypeOK, UserTypeOK, LayoutTypeOK,
       ControlTypeOK, ViewTypeOK, Announcements

LEMMA ExpandableType ==
    ASSUME NEW p, NEW first \in Int, NEW last \in Int
    PROVE  Expandable(p, first, last) \in Seq(Nodes \cup {Root})
<1> DEFINE shows == {r \in first .. last : /\ hasChildren(index(r, p))
                                           /\ isSourceIndexExpanded(index(r, p))}
<1>1. Cardinality(shows) \in Nat
  <2>1. IsFiniteSet(first .. last)
    BY FS_Interval
  <2>2. shows \in SUBSET (first .. last)
    OBVIOUS
  <2> HIDE DEF shows
  <2> QED
    BY <2>1, <2>2, FS_Subset, FS_CardinalityType
<1>2. Expandable(p, first, last) =
         [k \in 1 .. Cardinality(shows) |-> index(NthRow(shows, k), p)]
  BY DEF Expandable
<1> HIDE DEF shows
<1>3. \A k \in 1 .. Cardinality(shows) : index(NthRow(shows, k), p) \in Nodes \cup {Root}
  BY IndexType
<1> QED
  BY <1>1, <1>2, <1>3

LEMMA InitTInv == Init => TInv
<1> SUFFICES ASSUME Init PROVE TInv
  OBVIOUS
<1>1. SourceTypeOK
  BY DEF Init, SourceTypeOK
<1>2. RowsTypeOK /\ QueueTypeOK
  BY EmptyMappingType DEF Init, RowsTypeOK, QueueTypeOK
<1>5. PairsTypeOK
  BY DEF Init, PairsTypeOK, NoPair
<1>6. UserTypeOK
  BY ProxyAssumption DEF Init, UserTypeOK
<1>7. LayoutTypeOK
  BY EmptyMappingType DEF Init, LayoutTypeOK
<1>3. ControlTypeOK
  BY DEF Init, ControlTypeOK, Phases, NoOp
<1>4. ViewTypeOK
  BY EmptyMappingType DEF Init, ViewTypeOK
<1> QED
  BY <1>1, <1>2, <1>3, <1>4, <1>5, <1>6, <1>7 DEF TInv

\* Stays put: the part of the invariant about variables that a step does not touch.
LEMMA Untouched ==
    /\ SourceTypeOK /\ UNCHANGED srcVars => SourceTypeOK'
    /\ RowsTypeOK /\ RowsKept => RowsTypeOK'
    /\ QueueTypeOK /\ PendingKept => QueueTypeOK'
    /\ PairsTypeOK /\ PairsKept => PairsTypeOK'
    /\ UserTypeOK /\ UNCHANGED userVars => UserTypeOK'
    /\ LayoutTypeOK /\ LayoutKept => LayoutTypeOK'
    /\ ControlTypeOK /\ UNCHANGED controlVars => ControlTypeOK'
    /\ ViewTypeOK /\ UNCHANGED viewVars => ViewTypeOK'
BY DEF srcVars, SourceTypeOK, RowsKept, RowsTypeOK, PendingKept, QueueTypeOK, PairsKept,
       PairsTypeOK, userVars, UserTypeOK, LayoutKept, LayoutTypeOK, controlVars,
       ControlTypeOK, viewVars, ViewTypeOK, IsMapping

LEMMA ControlSteps ==
    ASSUME ControlTypeOK
    PROVE  /\ \A next \in Phases : Enters(next) => ControlTypeOK'
           /\ \A next \in Phases : Refreshes(next) => ControlTypeOK'
           /\ Finishes => ControlTypeOK'
BY DEF ControlTypeOK, Enters, Refreshes, Finishes, Phases, NoOp

LEMMA StartRefreshType ==
    ASSUME LayoutTypeOK, StartRefresh, UNCHANGED m_layoutChangePersistentIndexes
    PROVE  RowsTypeOK' /\ QueueTypeOK' /\ LayoutTypeOK'
BY EmptyMappingType DEF StartRefresh, RowsTypeOK, QueueTypeOK, LayoutTypeOK, IsMapping

----------------------------------------------------------------------------
(* The pending parents keep the types.                                     *)

LEMMA SkipPendingType == TInv /\ SkipPending => TInv'
<1> SUFFICES ASSUME TInv, SkipPending PROVE TInv'
  OBVIOUS
<1>1. QueueTypeOK'
  BY HeadTailProperties DEF TInv, QueueTypeOK, SkipPending
<1> QED
  BY <1>1, Untouched DEF TInv, SkipPending

LEMMA AnnouncePendingType == TInv /\ AnnouncePending => TInv'
<1> SUFFICES ASSUME TInv, AnnouncePending PROVE TInv'
  OBVIOUS
<1>1. PICK start \in Int, end \in Int : Begin("insert", start, end)
  <2> DEFINE p == Head(m_pendingParents)
             start == mapFromSource(m_mapping, p) + 1
  <2>1. start \in Int /\ start + rowCount(p) - 1 \in Int
    BY MapFromSourceType, RowCountType DEF TInv, RowsTypeOK
  <2>2. Begin("insert", start, start + rowCount(p) - 1)
    BY DEF AnnouncePending
  <2> QED
    BY <2>1, <2>2
<1>2. ViewTypeOK'
  BY <1>1, BeginType DEF TInv, ViewTypeOK, AnnouncePending, IsMapping
<1>3. ControlTypeOK'
  BY ControlSteps DEF AnnouncePending, Phases, TInv
<1> QED
  BY <1>2, <1>3, Untouched DEF TInv, AnnouncePending

LEMMA AddPendingType == TInv /\ AddPending => TInv'
<1> SUFFICES ASSUME TInv, AddPending PROVE TInv'
  OBVIOUS
<1> DEFINE p == Head(m_pendingParents)
           rows == rowCount(p)
           start == mapFromSource(m_mapping, p) + 1
           shifted == MapShift(m_mapping, start, rows)
           mapping == MapInsert(shifted, index(rows - 1, p), start + rows - 1)
<1>1. rows \in Nat /\ start \in Int
  BY MapFromSourceType, RowCountType DEF TInv, RowsTypeOK
<1>2. IsMapping(mapping)
  <2>1. IsMapping(shifted)
    BY <1>1, MapShiftType DEF TInv, RowsTypeOK
  <2>2. index(rows - 1, p) \in Nodes \cup {Root} /\ start + rows - 1 \in Int
    BY <1>1, IndexType
  <2> HIDE DEF shifted, start, rows, p
  <2> QED
    BY <2>1, <2>2, MapInsertType
<1>3. /\ m_mapping' = mapping
      /\ m_rowCount' = m_rowCount + rows
      /\ m_pendingParents' = Tail(m_pendingParents) \o Expandable(p, 0, rows - 1)
      /\ IF m_relayouting THEN UNCHANGED viewVars ELSE EndInsertRows(mapping)
      /\ m_pendingParents # <<>>
  BY DEF AddPending
<1>4. Expandable(p, 0, rows - 1) \in Seq(Nodes \cup {Root})
  BY <1>1, ExpandableType
<1> HIDE DEF mapping, rows, p
<1>5. RowsTypeOK'
  BY <1>1, <1>2, <1>3 DEF TInv, RowsTypeOK, IsMapping
<1>6. QueueTypeOK'
  <2>1. Tail(m_pendingParents) \in Seq(Nodes \cup {Root})
    BY <1>3, HeadTailProperties DEF TInv, QueueTypeOK
  <2> QED
    BY <2>1, <1>3, <1>4, ConcatProperties DEF QueueTypeOK
<1>7. ViewTypeOK'
  BY <1>3, EndInsertRowsType, Untouched DEF TInv
<1>8. ControlTypeOK'
  BY ControlSteps DEF AddPending, Phases, TInv
<1> QED
  BY <1>5, <1>6, <1>7, <1>8, Untouched DEF TInv, AddPending

LEMMA EndPendingType == TInv /\ EndPending => TInv'
<1> SUFFICES ASSUME TInv, EndPending PROVE TInv'
  OBVIOUS
<1>1. LayoutTypeOK'
  BY DEF TInv, LayoutTypeOK, EndPending, IsMapping
<1>2. ControlTypeOK'
  BY DEF TInv, ControlTypeOK, EndPending, NoOp, Phases
<1> QED
  BY <1>1, <1>2, Untouched DEF TInv, EndPending

LEMMA QueryRowCountType == TInv /\ QueryRowCount => TInv'
<1> SUFFICES ASSUME TInv, QueryRowCount PROVE TInv'
  OBVIOUS
<1>1. RowsTypeOK' /\ QueueTypeOK' /\ LayoutTypeOK'
  BY StartRefreshType DEF TInv, QueryRowCount
<1>2. ControlTypeOK'
  BY ControlSteps DEF QueryRowCount, TInv, ControlTypeOK
<1> QED
  BY <1>1, <1>2, Untouched DEF TInv, QueryRowCount

----------------------------------------------------------------------------
(* Insertions and removals keep the types.                                 *)

LEMMA AboutToInsertType ==
    ASSUME TInv, NEW p \in Nodes \cup {Root}, NEW first \in 0 .. rowCount(p),
           NEW last \in first .. first + MaxForest - 1, AboutToInsert(p, first, last)
    PROVE  TInv'
<1>1. first \in Nat /\ last \in Nat /\ first <= last
  BY RowCountType, NodesAssumption
<1>2. ControlTypeOK'
  BY <1>1 DEF TInv, ControlTypeOK, AboutToInsert, NoOp, Phases
<1>3. PairsTypeOK' /\ ViewTypeOK'
  <2>1. CASE AnnouncesInsert(p)
    <3> DEFINE start == insertStart(p, first)
    <3>1. start \in Int /\ start + (last - first) \in Int
      BY <1>1, InsertStartType DEF TInv, RowsTypeOK
    <3>2. /\ m_insertPair' = <<start, start + (last - first)>>
          /\ Begin("insert", start, start + (last - first))
          /\ UNCHANGED <<m_removePair, view, viewCount>>
      BY <2>1 DEF AboutToInsert
    <3> HIDE DEF start
    <3>3. announced' \in Seq(Announcements)
      BY <3>1, <3>2, BeginType DEF TInv, ViewTypeOK
    <3> QED
      BY <3>1, <3>2, <3>3 DEF TInv, PairsTypeOK, ViewTypeOK, IsMapping
  <2>2. CASE ~AnnouncesInsert(p)
    BY <2>2, Untouched DEF TInv, AboutToInsert, PairsKept, viewVars
  <2> QED
    BY <2>1, <2>2
<1> QED
  BY <1>2, <1>3, Untouched DEF TInv, AboutToInsert

LEMMA SourceInsertsType ==
    ASSUME TInv, NEW f \in Forests, SourceInserts(f)
    PROVE  TInv'
<1>1. SourceTypeOK'
  BY InsertRowsType DEF TInv, ControlTypeOK, SourceInserts
<1>2. ControlTypeOK'
  BY ControlSteps DEF SourceInserts, Phases, TInv
<1>3. UNCHANGED <<userVars, viewVars>> /\ RowsKept /\ PendingKept /\ PairsKept /\ LayoutKept
  BY DEF SourceInserts, proxyVars, userVars, RowsKept, PendingKept, PairsKept, LayoutKept
<1> QED
  BY <1>1, <1>2, <1>3, Untouched DEF TInv

LEMMA InsertMappingType ==
    ASSUME TInv, NEW p, NEW first \in Nat, NEW last \in Nat
    PROVE  IsMapping(insertMapping(p, first, last))
<1> DEFINE count == last - first + 1
           shifted == MapShift(m_mapping, m_insertPair[1], count)
           oldIndex == index(rowCount(p) - 1 - count, p)
<1>1. count \in Int /\ m_insertPair[1] \in Int
  BY DEF TInv, PairsTypeOK
<1>2. IsMapping(shifted)
  BY <1>1, MapShiftType DEF TInv, RowsTypeOK
<1>3. IsMapping(MapRemove(shifted, oldIndex))
  BY <1>2, MapRemoveType
<1>4. MappedRow(shifted, lastShown[oldIndex]) + count \in Int
  BY <1>1, <1>2, MappedRowType
<1>5. index(last, p) \in Nodes \cup {Root}
  BY IndexType
<1> HIDE DEF shifted, count, oldIndex
<1>6. IsMapping(MapInsert(MapRemove(shifted, oldIndex), index(last, p),
                          MappedRow(shifted, lastShown[oldIndex]) + count))
  BY <1>3, <1>4, <1>5, MapInsertType
<1> QED
  BY <1>2, <1>6 DEF insertMapping, shifted, count, oldIndex

LEMMA HandleRowsInsertedType == TInv /\ HandleRowsInserted => TInv'
<1> SUFFICES ASSUME TInv, HandleRowsInserted PROVE TInv'
  OBVIOUS
<1> DEFINE p == op.parent
           count == op.last - op.first + 1
<1>1. op.parent \in Nodes \cup {Root} /\ op.first \in Nat /\ op.last \in Nat
  BY DEF TInv, ControlTypeOK
<1>2. CASE ~Open(p) /\ Finishes /\ UNCHANGED viewVars /\ RowsKept /\ PendingKept
  BY <1>2, ControlSteps, Untouched DEF TInv, HandleRowsInserted
<1>3. CASE /\ m_pendingParents' = Append(m_pendingParents, p)
           /\ Refreshes("idle") /\ UNCHANGED viewVars /\ RowsKept
  <2>1. QueueTypeOK'
    BY <1>1, <1>3 DEF TInv, QueueTypeOK
  <2>2. ControlTypeOK'
    BY <1>3, ControlSteps DEF Phases, TInv
  <2> QED
    BY <1>3, <2>1, <2>2, Untouched DEF TInv, HandleRowsInserted
<1>4. CASE /\ m_mapping' = insertMapping(p, op.first, op.last)
           /\ m_rowCount' = m_rowCount + count
           /\ m_pendingParents' = m_pendingParents \o Expandable(p, op.first, op.last)
           /\ EndInsertRows(m_mapping')
           /\ Refreshes("idle")
  <2>1. RowsTypeOK'
    <3>1. IsMapping(m_mapping')
      BY <1>1, <1>4, InsertMappingType
    <3>2. m_rowCount' \in Int
      BY <1>1, <1>4 DEF TInv, RowsTypeOK
    <3> QED
      BY <3>1, <3>2 DEF RowsTypeOK, IsMapping
  <2>2. QueueTypeOK'
    <3>1. Expandable(p, op.first, op.last) \in Seq(Nodes \cup {Root})
      BY <1>1, ExpandableType
    <3> QED
      BY <1>4, <3>1, ConcatProperties DEF TInv, QueueTypeOK
  <2>3. ViewTypeOK'
    BY <1>4, EndInsertRowsType DEF TInv
  <2>4. ControlTypeOK'
    BY <1>4, ControlSteps DEF Phases, TInv
  <2> QED
    BY <2>1, <2>2, <2>3, <2>4, Untouched DEF TInv, HandleRowsInserted
<1> QED
  BY <1>2, <1>3, <1>4 DEF HandleRowsInserted

LEMMA AboutToRemoveType ==
    ASSUME TInv, NEW p \in Nodes \cup {Root}, NEW last \in 0 .. rowCount(p) - 1,
           NEW first \in 0 .. last, AboutToRemove(p, first, last)
    PROVE  TInv'
<1>1. first \in Nat /\ last \in Nat /\ first <= last
  BY RowCountType
<1>2. ControlTypeOK'
  BY <1>1 DEF TInv, ControlTypeOK, AboutToRemove, NoOp, Phases
<1>3. PairsTypeOK' /\ ViewTypeOK' /\ UserTypeOK'
  <2>1. CASE Open(p)
    <3> DEFINE start == mapFromSource(m_mapping, index(first, p))
               end == mapFromSource(m_mapping, lastBelow[index(last, p)])
    <3>1. start \in Int /\ end \in Int
      BY MapFromSourceType DEF TInv, RowsTypeOK
    <3>2. /\ m_removePair' = <<start, end>>
          /\ Begin("remove", start, end)
          /\ m_expandedSourceIndexes' \subseteq m_expandedSourceIndexes
          /\ UNCHANGED <<m_insertPair, view, viewCount>>
          /\ UNCHANGED <<m_expandsByDefault, m_collapsedSourceIndexes>>
      BY <2>1 DEF AboutToRemove
    <3> HIDE DEF start, end
    <3>3. announced' \in Seq(Announcements)
      BY <3>1, <3>2, BeginType DEF TInv, ViewTypeOK
    <3>4. UserTypeOK'
      BY <3>2 DEF TInv, UserTypeOK
    <3> QED
      BY <3>1, <3>2, <3>3, <3>4 DEF TInv, PairsTypeOK, ViewTypeOK, IsMapping
  <2>2. CASE ~Open(p)
    BY <2>2, Untouched DEF TInv, AboutToRemove, PairsKept, viewVars, userVars
  <2> QED
    BY <2>1, <2>2
<1> QED
  BY <1>2, <1>3, Untouched DEF TInv, AboutToRemove

LEMMA SourceRemovesType == TInv /\ SourceRemoves => TInv'
<1> SUFFICES ASSUME TInv, SourceRemoves PROVE TInv'
  OBVIOUS
<1>1. SourceTypeOK'
  BY RemoveRowsType DEF TInv, ControlTypeOK, SourceRemoves
<1>2. UserTypeOK'
  BY DEF TInv, UserTypeOK, SourceRemoves
<1>3. RowsTypeOK'
  BY InvalidatedType DEF TInv, RowsTypeOK, SourceRemoves, IsMapping
<1>4. ControlTypeOK'
  BY ControlSteps DEF SourceRemoves, Phases, TInv
<1> QED
  BY <1>1, <1>2, <1>3, <1>4, Untouched DEF TInv, SourceRemoves

LEMMA HandleRowsRemovedType == TInv /\ HandleRowsRemoved => TInv'
<1> SUFFICES ASSUME TInv, HandleRowsRemoved PROVE TInv'
  OBVIOUS
<1> DEFINE p == op.parent
           start == m_removePair[1]
           difference == m_removePair[2] - start + 1
           shifted == MapShift(MapErase(m_mapping, start, m_removePair[2]), start, -difference)
           last == index(rowCount(p) - 1, p)
           mapping == IF NewLastChild(p, op.first)
                      THEN MapInsert(shifted, last, newEndRow(shifted, p, start)) ELSE shifted
<1>1. ControlTypeOK'
  BY ControlSteps DEF HandleRowsRemoved, TInv
<1>2. CASE ~Open(p)
  BY <1>1, <1>2, Untouched DEF TInv, HandleRowsRemoved, PairsKept
<1>3. CASE Open(p)
  <2>1. start \in Int /\ difference \in Int
    BY DEF TInv, PairsTypeOK
  <2>2. IsMapping(shifted)
    <3>1. IsMapping(MapErase(m_mapping, start, m_removePair[2]))
      BY MapEraseType DEF TInv, RowsTypeOK
    <3>2. -difference \in Int
      BY <2>1
    <3> HIDE DEF difference, start
    <3> QED
      BY <2>1, <3>1, <3>2, MapShiftType
  <2>3. /\ m_mapping' = mapping
        /\ m_rowCount' = m_rowCount - difference
        /\ m_removePair' = NoPair
        /\ m_insertPair' = m_insertPair
        /\ EndRemoveRows
    BY <1>3 DEF HandleRowsRemoved
  <2> HIDE DEF start, difference, shifted
  <2>4. IsMapping(mapping)
    <3>1. last \in Nodes \cup {Root}
      BY IndexType
    <3>2. newEndRow(shifted, p, start) \in Int
      BY <2>1, <2>2, NewEndRowType DEF TInv
    <3> HIDE DEF last, p
    <3>3. IsMapping(MapInsert(shifted, last, newEndRow(shifted, p, start)))
      BY <2>2, <3>1, <3>2, MapInsertType
    <3> QED
      BY <2>2, <3>3
  <2> HIDE DEF mapping
  <2>5. RowsTypeOK'
    BY <2>1, <2>3, <2>4 DEF TInv, RowsTypeOK, IsMapping
  <2>6. PairsTypeOK'
    BY <2>3 DEF TInv, PairsTypeOK, NoPair
  <2>7. ViewTypeOK'
    BY <2>3, EndRemoveRowsType DEF TInv
  <2> QED
    BY <1>1, <2>5, <2>6, <2>7, Untouched DEF TInv, HandleRowsRemoved
<1> QED
  BY <1>2, <1>3

----------------------------------------------------------------------------
(* Layout changes, moves and resets keep the types.                        *)

LEMMA SaveLayoutType ==
    ASSUME LayoutTypeOK, ViewTypeOK, SaveLayout, UNCHANGED m_relayouting
    PROVE  LayoutTypeOK'
<1>1. IsMapping([r \in 0 .. viewCount - 1 |-> mapToSource(m_mapping, r)])
  BY MapToSourceType DEF IsMapping
<1>2. IsMapping(m_layoutChangePersistentIndexes')
  BY <1>1 DEF SaveLayout, LayoutTypeOK
<1> QED
  BY <1>2 DEF LayoutTypeOK, IsMapping

LEMMA RefreshLayoutType ==
    ASSUME TInv, RefreshLayout, UNCHANGED m_layoutChangePersistentIndexes
    PROVE  RowsTypeOK' /\ QueueTypeOK' /\ LayoutTypeOK' /\ ControlTypeOK'
<1>1. CASE m_mapping = EmptyMapping
  BY <1>1, ControlSteps, Untouched DEF TInv, RefreshLayout, LayoutKept
<1>2. CASE m_mapping # EmptyMapping
  <2>1. StartRefresh /\ Refreshes("layoutRead")
    BY <1>2 DEF RefreshLayout
  <2>2. ControlTypeOK'
    BY <2>1, ControlSteps DEF TInv, Phases
  <2> QED
    BY <2>1, <2>2, StartRefreshType DEF TInv
<1> QED
  BY <1>1, <1>2

LEMMA AboutToRelayoutType ==
    ASSUME TInv, NEW p \in Nodes \cup {Root}, AboutToRelayout(p)
    PROVE  TInv'
<1>1. LayoutTypeOK'
  BY SaveLayoutType DEF TInv, AboutToRelayout
<1>2. ControlTypeOK'
  BY DEF TInv, ControlTypeOK, AboutToRelayout, NoOp, Phases
<1> QED
  BY <1>1, <1>2, Untouched DEF TInv, AboutToRelayout

LEMMA SourceRelayoutsType == TInv /\ SourceRelayouts => TInv'
<1> SUFFICES ASSUME TInv, SourceRelayouts PROVE TInv'
  OBVIOUS
<1>1. SourceTypeOK'
  BY ReorderType DEF TInv, SourceRelayouts
<1>2. ControlTypeOK'
  BY ControlSteps DEF SourceRelayouts, Phases, TInv
<1>3. UNCHANGED <<userVars, viewVars>> /\ RowsKept /\ PendingKept /\ PairsKept /\ LayoutKept
  BY DEF SourceRelayouts, proxyVars, userVars, RowsKept, PendingKept, PairsKept, LayoutKept
<1> QED
  BY <1>1, <1>2, <1>3, Untouched DEF TInv

LEMMA HandleLayoutChangedType == TInv /\ HandleLayoutChanged => TInv'
BY RefreshLayoutType, Untouched DEF TInv, HandleLayoutChanged

LEMMA FinishLayoutType == TInv /\ FinishLayout => TInv'
<1> SUFFICES ASSUME TInv, FinishLayout PROVE TInv'
  OBVIOUS
<1>1. ViewTypeOK'
  <2>1. \A r : At(view, r) \in Nodes \cup {Root}
    BY AtType DEF TInv, ViewTypeOK
  <2>2. \A n \in 0 .. viewCount - 1 : view'[n] \in Nodes \cup {Root}
    BY <2>1 DEF FinishLayout
  <2>3. view' = [n \in 0 .. viewCount - 1 |-> view'[n]]
    BY DEF FinishLayout
  <2>4. IsMapping(view')
    BY <2>2, <2>3 DEF IsMapping
  <2> QED
    BY <2>4 DEF TInv, ViewTypeOK, FinishLayout, IsMapping
<1>2. LayoutTypeOK'
  BY EmptyMappingType DEF TInv, LayoutTypeOK, FinishLayout, IsMapping
<1>3. ControlTypeOK'
  BY ControlSteps DEF FinishLayout, TInv
<1> QED
  BY <1>1, <1>2, <1>3, Untouched DEF TInv, FinishLayout

LEMMA AboutToMoveType ==
    ASSUME TInv, NEW p \in Nodes \cup {Root}, NEW last \in 0 .. rowCount(p) - 1,
           NEW first \in 0 .. last, NEW q \in Nodes \cup {Root},
           NEW dest \in 0 .. rowCount(q), AboutToMove(p, first, last, q, dest)
    PROVE  TInv'
<1>1. first \in Nat /\ last \in Nat /\ first <= last /\ dest \in Nat
  BY RowCountType
<1>2. ControlTypeOK'
  BY <1>1 DEF TInv, ControlTypeOK, AboutToMove, Phases
<1>3. announced' \in Seq(Announcements)
  <2> DEFINE found == mapFromSource(m_mapping, p)
             base == IF found = NoRow THEN 0 ELSE found
  <2>1. base \in Int
    BY MapFromSourceType DEF TInv, RowsTypeOK
  <2>2. \/ Begin("remove", base + first, base + last)
        \/ Begin("insert", base + dest, base + dest + (last - first))
        \/ UNCHANGED announced
    BY DEF AboutToMove
  <2> HIDE DEF base
  <2>3. /\ base + first \in Int /\ base + last \in Int
        /\ base + dest \in Int /\ base + dest + (last - first) \in Int
    BY <1>1, <2>1
  <2> QED
    BY <2>2, <2>3, BeginType DEF TInv, ViewTypeOK
<1>4. ViewTypeOK'
  BY <1>3 DEF TInv, ViewTypeOK, AboutToMove, IsMapping
<1>5. LayoutTypeOK'
  BY SaveLayoutType DEF TInv, AboutToMove
<1> QED
  BY <1>2, <1>4, <1>5, Untouched DEF TInv, AboutToMove

LEMMA SourceMovesType == TInv /\ SourceMoves => TInv'
<1> SUFFICES ASSUME TInv, SourceMoves PROVE TInv'
  OBVIOUS
<1>1. SourceTypeOK'
  BY MoveRowsType DEF TInv, ControlTypeOK, SourceMoves
<1>2. ControlTypeOK'
  BY ControlSteps DEF SourceMoves, Phases, TInv
<1>3. UNCHANGED <<userVars, viewVars>> /\ RowsKept /\ PendingKept /\ PairsKept /\ LayoutKept
  BY DEF SourceMoves, proxyVars, userVars, RowsKept, PendingKept, PairsKept, LayoutKept
<1> QED
  BY <1>1, <1>2, <1>3, Untouched DEF TInv

LEMMA HandleRowsMovedType == TInv /\ HandleRowsMoved => TInv'
<1> SUFFICES ASSUME TInv, HandleRowsMoved PROVE TInv'
  OBVIOUS
<1>1. ViewTypeOK'
  BY EndRemoveRowsType, EndInsertRowsType, Untouched DEF TInv, HandleRowsMoved
<1> QED
  BY <1>1, RefreshLayoutType, Untouched DEF TInv, HandleRowsMoved

LEMMA AboutToResetType == TInv /\ AboutToReset => TInv'
<1> SUFFICES ASSUME TInv, AboutToReset PROVE TInv'
  OBVIOUS
<1>1. ViewTypeOK'
  <2>1. Begin("reset", 0, 0) /\ UNCHANGED <<view, viewCount>>
    BY DEF AboutToReset
  <2> QED
    BY <2>1, BeginKeepsView DEF TInv
<1>2. LayoutTypeOK'
  BY DEF TInv, LayoutTypeOK, AboutToReset, IsMapping
<1>3. ControlTypeOK'
  BY ControlSteps DEF AboutToReset, Phases, TInv
<1> QED
  BY <1>1, <1>2, <1>3, Untouched DEF TInv, AboutToReset

LEMMA SourceResetsType ==
    ASSUME TInv, NEW f \in Forests, SourceResets(f)
    PROVE  TInv'
<1>1. SourceTypeOK'
  BY ReplaceAllType DEF SourceResets
<1>2. UserTypeOK'
  BY DEF TInv, UserTypeOK, SourceResets
<1>3. RowsTypeOK'
  BY InvalidatedType DEF TInv, RowsTypeOK, SourceResets, IsMapping
<1>4. ControlTypeOK'
  BY ControlSteps DEF SourceResets, Phases, TInv
<1> QED
  BY <1>1, <1>2, <1>3, <1>4, Untouched DEF TInv, SourceResets

LEMMA HandleModelResetType == TInv /\ HandleModelReset => TInv'
<1> SUFFICES ASSUME TInv, HandleModelReset PROVE TInv'
  OBVIOUS
<1>1. RowsTypeOK'
  BY EmptyMappingType DEF RowsTypeOK, HandleModelReset, IsMapping
<1>2. QueueTypeOK'
  BY DEF TInv, QueueTypeOK, HandleModelReset
<1>3. LayoutTypeOK'
  BY EmptyMappingType DEF TInv, LayoutTypeOK, HandleModelReset, IsMapping
<1>4. ControlTypeOK'
  BY ControlSteps DEF HandleModelReset, Phases, TInv
<1> QED
  BY <1>1, <1>2, <1>3, <1>4, Untouched DEF TInv, HandleModelReset

LEMMA SetSourceModelType ==
    ASSUME TInv, NEW f \in Forests, SetSourceModel(f)
    PROVE  TInv'
<1>1. SourceTypeOK'
  BY ReplaceAllType DEF SetSourceModel
<1>2. UserTypeOK'
  <2>1. DOMAIN f \subseteq Nodes
    BY DEF Forests
  <2> QED
    BY <2>1 DEF TInv, UserTypeOK, SetSourceModel, BroughtAlong
<1>3. RowsTypeOK' /\ QueueTypeOK' /\ LayoutTypeOK'
  <2>1. IsMapping(m_layoutChangePersistentIndexes')
    BY EmptyMappingType DEF SetSourceModel
  <2>2. CASE StartRefresh
    BY <2>1, <2>2, EmptyMappingType
       DEF StartRefresh, RowsTypeOK, QueueTypeOK, LayoutTypeOK, IsMapping
  <2>3. CASE /\ m_rowCount' = 0 /\ m_mapping' = EmptyMapping
             /\ PendingKept /\ UNCHANGED m_relayouting
    BY <2>1, <2>3, EmptyMappingType
       DEF TInv, RowsTypeOK, QueueTypeOK, LayoutTypeOK, IsMapping, PendingKept
  <2> QED
    BY <2>2, <2>3 DEF SetSourceModel
<1>4. ControlTypeOK'
  BY ControlSteps DEF SetSourceModel, Phases, TInv
<1>5. ViewTypeOK'
  <2>1. Begin("reset", 0, 0) /\ UNCHANGED <<view, viewCount>>
    BY DEF SetSourceModel
  <2> QED
    BY <2>1, BeginKeepsView DEF TInv
<1> QED
  BY <1>1, <1>2, <1>3, <1>4, <1>5, Untouched DEF TInv, SetSourceModel

LEMMA FinishResetType == TInv /\ FinishReset => TInv'
<1> SUFFICES ASSUME TInv, FinishReset PROVE TInv'
  OBVIOUS
<1>1. ViewTypeOK'
  BY EndResetModelType DEF TInv, RowsTypeOK, FinishReset
<1>2. ControlTypeOK'
  BY ControlSteps DEF FinishReset, TInv
<1>3. UNCHANGED userVars /\ RowsKept /\ PendingKept /\ PairsKept /\ LayoutKept
  BY DEF FinishReset, proxyVars, userVars, RowsKept, PendingKept, PairsKept, LayoutKept
<1> QED
  BY <1>1, <1>2, <1>3, Untouched DEF TInv, FinishReset

----------------------------------------------------------------------------
(* Expanding and collapsing keep the types.                                *)

LEMMA SetExpandsByDefaultType ==
    ASSUME TInv, NEW expand \in BOOLEAN, SetExpandsByDefault(expand)
    PROVE  TInv'
<1>1. UserTypeOK'
  BY DEF UserTypeOK, SetExpandsByDefault
<1>2. ViewTypeOK'
  BY MapToSourceType DEF TInv, RowsTypeOK, ViewTypeOK, SetExpandsByDefault, IsMapping
<1> QED
  BY <1>1, <1>2, Untouched DEF TInv, SetExpandsByDefault

LEMMA ExpandSourceIndexType ==
    ASSUME TInv, NEW i \in Nodes, ExpandSourceIndex(i)
    PROVE  TInv'
<1>1. UserTypeOK'
  BY DEF TInv, UserTypeOK, ExpandSourceIndex, SetExpanded
<1>2. QueueTypeOK'
  BY DEF TInv, QueueTypeOK, ExpandSourceIndex
<1>3. ControlTypeOK'
  BY ControlSteps DEF ExpandSourceIndex, Phases, TInv
<1> QED
  BY <1>1, <1>2, <1>3, Untouched DEF TInv, ExpandSourceIndex

LEMMA AboutToCollapseType ==
    ASSUME TInv, NEW i \in Nodes, AboutToCollapse(i)
    PROVE  TInv'
<1>1. ViewTypeOK'
  <2>1. ShownUnder(i) \in SUBSET Nodes
    BY DEF ShownUnder, Present
  <2>2. Cardinality(ShownUnder(i)) \in Nat
    BY <2>1, CountType
  <2>3. mapFromSource(m_mapping, i) \in Int
    BY MapFromSourceType DEF TInv, RowsTypeOK
  <2> DEFINE row == mapFromSource(m_mapping, i)
  <2>4. row + 1 \in Int /\ row + Cardinality(ShownUnder(i)) \in Int
    BY <2>2, <2>3
  <2>5. /\ Begin("remove", row + 1, row + Cardinality(ShownUnder(i)))
        /\ UNCHANGED <<view, viewCount>>
    BY DEF AboutToCollapse
  <2> HIDE DEF row
  <2> QED
    BY <2>4, <2>5, BeginKeepsView DEF TInv
<1>2. ControlTypeOK'
  BY DEF TInv, ControlTypeOK, AboutToCollapse, NoOp, Phases
<1>3. UNCHANGED userVars /\ RowsKept /\ PendingKept /\ PairsKept /\ LayoutKept
  BY DEF AboutToCollapse, proxyVars, userVars, RowsKept, PendingKept, PairsKept, LayoutKept
<1> QED
  BY <1>1, <1>2, <1>3, Untouched DEF TInv, AboutToCollapse

\* Between beginRemoveRows() and the rest of collapseSourceIndex, slots may have
\* the mapping built; that announces nothing, so that the removal stays the last
\* announcement.
CollapseInv ==
    /\ phase = "collapsing" \/ resume = "collapsing" =>
          op.parent \in Nodes /\ announced # <<>>
    /\ resume = "collapsing" => phase = "pending" /\ m_relayouting

LEMMA CollapseSourceIndexType == TInv /\ CollapseInv /\ CollapseSourceIndex => TInv'
<1> SUFFICES ASSUME TInv, CollapseInv, CollapseSourceIndex PROVE TInv'
  OBVIOUS
<1>1. op.parent \in Nodes /\ announced # <<>>
  BY DEF CollapseInv, CollapseSourceIndex
<1>2. UserTypeOK'
  BY <1>1 DEF TInv, UserTypeOK, CollapseSourceIndex, SetCollapsed
<1>3. PairsTypeOK'
  <2> DEFINE a == announced[Len(announced)]
  <2>1. Len(announced) \in 1 .. Len(announced)
    BY <1>1 DEF TInv, ViewTypeOK
  <2>2. a \in Announcements
    BY <2>1 DEF TInv, ViewTypeOK
  <2>3. m_removePair' = <<a.first, a.last>> /\ m_insertPair' = m_insertPair
    BY DEF CollapseSourceIndex
  <2> HIDE DEF a
  <2> QED
    BY <2>2, <2>3 DEF TInv, PairsTypeOK, Announcements
<1>4. RowsTypeOK' /\ QueueTypeOK' /\ LayoutTypeOK'
  BY StartRefreshType DEF TInv, CollapseSourceIndex
<1>5. ControlTypeOK'
  BY ControlSteps DEF CollapseSourceIndex, Phases, TInv
<1> QED
  BY <1>2, <1>3, <1>4, <1>5, Untouched DEF TInv, CollapseSourceIndex

LEMMA FinishCollapseType == TInv /\ FinishCollapse => TInv'
<1> SUFFICES ASSUME TInv, FinishCollapse PROVE TInv'
  OBVIOUS
<1>1. ViewTypeOK'
  BY EndRemoveRowsType DEF TInv, FinishCollapse
<1>2. ControlTypeOK'
  BY ControlSteps DEF FinishCollapse, TInv
<1>3. UNCHANGED userVars /\ RowsKept /\ PendingKept /\ PairsKept /\ LayoutKept
  BY DEF FinishCollapse, proxyVars, userVars, RowsKept, PendingKept, PairsKept, LayoutKept
<1> QED
  BY <1>1, <1>2, <1>3, Untouched DEF TInv, FinishCollapse

LEMMA TInvStep == TInv /\ CollapseInv /\ [Next]_vars => TInv'
<1> SUFFICES ASSUME TInv, CollapseInv, [Next]_vars PROVE TInv'
  OBVIOUS
<1>1. CASE Begins
  <2>1. ASSUME NEW p \in Nodes \cup {Root}, NEW first \in 0 .. rowCount(p),
               NEW last \in first .. first + MaxForest - 1, AboutToInsert(p, first, last)
        PROVE  TInv'
    BY <2>1, AboutToInsertType
  <2>2. ASSUME NEW p \in Nodes \cup {Root}, NEW last \in 0 .. rowCount(p) - 1,
               NEW first \in 0 .. last, AboutToRemove(p, first, last)
        PROVE  TInv'
    BY <2>2, AboutToRemoveType
  <2>3. ASSUME NEW p \in Nodes \cup {Root}, NEW last \in 0 .. rowCount(p) - 1,
               NEW first \in 0 .. last, NEW q \in Nodes \cup {Root},
               NEW dest \in 0 .. rowCount(q), AboutToMove(p, first, last, q, dest)
        PROVE  TInv'
    BY <2>3, AboutToMoveType
  <2>4. ASSUME NEW p \in Nodes \cup {Root}, AboutToRelayout(p)
        PROVE  TInv'
    BY <2>4, AboutToRelayoutType
  <2>5. ASSUME NEW f \in Forests, SetSourceModel(f)
        PROVE  TInv'
    BY <2>5, SetSourceModelType
  <2>6. ASSUME NEW expand \in BOOLEAN, SetExpandsByDefault(expand)
        PROVE  TInv'
    BY <2>6, SetExpandsByDefaultType
  <2>7. ASSUME NEW i \in Nodes, ExpandSourceIndex(i) \/ AboutToCollapse(i)
        PROVE  TInv'
    BY <2>7, ExpandSourceIndexType, AboutToCollapseType
  <2> QED
    BY <1>1, <2>1, <2>2, <2>3, <2>4, <2>5, <2>6, <2>7, AboutToResetType DEF Begins
<1>2. CASE Continues
  <2>1. ASSUME NEW f \in Forests, SourceInserts(f) \/ SourceResets(f)
        PROVE  TInv'
    BY <2>1, SourceInsertsType, SourceResetsType
  <2> QED
    BY <1>2, <2>1, SkipPendingType, AnnouncePendingType, AddPendingType, EndPendingType,
       HandleRowsInsertedType, SourceRemovesType, HandleRowsRemovedType,
       SourceRelayoutsType, HandleLayoutChangedType, FinishLayoutType, SourceMovesType,
       HandleRowsMovedType, HandleModelResetType, FinishResetType,
       CollapseSourceIndexType, FinishCollapseType
       DEF Continues
<1>3. CASE QueryRowCount
  BY <1>3, QueryRowCountType
<1>4. CASE UNCHANGED vars
  <2>1. /\ UNCHANGED <<srcVars, userVars, controlVars, viewVars>>
        /\ RowsKept /\ PendingKept /\ PairsKept /\ LayoutKept
    BY <1>4 DEF vars, proxyVars, userVars, RowsKept, PendingKept, PairsKept, LayoutKept
  <2> QED
    BY <2>1, Untouched DEF TInv
<1> QED
  BY <1>1, <1>2, <1>3, <1>4 DEF Next

\* Only collapseSourceIndex and a rowCount() in the middle of it concern CollapseInv.
LEMMA CollapseInvStep == TInv /\ CollapseInv /\ [Next]_vars => CollapseInv'
<1> SUFFICES ASSUME TInv, CollapseInv, [Next]_vars PROVE CollapseInv'
  OBVIOUS
<1>1. ASSUME NEW i \in Nodes, AboutToCollapse(i)
      PROVE  CollapseInv'
  <2>1. announced' # <<>>
    BY <1>1 DEF AboutToCollapse, Begin, TInv, ViewTypeOK
  <2>2. op'.parent = i
    BY <1>1 DEF AboutToCollapse, NoOp
  <2>3. resume' = resume /\ resume # "collapsing"
    BY <1>1 DEF AboutToCollapse, MayCollapse, Starts, CollapseInv
  <2> QED
    BY <2>1, <2>2, <2>3 DEF CollapseInv
<1>2. CASE QueryRowCount
  BY <1>2 DEF QueryRowCount, Refreshes, StartRefresh, viewVars, CollapseInv
<1>3. CASE SkipPending
  BY <1>3 DEF SkipPending, controlVars, viewVars, LayoutKept, CollapseInv
<1>4. CASE AnnouncePending
  BY <1>4 DEF AnnouncePending, Enters, CollapseInv
<1>5. CASE AddPending
  BY <1>5 DEF AddPending, Enters, LayoutKept, viewVars, CollapseInv
<1>6. CASE EndPending
  BY <1>6 DEF EndPending, viewVars, CollapseInv
<1>7. CASE UNCHANGED vars
  BY <1>7 DEF vars, proxyVars, controlVars, viewVars, CollapseInv
<1>8. ASSUME phase \notin {"pending", "pendingOpen"}, phase' # "collapsing",
             resume' \in {"idle", "layoutRead", "rebuilt", "collapsed"} \/ resume' = resume
      PROVE  CollapseInv'
  BY <1>8 DEF CollapseInv
<1>9. CASE \/ HandleRowsInserted \/ SourceRemoves \/ HandleRowsRemoved
           \/ SourceRelayouts \/ HandleLayoutChanged \/ FinishLayout
           \/ SourceMoves \/ HandleRowsMoved
           \/ HandleModelReset \/ FinishReset \/ CollapseSourceIndex \/ FinishCollapse
           \/ AboutToReset \/ \E f \in Forests : SourceInserts(f) \/ SourceResets(f)
  BY <1>8, <1>9 DEF HandleRowsInserted, SourceRemoves, HandleRowsRemoved,
     SourceRelayouts, HandleLayoutChanged, RefreshLayout, FinishLayout, SourceMoves,
     HandleRowsMoved, HandleModelReset, FinishReset, CollapseSourceIndex,
     FinishCollapse, AboutToReset, Starts, SourceInserts, SourceResets, Enters,
     Refreshes, Finishes
<1>10. ASSUME NEW f \in Forests, SetSourceModel(f)
       PROVE  CollapseInv'
  BY <1>8, <1>10 DEF SetSourceModel, Starts, Refreshes
<1>11. ASSUME NEW expand \in BOOLEAN, SetExpandsByDefault(expand)
       PROVE  CollapseInv'
  BY <1>8, <1>11 DEF SetExpandsByDefault, MaySetExpands, Starts, controlVars
<1>12. ASSUME NEW i \in Nodes, ExpandSourceIndex(i)
       PROVE  CollapseInv'
  BY <1>8, <1>12 DEF ExpandSourceIndex, Starts, Refreshes
<1>13. ASSUME NEW p, AboutToRelayout(p)
       PROVE  CollapseInv'
  BY <1>8, <1>13 DEF AboutToRelayout, Starts
<1>14. ASSUME NEW p, NEW first, NEW last,
              AboutToInsert(p, first, last) \/ AboutToRemove(p, first, last)
       PROVE  CollapseInv'
  BY <1>8, <1>14 DEF AboutToInsert, AboutToRemove, MayRemove, Starts
<1>15. ASSUME NEW p, NEW first, NEW last, NEW q, NEW dest,
              AboutToMove(p, first, last, q, dest)
       PROVE  CollapseInv'
  BY <1>8, <1>15 DEF AboutToMove, MayMove, Starts
<1> QED
  BY <1>1, <1>2, <1>3, <1>4, <1>5, <1>6, <1>7, <1>9, <1>10, <1>11, <1>12,
     <1>13, <1>14, <1>15 DEF Next, Begins, Continues

\* Every variable of the proxy and of its listener keeps its type, whatever the
\* source model, the user and the slots do: no row, queue entry or announcement is
\* ever something else than what the code's declarations say, and the rows of the
\* source stay natural numbers.
THEOREM TypeCorrect == Spec => []TypeOK
<1>1. Init => TInv /\ CollapseInv
  BY InitTInv DEF Init, CollapseInv
<1>2. TInv /\ CollapseInv /\ [Next]_vars => TInv' /\ CollapseInv'
  BY TInvStep, CollapseInvStep
<1>3. TInv => TypeOK
  BY TInvImpliesTypeOK
<1> QED
  BY <1>1, <1>2, <1>3, PTL DEF Spec

----------------------------------------------------------------------------
(* The begin... and end... calls pair up.  The handlers of an "about to be" signal and  *)
(* of its closing signal each decide on their own whether the rows are shown, the first *)
(* in the tree before the change and the second in the tree after it.  That both decide *)
(* alike is a fact about trees: the change leaves the ancestors of the parent alone,    *)
(* and whether each of these is expanded.                                               *)

\* An index of the model, or the invalid one.
Known == Present \cup {Root}

OpenIndexes == {p \in Known : Open(p)}

ExpandedIndexes == {i \in Nodes : isSourceIndexExpanded(i)}

RowCounts == [p \in Nodes \cup {Root} |-> rowCount(p)]

One(kind) == Len(announced) = 1 /\ announced[1].kind = kind

\* The phase of the running operation, also while it works off pending parents.
Where == IF phase = "pending" THEN resume ELSE phase

\* When parents can be pending, and for whom their rows go unannounced.
QueueInv ==
    /\ phase # "pending" => resume = "idle"
    /\ resume \in {"idle", "inserting", "removing", "collapsing", "pendingOpen",
                   "layoutRead", "rebuilt", "collapsed"}
    /\ m_relayouting => phase \in {"resetting", "reset", "pending"}
    /\ phase \in {"resetting", "reset"} => m_relayouting
    /\ phase = "pending" /\ ~m_relayouting /\ m_pendingParents # <<>> => resume = "idle"
    /\ phase \notin {"pending", "pendingOpen"} => m_pendingParents = <<>>

\* What is announced while an operation is under way.
QuietInv ==
    Where \in {"idle", "moving", "moved", "relayouting", "relayouted", "layoutRead"}
    => announced = <<>>

ResetInv == Where \in {"resetting", "reset", "rebuilt"} => One("reset")

CollapseAnnounced == Where \in {"collapsing", "collapsed"} => One("remove")

PendingInv == Where = "pendingOpen" => One("insert")

InsertInv ==
    /\ Where = "inserting" =>
          /\ op.parent \in Known
          /\ IF op.parent \in OpenIndexes /\ RowCounts[op.parent] # 0
             THEN One("insert") ELSE announced = <<>>
    /\ Where = "inserted" =>
          /\ op.parent \in Known
          /\ IF /\ op.parent \in OpenIndexes
                /\ RowCounts[op.parent] # op.last - op.first + 1
             THEN One("insert") ELSE announced = <<>>

RemoveInv ==
    Where \in {"removing", "removed"} =>
        /\ op.parent \in Known
        /\ IF op.parent \in OpenIndexes THEN One("remove") ELSE announced = <<>>

MoveAllowed == CanMove(op.parent, op.first, op.last, op.target, op.dest)

MoveInv ==
    /\ Where \in {"moving", "moved"} => {op.parent, op.target} \subseteq OpenIndexes
    /\ Where = "moving" => MoveAllowed

WhereInv ==
    /\ QuietInv /\ ResetInv /\ CollapseAnnounced /\ PendingInv
    /\ InsertInv /\ RemoveInv /\ MoveInv

BalanceInv == IsTree(srcParent) /\ QueueInv /\ WhereInv

----------------------------------------------------------------------------
(* What is open.                                                           *)

LEMMA OpenByAncestors ==
    ASSUME IsTree(srcParent)
    PROVE  OpenIndexes = {p \in Known : Ancestors(srcParent)[p] \subseteq ExpandedIndexes}
<1>1. /\ Root \notin Nodes /\ Present = In(srcParent) /\ Present \subseteq Nodes
      /\ SelfAndAbove = Ancestors(srcParent)
  BY NodesAssumption, SelfAndAboveIsAncestors DEF Present, In
<1>2. SelfAndAbove[Root] = {}
  BY <1>1, AncestorsOfOne
<1>3. \A p \in Present : SelfAndAbove[p] = {p} \cup Above(p) /\ Above(p) \subseteq Nodes
  <2> SUFFICES ASSUME NEW p \in Present
               PROVE  SelfAndAbove[p] = {p} \cup Above(p) /\ Above(p) \subseteq Nodes
    OBVIOUS
  <2>1. Above(p) = SelfAndAbove[srcParent[p]]
    BY <1>1 DEF Above, parent
  <2>2. SelfAndAbove[p] = {p} \cup SelfAndAbove[srcParent[p]]
    BY <1>1, AncestorsOfOne
  <2>3. \A a \in SelfAndAbove[p] : a \in Nodes
    BY <1>1, AncestorsClosed
  <2> QED
    BY <2>1, <2>2, <2>3
<1>4. Above(Root) = {} /\ isSourceIndexExpanded(Root)
  BY <1>1, <1>2 DEF Above, parent, isSourceIndexExpanded
<1>5. Open(Root) /\ Ancestors(srcParent)[Root] \subseteq ExpandedIndexes
  BY <1>1, <1>2, <1>4 DEF Open, isSourceIndexVisible
<1>6. \A p \in Present : Open(p) <=> Ancestors(srcParent)[p] \subseteq ExpandedIndexes
  BY <1>1, <1>3 DEF Open, isSourceIndexVisible, ExpandedIndexes
<1> QED
  BY <1>5, <1>6 DEF OpenIndexes, Known

\* The same in the tree after a step.
LEMMA OpenByAncestorsAfter ==
    ASSUME IsTree(srcParent')
    PROVE  /\ OpenIndexes' = {p \in Known' : Ancestors(srcParent')[p] \subseteq ExpandedIndexes'}
           /\ Known' = In(srcParent') \cup {Root}
<1>1. /\ Root \notin Nodes /\ Present' = In(srcParent') /\ Present' \subseteq Nodes
      /\ SelfAndAbove' = Ancestors(srcParent')
  BY NodesAssumption DEF Present, In, SelfAndAbove, Ancestors, Climb, Indexes
<1>2. SelfAndAbove'[Root] = {}
  BY <1>1, AncestorsOfOne
<1>3. \A p \in Present' : SelfAndAbove'[p] = {p} \cup Above(p)' /\ Above(p)' \subseteq Nodes
  <2> SUFFICES ASSUME NEW p \in Present'
               PROVE  SelfAndAbove'[p] = {p} \cup Above(p)' /\ Above(p)' \subseteq Nodes
    OBVIOUS
  <2>1. Above(p)' = SelfAndAbove'[srcParent'[p]]
    BY <1>1 DEF Above, parent
  <2>2. SelfAndAbove'[p] = {p} \cup SelfAndAbove'[srcParent'[p]]
    BY <1>1, AncestorsOfOne
  <2>3. \A a \in SelfAndAbove'[p] : a \in Nodes
    BY <1>1, AncestorsClosed
  <2> QED
    BY <2>1, <2>2, <2>3
<1>4. Above(Root)' = {} /\ isSourceIndexExpanded(Root)'
  BY <1>1, <1>2 DEF Above, parent, isSourceIndexExpanded
<1>5. Open(Root)' /\ Ancestors(srcParent')[Root] \subseteq ExpandedIndexes'
  BY <1>1, <1>2, <1>4 DEF Open, isSourceIndexVisible
<1>6. \A p \in Present' : Open(p)' <=> Ancestors(srcParent')[p] \subseteq ExpandedIndexes'
  BY <1>1, <1>3 DEF Open, isSourceIndexVisible, ExpandedIndexes
<1>7. Known' = Present' \cup {Root}
  BY DEF Known
<1> QED
  BY <1>1, <1>5, <1>6, <1>7 DEF OpenIndexes

\* Nothing opens or closes while the tree and the user's choices stay.
LEMMA OpenKept ==
    ASSUME IsTree(srcParent), UNCHANGED <<srcParent, userVars>>
    PROVE  /\ IsTree(srcParent')
           /\ Known' = Known /\ OpenIndexes' = OpenIndexes /\ RowCounts' = RowCounts
<1>1. srcParent' = srcParent /\ IsTree(srcParent')
  BY DEF IsTree
<1>2. Known' = Known /\ RowCounts' = RowCounts
  BY <1>1 DEF Known, Present, RowCounts, rowCount, Children
<1>3. ExpandedIndexes' = ExpandedIndexes
  BY DEF ExpandedIndexes, isSourceIndexExpanded, userVars
<1> QED
  BY <1>1, <1>2, <1>3, OpenByAncestors, OpenByAncestorsAfter

----------------------------------------------------------------------------
(* Announcing and closing.                                                 *)

LEMMA BeginOpensOne ==
    ASSUME announced = <<>>, NEW kind, NEW first, NEW last, Begin(kind, first, last)
    PROVE  Len(announced') = 1 /\ announced'[1].kind = kind
BY DEF Begin

LEMMA EndClosesOne ==
    ASSUME announced \in Seq(Announcements), NEW kind, One(kind), End(kind)
    PROVE  announced' = <<>>
<1>1. announced # <<>> /\ announced[Len(announced)].kind = kind
  BY DEF One
<1>2. announced' = SubSeq(announced, 1, 0)
  BY <1>1 DEF End, Closes, One
<1> QED
  BY <1>2

\* A step that leaves tree, choices, arguments and announcements as they are, and
\* goes on in the same phase.
LEMMA WhereKept ==
    ASSUME IsTree(srcParent), WhereInv, UNCHANGED <<srcVars, userVars, announced>>,
           Where' = Where, Where # "idle" => op' = op
    PROVE  IsTree(srcParent') /\ WhereInv'
<1>1. /\ IsTree(srcParent')
      /\ Known' = Known /\ OpenIndexes' = OpenIndexes /\ RowCounts' = RowCounts
  BY OpenKept DEF srcVars
<1>2. Where = "moving" => MoveAllowed' = MoveAllowed
  BY DEF MoveAllowed, CanMove, InRows, Present, SelfAndAbove, srcVars
<1>3. QuietInv' /\ ResetInv' /\ CollapseAnnounced' /\ PendingInv'
  BY DEF WhereInv, QuietInv, ResetInv, CollapseAnnounced, PendingInv, One
<1>4. InsertInv' /\ RemoveInv' /\ MoveInv'
  BY <1>1, <1>2 DEF WhereInv, InsertInv, RemoveInv, MoveInv, One
<1> QED
  BY <1>1, <1>3, <1>4 DEF WhereInv

\* Where nothing depends on what is open.
WhereParts == QuietInv /\ ResetInv /\ CollapseAnnounced /\ PendingInv

LEMMA Elsewhere ==
    ASSUME WhereParts',
           Where' \notin {"inserting", "inserted", "removing", "removed", "moving", "moved"}
    PROVE  WhereInv'
BY DEF WhereParts, WhereInv, InsertInv, RemoveInv, MoveInv

----------------------------------------------------------------------------
(* Pending parents and rowCount().                                         *)

LEMMA SkipPendingBalances == BalanceInv /\ SkipPending => BalanceInv'
<1> SUFFICES ASSUME BalanceInv, SkipPending PROVE BalanceInv'
  OBVIOUS
<1>1. Where' = Where /\ op' = op /\ UNCHANGED <<srcVars, userVars, announced>>
  BY DEF SkipPending, controlVars, viewVars, Where
<1>2. QueueInv'
  BY DEF BalanceInv, QueueInv, SkipPending, controlVars, LayoutKept
<1> QED
  BY <1>1, <1>2, WhereKept DEF BalanceInv

LEMMA AnnouncePendingBalances == BalanceInv /\ AnnouncePending => BalanceInv'
<1> SUFFICES ASSUME BalanceInv, AnnouncePending PROVE BalanceInv'
  OBVIOUS
<1>1. /\ phase = "pending" /\ resume = "idle" /\ phase' = "pendingOpen" /\ resume' = "idle"
      /\ m_relayouting' = m_relayouting /\ ~m_relayouting
      /\ UNCHANGED <<srcParent, userVars>>
  BY DEF BalanceInv, QueueInv, AnnouncePending, Enters, LayoutKept, srcVars
<1>2. announced = <<>>
  BY <1>1 DEF BalanceInv, WhereInv, QuietInv, Where
<1>3. One("insert")'
  BY <1>2, BeginOpensOne DEF AnnouncePending, One
<1>4. WhereParts' /\ Where' = "pendingOpen"
  BY <1>1, <1>3 DEF WhereParts, QuietInv, ResetInv, CollapseAnnounced, PendingInv, Where
<1>5. QueueInv'
  BY <1>1 DEF QueueInv
<1> QED
  BY <1>1, <1>4, <1>5, Elsewhere, OpenKept DEF BalanceInv

LEMMA AddPendingBalances == TInv /\ BalanceInv /\ AddPending => BalanceInv'
<1> SUFFICES ASSUME TInv, BalanceInv, AddPending PROVE BalanceInv'
  OBVIOUS
<1>1. /\ phase' = "pending" /\ UNCHANGED <<resume, op, srcVars, userVars, m_relayouting>>
      /\ m_relayouting \in BOOLEAN
  BY DEF AddPending, Enters, LayoutKept, TInv, LayoutTypeOK
<1>2. QueueInv'
  BY <1>1 DEF BalanceInv, QueueInv, AddPending
<1>3. CASE m_relayouting
  <2>1. Where' = Where /\ UNCHANGED announced
    BY <1>1, <1>3 DEF AddPending, BalanceInv, QueueInv, Where, viewVars
  <2> QED
    BY <1>1, <1>2, <2>1, WhereKept DEF BalanceInv
<1>4. CASE ~m_relayouting
  <2>1. phase = "pendingOpen" /\ resume = "idle"
    BY <1>4 DEF AddPending, BalanceInv, QueueInv
  <2>2. One("insert")
    BY <2>1 DEF BalanceInv, WhereInv, PendingInv, Where
  <2>3. End("insert")
    BY <1>4 DEF AddPending, EndInsertRows
  <2>4. announced' = <<>>
    BY <2>2, <2>3, EndClosesOne DEF TInv, ViewTypeOK
  <2>5. WhereParts' /\ Where' = "idle"
    BY <1>1, <2>1, <2>4
       DEF WhereParts, QuietInv, ResetInv, CollapseAnnounced, PendingInv, Where
  <2> QED
    BY <1>1, <1>2, <2>5, Elsewhere, OpenKept DEF BalanceInv, srcVars
<1> QED
  BY <1>3, <1>4

LEMMA EndPendingBalances == BalanceInv /\ EndPending => BalanceInv'
<1> SUFFICES ASSUME BalanceInv, EndPending PROVE BalanceInv'
  OBVIOUS
<1>1. /\ phase = "pending" /\ phase' = resume /\ resume' = "idle"
      /\ resume # "pending" /\ resume \notin {"resetting", "reset"}
      /\ m_relayouting' = FALSE /\ m_pendingParents' = <<>>
      /\ UNCHANGED <<srcVars, userVars, announced>>
      /\ resume # "idle" => op' = op
  BY DEF BalanceInv, QueueInv, EndPending, PendingKept, viewVars
<1>2. QueueInv'
  BY <1>1 DEF QueueInv
<1>3. Where' = Where /\ Where = resume
  BY <1>1 DEF Where
<1> QED
  BY <1>1, <1>2, <1>3, WhereKept DEF BalanceInv

LEMMA QueryRowCountBalances ==
    ~EagerListeners /\ BalanceInv /\ QueryRowCount => BalanceInv'
<1> SUFFICES ASSUME ~EagerListeners, BalanceInv, QueryRowCount PROVE BalanceInv'
  OBVIOUS
<1>1. /\ phase \in {"idle", "inserting", "removing", "collapsing", "pendingOpen"}
      /\ phase' = "pending" /\ resume' = phase /\ op' = op /\ m_relayouting' = TRUE
      /\ UNCHANGED <<srcVars, userVars, announced>>
  BY DEF QueryRowCount, Listening, StartRefresh, Refreshes, viewVars
<1>2. QueueInv'
  BY <1>1 DEF QueueInv
<1>3. Where' = Where
  BY <1>1 DEF Where
<1> QED
  BY <1>1, <1>2, <1>3, WhereKept DEF BalanceInv

----------------------------------------------------------------------------
(* Insertions.                                                             *)

LEMMA RowCountsOf ==
    /\ \A p \in Known : p \in Nodes \cup {Root} /\ RowCounts[p] = rowCount(p)
    /\ \A p \in Known : p \in OpenIndexes <=> Open(p)
    /\ \A p \in Known : hasChildren(p) <=> RowCounts[p] # 0
BY RowCountType DEF Known, Present, RowCounts, OpenIndexes, hasChildren

LEMMA AboutToInsertBalances ==
    ASSUME BalanceInv, NEW p, NEW first, NEW last, AboutToInsert(p, first, last)
    PROVE  BalanceInv'
<1>1. /\ phase = "idle" /\ resume = "idle" /\ m_pendingParents = <<>>
      /\ announced = <<>> /\ ~m_relayouting
  BY DEF BalanceInv, QueueInv, WhereInv, QuietInv, Where, AboutToInsert, Starts
<1>2. /\ phase' = "inserting" /\ resume' = "idle" /\ op'.parent = p
      /\ UNCHANGED <<srcParent, userVars, m_pendingParents, m_relayouting>>
  BY <1>1 DEF AboutToInsert, NoOp, PendingKept, LayoutKept, srcVars
<1>3. QueueInv'
  BY <1>1, <1>2 DEF QueueInv
<1>4. IsTree(srcParent') /\ Known' = Known /\ OpenIndexes' = OpenIndexes /\ RowCounts' = RowCounts
  BY <1>2, OpenKept DEF BalanceInv
<1>5. p \in Known
  BY DEF AboutToInsert, Known
<1>6. AnnouncesInsert(p) <=> p \in OpenIndexes /\ RowCounts[p] # 0
  BY <1>5, RowCountsOf DEF AnnouncesInsert
<1>7. IF p \in OpenIndexes /\ RowCounts[p] # 0 THEN One("insert")' ELSE announced' = <<>>
  <2>1. CASE AnnouncesInsert(p)
    BY <1>1, <1>6, <2>1, BeginOpensOne DEF AboutToInsert, One
  <2>2. CASE ~AnnouncesInsert(p)
    BY <1>1, <1>6, <2>2 DEF AboutToInsert
  <2> QED
    BY <2>1, <2>2
<1>8. Where' = "inserting"
  BY <1>2 DEF Where
<1>9. WhereInv'
  BY <1>2, <1>4, <1>5, <1>7, <1>8
     DEF WhereInv, QuietInv, ResetInv, CollapseAnnounced, PendingInv, InsertInv,
         RemoveInv, MoveInv
<1> QED
  BY <1>3, <1>4, <1>9 DEF BalanceInv

LEMMA SourceInsertsBalances ==
    ASSUME TInv, BalanceInv, NEW f \in Forests, SourceInserts(f)
    PROVE  BalanceInv'
<1>0. PICK p : p = op.parent
  OBVIOUS
<1>1. /\ phase = "inserting" /\ resume = "idle" /\ m_pendingParents = <<>>
      /\ ~m_relayouting
      /\ p \in Known
      /\ IF p \in OpenIndexes /\ RowCounts[p] # 0 THEN One("insert") ELSE announced = <<>>
  BY <1>0 DEF BalanceInv, QueueInv, WhereInv, InsertInv, Where, SourceInserts
<1>2. /\ phase' = "inserted" /\ resume' = "idle" /\ op' = op
      /\ UNCHANGED <<userVars, m_pendingParents, m_relayouting, announced>>
  BY <1>1 DEF SourceInserts, Enters, proxyVars, userVars, viewVars
<1>3. QueueInv'
  BY <1>1, <1>2 DEF QueueInv
<1>4. /\ IsTree(srcParent) /\ p \in Present \cup {Root}
      /\ DOMAIN f \subseteq Nodes \ Present /\ InsertRows(f, p, op.first)
      /\ Cardinality(Tops(f)) = op.last - op.first + 1
  BY <1>0, <1>1 DEF BalanceInv, SourceInserts, Known, Fresh
<1>5. /\ IsTree(srcParent') /\ Present \subseteq In(srcParent')
      /\ Ancestors(srcParent')[p] = Ancestors(srcParent)[p]
  BY <1>4, InsertRowsKeepsTree
<1>6. p \in OpenIndexes' <=> p \in OpenIndexes
  <2>1. ExpandedIndexes' = ExpandedIndexes
    BY <1>2 DEF ExpandedIndexes, isSourceIndexExpanded, userVars
  <2>2. p \in Known'
    BY <1>4, <1>5, OpenByAncestorsAfter
  <2> QED
    BY <1>1, <1>4, <1>5, <2>1, <2>2, OpenByAncestors, OpenByAncestorsAfter
<1>7. RowCounts'[p] = RowCounts[p] + (op.last - op.first + 1) /\ RowCounts[p] \in Nat
  <2>1. rowCount(p)' = rowCount(p) + Cardinality(Tops(f))
    BY <1>4, InsertRowsCounts
  <2>2. p \in Nodes \cup {Root} /\ RowCounts[p] = rowCount(p)
    BY <1>1, RowCountsOf
  <2>3. RowCounts'[p] = rowCount(p)'
    BY <1>2, <2>2 DEF RowCounts
  <2> QED
    BY <1>4, <2>1, <2>2, <2>3, RowCountType
<1>8. RowCounts'[p] # op.last - op.first + 1 <=> RowCounts[p] # 0
  BY <1>7 DEF TInv, ControlTypeOK
<1>9. Where' = "inserted" /\ op'.parent = p
  BY <1>0, <1>2 DEF Where
<1>10. IF p \in OpenIndexes' /\ RowCounts'[p] # op.last - op.first + 1
       THEN One("insert")' ELSE announced' = <<>>
  BY <1>1, <1>2, <1>6, <1>8 DEF One
<1>11. p \in Known'
  BY <1>4, <1>5, OpenByAncestorsAfter
<1>12. WhereInv'
  BY <1>2, <1>9, <1>10, <1>11
     DEF WhereInv, QuietInv, ResetInv, CollapseAnnounced, PendingInv, InsertInv,
         RemoveInv, MoveInv
<1> QED
  BY <1>3, <1>5, <1>12 DEF BalanceInv

LEMMA HandleRowsInsertedBalances == TInv /\ BalanceInv /\ HandleRowsInserted => BalanceInv'
<1> SUFFICES ASSUME TInv, BalanceInv, HandleRowsInserted PROVE BalanceInv'
  OBVIOUS
<1> DEFINE p == op.parent
           count == op.last - op.first + 1
<1>1. /\ phase = "inserted" /\ resume = "idle" /\ m_pendingParents = <<>> /\ ~m_relayouting
      /\ p \in Known
      /\ IF p \in OpenIndexes /\ RowCounts[p] # count THEN One("insert") ELSE announced = <<>>
  BY DEF BalanceInv, QueueInv, WhereInv, InsertInv, Where, HandleRowsInserted
<1>2. UNCHANGED <<srcParent, userVars, m_relayouting>>
  BY DEF HandleRowsInserted, LayoutKept, srcVars
<1>3. IsTree(srcParent')
  BY <1>2, OpenKept DEF BalanceInv
<1>4. (p \in OpenIndexes <=> Open(p)) /\ RowCounts[p] = rowCount(p)
  BY <1>1, RowCountsOf
<1>5. ASSUME \/ phase' = "idle" /\ resume' = "idle" /\ m_pendingParents' = m_pendingParents
             \/ phase' = "pending" /\ resume' = "idle",
             announced' = <<>>
      PROVE  BalanceInv'
  <2>1. QueueInv'
    BY <1>1, <1>2, <1>5 DEF QueueInv
  <2>2. WhereParts' /\ Where' = "idle"
    BY <1>5 DEF WhereParts, QuietInv, ResetInv, CollapseAnnounced, PendingInv, Where
  <2> QED
    BY <1>3, <2>1, <2>2, Elsewhere DEF BalanceInv
<1>6. CASE ~Open(p) /\ Finishes /\ UNCHANGED viewVars /\ PendingKept
  BY <1>1, <1>4, <1>5, <1>6 DEF Finishes, viewVars, PendingKept
<1>7. CASE Open(p) /\ rowCount(p) = count /\ Refreshes("idle") /\ UNCHANGED viewVars
  BY <1>1, <1>4, <1>5, <1>7 DEF Refreshes, viewVars
<1>8. CASE Open(p) /\ rowCount(p) # count /\ EndInsertRows(m_mapping') /\ Refreshes("idle")
  <2>1. One("insert") /\ End("insert")
    BY <1>1, <1>4, <1>8 DEF EndInsertRows
  <2>2. announced' = <<>>
    BY <2>1, EndClosesOne DEF TInv, ViewTypeOK
  <2> QED
    BY <1>5, <1>8, <2>2 DEF Refreshes
<1> QED
  BY <1>6, <1>7, <1>8 DEF HandleRowsInserted

----------------------------------------------------------------------------
(* Removals.                                                               *)

\* Forgetting that the removed rows are expanded closes nothing above them.
LEMMA AboutToRemoveKeepsOpen ==
    ASSUME BalanceInv, NEW p \in Known, NEW first, NEW last, AboutToRemove(p, first, last)
    PROVE  /\ IsTree(srcParent') /\ Known' = Known
           /\ p \in OpenIndexes' <=> p \in OpenIndexes
<1>1. IsTree(srcParent) /\ srcParent' = srcParent
  BY DEF BalanceInv, AboutToRemove, srcVars
<1>2. IsTree(srcParent') /\ Known' = Known
  BY <1>1 DEF Known, Present, IsTree
<1>3. UNCHANGED <<m_expandsByDefault, m_collapsedSourceIndexes>>
  BY DEF AboutToRemove
<1>4. CASE ~Open(p)
  <2>1. ExpandedIndexes' = ExpandedIndexes
    BY <1>3, <1>4 DEF AboutToRemove, ExpandedIndexes, isSourceIndexExpanded
  <2> QED
    BY <1>1, <1>2, <2>1, OpenByAncestors, OpenByAncestorsAfter
<1>5. CASE Open(p)
  <2>1. Present = In(srcParent) /\ Root \notin Nodes /\ Absent \notin Nodes
    BY NodesAssumption DEF Present, In
  <2>2. \A r : index(r, p) \notin Ancestors(srcParent)[p]
    <3> SUFFICES ASSUME NEW r, index(r, p) \in Ancestors(srcParent)[p] PROVE FALSE
      OBVIOUS
    <3>1. index(r, p) \in In(srcParent)
      BY <1>1, <2>1, AncestorsClosed DEF Known
    <3>2. srcParent[index(r, p)] = p
      BY <2>1, <3>1 DEF index, Children, In
    <3> QED
      BY <1>1, <3>1, <3>2, NoCycle
  <2>3. m_expandedSourceIndexes' =
           m_expandedSourceIndexes \ {index(r, p) : r \in first .. last}
    BY <1>5 DEF AboutToRemove
  <2>4. \A a \in Ancestors(srcParent)[p] :
           a \in ExpandedIndexes' <=> a \in ExpandedIndexes
    BY <1>3, <2>2, <2>3 DEF ExpandedIndexes, isSourceIndexExpanded
  <2> QED
    BY <1>1, <1>2, <2>4, OpenByAncestors, OpenByAncestorsAfter
<1> QED
  BY <1>4, <1>5

LEMMA AboutToRemoveBalances ==
    ASSUME BalanceInv, NEW p, NEW first, NEW last, AboutToRemove(p, first, last)
    PROVE  BalanceInv'
<1>1. /\ phase = "idle" /\ resume = "idle" /\ m_pendingParents = <<>>
      /\ announced = <<>> /\ ~m_relayouting
  BY DEF BalanceInv, QueueInv, WhereInv, QuietInv, Where, AboutToRemove, MayRemove, Starts
<1>2. /\ phase' = "removing" /\ resume' = "idle" /\ op'.parent = p
      /\ UNCHANGED <<m_pendingParents, m_relayouting>>
  BY <1>1 DEF AboutToRemove, NoOp, PendingKept, LayoutKept
<1>3. QueueInv'
  BY <1>1, <1>2 DEF QueueInv
<1>4. p \in Known
  BY DEF AboutToRemove, Known
<1>5. /\ IsTree(srcParent') /\ p \in Known'
      /\ p \in OpenIndexes' <=> Open(p)
  BY <1>4, AboutToRemoveKeepsOpen, RowCountsOf
<1>6. IF Open(p) THEN One("remove")' ELSE announced' = <<>>
  <2>1. CASE Open(p)
    BY <1>1, <2>1, BeginOpensOne DEF AboutToRemove, One
  <2>2. CASE ~Open(p)
    BY <1>1, <2>2 DEF AboutToRemove
  <2> QED
    BY <2>1, <2>2
<1>7. Where' = "removing"
  BY <1>2 DEF Where
<1>8. WhereInv'
  BY <1>2, <1>5, <1>6, <1>7
     DEF WhereInv, QuietInv, ResetInv, CollapseAnnounced, PendingInv, InsertInv,
         RemoveInv, MoveInv
<1> QED
  BY <1>3, <1>5, <1>8 DEF BalanceInv

LEMMA SourceRemovesBalances == BalanceInv /\ SourceRemoves => BalanceInv'
<1> SUFFICES ASSUME BalanceInv, SourceRemoves PROVE BalanceInv'
  OBVIOUS
<1>0. PICK p, first, last : p = op.parent /\ first = op.first /\ last = op.last
  OBVIOUS
<1>1. /\ phase = "removing" /\ resume = "idle" /\ m_pendingParents = <<>> /\ ~m_relayouting
      /\ p \in Known
      /\ IF p \in OpenIndexes THEN One("remove") ELSE announced = <<>>
  BY <1>0 DEF BalanceInv, QueueInv, WhereInv, RemoveInv, Where, SourceRemoves
<1>2. /\ phase' = "removed" /\ resume' = "idle" /\ op' = op
      /\ UNCHANGED <<m_expandsByDefault, m_pendingParents, m_relayouting, announced>>
  BY <1>1 DEF SourceRemoves, Enters, PendingKept, LayoutKept, viewVars
<1>3. QueueInv'
  BY <1>1, <1>2 DEF QueueInv
<1> DEFINE gone == InRows(p, first, last)
           rest == Present \ gone
<1>4. IsTree(srcParent) /\ RemoveRows(p, first, last) /\ p \in Present \cup {Root}
  BY <1>0, <1>1 DEF BalanceInv, SourceRemoves, Known
<1>5. /\ p \in rest \cup {Root}
      /\ \A n \in rest \cup {Root} : Ancestors(srcParent)[n] \subseteq rest
  BY <1>4, RestOfTree
<1>6. /\ IsTree(srcParent') /\ In(srcParent') = rest
      /\ \A n \in rest \cup {Root} : Ancestors(srcParent')[n] = Ancestors(srcParent)[n]
  BY <1>4, RemoveRowsKeepsTree
<1>7. \A a \in rest : a \in ExpandedIndexes' <=> a \in ExpandedIndexes
  BY <1>0, <1>2 DEF SourceRemoves, ExpandedIndexes, isSourceIndexExpanded
<1> HIDE DEF rest, gone
<1>8. p \in Known' /\ (p \in OpenIndexes' <=> p \in OpenIndexes)
  <2>1. Ancestors(srcParent')[p] = Ancestors(srcParent)[p] /\ Ancestors(srcParent)[p] \subseteq rest
    BY <1>5, <1>6
  <2>2. Ancestors(srcParent')[p] \subseteq ExpandedIndexes'
           <=> Ancestors(srcParent)[p] \subseteq ExpandedIndexes
    BY <1>7, <2>1
  <2>3. p \in Known'
    BY <1>5, <1>6, OpenByAncestorsAfter
  <2> QED
    BY <1>1, <1>4, <1>6, <2>2, <2>3, OpenByAncestors, OpenByAncestorsAfter
<1>9. Where' = "removed" /\ op'.parent = p
  BY <1>0, <1>2 DEF Where
<1>10. IF p \in OpenIndexes' THEN One("remove")' ELSE announced' = <<>>
  BY <1>1, <1>2, <1>8 DEF One
<1>11. WhereInv'
  BY <1>8, <1>9, <1>10
     DEF WhereInv, QuietInv, ResetInv, CollapseAnnounced, PendingInv, InsertInv,
         RemoveInv, MoveInv
<1> QED
  BY <1>3, <1>6, <1>11 DEF BalanceInv

\* A call that is over, with nothing announced and no parent pending.
LEMMA EndsQuietly ==
    ASSUME IsTree(srcParent'), phase' = "idle", resume' = "idle", announced' = <<>>,
           m_pendingParents' = <<>>, ~m_relayouting'
    PROVE  BalanceInv'
<1>1. WhereParts' /\ Where' = "idle"
  BY DEF WhereParts, QuietInv, ResetInv, CollapseAnnounced, PendingInv, Where
<1>2. QueueInv'
  BY DEF QueueInv
<1> QED
  BY <1>1, <1>2, Elsewhere DEF BalanceInv

LEMMA HandleRowsRemovedBalances == TInv /\ BalanceInv /\ HandleRowsRemoved => BalanceInv'
<1> SUFFICES ASSUME TInv, BalanceInv, HandleRowsRemoved PROVE BalanceInv'
  OBVIOUS
<1>1. /\ phase = "removed" /\ m_pendingParents = <<>> /\ ~m_relayouting
      /\ op.parent \in Known
      /\ IF op.parent \in OpenIndexes THEN One("remove") ELSE announced = <<>>
  BY DEF BalanceInv, QueueInv, WhereInv, RemoveInv, Where, HandleRowsRemoved
<1>2. op.parent \in OpenIndexes <=> Open(op.parent)
  BY <1>1, RowCountsOf
<1>3. announced' = <<>>
  <2>1. CASE ~Open(op.parent)
    BY <1>1, <1>2, <2>1 DEF HandleRowsRemoved, viewVars
  <2>2. CASE Open(op.parent)
    <3>1. One("remove") /\ End("remove")
      BY <1>1, <1>2, <2>2 DEF HandleRowsRemoved, EndRemoveRows
    <3> QED
      BY <3>1, EndClosesOne DEF TInv, ViewTypeOK
  <2> QED
    BY <2>1, <2>2
<1>4. IsTree(srcParent')
  BY OpenKept DEF BalanceInv, HandleRowsRemoved, srcVars
<1> QED
  BY <1>1, <1>3, <1>4, EndsQuietly
     DEF HandleRowsRemoved, Finishes, PendingKept, LayoutKept

----------------------------------------------------------------------------
(* Layout changes and moves.                                               *)

LEMMA AtIdle ==
    ASSUME BalanceInv, phase = "idle"
    PROVE  /\ resume = "idle" /\ m_pendingParents = <<>> /\ ~m_relayouting
           /\ announced = <<>>
BY DEF BalanceInv, QueueInv, WhereInv, QuietInv, Where

LEMMA AboutToRelayoutBalances ==
    ASSUME BalanceInv, NEW p, AboutToRelayout(p)
    PROVE  BalanceInv'
<1>1. /\ resume = "idle" /\ m_pendingParents = <<>> /\ ~m_relayouting /\ announced = <<>>
  BY AtIdle DEF AboutToRelayout, Starts
<1>2. /\ phase' = "relayouting"
      /\ UNCHANGED <<resume, m_pendingParents, m_relayouting, announced, srcParent, userVars>>
  BY DEF AboutToRelayout, PendingKept, viewVars, srcVars
<1>3. WhereParts' /\ Where' = "relayouting"
  BY <1>1, <1>2 DEF WhereParts, QuietInv, ResetInv, CollapseAnnounced, PendingInv, Where
<1>4. QueueInv'
  BY <1>1, <1>2 DEF QueueInv
<1> QED
  BY <1>2, <1>3, <1>4, OpenKept, Elsewhere DEF BalanceInv

LEMMA SourceRelayoutsBalances == BalanceInv /\ SourceRelayouts => BalanceInv'
<1> SUFFICES ASSUME BalanceInv, SourceRelayouts PROVE BalanceInv'
  OBVIOUS
<1>1. /\ resume = "idle" /\ m_pendingParents = <<>> /\ ~m_relayouting /\ announced = <<>>
  BY DEF SourceRelayouts, BalanceInv, QueueInv, WhereInv, QuietInv, Where
<1>2. /\ phase' = "relayouted"
      /\ UNCHANGED <<resume, m_pendingParents, m_relayouting, announced, srcParent, userVars>>
  BY DEF SourceRelayouts, Enters, proxyVars, userVars, viewVars, Reorder
<1>3. WhereParts' /\ Where' = "relayouted"
  BY <1>1, <1>2 DEF WhereParts, QuietInv, ResetInv, CollapseAnnounced, PendingInv, Where
<1>4. QueueInv'
  BY <1>1, <1>2 DEF QueueInv
<1> QED
  BY <1>2, <1>3, <1>4, OpenKept, Elsewhere DEF BalanceInv

\* The refresh after a layout change or a move, nothing being announced.
LEMMA RefreshLayoutBalances ==
    ASSUME BalanceInv, resume = "idle", m_pendingParents = <<>>, ~m_relayouting,
           announced' = <<>>, UNCHANGED <<srcParent, userVars>>, RefreshLayout
    PROVE  BalanceInv'
<1>1. IsTree(srcParent')
  BY OpenKept DEF BalanceInv
<1>2. CASE Finishes /\ PendingKept /\ UNCHANGED m_relayouting
  BY <1>1, <1>2, EndsQuietly DEF Finishes, PendingKept
<1>3. CASE StartRefresh /\ Refreshes("layoutRead")
  <2>1. phase' = "pending" /\ resume' = "layoutRead" /\ m_relayouting'
    BY <1>3 DEF StartRefresh, Refreshes
  <2>2. WhereParts' /\ Where' = "layoutRead"
    BY <2>1 DEF WhereParts, QuietInv, ResetInv, CollapseAnnounced, PendingInv, Where
  <2>3. QueueInv'
    BY <2>1 DEF QueueInv
  <2> QED
    BY <1>1, <2>2, <2>3, Elsewhere DEF BalanceInv
<1> QED
  BY <1>2, <1>3 DEF RefreshLayout

LEMMA HandleLayoutChangedBalances == BalanceInv /\ HandleLayoutChanged => BalanceInv'
<1> SUFFICES ASSUME BalanceInv, HandleLayoutChanged PROVE BalanceInv'
  OBVIOUS
<1>1. /\ resume = "idle" /\ m_pendingParents = <<>> /\ ~m_relayouting /\ announced = <<>>
  BY DEF HandleLayoutChanged, BalanceInv, QueueInv, WhereInv, QuietInv, Where
<1> QED
  BY <1>1, RefreshLayoutBalances DEF HandleLayoutChanged, viewVars, srcVars

LEMMA FinishLayoutBalances == BalanceInv /\ FinishLayout => BalanceInv'
<1> SUFFICES ASSUME BalanceInv, FinishLayout PROVE BalanceInv'
  OBVIOUS
<1>1. m_pendingParents = <<>> /\ ~m_relayouting /\ announced = <<>>
  BY DEF FinishLayout, BalanceInv, QueueInv, WhereInv, QuietInv, Where
<1>2. IsTree(srcParent')
  BY OpenKept DEF BalanceInv, FinishLayout, srcVars
<1> QED
  BY <1>1, <1>2, EndsQuietly DEF FinishLayout, Finishes, PendingKept

LEMMA AboutToMoveBalances ==
    ASSUME BalanceInv, "moveAcross" \notin Operations,
           NEW p, NEW first, NEW last, NEW q, NEW dest,
           AboutToMove(p, first, last, q, dest)
    PROVE  BalanceInv'
<1>1. Open(p) /\ Open(q) /\ p \in Known /\ q \in Known /\ phase = "idle"
  BY DEF AboutToMove, MayMove, Starts, Known
<1>2. /\ resume = "idle" /\ m_pendingParents = <<>> /\ ~m_relayouting /\ announced = <<>>
  BY <1>1, AtIdle
<1>3. /\ phase' = "moving" /\ announced' = announced
      /\ op' = [parent |-> p, first |-> first, last |-> last, target |-> q, dest |-> dest]
      /\ UNCHANGED <<srcVars, userVars, resume, m_pendingParents, m_relayouting>>
  BY <1>1 DEF AboutToMove, PendingKept
<1>4. QueueInv'
  BY <1>2, <1>3 DEF QueueInv
<1>5. IsTree(srcParent') /\ OpenIndexes' = OpenIndexes
  BY <1>3, OpenKept DEF BalanceInv, srcVars
<1>6. p \in OpenIndexes /\ q \in OpenIndexes
  BY <1>1, RowCountsOf
<1>7. MoveAllowed'
  <2>1. CanMove(p, first, last, q, dest)
    BY DEF AboutToMove
  <2>2. Present' = Present /\ SelfAndAbove' = SelfAndAbove /\ UNCHANGED <<srcParent, srcRow>>
    BY <1>3 DEF Present, SelfAndAbove, srcVars
  <2>3. /\ op'.parent = p /\ op'.first = first /\ op'.last = last
        /\ op'.target = q /\ op'.dest = dest
    BY <1>3
  <2> QED
    BY <2>1, <2>2, <2>3 DEF MoveAllowed, CanMove, InRows
<1>8. Where' = "moving"
  BY <1>3 DEF Where
<1>9. WhereInv'
  BY <1>2, <1>3, <1>5, <1>6, <1>7, <1>8
     DEF WhereInv, QuietInv, ResetInv, CollapseAnnounced, PendingInv, InsertInv,
         RemoveInv, MoveInv
<1> QED
  BY <1>4, <1>5, <1>9 DEF BalanceInv

LEMMA SourceMovesBalances == BalanceInv /\ SourceMoves => BalanceInv'
<1> SUFFICES ASSUME BalanceInv, SourceMoves PROVE BalanceInv'
  OBVIOUS
<1>0. PICK p, first, last, q, dest :
         /\ p = op.parent /\ first = op.first /\ last = op.last
         /\ q = op.target /\ dest = op.dest
  OBVIOUS
<1>1. /\ phase = "moving" /\ resume = "idle" /\ m_pendingParents = <<>> /\ ~m_relayouting
      /\ announced = <<>> /\ {p, q} \subseteq OpenIndexes
      /\ CanMove(p, first, last, q, dest)
  BY <1>0 DEF BalanceInv, QueueInv, WhereInv, QuietInv, MoveInv, MoveAllowed, Where, SourceMoves
<1>2. /\ phase' = "moved" /\ resume' = "idle" /\ op' = op
      /\ UNCHANGED <<userVars, m_pendingParents, m_relayouting, announced>>
  BY <1>1 DEF SourceMoves, Enters, proxyVars, userVars, viewVars
<1>3. QueueInv'
  BY <1>1, <1>2 DEF QueueInv
<1>4. /\ IsTree(srcParent) /\ MoveRows(p, first, last, q, dest)
      /\ p \in Present \cup {Root} /\ q \in Present \cup {Root}
  BY <1>0, <1>1 DEF BalanceInv, SourceMoves, OpenIndexes, Known
<1> DEFINE rest == Present \ InRows(p, first, last)
<1>5. /\ IsTree(srcParent') /\ In(srcParent') = Present
      /\ p \in rest \cup {Root} /\ q \in rest \cup {Root}
      /\ \A i \in rest \cup {Root} : Ancestors(srcParent')[i] = Ancestors(srcParent)[i]
  BY <1>1, <1>4, MoveRowsKeepsTree
<1>6. ExpandedIndexes' = ExpandedIndexes
  BY <1>2 DEF ExpandedIndexes, isSourceIndexExpanded, userVars
<1>7. p \in OpenIndexes' /\ q \in OpenIndexes'
  BY <1>1, <1>4, <1>5, <1>6, OpenByAncestors, OpenByAncestorsAfter
<1>8. Where' = "moved" /\ op'.parent = p /\ op'.target = q
  BY <1>0, <1>2 DEF Where
<1>9. WhereInv'
  BY <1>1, <1>2, <1>7, <1>8
     DEF WhereInv, QuietInv, ResetInv, CollapseAnnounced, PendingInv, InsertInv,
         RemoveInv, MoveInv
<1> QED
  BY <1>3, <1>5, <1>9 DEF BalanceInv

LEMMA HandleRowsMovedBalances == BalanceInv /\ HandleRowsMoved => BalanceInv'
<1> SUFFICES ASSUME BalanceInv, HandleRowsMoved PROVE BalanceInv'
  OBVIOUS
<1>1. /\ resume = "idle" /\ m_pendingParents = <<>> /\ ~m_relayouting /\ announced = <<>>
      /\ op.parent \in OpenIndexes /\ op.target \in OpenIndexes
  BY DEF HandleRowsMoved, BalanceInv, QueueInv, WhereInv, QuietInv, MoveInv, Where
<1>2. Open(op.parent) /\ Open(op.target) /\ isSourceIndexExpanded(op.parent)
  BY <1>1 DEF OpenIndexes, Open
<1>3. announced' = <<>>
  BY <1>1, <1>2 DEF HandleRowsMoved, viewVars
<1> QED
  BY <1>1, <1>3, RefreshLayoutBalances DEF HandleRowsMoved, srcVars

----------------------------------------------------------------------------
(* Resets.                                                                 *)

LEMMA AboutToResetBalances == BalanceInv /\ AboutToReset => BalanceInv'
<1> SUFFICES ASSUME BalanceInv, AboutToReset PROVE BalanceInv'
  OBVIOUS
<1>1. /\ resume = "idle" /\ m_pendingParents = <<>> /\ announced = <<>>
  BY AtIdle DEF AboutToReset, Starts
<1>2. /\ phase' = "resetting" /\ m_relayouting' = TRUE
      /\ UNCHANGED <<resume, m_pendingParents, srcParent, userVars>>
  BY DEF AboutToReset, Enters, RowsKept, PendingKept, srcVars
<1>3. One("reset")'
  BY <1>1, BeginOpensOne DEF AboutToReset, One
<1>4. WhereParts' /\ Where' = "resetting"
  BY <1>2, <1>3 DEF WhereParts, QuietInv, ResetInv, CollapseAnnounced, PendingInv, Where
<1>5. QueueInv'
  BY <1>1, <1>2 DEF QueueInv
<1> QED
  BY <1>2, <1>4, <1>5, OpenKept, Elsewhere DEF BalanceInv

LEMMA SourceResetsBalances ==
    ASSUME BalanceInv, NEW f \in Forests, SourceResets(f)
    PROVE  BalanceInv'
<1>1. /\ resume = "idle" /\ m_pendingParents = <<>> /\ m_relayouting /\ One("reset")
  BY DEF SourceResets, BalanceInv, QueueInv, WhereInv, ResetInv, Where
<1>2. /\ phase' = "reset"
      /\ UNCHANGED <<resume, m_pendingParents, m_relayouting, announced>>
  BY DEF SourceResets, Enters, PendingKept, LayoutKept, viewVars
<1>3. WhereParts' /\ Where' = "reset"
  BY <1>1, <1>2
     DEF WhereParts, QuietInv, ResetInv, CollapseAnnounced, PendingInv, Where, One
<1>4. QueueInv'
  BY <1>1, <1>2 DEF QueueInv
<1>5. IsTree(srcParent')
  BY ReplaceAllMakesTree DEF SourceResets
<1> QED
  BY <1>3, <1>4, <1>5, Elsewhere DEF BalanceInv

LEMMA HandleModelResetBalances == BalanceInv /\ HandleModelReset => BalanceInv'
<1> SUFFICES ASSUME BalanceInv, HandleModelReset PROVE BalanceInv'
  OBVIOUS
<1>1. m_relayouting /\ One("reset")
  BY DEF HandleModelReset, BalanceInv, QueueInv, WhereInv, ResetInv, Where
<1>2. /\ phase' = "pending" /\ resume' = "rebuilt"
      /\ UNCHANGED <<m_relayouting, announced, srcParent>>
  BY DEF HandleModelReset, Refreshes, viewVars, srcVars
<1>3. WhereParts' /\ Where' = "rebuilt"
  BY <1>1, <1>2
     DEF WhereParts, QuietInv, ResetInv, CollapseAnnounced, PendingInv, Where, One
<1>4. QueueInv'
  BY <1>1, <1>2 DEF QueueInv
<1>5. IsTree(srcParent')
  BY <1>2 DEF BalanceInv, IsTree
<1> QED
  BY <1>3, <1>4, <1>5, Elsewhere DEF BalanceInv

LEMMA SetSourceModelBalances ==
    ASSUME BalanceInv, NEW f \in Forests, SetSourceModel(f)
    PROVE  BalanceInv'
<1>1. /\ m_pendingParents = <<>> /\ ~m_relayouting /\ announced = <<>>
  BY AtIdle DEF SetSourceModel, Starts
<1>2. phase' = "pending" /\ resume' = "rebuilt"
  BY DEF SetSourceModel, Refreshes
<1>3. One("reset")'
  BY <1>1, BeginOpensOne DEF SetSourceModel, One
<1>4. WhereParts' /\ Where' = "rebuilt"
  BY <1>2, <1>3 DEF WhereParts, QuietInv, ResetInv, CollapseAnnounced, PendingInv, Where
<1>5. m_relayouting' \/ m_pendingParents' = <<>>
  BY <1>1 DEF SetSourceModel, StartRefresh, PendingKept
<1>6. QueueInv'
  BY <1>2, <1>5 DEF QueueInv
<1>7. IsTree(srcParent')
  BY ReplaceAllMakesTree DEF SetSourceModel
<1> QED
  BY <1>4, <1>6, <1>7, Elsewhere DEF BalanceInv

LEMMA FinishResetBalances == TInv /\ BalanceInv /\ FinishReset => BalanceInv'
<1> SUFFICES ASSUME TInv, BalanceInv, FinishReset PROVE BalanceInv'
  OBVIOUS
<1>1. m_pendingParents = <<>> /\ ~m_relayouting /\ One("reset")
  BY DEF FinishReset, BalanceInv, QueueInv, WhereInv, ResetInv, Where
<1>2. announced' = <<>>
  BY <1>1, EndClosesOne DEF FinishReset, EndResetModel, TInv, ViewTypeOK
<1>3. IsTree(srcParent') /\ UNCHANGED <<m_pendingParents, m_relayouting>>
  BY DEF BalanceInv, IsTree, FinishReset, srcVars, proxyVars
<1> QED
  BY <1>1, <1>2, <1>3, EndsQuietly DEF FinishReset, Finishes

----------------------------------------------------------------------------
(* Expanding and collapsing.                                               *)

LEMMA SetExpandsByDefaultBalances ==
    ASSUME BalanceInv, NEW expand, SetExpandsByDefault(expand)
    PROVE  BalanceInv'
<1>1. phase = "idle"
  BY DEF SetExpandsByDefault, MaySetExpands, Starts
<1>2. /\ resume = "idle" /\ m_pendingParents = <<>> /\ ~m_relayouting /\ announced = <<>>
  BY <1>1, AtIdle
<1>3. /\ UNCHANGED <<phase, resume, m_pendingParents, m_relayouting, announced, srcParent>>
  BY DEF SetExpandsByDefault, controlVars, srcVars, PendingKept, LayoutKept
<1>4. IsTree(srcParent')
  BY <1>3 DEF BalanceInv, IsTree
<1> QED
  BY <1>1, <1>2, <1>3, <1>4, EndsQuietly

LEMMA ExpandSourceIndexBalances ==
    ASSUME BalanceInv, NEW i, ExpandSourceIndex(i)
    PROVE  BalanceInv'
<1>1. announced = <<>>
  BY AtIdle DEF ExpandSourceIndex, Starts
<1>2. /\ phase' = "pending" /\ resume' = "idle"
      /\ UNCHANGED <<announced, srcParent>>
  BY DEF ExpandSourceIndex, Refreshes, viewVars, srcVars
<1>3. WhereParts' /\ Where' = "idle"
  BY <1>1, <1>2 DEF WhereParts, QuietInv, ResetInv, CollapseAnnounced, PendingInv, Where
<1>4. QueueInv'
  BY <1>2 DEF QueueInv
<1>5. IsTree(srcParent')
  BY <1>2 DEF BalanceInv, IsTree
<1> QED
  BY <1>3, <1>4, <1>5, Elsewhere DEF BalanceInv

LEMMA AboutToCollapseBalances ==
    ASSUME BalanceInv, NEW i, AboutToCollapse(i)
    PROVE  BalanceInv'
<1>1. phase = "idle"
  BY DEF AboutToCollapse, MayCollapse, Starts
<1>2. /\ resume = "idle" /\ m_pendingParents = <<>> /\ ~m_relayouting /\ announced = <<>>
  BY <1>1, AtIdle
<1>3. /\ phase' = "collapsing"
      /\ UNCHANGED <<resume, m_pendingParents, m_relayouting, srcParent>>
  BY DEF AboutToCollapse, proxyVars, srcVars
<1>4. One("remove")'
  BY <1>2, BeginOpensOne DEF AboutToCollapse, One
<1>5. WhereParts' /\ Where' = "collapsing"
  BY <1>3, <1>4 DEF WhereParts, QuietInv, ResetInv, CollapseAnnounced, PendingInv, Where
<1>6. QueueInv'
  BY <1>2, <1>3 DEF QueueInv
<1>7. IsTree(srcParent')
  BY <1>3 DEF BalanceInv, IsTree
<1> QED
  BY <1>5, <1>6, <1>7, Elsewhere DEF BalanceInv

LEMMA CollapseSourceIndexBalances == BalanceInv /\ CollapseSourceIndex => BalanceInv'
<1> SUFFICES ASSUME BalanceInv, CollapseSourceIndex PROVE BalanceInv'
  OBVIOUS
<1>1. One("remove")
  BY DEF CollapseSourceIndex, BalanceInv, WhereInv, CollapseAnnounced, Where
<1>2. /\ phase' = "pending" /\ resume' = "collapsed" /\ m_relayouting'
      /\ UNCHANGED <<announced, srcParent>>
  BY DEF CollapseSourceIndex, StartRefresh, Refreshes, viewVars, srcVars
<1>3. WhereParts' /\ Where' = "collapsed"
  BY <1>1, <1>2
     DEF WhereParts, QuietInv, ResetInv, CollapseAnnounced, PendingInv, Where, One
<1>4. QueueInv'
  BY <1>2 DEF QueueInv
<1>5. IsTree(srcParent')
  BY <1>2 DEF BalanceInv, IsTree
<1> QED
  BY <1>3, <1>4, <1>5, Elsewhere DEF BalanceInv

LEMMA FinishCollapseBalances == TInv /\ BalanceInv /\ FinishCollapse => BalanceInv'
<1> SUFFICES ASSUME TInv, BalanceInv, FinishCollapse PROVE BalanceInv'
  OBVIOUS
<1>1. m_pendingParents = <<>> /\ ~m_relayouting /\ One("remove")
  BY DEF FinishCollapse, BalanceInv, QueueInv, WhereInv, CollapseAnnounced, Where
<1>2. announced' = <<>>
  BY <1>1, EndClosesOne DEF FinishCollapse, EndRemoveRows, TInv, ViewTypeOK
<1>3. IsTree(srcParent') /\ UNCHANGED <<m_pendingParents, m_relayouting>>
  BY DEF BalanceInv, IsTree, FinishCollapse, srcVars, proxyVars
<1> QED
  BY <1>1, <1>2, <1>3, EndsQuietly DEF FinishCollapse, Finishes

----------------------------------------------------------------------------
(* The theorem.                                                            *)

LEMMA InitBalances == Init => BalanceInv
<1> SUFFICES ASSUME Init PROVE BalanceInv
  OBVIOUS
<1>1. In(srcParent) = {} /\ IsTree(srcParent)
  BY DEF Init, In, IsTree, Indexes
<1>2. QueueInv /\ Where = "idle"
  BY DEF Init, QueueInv, Where
<1>3. WhereInv
  BY <1>2 DEF Init, WhereInv, QuietInv, ResetInv, CollapseAnnounced, PendingInv,
              InsertInv, RemoveInv, MoveInv
<1> QED
  BY <1>1, <1>2, <1>3 DEF BalanceInv

LEMMA StepBalances ==
    ASSUME ~EagerListeners, "moveAcross" \notin Operations
    PROVE  TInv /\ BalanceInv /\ [Next]_vars => BalanceInv'
<1> SUFFICES ASSUME TInv, BalanceInv, [Next]_vars PROVE BalanceInv'
  OBVIOUS
<1>1. CASE Begins
  <2>1. ASSUME NEW p, NEW first, NEW last,
               AboutToInsert(p, first, last) \/ AboutToRemove(p, first, last)
        PROVE  BalanceInv'
    BY <2>1, AboutToInsertBalances, AboutToRemoveBalances
  <2>2. ASSUME NEW p, NEW first, NEW last, NEW q, NEW dest,
               AboutToMove(p, first, last, q, dest)
        PROVE  BalanceInv'
    BY <2>2, AboutToMoveBalances
  <2>3. ASSUME NEW p, AboutToRelayout(p)
        PROVE  BalanceInv'
    BY <2>3, AboutToRelayoutBalances
  <2>4. ASSUME NEW f \in Forests, SetSourceModel(f)
        PROVE  BalanceInv'
    BY <2>4, SetSourceModelBalances
  <2>5. ASSUME NEW expand, SetExpandsByDefault(expand)
        PROVE  BalanceInv'
    BY <2>5, SetExpandsByDefaultBalances
  <2>6. ASSUME NEW i, ExpandSourceIndex(i) \/ AboutToCollapse(i)
        PROVE  BalanceInv'
    BY <2>6, ExpandSourceIndexBalances, AboutToCollapseBalances
  <2> QED
    BY <1>1, <2>1, <2>2, <2>3, <2>4, <2>5, <2>6, AboutToResetBalances DEF Begins
<1>2. CASE Continues
  <2>1. ASSUME NEW f \in Forests, SourceInserts(f) \/ SourceResets(f)
        PROVE  BalanceInv'
    BY <2>1, SourceInsertsBalances, SourceResetsBalances
  <2> QED
    BY <1>2, <2>1, SkipPendingBalances, AnnouncePendingBalances, AddPendingBalances,
       EndPendingBalances, HandleRowsInsertedBalances, SourceRemovesBalances,
       HandleRowsRemovedBalances, SourceRelayoutsBalances, HandleLayoutChangedBalances,
       FinishLayoutBalances, SourceMovesBalances, HandleRowsMovedBalances,
       HandleModelResetBalances, FinishResetBalances, CollapseSourceIndexBalances,
       FinishCollapseBalances
       DEF Continues
<1>3. CASE QueryRowCount
  BY <1>3, QueryRowCountBalances
<1>4. CASE UNCHANGED vars
  <2>1. Where' = Where /\ op' = op /\ UNCHANGED <<srcVars, userVars, announced>>
    BY <1>4 DEF vars, proxyVars, userVars, controlVars, viewVars, Where
  <2>2. QueueInv'
    BY <1>4 DEF BalanceInv, QueueInv, vars, proxyVars, controlVars
  <2> QED
    BY <2>1, <2>2, WhereKept DEF BalanceInv
<1> QED
  BY <1>1, <1>2, <1>3, <1>4 DEF Next

\* In every phase, either nothing is announced or one thing is.
LEMMA BalanceImpliesNesting == TInv /\ BalanceInv => SignalsNest
<1> SUFFICES ASSUME TInv, BalanceInv PROVE SignalsNest
  OBVIOUS
<1>1. Where \in Phases \ {"pending"}
  BY DEF TInv, ControlTypeOK, Where, Phases, BalanceInv, QueueInv
<1>2. announced = <<>> \/ Len(announced) = 1
  <2>1. CASE Where \in {"idle", "moving", "moved", "relayouting", "relayouted", "layoutRead"}
    BY <2>1 DEF BalanceInv, WhereInv, QuietInv
  <2>2. CASE Where \in {"resetting", "reset", "rebuilt", "collapsing", "collapsed", "pendingOpen"}
    BY <2>2 DEF BalanceInv, WhereInv, ResetInv, CollapseAnnounced, PendingInv, One
  <2>3. CASE Where \in {"inserting", "inserted", "removing", "removed"}
    BY <2>3 DEF BalanceInv, WhereInv, InsertInv, RemoveInv, One
  <2> QED
    BY <1>1, <2>1, <2>2, <2>3 DEF Phases
<1>3. phase = "idle" => announced = <<>>
  BY AtIdle
<1>4. Len(announced) <= 1
  <2>1. CASE announced = <<>>
    BY <2>1
  <2>2. CASE Len(announced) = 1
    BY <2>2
  <2> QED
    BY <1>2, <2>1, <2>2
<1> QED
  BY <1>3, <1>4 DEF SignalsNest

\* The begin... and end... calls of the proxy pair up and none is left open, for
\* trees of any size and every sequence of operations, slots that ask for the
\* rowCount() in the middle included.  Two assumptions: no slot that the source
\* calls before the proxy asks for it, and no rows move between a shown and a hidden
\* parent, where the handlers do decide differently.
THEOREM SignalsPairUp ==
    ASSUME ~EagerListeners, "moveAcross" \notin Operations
    PROVE  Spec => []SignalsNest
<1>1. Init => TInv /\ CollapseInv /\ BalanceInv
  BY InitTInv, InitBalances DEF Init, CollapseInv
<1>2. TInv /\ CollapseInv /\ BalanceInv /\ [Next]_vars
      => TInv' /\ CollapseInv' /\ BalanceInv'
  BY TInvStep, CollapseInvStep, StepBalances
<1>3. TInv /\ BalanceInv => SignalsNest
  BY BalanceImpliesNesting
<1> QED
  BY <1>1, <1>2, <1>3, PTL DEF Spec

----------------------------------------------------------------------------
(* The climb of mapFromSource and mapToSource.                             *)

LEMMA PassedOverIs ==
    ASSUME IsTree(srcParent), Numbered(srcParent, srcRow),
           NEW L, IsListing(srcParent, L), WholeRows(srcParent, L), NEW n \in L,
           NEW z \in Passed(srcParent, srcRow, n)
    PROVE  PassedOver(n, z)
              = {w \in Passed(srcParent, srcRow, n) : Precedes(srcParent, srcRow, z, w)}
<1> DEFINE up == Ancestors(srcParent)
           P(x, y) == Precedes(srcParent, srcRow, x, y)
<1>0. L \subseteq In(srcParent) /\ \A a \in L : srcParent[a] \in L \cup {Root}
  BY DEF IsListing
<1>1. SelfAndAbove = up
  BY SelfAndAboveIsAncestors
<1>2. /\ up[n] \subseteq L /\ z \in L
      /\ \A w \in Passed(srcParent, srcRow, n) : w \in L
  BY PassedBehind
<1>3. PICK t \in up[n] : srcParent[z] = srcParent[t] /\ srcRow[z] <= srcRow[t]
  BY DEF Passed
<1>4. \A i \in In(srcParent) : up[i] = {i} \cup up[srcParent[i]]
  BY AncestorsOfOne
<1>5. parent(z) = srcParent[z] /\ IndexRow(z) = srcRow[z] /\ z \in In(srcParent) /\ n \in In(srcParent)
  BY <1>0, <1>2 DEF parent, IndexRow, In
<1>6. ASSUME NEW w \in PassedOver(n, z)
      PROVE  w \in Passed(srcParent, srcRow, n) /\ P(z, w)
  <2>1. PICK y \in up[n] : /\ srcParent[w] = srcParent[y] /\ srcRow[w] <= srcRow[y]
                           /\ srcParent[z] \in up[srcParent[y]] \cup {Root}
                           /\ srcParent[y] = srcParent[z] => srcRow[w] > srcRow[z]
                           /\ w \in Nodes
    BY <1>1, <1>5 DEF PassedOver
  <2>2. w \in Passed(srcParent, srcRow, n)
    BY <2>1 DEF Passed
  <2>3. w \in In(srcParent) /\ y \in In(srcParent) /\ t \in In(srcParent)
    BY <1>0, <1>2, <1>3, <2>1, <2>2
  <2>4. CASE srcParent[y] = srcParent[z]
    <3>1. srcRow[z] \in Nat /\ srcRow[w] \in Nat /\ srcRow[z] < srcRow[w]
      BY <1>5, <2>1, <2>3, <2>4, RowsType
    <3> QED
      BY <1>5, <2>1, <2>2, <2>3, <2>4, <3>1, WalkIs
  <2>5. CASE srcParent[y] # srcParent[z]
    <3>1. y # t
      BY <1>3, <2>5
    <3>2. ~(y \in up[t])
      <4> SUFFICES ASSUME y \in up[t] PROVE FALSE
        OBVIOUS
      <4>1. y \in up[srcParent[z]]
        BY <1>3, <1>4, <2>3, <3>1
      <4>2. srcParent[z] # Root
        BY <4>1, AncestorsOfOne
      <4>3. srcParent[z] \in up[srcParent[y]] /\ srcParent[z] \in In(srcParent)
        BY <1>0, <1>2, <2>1, <4>2
      <4>4. y \in up[srcParent[y]]
        <5>1. srcParent[y] \in In(srcParent) \cup {Root}
          BY <2>3 DEF IsTree
        <5>2. up[srcParent[z]] \subseteq up[srcParent[y]]
          BY <4>3, <5>1, AncestorsTransitive
        <5> QED
          BY <4>1, <5>2
      <4> QED
        BY <2>3, <4>4, NoCycle
    <3>3. t \in up[y]
      BY <1>3, <1>5, <2>1, <3>2, AncestorsChain
    <3>4. t \in up[srcParent[y]]
      BY <1>4, <2>3, <3>1, <3>3
    <3>5. t \in up[srcParent[w]]
      BY <2>1, <3>4
    <3>6. t \in up[w]
      BY <1>4, <2>3, <3>5
    <3>7. P(t, w)
      BY <3>5 DEF Precedes
    <3>8. z = t \/ P(z, t)
      BY <1>3, <1>5, <2>3, RowsType, WalkIs
    <3> QED
      BY <1>5, <2>2, <2>3, <3>7, <3>8, WalkIs
  <2> QED
    BY <2>4, <2>5
<1>7. ASSUME NEW w \in Passed(srcParent, srcRow, n), P(z, w)
      PROVE  w \in PassedOver(n, z)
  <2>1. PICK y \in up[n] : srcParent[w] = srcParent[y] /\ srcRow[w] <= srcRow[y] /\ w \in Nodes
    BY DEF Passed
  <2>2. w \in In(srcParent) /\ y \in In(srcParent) /\ t \in In(srcParent)
    BY <1>0, <1>2, <1>3, <2>1
  <2>3. srcParent[z] \in up[srcParent[y]] \cup {Root}
    <3>1. CASE t \in up[y]
      <4>1. srcParent[z] \in up[y] \cup {Root}
        BY <1>3, <2>2, <3>1, AncestorsClosed
      <4>2. srcParent[z] # y
        <5> SUFFICES ASSUME srcParent[z] = y PROVE FALSE
          OBVIOUS
        <5>1. t \in up[srcParent[t]]
          BY <1>3, <3>1
        <5> QED
          BY <2>2, <5>1, NoCycle
      <4> QED
        BY <1>4, <2>2, <4>1, <4>2
    <3>2. CASE t \notin up[y]
      <4>1. y \in up[t] /\ y # t
        BY <1>3, <1>4, <1>5, <2>1, <2>2, <3>2, AncestorsChain
      <4>2. y \in up[srcParent[z]]
        BY <1>3, <1>4, <2>2, <4>1
      <4>3. P(y, z)
        BY <4>2 DEF Precedes
      <4>4. w = y \/ P(w, y)
        BY <2>1, <2>2, RowsType, WalkIs
      <4>5. P(w, z)
        BY <1>5, <2>2, <4>3, <4>4, WalkIs
      <4> QED
        BY <1>5, <1>7, <2>2, <4>5, WalkIs
    <3> QED
      BY <3>1, <3>2
  <2>4. srcParent[y] = srcParent[z] => srcRow[w] > srcRow[z]
    <3> SUFFICES ASSUME srcParent[y] = srcParent[z] PROVE srcRow[w] > srcRow[z]
      OBVIOUS
    <3>1. srcRow[z] < srcRow[w]
      BY <1>5, <1>7, <2>1, <2>2, WalkIs
    <3> QED
      BY <1>5, <2>2, <3>1, RowsType
  <2> QED
    BY <1>1, <1>5, <2>1, <2>3, <2>4 DEF PassedOver
<1> QED
  BY <1>6, <1>7

\* What a climb from a row steps over until it is at an earlier one.
LEMMA ClimbCounts ==
    ASSUME IsTree(srcParent), Numbered(srcParent, srcRow),
           NEW L, IsListing(srcParent, L), WholeRows(srcParent, L),
           NEW v, NEW c, IsList(srcParent, srcRow, v, c, L),
           NEW q \in 0 .. c - 1, NEW r \in 0 .. c - 1, q <= r,
           \A k \in 0 .. c - 1 : q <= k /\ k < r => ~IsLast(srcParent, srcRow, L, v[k])
    PROVE  /\ v[q] \in Passed(srcParent, srcRow, v[r])
           /\ Cardinality(PassedOver(v[r], v[q])) = r - q
           /\ \A z \in Passed(srcParent, srcRow, v[r]) :
                 Cardinality(PassedOver(v[r], z)) = r - q => z = v[q]
<1> DEFINE P(x, y) == Precedes(srcParent, srcRow, x, y)
           passed == Passed(srcParent, srcRow, v[r])
<1>1. L \in SUBSET In(srcParent) /\ c \in Nat /\ v[q] \in L /\ v[r] \in L
  BY DEF IsListing, IsList
<1>2. \A k \in 0 .. c - 1 : q <= k /\ k <= r => v[k] \in passed
  <2> SUFFICES ASSUME NEW k \in 0 .. c - 1, q <= k, k <= r PROVE v[k] \in passed
    OBVIOUS
  <2>1. \A j \in 0 .. c - 1 : k <= j /\ j < r => ~IsLast(srcParent, srcRow, L, v[j])
    BY <1>1
  <2> QED
    BY <2>1, NothingBetween
<1>3. v[q] \in passed
  BY <1>1, <1>2
<1>4. /\ \A z \in passed : PassedOver(v[r], z) = {w \in passed : P(z, w)}
      /\ \A z \in passed : z \in L /\ (z = v[r] \/ P(z, v[r]))
  BY <1>1, PassedOverIs, PassedBehind
<1>5. PassedOver(v[r], v[q]) = Span(v, q + 1, r)
  <2>1. ASSUME NEW w \in passed, P(v[q], w)
        PROVE  w \in Span(v, q + 1, r)
    <3>1. PICK k \in 0 .. c - 1 : v[k] = w
      BY <1>4 DEF IsList
    <3>2. q < k
      BY <1>1, <2>1, <3>1, ListOrder
    <3>3. k = r \/ k < r
      BY <1>1, <1>4, <3>1, ListOrder
    <3>4. k \in q + 1 .. r
      BY <1>1, <3>2, <3>3
    <3> QED
      BY <3>1, <3>4 DEF Span
  <2>2. ASSUME NEW k \in q + 1 .. r
        PROVE  v[k] \in passed /\ P(v[q], v[k])
    <3>1. k \in 0 .. c - 1 /\ q < k /\ q <= k /\ k <= r
      BY <1>1
    <3> QED
      BY <1>1, <1>2, <3>1, ListOrder
  <2> QED
    BY <1>3, <1>4, <2>1, <2>2 DEF Span
<1>6. Cardinality(Span(v, q + 1, r)) = r - (q + 1) + 1
  <2>1. q + 1 \in Int /\ r \in Int /\ 0 <= q + 1 /\ r < c /\ q + 1 <= r + 1
    BY <1>1
  <2> QED
    BY <1>1, <2>1, SpanCount
<1>7. Cardinality(PassedOver(v[r], v[q])) = r - q
  BY <1>1, <1>5, <1>6
<1>8. ASSUME NEW z \in passed, Cardinality(PassedOver(v[r], z)) = r - q, z # v[q]
      PROVE  FALSE
  <2>1. z \in In(srcParent) /\ v[q] \in In(srcParent)
    BY <1>1, <1>4
  <2>2. PassedOver(v[r], z) \in SUBSET Nodes /\ PassedOver(v[r], v[q]) \in SUBSET Nodes
    BY DEF PassedOver
  <2>3. IsFiniteSet(PassedOver(v[r], z)) /\ IsFiniteSet(PassedOver(v[r], v[q]))
    BY <2>2, CountType
  <2>4. CASE P(z, v[q])
    <3>1. PassedOver(v[r], v[q]) \in SUBSET PassedOver(v[r], z)
      BY <1>1, <1>3, <1>4, <2>1, <2>4, WalkIs
    <3>2. PassedOver(v[r], v[q]) = PassedOver(v[r], z)
      BY <1>7, <1>8, <2>3, <3>1, FS_Subset
    <3> QED
      BY <1>3, <1>4, <2>1, <2>4, <3>2, WalkIs
  <2>5. CASE P(v[q], z)
    <3>1. PassedOver(v[r], z) \in SUBSET PassedOver(v[r], v[q])
      BY <1>1, <1>3, <1>4, <2>1, <2>5, WalkIs
    <3>2. PassedOver(v[r], v[q]) = PassedOver(v[r], z)
      BY <1>7, <1>8, <2>3, <3>1, FS_Subset
    <3> QED
      BY <1>3, <1>4, <2>1, <2>5, <3>2, WalkIs
  <2> QED
    BY <1>8, <2>1, <2>4, <2>5, WalkIs
<1> QED
  BY <1>3, <1>7, <1>8

LEMMA LeastOf ==
    ASSUME NEW S \in SUBSET Nat, NEW x \in S, \A y \in S : x <= y
    PROVE  Least(S) = x
<1>1. \A z \in S : (\A y \in S : z <= y) => z = x
  BY Z3
<1>2. \E z \in S : \A y \in S : z <= y
  OBVIOUS
<1> QED
  BY <1>1, <1>2 DEF Least

LEMMA GreatestOf ==
    ASSUME NEW S \in SUBSET Nat, NEW x \in S, \A y \in S : y <= x
    PROVE  Greatest(S) = x
<1>1. \A z \in S : (\A y \in S : y <= z) => z = x
  BY Z3
<1>2. \E z \in S : \A y \in S : y <= z
  OBVIOUS
<1> QED
  BY <1>1, <1>2 DEF Greatest

\* A mapping that holds the last children at their rows is all that the lookups need:
\* the row finds its node and the node its row.
LEMMA LookupsAgree ==
    ASSUME IsTree(srcParent), Numbered(srcParent, srcRow),
           NEW L, IsListing(srcParent, L), WholeRows(srcParent, L),
           NEW v, NEW c, IsList(srcParent, srcRow, v, c, L),
           NEW m, MapsLast(srcParent, srcRow, m, v, L), NEW q \in 0 .. c - 1
    PROVE  /\ mapToSource(m, q) = v[q]
           /\ isSourceIndexVisible(v[q]) => mapFromSource(m, v[q]) = q
<1> DEFINE up == Ancestors(srcParent)
           P(x, y) == Precedes(srcParent, srcRow, x, y)
<1>1. L \in SUBSET In(srcParent) /\ c \in Nat /\ v[q] \in L
  BY DEF IsListing, IsList
<1>2. DOMAIN m = {k \in 0 .. c - 1 : IsLast(srcParent, srcRow, L, v[k])} /\ \A k \in DOMAIN m : m[k] = v[k]
  BY DEF MapsLast, IsList
<1>3. PICK r \in 0 .. c - 1 :
         /\ q <= r /\ r \in DOMAIN m /\ m[r] = v[r]
         /\ \A k \in DOMAIN m : q <= k => r <= k
         /\ \A k \in 0 .. c - 1 : q <= k /\ k < r => ~IsLast(srcParent, srcRow, L, v[k])
  BY NextMapped
<1>4. /\ v[q] \in Passed(srcParent, srcRow, v[r])
      /\ Cardinality(PassedOver(v[r], v[q])) = r - q
      /\ \A z \in Passed(srcParent, srcRow, v[r]) :
            Cardinality(PassedOver(v[r], z)) = r - q => z = v[q]
  BY <1>3, ClimbCounts
<1>5. mapToSource(m, q) = v[q]
  <2> DEFINE S == {k \in DOMAIN m : k >= q}
  <2>1. Least(S) = r
    <3>1. S \in SUBSET Nat /\ r \in S /\ \A k \in S : r <= k
      BY <1>1, <1>2, <1>3
    <3> HIDE DEF S
    <3> QED
      BY <3>1, LeastOf
  <2>2. {z \in Nodes : \E y \in SelfAndAbove[m[r]] : srcParent[z] = srcParent[y] /\ srcRow[z] <= srcRow[y]}
           = Passed(srcParent, srcRow, v[r])
    BY <1>3, SelfAndAboveIsAncestors DEF Passed
  <2>3. mapToSource(m, q) =
          IF \E z \in Passed(srcParent, srcRow, v[r]) : Cardinality(PassedOver(m[r], z)) = r - q
          THEN CHOOSE z \in Passed(srcParent, srcRow, v[r]) : Cardinality(PassedOver(m[r], z)) = r - q
          ELSE Root
    BY <1>3, <2>1, <2>2 DEF mapToSource
  <2> QED
    BY <1>3, <1>4, <2>3
<1>6. ASSUME isSourceIndexVisible(v[q])
      PROVE  mapFromSource(m, v[q]) = q
  <2> DEFINE i == v[q]
             B == BlockRows(m, i)
  <2>1. parent(i) = srcParent[i] /\ IndexRow(i) = srcRow[i] /\ srcRow[i] \in Nat
    BY <1>1, RowsType DEF parent, IndexRow, In
  <2>2. B = {k \in DOMAIN m : \E x \in up[m[k]] : srcParent[x] = srcParent[i] /\ srcRow[x] >= srcRow[i]}
    BY <2>1, SelfAndAboveIsAncestors DEF BlockRows
  <2>3. r \in B
    <3>1. PICK y \in up[v[r]] : srcParent[i] = srcParent[y] /\ srcRow[i] <= srcRow[y]
      BY <1>4 DEF Passed
    <3>2. srcRow[y] \in Nat
      <4>1. v[r] \in In(srcParent)
        BY <1>1 DEF IsList
      <4> QED
        BY <4>1, AncestorsClosed, RowsType
    <3>3. srcRow[y] >= srcRow[i]
      BY <2>1, <3>1, <3>2
    <3> QED
      BY <1>3, <2>2, <3>1, <3>3
  <2>4. ASSUME NEW k \in B PROVE r <= k
    <3>1. k \in DOMAIN m /\ k \in 0 .. c - 1 /\ m[k] = v[k] /\ v[k] \in In(srcParent)
      BY <1>1, <1>2, <2>2 DEF IsList
    <3>2. PICK x \in up[v[k]] : srcParent[x] = srcParent[i] /\ srcRow[x] >= srcRow[i]
      BY <2>2, <3>1
    <3>3. x \in In(srcParent) /\ (x = v[k] \/ P(x, v[k])) /\ srcRow[x] \in Nat /\ i \in In(srcParent)
      BY <1>1, <3>1, AncestorFirst, RowsType
    <3>4. i = x \/ P(i, x)
      <4>1. srcRow[i] < srcRow[x] \/ srcRow[i] = srcRow[x]
        BY <2>1, <3>2, <3>3
      <4> QED
        BY <3>2, <3>3, <4>1, WalkIs
    <3>5. i = v[k] \/ P(i, v[k])
      BY <3>1, <3>3, <3>4, WalkIs
    <3>6. q <= k
      BY <1>1, <3>1, <3>5, ListOrder
    <3> QED
      BY <1>3, <3>1, <3>6
  <2>5. Least(B) = r
    <3>1. B \in SUBSET Nat
      BY <1>1, <1>2, <2>2
    <3> HIDE DEF B
    <3> QED
      BY <2>3, <2>4, <3>1, LeastOf
  <2>6. B # {}
    BY <2>3
  <2>7. mapFromSource(m, i) = r - Cardinality(PassedOver(m[r], i))
    BY <1>6, <2>5, <2>6 DEF mapFromSource
  <2> QED
    BY <1>1, <1>3, <1>4, <2>7
<1> QED
  BY <1>5, <1>6

----------------------------------------------------------------------------
(* The recursions down the tree.                                           *)

LastShownEnds == {i \in Nodes : isSourceIndexExpanded(i) /\ hasChildren(i)}

LEMMA LastShownUnfolds ==
    ASSUME IsTree(srcParent), Numbered(srcParent, srcRow)
    PROVE  \A i \in Nodes : lastShown[i] =
              IF isSourceIndexExpanded(i) /\ hasChildren(i)
              THEN lastShown[index(rowCount(i) - 1, i)] ELSE i
<1> DEFINE C == LastShownEnds
           next == [i \in Nodes |-> index(rowCount(i) - 1, i)]
           base == [i \in Nodes |-> i]
<1>1. C \in SUBSET In(srcParent)
  BY ParentKnown DEF LastShownEnds
<1>2. \A i \in C : next[i] \in In(srcParent) /\ srcParent[next[i]] = i
  <2> SUFFICES ASSUME NEW i \in C PROVE next[i] \in In(srcParent) /\ srcParent[next[i]] = i
    OBVIOUS
  <2>1. i \in Nodes /\ hasChildren(i) /\ i # Absent
    BY NodesAssumption DEF LastShownEnds
  <2> QED
    BY <2>1, LastChild DEF In
<1>3. PICK g : g = Descends(C, next, base, g)
  <2> HIDE DEF next, base, C
  <2> QED
    BY <1>1, <1>2, DescentEnds
<1>4. g = [i \in Nodes |-> IF isSourceIndexExpanded(i) /\ hasChildren(i)
                           THEN g[index(rowCount(i) - 1, i)] ELSE i]
  BY <1>3 DEF LastShownEnds, Descends
<1>5. lastShown = [i \in Nodes |-> IF isSourceIndexExpanded(i) /\ hasChildren(i)
                                   THEN lastShown[index(rowCount(i) - 1, i)] ELSE i]
  BY <1>4 DEF lastShown
<1> QED
  BY <1>5

LEMMA LastShownIs ==
    ASSUME IsTree(srcParent), Numbered(srcParent, srcRow), NEW i \in In(srcParent)
    PROVE  LET z == lastShown[i]
               Sh == ShownBelow(srcParent, ExpandedIndexes, i)
           IN  /\ z \in Sh
               /\ \A x \in Sh : x = z \/ Precedes(srcParent, srcRow, x, z)
               /\ z = i \/ \A k \in Nodes : srcParent[k] = srcParent[z] => srcRow[k] <= srcRow[z]
<1> DEFINE C == LastShownEnds
<1>1. C \in SUBSET In(srcParent) /\ \A j \in C : hasChildren(j)
  BY ParentKnown DEF LastShownEnds
<1>2. \A j \in In(srcParent) : lastShown[j] = IF j \in C THEN lastShown[index(rowCount(j) - 1, j)] ELSE j
  BY LastShownUnfolds DEF LastShownEnds, In
<1>3. ShownBelow(srcParent, C, i) = ShownBelow(srcParent, ExpandedIndexes, i)
  <2> SUFFICES ASSUME NEW x \in In(srcParent), NEW a \in Ancestors(srcParent)[srcParent[x]]
               PROVE  a \in C <=> a \in ExpandedIndexes
    BY DEF ShownBelow
  <2>1. srcParent[x] \in In(srcParent) \cup {Root}
    BY AncestorsOfOne
  <2>2. a \in In(srcParent) /\ a \in Nodes
    BY <2>1, AncestorsClosed DEF In
  <2>3. PICK b \in Ancestors(srcParent)[x] : b \in In(srcParent) /\ srcParent[b] = a
    BY <2>2, BranchBelow
  <2>4. hasChildren(a)
    BY <2>3 DEF hasChildren, Children, In
  <2> QED
    BY <2>2, <2>4 DEF LastShownEnds, ExpandedIndexes
<1> HIDE DEF C
<1>4. /\ lastShown[i] \in ShownBelow(srcParent, C, i)
      /\ \A x \in ShownBelow(srcParent, C, i) : x = lastShown[i] \/ Precedes(srcParent, srcRow, x, lastShown[i])
      /\ lastShown[i] = i \/ \A k \in Nodes : srcParent[k] = srcParent[lastShown[i]]
                                 => srcRow[k] <= srcRow[lastShown[i]]
  BY <1>1, <1>2, DescentLast
<1> QED
  BY <1>3, <1>4

LEMMA LastBelowUnfolds ==
    ASSUME IsTree(srcParent), Numbered(srcParent, srcRow)
    PROVE  \A i \in Nodes : lastBelow[i] =
              IF hasChildren(i) THEN lastBelow[index(rowCount(i) - 1, i)] ELSE i
<1> DEFINE C == {i \in Nodes : hasChildren(i)}
           next == [i \in Nodes |-> index(rowCount(i) - 1, i)]
           base == [i \in Nodes |-> i]
<1>1. C \in SUBSET In(srcParent)
  BY ParentKnown
<1>2. \A i \in C : next[i] \in In(srcParent) /\ srcParent[next[i]] = i
  <2> SUFFICES ASSUME NEW i \in C PROVE next[i] \in In(srcParent) /\ srcParent[next[i]] = i
    OBVIOUS
  <2>1. i \in Nodes /\ hasChildren(i) /\ i # Absent
    BY NodesAssumption
  <2> QED
    BY <2>1, LastChild DEF In
<1>3. PICK g : g = Descends(C, next, base, g)
  <2> HIDE DEF next, base, C
  <2> QED
    BY <1>1, <1>2, DescentEnds
<1>4. g = [i \in Nodes |-> IF hasChildren(i) THEN g[index(rowCount(i) - 1, i)] ELSE i]
  BY <1>3 DEF Descends
<1>5. lastBelow = [i \in Nodes |-> IF hasChildren(i) THEN lastBelow[index(rowCount(i) - 1, i)] ELSE i]
  BY <1>4 DEF lastBelow
<1> QED
  BY <1>5

LEMMA LastBelowIs ==
    ASSUME IsTree(srcParent), Numbered(srcParent, srcRow), NEW i \in In(srcParent)
    PROVE  LET z == lastBelow[i]
           IN  /\ z \in In(srcParent) /\ i \in Ancestors(srcParent)[z]
               /\ \A x \in In(srcParent) : i \in Ancestors(srcParent)[x] =>
                     x = z \/ Precedes(srcParent, srcRow, x, z)
<1> DEFINE C == {j \in Nodes : hasChildren(j)}
<1>1. C \in SUBSET In(srcParent) /\ \A j \in C : hasChildren(j)
  BY ParentKnown
<1>2. \A j \in In(srcParent) : lastBelow[j] = IF j \in C THEN lastBelow[index(rowCount(j) - 1, j)] ELSE j
  BY LastBelowUnfolds DEF In
<1>3. ShownBelow(srcParent, C, i) = {x \in In(srcParent) : i \in Ancestors(srcParent)[x]}
  <2> SUFFICES ASSUME NEW x \in In(srcParent), NEW a \in Ancestors(srcParent)[srcParent[x]]
               PROVE  a \in C
    BY DEF ShownBelow
  <2>1. srcParent[x] \in In(srcParent) \cup {Root}
    BY AncestorsOfOne
  <2>2. a \in In(srcParent) /\ a \in Nodes
    BY <2>1, AncestorsClosed DEF In
  <2>3. PICK b \in Ancestors(srcParent)[x] : b \in In(srcParent) /\ srcParent[b] = a
    BY <2>2, BranchBelow
  <2> QED
    BY <2>2, <2>3 DEF hasChildren, Children, In
<1> HIDE DEF C
<1>4. /\ lastBelow[i] \in ShownBelow(srcParent, C, i)
      /\ \A x \in ShownBelow(srcParent, C, i) : x = lastBelow[i] \/ Precedes(srcParent, srcRow, x, lastBelow[i])
  BY <1>1, <1>2, DescentLast
<1> QED
  BY <1>3, <1>4

LEMMA FirstDeepestUnfolds ==
    ASSUME IsTree(srcParent), Numbered(srcParent, srcRow)
    PROVE  \A i \in Nodes : firstDeepest[i] =
              IF ParentsIn(i) = {} THEN index(rowCount(i) - 1, i) ELSE firstDeepest[FirstParent(i)]
<1> DEFINE C == {i \in Nodes : ParentsIn(i) # {}}
           next == [i \in Nodes |-> FirstParent(i)]
           base == [i \in Nodes |-> index(rowCount(i) - 1, i)]
<1>1. C \in SUBSET In(srcParent)
  BY ParentKnown DEF ParentsIn, hasChildren
<1>2. \A i \in C : next[i] \in In(srcParent) /\ srcParent[next[i]] = i
  BY <1>1, FirstParentIs
<1>3. PICK g : g = Descends(C, next, base, g)
  <2> HIDE DEF next, base, C
  <2> QED
    BY <1>1, <1>2, DescentEnds
<1>4. g = [i \in Nodes |-> IF ParentsIn(i) = {} THEN index(rowCount(i) - 1, i) ELSE g[FirstParent(i)]]
  BY <1>3 DEF Descends
<1>5. firstDeepest = [i \in Nodes |-> IF ParentsIn(i) = {} THEN index(rowCount(i) - 1, i)
                                      ELSE firstDeepest[FirstParent(i)]]
  BY <1>4 DEF firstDeepest, ParentsIn, FirstParent
<1> QED
  BY <1>5

\* Whatever stands between i and firstDeepest[i] is a childless child of an index on the way.
LEMMA FirstDeepestIs ==
    ASSUME IsTree(srcParent), Numbered(srcParent, srcRow), NEW i \in In(srcParent), hasChildren(i)
    PROVE  LET d == firstDeepest[i]
               up == Ancestors(srcParent)
           IN  /\ d \in In(srcParent) /\ i \in up[srcParent[d]]
               /\ \A k \in Nodes : srcParent[k] = srcParent[d] => srcRow[k] <= srcRow[d]
               /\ \A a \in up[d], k \in Nodes :
                     i \in up[srcParent[a]] /\ srcParent[k] = srcParent[a] /\ srcRow[k] < srcRow[a]
                     => ~hasChildren(k)
<1> DEFINE up == Ancestors(srcParent)
           good(j) == LET d == firstDeepest[j]
                      IN  /\ d \in In(srcParent) /\ j \in up[srcParent[d]]
                          /\ \A k \in Nodes : srcParent[k] = srcParent[d] => srcRow[k] <= srcRow[d]
                          /\ \A a \in up[d], k \in Nodes :
                                j \in up[srcParent[a]] /\ srcParent[k] = srcParent[a] /\ srcRow[k] < srcRow[a]
                                => ~hasChildren(k)
           bad == {j \in In(srcParent) : hasChildren(j) /\ ~good(j)}
<1>1. /\ up[Root] = {}
      /\ \A j \in In(srcParent) : /\ up[j] = {j} \cup up[srcParent[j]] /\ srcParent[j] \in In(srcParent) \cup {Root}
                                  /\ j \in Nodes /\ srcRow[j] \in Nat /\ j \notin up[srcParent[j]]
                                  /\ up[j] \subseteq In(srcParent)
  BY AncestorsOfOne, RowsType, NoCycle, AncestorsClosed DEF In
<1>2. SUFFICES ASSUME NEW j \in In(srcParent), hasChildren(j),
                      \A k \in In(srcParent) : srcParent[k] = j /\ hasChildren(k) => good(k)
               PROVE  good(j)
  <2>1. ASSUME bad # {} PROVE FALSE
    <3>1. bad \in SUBSET In(srcParent)
      OBVIOUS
    <3>2. PICK j \in bad : \A k \in In(srcParent) : srcParent[k] = j => k \notin bad
      <4> HIDE DEF bad
      <4> QED
        BY <2>1, <3>1, DeepestExists
    <3>3. \A k \in In(srcParent) : srcParent[k] = j /\ hasChildren(k) => good(k)
      BY <3>2
    <3>4. j \in In(srcParent) /\ ~good(j) /\ hasChildren(j)
      BY <3>2
    <3> HIDE DEF good
    <3> QED
      BY <1>2, <3>3, <3>4
  <2> QED
    BY <2>1
<1>3. CASE ParentsIn(j) = {}
  <2> DEFINE d == index(rowCount(j) - 1, j)
  <2>1. firstDeepest[j] = d
    BY <1>1, <1>3, FirstDeepestUnfolds
  <2>2. /\ d \in In(srcParent) /\ srcParent[d] = j
        /\ \A k \in Nodes : srcParent[k] = j => srcRow[k] <= srcRow[d]
    <3>1. j \in Nodes \cup {Root} /\ j # Absent
      BY <1>1, NodesAssumption
    <3> QED
      BY <1>2, <3>1, LastChild DEF In
  <2> HIDE DEF d
  <2>3. ASSUME NEW a \in up[d], NEW k \in Nodes, j \in up[srcParent[a]], srcParent[k] = srcParent[a]
        PROVE  ~hasChildren(k)
    <3>1. a = d
      <4> SUFFICES ASSUME a \in up[j] PROVE FALSE
        BY <1>1, <2>2
      <4>1. up[srcParent[a]] \subseteq up[srcParent[j]]
        BY AboveAncestor
      <4> QED
        BY <1>1, <2>3, <4>1
    <3> QED
      BY <1>3, <2>2, <2>3, <3>1 DEF ParentsIn, Children
  <2>4. j \in up[j]
    BY <1>1
  <2> QED
    BY <2>1, <2>2, <2>3, <2>4
<1>4. CASE ParentsIn(j) # {}
  <2> DEFINE c == FirstParent(j)
             d == firstDeepest[c]
  <2>1. /\ c \in In(srcParent) /\ srcParent[c] = j /\ hasChildren(c)
        /\ \A k \in Nodes : srcParent[k] = j /\ srcRow[k] < srcRow[c] => ~hasChildren(k)
    BY <1>4, FirstParentIs
  <2>2. firstDeepest[j] = d
    BY <1>1, <1>4, FirstDeepestUnfolds
  <2>3. good(c)
    BY <1>2, <2>1
  <2>4. /\ d \in In(srcParent) /\ c \in up[srcParent[d]]
        /\ \A k \in Nodes : srcParent[k] = srcParent[d] => srcRow[k] <= srcRow[d]
        /\ \A a \in up[d], k \in Nodes :
              c \in up[srcParent[a]] /\ srcParent[k] = srcParent[a] /\ srcRow[k] < srcRow[a]
              => ~hasChildren(k)
    BY <2>3
  <2> HIDE DEF c, d
  <2>5. up[c] = {c} \cup up[j] /\ up[c] \subseteq up[srcParent[d]] /\ c \in up[d] /\ j \in up[srcParent[d]]
    <3>1. srcParent[d] \in In(srcParent) \cup {Root} /\ up[d] = {d} \cup up[srcParent[d]]
      BY <1>1, <2>4
    <3>2. up[c] \subseteq up[srcParent[d]]
      BY <2>4, <3>1, AncestorsTransitive
    <3> QED
      BY <1>1, <2>1, <2>4, <3>1, <3>2
  <2>6. ASSUME NEW a \in up[d], NEW k \in Nodes, j \in up[srcParent[a]], srcParent[k] = srcParent[a],
               srcRow[k] < srcRow[a]
        PROVE  ~hasChildren(k)
    <3>1. CASE c \in up[srcParent[a]]
      BY <2>4, <2>6, <3>1
    <3>2. CASE c \notin up[srcParent[a]]
      <4>1. a \in In(srcParent) /\ up[a] = {a} \cup up[srcParent[a]]
        BY <1>1, <2>4
      <4>2. a \in up[c]
        <5>1. a \in up[c] \/ c \in up[a]
          BY <2>4, <2>5, AncestorsChain
        <5> QED
          BY <1>1, <2>1, <3>2, <4>1, <5>1
      <4>3. a = c
        <5> SUFFICES ASSUME a \in up[j] PROVE FALSE
          BY <2>5, <4>2
        <5>1. up[srcParent[a]] \subseteq up[srcParent[j]]
          BY AboveAncestor
        <5> QED
          BY <1>1, <2>6, <5>1
      <4> QED
        BY <2>1, <2>6, <4>3
    <3> QED
      BY <3>1, <3>2
  <2> QED
    BY <2>2, <2>4, <2>5, <2>6
<1> QED
  BY <1>3, <1>4

----------------------------------------------------------------------------
(* Counting rows by levels.                                                *)

\* rowsUpTo counts what the climb steps over below "top".
LEMMA RowsUpToIs ==
    ASSUME IsTree(srcParent), Numbered(srcParent, srcRow), NEW n \in In(srcParent),
           NEW u \in Ancestors(srcParent)[n] \cup {Root}
    PROVE  rowsUpTo(n, u) = Cardinality({z \in Passed(srcParent, srcRow, n) :
                                            u = Root \/ Precedes(srcParent, srcRow, u, z)})
<1> DEFINE up == Ancestors(srcParent)
           P(x, y) == Precedes(srcParent, srcRow, x, y)
           A == {z \in Passed(srcParent, srcRow, n) : u = Root \/ P(u, z)}
           B == {z \in Nodes : \E y \in up[n] : /\ srcParent[z] = srcParent[y] /\ srcRow[z] <= srcRow[y]
                                                /\ y \notin up[u]}
<1>1. SelfAndAbove = up
  BY SelfAndAboveIsAncestors
<1>2. /\ up[Root] = {} /\ Root \notin Nodes
      /\ \A i \in In(srcParent) : up[i] = {i} \cup up[srcParent[i]] /\ srcRow[i] \in Nat /\ i \in Nodes
                                  /\ srcParent[i] \in In(srcParent) \cup {Root}
  BY AncestorsOfOne, RowsType, NodesAssumption DEF In
<1>3. \A y \in up[n] : y \in In(srcParent)
  BY AncestorsClosed
<1>4. ASSUME NEW z \in A PROVE z \in B
  <2>1. PICK y \in up[n] : srcParent[z] = srcParent[y] /\ srcRow[z] <= srcRow[y] /\ z \in Nodes
    BY DEF Passed
  <2>2. z \in In(srcParent) /\ y \in In(srcParent)
    BY <1>3, PassedIn
  <2>3. ASSUME y \in up[u] PROVE FALSE
    <3>1. u # Root /\ u \in In(srcParent) /\ P(u, z)
      BY <1>2, <1>3, <2>3
    <3>2. y = u \/ P(y, u)
      BY <2>3, <3>1, AncestorFirst
    <3>3. z = y \/ P(z, y)
      BY <1>2, <2>1, <2>2, WalkIs
    <3> QED
      BY <2>2, <3>1, <3>2, <3>3, WalkIs
  <2> QED
    BY <2>1, <2>3
<1>5. ASSUME NEW z \in B PROVE z \in A
  <2>1. PICK y \in up[n] : srcParent[z] = srcParent[y] /\ srcRow[z] <= srcRow[y] /\ z \in Nodes /\ y \notin up[u]
    OBVIOUS
  <2>2. z \in Passed(srcParent, srcRow, n)
    BY <2>1 DEF Passed
  <2>3. ASSUME u # Root PROVE P(u, z)
    <3>1. y \in In(srcParent) /\ u \in up[n] /\ u \in In(srcParent)
      BY <1>3, <2>1, <2>3
    <3>2. u \in up[y]
      BY <2>1, <3>1, AncestorsChain
    <3>3. u \in up[srcParent[y]]
      BY <1>2, <2>1, <3>1, <3>2
    <3> QED
      BY <2>1, <3>3 DEF Precedes
  <2> QED
    BY <2>2, <2>3
<1>6. A = B
  BY <1>4, <1>5
<1> QED
  BY <1>1, <1>6 DEF rowsUpTo

LEMMA RowsUpToChild ==
    ASSUME IsTree(srcParent), Numbered(srcParent, srcRow), NEW e \in In(srcParent), NEW p,
           srcParent[e] = p, NEW u \in Ancestors(srcParent)[p] \cup {Root}
    PROVE  /\ rowsUpTo(e, u) = rowsUpTo(p, u) + srcRow[e] + 1
           /\ rowsUpTo(p, u) \in Nat /\ srcRow[e] \in Nat
<1> DEFINE up == Ancestors(srcParent)
           A(i) == {z \in Nodes : \E y \in up[i] : /\ srcParent[z] = srcParent[y] /\ srcRow[z] <= srcRow[y]
                                                   /\ y \notin up[u]}
           K == {n \in Children(p) : srcRow[n] \in 0 .. srcRow[e]}
<1>1. SelfAndAbove = up
  BY SelfAndAboveIsAncestors
<1>2. /\ up[Root] = {} /\ Root \notin Nodes
      /\ \A i \in In(srcParent) : up[i] = {i} \cup up[srcParent[i]] /\ srcRow[i] \in Nat /\ i \in Nodes
                                  /\ srcParent[i] \in In(srcParent) \cup {Root} /\ i \notin up[srcParent[i]]
                                  /\ up[i] \subseteq In(srcParent)
  BY AncestorsOfOne, RowsType, NodesAssumption, NoCycle, AncestorsClosed DEF In
<1>3. p \in In(srcParent) \cup {Root} /\ e \in Nodes /\ e \notin up[p]
  BY <1>2
<1>4. up[u] \subseteq up[p]
  BY <1>2, <1>3, AncestorsTransitive
<1>5. \A z \in Nodes : srcParent[z] = p => z \in In(srcParent)
  BY <1>3, NodesAssumption DEF In
<1>6. A(e) = K \cup A(p)
  <2>1. up[e] = {e} \cup up[p]
    BY <1>2
  <2>2. K = {z \in Nodes : srcParent[z] = p /\ srcRow[z] <= srcRow[e]}
    BY <1>2, <1>5 DEF Children
  <2> QED
    BY <1>3, <1>4, <2>1, <2>2
<1>7. K \cap A(p) = {}
  <2> SUFFICES ASSUME NEW z \in K, NEW y \in up[p], srcParent[z] = srcParent[y] PROVE FALSE
    OBVIOUS
  <2>1. srcParent[y] = p /\ p \in In(srcParent) /\ y \in In(srcParent)
    BY <1>2, <1>3 DEF Children
  <2> QED
    BY <2>1, NoCycle
<1>8. Cardinality(K) = srcRow[e] + 1
  <2>1. srcRow[e] \in 0 .. rowCount(p) - 1
    <3>1. p \in Nodes \cup {Root} /\ e \in Children(p)
      BY <1>2, <1>3 DEF Children
    <3> QED
      BY <3>1 DEF Numbered, rowCount, Children
  <2>2. srcRow[e] \in Nat /\ 0 \in Nat /\ 0 <= srcRow[e] /\ srcRow[e] < rowCount(p) /\ p \in Nodes \cup {Root}
    BY <1>2, <1>3, <2>1, RowCountType
  <2>3. Cardinality(K) = srcRow[e] - 0 + 1
    BY <2>2, RowsCount
  <2> QED
    BY <2>2, <2>3
<1>9. /\ IsFiniteSet(K) /\ IsFiniteSet(A(p)) /\ Cardinality(K) \in Nat /\ Cardinality(A(p)) \in Nat
  <2>1. K \in SUBSET Nodes /\ A(p) \in SUBSET Nodes
    BY DEF Children
  <2> HIDE DEF K, A
  <2> QED
    BY <2>1, CountType
<1>10. Cardinality(A(e)) = Cardinality(K) + Cardinality(A(p))
  <2>1. Cardinality({}) = 0
    BY FS_EmptySet
  <2> DEFINE Y == A(p)
  <2>2. /\ Cardinality(K \cup Y) = Cardinality(K) + Cardinality(Y) - Cardinality(K \cap Y)
        /\ A(e) = K \cup Y /\ K \cap Y = {} /\ Cardinality(K) \in Nat /\ Cardinality(Y) \in Nat
    <3>1. A(e) = K \cup Y /\ K \cap Y = {} 
      BY <1>6, <1>7
    <3>2. IsFiniteSet(K) /\ IsFiniteSet(Y) /\ Cardinality(K) \in Nat /\ Cardinality(Y) \in Nat
      BY <1>9
    <3> HIDE DEF K, Y
    <3>3. Cardinality(K \cup Y) = Cardinality(K) + Cardinality(Y) - Cardinality(K \cap Y)
      BY <3>2, FS_Union
    <3> QED
      BY <3>1, <3>2, <3>3
  <2> DEFINE X == A(e)
  <2>3. X = K \cup Y /\ K \cap Y = {}
    BY <2>2
  <2>4. /\ Cardinality(K \cup Y) = Cardinality(K) + Cardinality(Y) - Cardinality(K \cap Y)
        /\ Cardinality(K) \in Nat /\ Cardinality(Y) \in Nat
    BY <2>2
  <2>5. Cardinality(X) = Cardinality(K) + Cardinality(Y)
    <3> HIDE DEF K, Y, X
    <3>1. Cardinality(X) = Cardinality(K \cup Y) /\ Cardinality(K \cap Y) = Cardinality({})
      BY <2>3, Zenon
    <3> QED
      BY <2>1, <2>4, <3>1
  <2> QED
    BY <2>5
<1>11. rowsUpTo(e, u) = Cardinality(A(e)) /\ rowsUpTo(p, u) = Cardinality(A(p))
  BY <1>1 DEF rowsUpTo
<1>12. srcRow[e] \in Nat
  BY <1>2
<1> HIDE DEF A, K
<1> QED
  BY <1>8, <1>9, <1>10, <1>11, <1>12

----------------------------------------------------------------------------
(* The row of a new last child.                                            *)

\* newEndRow when e has children: from the first row below e that is mapped.
LEMMA EndWithChildren ==
    ASSUME NEW L, NEW w, NEW c, NEW p, NEW e, NEW j, LastChildAt(L, w, c, p, e, j),
           NEW m, MapsSet(m, w, Lasts(srcParent, srcRow, L) \ {e}), hasChildren(e)
    PROVE  MappedRow(m, firstDeepest[e]) - rowsUpTo(firstDeepest[e], e) = j
<1> DEFINE up == Ancestors(srcParent)
           P(x, y) == Precedes(srcParent, srcRow, x, y)
           d == firstDeepest[e]
           T == Lasts(srcParent, srcRow, L) \ {e}
<1>1. /\ IsTree(srcParent) /\ Numbered(srcParent, srcRow)
      /\ IsListing(srcParent, L) /\ WholeRows(srcParent, L)
      /\ IsList(srcParent, srcRow, w, c, L) /\ j \in 0 .. c - 1 /\ w[j] = e
  BY DEF LastChildAt
<1>2. /\ c \in Nat /\ j \in Nat /\ L \in SUBSET In(srcParent) /\ e \in In(srcParent) /\ e \in L
      /\ srcParent[e] = p
  BY LastChildFacts
<1>3. /\ d \in In(srcParent) /\ e \in up[srcParent[d]]
      /\ \A k \in Nodes : srcParent[k] = srcParent[d] => srcRow[k] <= srcRow[d]
      /\ \A a \in up[d], k \in Nodes :
            e \in up[srcParent[a]] /\ srcParent[k] = srcParent[a] /\ srcRow[k] < srcRow[a]
            => ~hasChildren(k)
  BY <1>1, <1>2, FirstDeepestIs
<1>4. /\ up[Root] = {} /\ Root \notin Nodes
      /\ \A i \in In(srcParent) : up[i] = {i} \cup up[srcParent[i]] /\ i \in Nodes
                                  /\ srcParent[i] \in In(srcParent) \cup {Root} /\ i \notin up[srcParent[i]]
  BY <1>1, AncestorsOfOne, NoCycle, NodesAssumption DEF In
<1>5. e \in up[d] /\ d # e
  BY <1>3, <1>4
<1>6. p \in up[srcParent[d]] \cup {Root}
  <2>1. srcParent[d] \in In(srcParent) \cup {Root}
    BY <1>3, <1>4
  <2> QED
    BY <1>1, <1>2, <1>3, <2>1, AncestorsClosed
<1>7. d \in L
  BY <1>3, <1>6 DEF LastChildAt, Under
<1>8. d \in T
  BY <1>2, <1>3, <1>5, <1>7 DEF Lasts, IsLast, In
<1>9. PICK jd \in 0 .. c - 1 : w[jd] = d
  BY <1>1, <1>7 DEF IsList
<1>10. MappedRow(m, d) = jd
  <2>1. Distinct(w, c)
    BY <1>1, <1>2, ListDistinct
  <2> HIDE DEF d
  <2> QED
    BY <1>8, <1>9, <2>1, MappedRowIs
<1>11. j < jd
  <2>1. P(e, d)
    BY <1>1, <1>3, <1>5, AncestorFirst
  <2> QED
    BY <1>1, <1>2, <1>9, <2>1, ListOrder
<1>12. ASSUME NEW k \in j + 1 .. jd PROVE w[k] \in Passed(srcParent, srcRow, d)
  <2> DEFINE x == w[k]
  <2>1. k \in 0 .. c - 1 /\ j < k /\ (k = jd \/ k < jd)
    BY <1>2, <1>9, <1>11
  <2>2. x \in In(srcParent) /\ P(e, x) /\ (x = d \/ P(x, d))
    BY <1>1, <1>2, <1>9, <2>1, ListOrder
  <2>3. e \in up[x] /\ x # e
    BY <1>1, <1>2, <1>3, <1>5, <2>2, SubtreeConvex, WalkIs
  <2> HIDE DEF x
  <2>4. \A a \in up[d] : a \in Passed(srcParent, srcRow, d)
    BY <1>1, <1>3, <1>4, AncestorsClosed, WalkIs DEF Passed
  <2>5. CASE x \in up[d]
    BY <2>4, <2>5 DEF x
  <2>6. CASE x \notin up[d]
    <3>1. P(x, d) /\ x \notin up[srcParent[d]]
      BY <1>3, <1>4, <2>2, <2>6
    <3>2. PICK a \in up[x], b \in up[d] : srcParent[a] = srcParent[b] /\ srcRow[a] < srcRow[b]
      BY <1>3, <2>2, <3>1, BranchesApart
    <3>3. a \in In(srcParent) /\ b \in In(srcParent) /\ srcRow[a] \in Nat /\ srcRow[b] \in Nat
      BY <1>1, <1>3, <2>2, <3>2, AncestorsClosed, WalkIs
    <3>4. a \notin up[e]
      <4>1. ASSUME a \in up[e] PROVE a \in up[d]
        BY <1>1, <1>3, <1>5, <4>1, AncestorsTransitive
      <4>2. a # b
        BY <3>2, <3>3
      <4> QED
        BY <1>1, <1>3, <3>2, <4>1, <4>2, SiblingsApart
    <3>5. e \in up[srcParent[b]]
      <4>1. e \in up[a]
        BY <1>1, <2>2, <2>3, <3>2, <3>4, AncestorsChain
      <4>2. e # a
        BY <1>2, <1>4, <3>4
      <4> QED
        BY <1>4, <3>2, <3>3, <4>1, <4>2
    <3>6. ~hasChildren(a)
      BY <1>3, <1>4, <3>2, <3>3, <3>5
    <3>7. x = a
      <4>1. ASSUME x # a PROVE FALSE
        <5>1. a \in up[srcParent[x]]
          BY <1>4, <2>2, <3>2, <4>1
        <5>2. PICK z \in up[x] : z \in In(srcParent) /\ srcParent[z] = a
          BY <1>1, <2>2, <3>3, <5>1, BranchBelow
        <5> QED
          BY <3>6, <5>2 DEF hasChildren, Children, In
      <4> QED
        BY <4>1
    <3>8. x \in Passed(srcParent, srcRow, d)
      BY <1>4, <3>2, <3>3, <3>7 DEF Passed
    <3> QED
      BY <3>8 DEF x
  <2> QED
    BY <2>5, <2>6
<1>13. Cardinality({z \in Passed(srcParent, srcRow, d) : P(e, z)}) = jd - j
  <2>1. j \in -1 .. jd - 1 /\ j # -1
    BY <1>2, <1>9, <1>11
  <2>2. Cardinality({z \in Passed(srcParent, srcRow, w[jd]) : j = -1 \/ P(w[j], z)}) = jd - j
    <3> HIDE DEF d
    <3> QED
      BY <1>1, <1>2, <1>9, <1>12, <2>1, CountPassed
  <2>3. {z \in Passed(srcParent, srcRow, w[jd]) : j = -1 \/ P(w[j], z)}
          = {z \in Passed(srcParent, srcRow, d) : P(e, z)}
    BY <1>1, <1>9, <2>1
  <2> QED
    BY <2>2, <2>3
<1>14. rowsUpTo(d, e) = jd - j
  <2>1. e # Root
    BY <1>2, <1>4
  <2>2. rowsUpTo(d, e) = Cardinality({z \in Passed(srcParent, srcRow, d) : e = Root \/ P(e, z)})
    BY <1>1, <1>3, <1>5, RowsUpToIs
  <2>3. {z \in Passed(srcParent, srcRow, d) : e = Root \/ P(e, z)}
          = {z \in Passed(srcParent, srcRow, d) : P(e, z)}
    BY <2>1
  <2> QED
    BY <1>13, <2>2, <2>3
<1> HIDE DEF d
<1>15. jd \in Int /\ j \in Int
  BY <1>2, <1>9
<1>16. MappedRow(m, d) - rowsUpTo(d, e) = j
  BY <1>10, <1>14, <1>15
<1> QED
  BY <1>16 DEF d

\* newEndRow when everything that is mapped comes later.
LEMMA EndAhead ==
    ASSUME NEW L, NEW w, NEW c, NEW p, NEW e, NEW j, LastChildAt(L, w, c, p, e, j),
           \A k \in 0 .. j : w[k] \in Lasts(srcParent, srcRow, L) => w[k] = e
    PROVE  /\ rowCount(p) - 1 + rowsUpTo(p, Root) = j
           /\ p = Root => rowCount(p) - 1 = j
<1> DEFINE S == {z \in Passed(srcParent, srcRow, e) : -1 = -1 \/ Precedes(srcParent, srcRow, w[-1], z)}
           R == {z \in Passed(srcParent, srcRow, e) : Root = Root \/ Precedes(srcParent, srcRow, Root, z)}
<1>1. /\ e \in In(srcParent) /\ srcParent[e] = p /\ srcRow[e] = rowCount(p) - 1 /\ srcRow[e] \in Nat
      /\ j \in Nat /\ IsTree(srcParent) /\ Numbered(srcParent, srcRow) /\ rowCount(p) \in Nat
  <2>1. IsTree(srcParent) /\ Numbered(srcParent, srcRow)
    BY DEF LastChildAt
  <2> QED
    BY <2>1, LastChildFacts, RowCountType
<1>2. Cardinality(S) = j + 1
  <2> DEFINE q == -1
  <2>1. q \in -1 .. j - 1 /\ \A k \in q + 1 .. j : w[k] \in Lasts(srcParent, srcRow, L) => w[k] = e
    BY <1>1
  <2> HIDE DEF q
  <2>2. Cardinality({z \in Passed(srcParent, srcRow, e) :
                           q = -1 \/ Precedes(srcParent, srcRow, w[q], z)}) = j - q
    BY <2>1, ClimbFromEnd
  <2> QED
    BY <1>1, <2>2 DEF q
<1>3. S = R
  OBVIOUS
<1>4. rowsUpTo(e, Root) = Cardinality(R)
  BY <1>1, RowsUpToIs
<1>5. /\ rowsUpTo(e, Root) = rowsUpTo(p, Root) + srcRow[e] + 1
      /\ rowsUpTo(p, Root) \in Nat
  BY <1>1, RowsUpToChild
<1>6. p = Root => rowsUpTo(p, Root) = 0
  <2>1. Ancestors(srcParent)[Root] = {} /\ SelfAndAbove = Ancestors(srcParent)
    BY <1>1, AncestorsOfOne, SelfAndAboveIsAncestors
  <2>2. p = Root => rowsUpTo(p, Root) = Cardinality({})
    BY <2>1 DEF rowsUpTo
  <2> QED
    BY <2>2, FS_EmptySet
<1>7. rowsUpTo(e, Root) = j + 1
  BY <1>2, <1>3, <1>4
<1>8. rowsUpTo(p, Root) + srcRow[e] = j
  BY <1>1, <1>5, <1>7
<1> QED
  BY <1>1, <1>5, <1>6, <1>8

\* newEndRow when everything that is mapped comes earlier.
LEMMA EndBehindAll ==
    ASSUME NEW L, NEW w, NEW c, NEW p, NEW e, NEW j, LastChildAt(L, w, c, p, e, j),
           NEW g \in 0 .. j - 1, w[g] \in Lasts(srcParent, srcRow, L),
           \A k \in g + 1 .. c - 1 : w[k] \in Lasts(srcParent, srcRow, L) => w[k] = e
    PROVE  g + Cardinality(TrailingLeaves(p)) = j
<1> DEFINE up == Ancestors(srcParent)
           P(x, y) == Precedes(srcParent, srcRow, x, y)
<1>1. /\ IsTree(srcParent) /\ Numbered(srcParent, srcRow)
      /\ IsListing(srcParent, L) /\ WholeRows(srcParent, L)
      /\ IsList(srcParent, srcRow, w, c, L) /\ j \in 0 .. c - 1 /\ w[j] = e
      /\ p \in In(srcParent) \cup {Root} /\ Under(srcParent, p) \subseteq L
  BY DEF LastChildAt
<1>2. /\ c \in Nat /\ j \in Nat /\ L \in SUBSET In(srcParent) /\ e \in In(srcParent) /\ e \in L
      /\ srcParent[e] = p /\ \A k \in Lasts(srcParent, srcRow, L) : srcParent[k] = p => k = e
      /\ \A k \in L : srcParent[k] = p => srcRow[k] <= srcRow[e]
  BY LastChildFacts
<1>3. /\ up[Root] = {} /\ Root \notin Nodes
      /\ \A i \in In(srcParent) : up[i] = {i} \cup up[srcParent[i]] /\ i \in Nodes /\ srcRow[i] \in Nat
                                  /\ srcParent[i] \in In(srcParent) \cup {Root} /\ i \notin up[srcParent[i]]
  BY <1>1, AncestorsOfOne, NoCycle, NodesAssumption, RowsType DEF In
<1>4. g \in 0 .. c - 1 /\ w[g] # e /\ w[g] \in In(srcParent)
  <2>1. g \in 0 .. c - 1 /\ g # j
    BY <1>1, <1>2
  <2>2. /\ IsTree(srcParent) /\ Numbered(srcParent, srcRow) /\ L \in SUBSET In(srcParent)
        /\ IsList(srcParent, srcRow, w, c, L)
    BY <1>1, <1>2
  <2>3. \A q, r \in 0 .. c - 1 : (w[q] = w[r] <=> q = r) /\ w[q] \in In(srcParent)
    BY <2>2, ListOrder
  <2> QED
    BY <1>1, <2>1, <2>3
<1>5. \A n \in Nodes : srcParent[n] = p => n \in L
  BY <1>1, <1>2, <1>3 DEF Under, In, WholeRows
\* A parent that is in the list behind row g has its last child mapped behind g.
<1>6. ASSUME NEW n \in L, NEW k \in 0 .. c - 1, w[k] = n, g <= k, srcParent[n] = p, hasChildren(n)
      PROVE  FALSE
  <2>1. PICK t \in Nodes : srcParent[t] = n
    BY <1>6 DEF hasChildren, Children
  <2>2. t \in In(srcParent) /\ n \in In(srcParent) /\ n # Root
    BY <1>2, <1>3, <2>1, NodesAssumption DEF In
  <2>3. t \in L
    <3>1. n \in up[srcParent[t]]
      BY <1>3, <2>1, <2>2
    <3>2. p \in up[srcParent[t]] \cup {Root}
      BY <1>1, <1>3, <1>6, <2>1, <2>2, <3>1, AncestorsClosed
    <3> QED
      BY <1>1, <2>2, <3>2 DEF Under
  <2>4. PICK h \in 0 .. c - 1 : w[h] = t
    BY <1>1, <2>3 DEF IsList
  <2>5. P(n, t)
    BY <1>3, <2>1, <2>2 DEF Precedes
  <2>6. k < h
    BY <1>1, <1>2, <1>6, <2>4, <2>5, ListOrder
  <2>7. PICK l \in h .. c - 1 : /\ w[l] \in Lasts(srcParent, srcRow, L)
                                /\ srcParent[w[l]] = srcParent[w[h]]
    BY <2>4, LastBehind
  <2>8. l \in g + 1 .. c - 1
    BY <1>2, <1>4, <1>6, <2>4, <2>6, <2>7
  <2>9. w[l] = e
    BY <2>7, <2>8
  <2>10. n = p
    BY <1>2, <2>1, <2>4, <2>7, <2>9
  <2> QED
    BY <1>3, <1>6, <2>2, <2>10
<1>7. Cardinality({z \in Passed(srcParent, srcRow, e) : P(w[g], z)}) = j - g
  <2>1. g \in -1 .. j - 1 /\ g # -1
    BY <1>2
  <2>2. \A k \in g + 1 .. j : w[k] \in Lasts(srcParent, srcRow, L) => w[k] = e
    BY <1>1, <1>2
  <2>3. Cardinality({z \in Passed(srcParent, srcRow, e) : g = -1 \/ P(w[g], z)}) = j - g
    BY <2>1, <2>2, ClimbFromEnd
  <2>4. {z \in Passed(srcParent, srcRow, e) : g = -1 \/ P(w[g], z)}
          = {z \in Passed(srcParent, srcRow, e) : P(w[g], z)}
    BY <2>1
  <2> QED
    BY <2>3, <2>4
<1>8. ASSUME NEW z \in Passed(srcParent, srcRow, e), P(w[g], z)
      PROVE  z \in TrailingLeaves(p)
  <2>1. z \in L
    BY <1>1, <1>2, PassedBehind
  <2>2. PICK k \in 0 .. c - 1 : w[k] = z
    BY <1>1, <2>1 DEF IsList
  <2>3. g < k
    BY <1>1, <1>2, <1>4, <1>8, <2>2, ListOrder
  <2>4. PICK l \in k .. c - 1 : /\ w[l] \in Lasts(srcParent, srcRow, L)
                                /\ srcParent[w[l]] = srcParent[w[k]]
    BY LastBehind
  <2>5. l \in g + 1 .. c - 1
    BY <1>2, <1>4, <2>3
  <2>6. w[l] = e
    BY <2>4, <2>5
  <2>7. srcParent[z] = p
    BY <1>2, <2>2, <2>4, <2>6
  <2>8. ASSUME NEW n \in Children(p), srcRow[n] >= srcRow[z], hasChildren(n)
        PROVE  FALSE
    <3>1. n \in L /\ srcParent[n] = p /\ n \in In(srcParent) /\ z \in In(srcParent)
      BY <1>2, <1>5, <2>1, <2>8 DEF Children
    <3>2. PICK h \in 0 .. c - 1 : w[h] = n
      BY <1>1, <3>1 DEF IsList
    <3>3. n = z \/ P(z, n)
      <4>1. srcRow[n] \in Nat /\ srcRow[z] \in Nat
        BY <1>3, <3>1
      <4>2. srcRow[z] = srcRow[n] \/ srcRow[z] < srcRow[n]
        BY <2>8, <4>1
      <4> QED
        BY <1>1, <2>7, <3>1, <4>2, WalkIs
    <3>4. k <= h
      <4>1. \A q, r \in 0 .. c - 1 : (w[q] = w[r] <=> q = r) /\ (P(w[q], w[r]) <=> q < r)
        BY <1>1, <1>2, ListOrder
      <4> QED
        BY <2>2, <3>2, <3>3, <4>1
    <3>5. g <= h
      BY <1>2, <1>4, <2>3, <3>4
    <3> QED
      BY <1>6, <2>8, <3>1, <3>2, <3>5
  <2>9. z \in Children(p)
    BY <1>2, <1>3, <2>1, <2>7 DEF Children
  <2> QED
    BY <2>8, <2>9 DEF TrailingLeaves
<1>9. ASSUME NEW z \in TrailingLeaves(p)
      PROVE  z \in Passed(srcParent, srcRow, e) /\ P(w[g], z)
  <2>1. srcParent[z] = p /\ z \in L /\ z \in In(srcParent)
    BY <1>2, <1>5 DEF TrailingLeaves, Children
  <2>2. z \in Passed(srcParent, srcRow, e)
    BY <1>2, <1>3, <2>1 DEF Passed
  <2>3. z = e \/ P(z, e)
    BY <1>1, <1>2, <2>2, PassedBehind
  <2> DEFINE x == w[g]
  <2>4. x \in In(srcParent) /\ x \in L /\ x # e /\ P(x, e) /\ x \in Lasts(srcParent, srcRow, L)
    BY <1>1, <1>2, <1>4, ListOrder DEF IsList
  <2> HIDE DEF x
  <2>5. x # z
    BY <1>2, <2>1, <2>4
  <2>6. ASSUME P(z, x) PROVE FALSE
    <3>1. p \in up[srcParent[x]] \cup {Root}
      <4>1. CASE p = Root
        BY <4>1
      <4>2. CASE p # Root
        <5>1. p \in In(srcParent) /\ p \in up[e] /\ P(p, z)
          BY <1>1, <1>2, <1>3, <2>1, <4>2, AncestorFirst
        <5>2. P(p, x)
          BY <1>1, <2>1, <2>4, <2>6, <5>1, WalkIs
        <5>3. p \in up[x]
          BY <1>1, <1>2, <2>4, <5>1, <5>2, SubtreeConvex
        <5>4. p # x
          BY <1>1, <2>4, <5>1, <5>2, WalkIs
        <5> QED
          BY <1>3, <2>4, <5>3, <5>4
      <4> QED
        BY <4>1, <4>2
    <3>2. PICK b \in up[x] : b \in In(srcParent) /\ srcParent[b] = p
      BY <1>1, <2>4, <3>1, BranchBelow
    <3>3. srcRow[z] <= srcRow[b]
      <4>1. ASSUME srcRow[b] < srcRow[z] PROVE P(x, z)
        BY <1>3, <2>1, <3>2, <4>1 DEF Precedes
      <4>2. ~P(x, z)
        BY <1>1, <2>1, <2>4, <2>6, WalkIs
      <4> QED
        BY <1>3, <2>1, <3>2, <4>1, <4>2
    <3>4. ~hasChildren(b)
      BY <1>3, <2>1, <3>2, <3>3 DEF TrailingLeaves, Children
    <3>5. x = b
      <4>1. ASSUME x # b PROVE FALSE
        <5>1. b \in up[srcParent[x]]
          BY <1>3, <2>4, <3>2, <4>1
        <5>2. PICK t \in up[x] : t \in In(srcParent) /\ srcParent[t] = b
          BY <1>1, <2>4, <3>2, <5>1, BranchBelow
        <5> QED
          BY <3>4, <5>2 DEF hasChildren, Children, In
      <4> QED
        BY <4>1
    <3> QED
      BY <1>2, <2>4, <3>2, <3>5
  <2>7. P(x, z)
    BY <1>1, <2>1, <2>4, <2>5, <2>6, WalkIs
  <2> QED
    BY <2>2, <2>7 DEF x
<1>10. TrailingLeaves(p) = {z \in Passed(srcParent, srcRow, e) : P(w[g], z)}
  BY <1>8, <1>9
<1> QED
  BY <1>2, <1>7, <1>10

\* rowBelowAbove, with e = the last child of p in row j and the last mapped row
\* above it in row g.
LEMMA EndBelow ==
    ASSUME NEW L, NEW w, NEW c, NEW p, NEW e, NEW j, LastChildAt(L, w, c, p, e, j),
           NEW g \in 0 .. j - 1, w[g] \in Ancestors(srcParent)[p],
           \A k \in g + 1 .. j : w[k] \in Lasts(srcParent, srcRow, L) => w[k] = e
    PROVE  g + rowsUpTo(p, w[g]) + srcRow[e] + 1 = j
<1> DEFINE P(x, y) == Precedes(srcParent, srcRow, x, y)
           u == w[g]
<1>1. IsTree(srcParent) /\ Numbered(srcParent, srcRow) /\ p \in In(srcParent) \cup {Root}
  BY DEF LastChildAt
<1>2. /\ e \in In(srcParent) /\ srcParent[e] = p /\ srcRow[e] \in Nat /\ j \in Nat
  BY LastChildFacts
<1>3. u \in In(srcParent) /\ u # Root /\ u \in Ancestors(srcParent)[e]
  BY <1>1, <1>2, AncestorsClosed, AncestorsOfOne, NodesAssumption DEF In
<1>4. Cardinality({z \in Passed(srcParent, srcRow, e) : g = -1 \/ P(u, z)}) = j - g
  <2>1. g \in -1 .. j - 1
    BY <1>2
  <2> QED
    BY <2>1, ClimbFromEnd
<1>5. {z \in Passed(srcParent, srcRow, e) : g = -1 \/ P(u, z)}
        = {z \in Passed(srcParent, srcRow, e) : u = Root \/ P(u, z)}
  BY <1>2, <1>3
<1>6. rowsUpTo(e, u) = Cardinality({z \in Passed(srcParent, srcRow, e) : u = Root \/ P(u, z)})
  BY <1>1, <1>2, <1>3, RowsUpToIs
<1>7. rowsUpTo(e, u) = rowsUpTo(p, u) + srcRow[e] + 1 /\ rowsUpTo(p, u) \in Nat
  BY <1>1, <1>2, RowsUpToChild
<1>8. rowsUpTo(e, u) = j - g
  BY <1>4, <1>5, <1>6
<1> QED
  BY <1>2, <1>7, <1>8

LEMMA PrevParentIs ==
    ASSUME NEW L, NEW w, NEW c, NEW p, NEW e, NEW j, LastChildAt(L, w, c, p, e, j),
           NEW g \in 0 .. j - 1, w[g] \in Lasts(srcParent, srcRow, L),
           \A k \in g + 1 .. j : w[k] \in Lasts(srcParent, srcRow, L) => w[k] = e,
           NEW m, MapsSet(m, w, Lasts(srcParent, srcRow, L) \ {e}),
           NEW a \in Ancestors(srcParent)[srcParent[w[g]]], NEW b \in Ancestors(srcParent)[e],
           srcParent[a] = srcParent[b], srcRow[a] < srcRow[b]
    PROVE  prevParent(m, p, g) = a
<1> DEFINE up == Ancestors(srcParent)
           P(x, y) == Precedes(srcParent, srcRow, x, y)
           u == w[g]
           T == Lasts(srcParent, srcRow, L) \ {e}
           candidates == {x \in Above(m[g]) : \/ x \in SelfAndAbove[p]
                                              \/ x \notin MappedIndexes(m)
                                              \/ MappedRow(m, x) > g
                                              \/ srcParent[x] = Root}
<1>1. IsTree(srcParent) /\ Numbered(srcParent, srcRow) /\ IsListing(srcParent, L)
      /\ WholeRows(srcParent, L) /\ IsList(srcParent, srcRow, w, c, L) /\ j \in 0 .. c - 1 /\ w[j] = e
      /\ p \in In(srcParent) \cup {Root}
  BY DEF LastChildAt
<1>2. /\ e \in In(srcParent) /\ srcParent[e] = p /\ j \in Nat /\ c \in Nat /\ L \in SUBSET In(srcParent)
      /\ e \in L
  BY LastChildFacts
<1>3. SelfAndAbove = up
  BY SelfAndAboveIsAncestors
<1>4. /\ up[Root] = {} /\ Root \notin Nodes
      /\ \A i \in In(srcParent) : up[i] = {i} \cup up[srcParent[i]] /\ i \in Nodes /\ srcRow[i] \in Nat
                                  /\ srcParent[i] \in In(srcParent) \cup {Root} /\ i \notin up[srcParent[i]]
  BY <1>1, AncestorsOfOne, NoCycle, NodesAssumption, RowsType DEF In
<1>5. g \in 0 .. c - 1 /\ g # j
  BY <1>1, <1>2
<1>6. \A q, r \in 0 .. c - 1 : (w[q] = w[r] <=> q = r) /\ (P(w[q], w[r]) <=> q < r) /\ w[q] \in In(srcParent)
  <2>1. IsTree(srcParent) /\ Numbered(srcParent, srcRow) /\ L \in SUBSET In(srcParent)
        /\ IsList(srcParent, srcRow, w, c, L)
    BY <1>1, <1>2
  <2> QED
    BY <2>1, ListOrder
<1>7. u \in In(srcParent) /\ u # e /\ P(u, e) /\ u \in T
  BY <1>1, <1>2, <1>5, <1>6
<1>8. Distinct(w, c) /\ MapsSet(m, w, T)
  BY <1>1, <1>2, ListDistinct
<1>9. m[g] = u /\ Above(m[g]) = up[srcParent[u]]
  <2>1. m[g] = u
    BY <1>5, <1>7, <1>8, MappedDomain
  <2> QED
    BY <1>3, <1>4, <1>7, <2>1 DEF Above, parent
<1>10. /\ a \in In(srcParent) /\ b \in In(srcParent) /\ a \in up[u] /\ a # b
       /\ srcParent[u] \in In(srcParent) \cup {Root}
  <2>1. srcParent[u] \in In(srcParent) \cup {Root}
    BY <1>4, <1>7
  <2>2. a \in In(srcParent) /\ b \in In(srcParent)
    BY <1>1, <1>2, <2>1, AncestorsClosed
  <2> QED
    BY <1>4, <1>7, <2>1, <2>2
<1>11. a \notin up[e]
  BY <1>1, <1>2, <1>10, SiblingsApart
<1>12. b \in L
  BY <1>1, <1>2, PassedBehind
<1>13. a \in candidates
  <2>1. a \notin T
    BY <1>4, <1>10, <1>12 DEF Lasts, IsLast
  <2> QED
    BY <1>8, <1>9, <2>1, MappedSet
<1>14. ASSUME NEW x \in candidates PROVE x \in up[a]
  <2>1. x \in up[srcParent[u]] /\ x \in In(srcParent)
    BY <1>1, <1>9, <1>10, AncestorsClosed
  <2>2. x \in up[u] /\ x # u
    BY <1>4, <1>7, <2>1
  <2> SUFFICES ASSUME x \notin up[a] PROVE FALSE
    OBVIOUS
  <2>3. a \in up[x] /\ a # x
    <3>1. a \in up[x]
      BY <1>1, <1>10, <2>1, AncestorsChain
    <3> QED
      BY <1>4, <2>1, <3>1
  <2>4. a \in up[srcParent[x]]
    BY <1>4, <2>1, <2>3
  <2>5. x \notin up[e]
    BY <1>1, <1>2, <1>11, <2>3, AncestorsTransitive
  <2>6. x \notin SelfAndAbove[p]
    BY <1>2, <1>3, <1>4, <2>5
  <2>7. srcParent[x] # Root
    BY <1>4, <2>4
  <2>8. x \in L
    <3>1. u \in L
      BY <1>7 DEF Lasts
    <3> QED
      BY <1>1, <2>2, <3>1, PassedBehind
  <2>9. PICK k \in L : /\ srcParent[k] = srcParent[x] /\ IsLast(srcParent, srcRow, L, k)
                       /\ srcRow[x] <= srcRow[k]
    BY <1>1, <1>2, <2>8, LastSiblingExists
  <2>10. PICK h \in 0 .. c - 1 : w[h] = k
    BY <1>1, <2>9 DEF IsList
  <2>11. k \in In(srcParent) /\ a \in up[k] /\ k \in Nodes
    BY <1>4, <2>4, <2>9, <1>2
  <2>12. P(k, e)
    BY <1>2, <1>10, <2>11 DEF Precedes
  <2>13. h < j
    BY <1>1, <1>6, <2>10, <2>12
  <2>14. k = x
    <3>1. ASSUME k # x PROVE FALSE
      <4>1. srcRow[x] < srcRow[k]
        <5>1. srcRow[x] # srcRow[k]
          BY <1>1, <2>1, <2>9, <2>11, <3>1, RowsType
        <5> QED
          BY <1>4, <2>1, <2>9, <2>11, <5>1
      <4>2. P(u, k)
        BY <1>4, <2>2, <2>9, <2>11, <4>1 DEF Precedes
      <4>3. g < h
        BY <1>5, <1>6, <2>10, <4>2
      <4>4. h \in g + 1 .. j
        BY <1>2, <1>5, <2>10, <2>13, <4>3
      <4>5. w[h] = e
        BY <2>9, <2>10, <4>4 DEF Lasts
      <4> QED
        BY <1>1, <1>6, <2>10, <2>13, <4>5
    <3> QED
      BY <3>1
  <2>15. x \in T /\ w[h] = x
    BY <1>4, <1>2, <2>5, <2>8, <2>9, <2>10, <2>14 DEF Lasts
  <2>16. MappedRow(m, x) = h /\ x \in MappedIndexes(m)
    BY <1>8, <2>10, <2>15, MappedRowIs
  <2>17. P(x, u)
    BY <1>1, <1>7, <2>2, AncestorFirst
  <2>18. h < g
    BY <1>5, <1>6, <2>10, <2>15, <2>17
  <2>19. ~(MappedRow(m, x) > g)
    BY <1>5, <2>10, <2>16, <2>18
  <2> QED
    BY <2>6, <2>7, <2>16, <2>19
<1>15. ASSUME NEW x \in candidates, candidates \subseteq up[x] PROVE x = a
  <2>1. x \in In(srcParent)
    BY <1>1, <1>9, <1>10, AncestorsClosed
  <2>2. a \in up[x]
    BY <1>13, <1>15
  <2>3. x \in up[a]
    BY <1>14
  <2> QED
    BY <1>1, <1>10, <2>1, <2>2, <2>3, AncestorsAntisymmetric
<1>16. candidates # {} /\ candidates \subseteq up[a]
  BY <1>13, <1>14
<1>17. (CHOOSE x \in candidates : candidates \subseteq up[x]) = a
  <2> HIDE DEF candidates
  <2> QED
    BY <1>13, <1>15, <1>16
<1>18. prevParent(m, p, g) = IF candidates = {} THEN Root
                             ELSE CHOOSE x \in candidates : candidates \subseteq up[x]
  BY <1>3 DEF prevParent
<1> HIDE DEF candidates
<1> QED
  BY <1>16, <1>17, <1>18

\* newEndRow when the mapped row above e is on another branch, which leaves that of
\* e at a.
LEMMA EndBeside ==
    ASSUME NEW L, NEW w, NEW c, NEW p, NEW e, NEW j, LastChildAt(L, w, c, p, e, j),
           NEW g \in 0 .. j - 1,
           \A k \in g + 1 .. j : w[k] \in Lasts(srcParent, srcRow, L) => w[k] = e,
           NEW a \in Ancestors(srcParent)[srcParent[w[g]]], NEW b \in Ancestors(srcParent)[e],
           srcParent[a] = srcParent[b], srcRow[a] < srcRow[b]
    PROVE  g - srcRow[a] + rowsUpTo(p, srcParent[a]) + srcRow[e] = j
<1> DEFINE up == Ancestors(srcParent)
           P(x, y) == Precedes(srcParent, srcRow, x, y)
           u == w[g]
           t == srcParent[a]
           Z == {z \in Passed(srcParent, srcRow, e) : t = Root \/ P(t, z)}
           B == {z \in Passed(srcParent, srcRow, e) : P(u, z)}
           K == {z \in Children(t) : srcRow[z] \in 0 .. srcRow[a]}
<1>1. IsTree(srcParent) /\ Numbered(srcParent, srcRow) /\ IsListing(srcParent, L)
      /\ WholeRows(srcParent, L) /\ IsList(srcParent, srcRow, w, c, L) /\ j \in 0 .. c - 1 /\ w[j] = e
      /\ p \in In(srcParent) \cup {Root}
  BY DEF LastChildAt
<1>2. /\ e \in In(srcParent) /\ srcParent[e] = p /\ j \in Nat /\ c \in Nat /\ L \in SUBSET In(srcParent)
      /\ e \in L /\ srcRow[e] \in Nat
  BY LastChildFacts
<1>3. /\ up[Root] = {} /\ Root \notin Nodes
      /\ \A i \in In(srcParent) : up[i] = {i} \cup up[srcParent[i]] /\ i \in Nodes /\ srcRow[i] \in Nat
                                  /\ srcParent[i] \in In(srcParent) \cup {Root} /\ i \notin up[srcParent[i]]
  BY <1>1, AncestorsOfOne, NoCycle, NodesAssumption, RowsType DEF In
<1>4. u \in In(srcParent) /\ P(u, e)
  <2>1. g \in 0 .. c - 1 /\ g < j
    BY <1>1, <1>2
  <2> QED
    BY <1>1, <1>2, <2>1, ListOrder
<1>5. /\ a \in In(srcParent) /\ b \in In(srcParent) /\ a \in up[u] /\ a # b /\ a # u
      /\ t \in In(srcParent) \cup {Root} /\ P(a, u)
  <2>1. srcParent[u] \in In(srcParent) \cup {Root}
    BY <1>3, <1>4
  <2>2. a \in In(srcParent) /\ b \in In(srcParent)
    BY <1>1, <1>2, <2>1, AncestorsClosed
  <2>3. P(a, u)
    BY DEF Precedes
  <2> QED
    BY <1>3, <1>4, <2>1, <2>2, <2>3
<1> HIDE DEF u
<1>6. t \in up[p] \cup {Root}
  BY <1>1, <1>2, <1>3, AncestorsClosed
<1>7. t \in up[e] \cup {Root}
  BY <1>2, <1>3, <1>6
<1>8. rowsUpTo(e, t) = Cardinality(Z)
  BY <1>1, <1>2, <1>7, RowsUpToIs
<1>9. rowsUpTo(e, t) = rowsUpTo(p, t) + srcRow[e] + 1 /\ rowsUpTo(p, t) \in Nat
  BY <1>1, <1>2, <1>6, RowsUpToChild
<1>10. Cardinality(B) = j - g
  <2>1. g \in -1 .. j - 1 /\ g # -1
    BY <1>2
  <2>2. Cardinality({z \in Passed(srcParent, srcRow, e) : g = -1 \/ P(w[g], z)}) = j - g
    BY <2>1, ClimbFromEnd
  <2>3. {z \in Passed(srcParent, srcRow, e) : g = -1 \/ P(w[g], z)} = B
    BY <2>1 DEF u
  <2> QED
    BY <2>2, <2>3
<1>11. Cardinality(K) = srcRow[a] + 1
  <2>1. srcRow[a] \in 0 .. rowCount(t) - 1
    <3>1. t \in Nodes \cup {Root} /\ a \in Children(t)
      BY <1>3, <1>5 DEF Children
    <3>2. \A q \in Nodes \cup {Root} : \A n \in Children(q) : srcRow[n] \in 0 .. rowCount(q) - 1
      BY <1>1 DEF Numbered, rowCount, Children
    <3> QED
      BY <3>1, <3>2
  <2>2. srcRow[a] \in Nat /\ 0 \in Nat /\ 0 <= srcRow[a] /\ srcRow[a] < rowCount(t) /\ t \in Nodes \cup {Root}
    BY <1>3, <1>5, <2>1, RowCountType
  <2>3. Cardinality(K) = srcRow[a] - 0 + 1
    BY <1>1, <2>2, RowsCount
  <2> QED
    BY <2>2, <2>3
<1>12. ASSUME NEW z \in K
       PROVE  z \in Z /\ ~P(u, z)
  <2>1. z \in In(srcParent) /\ srcParent[z] = t /\ srcRow[z] \in Nat /\ srcRow[z] <= srcRow[a]
    <3>1. z \in Nodes /\ srcParent[z] = t /\ srcRow[z] <= srcRow[a]
      BY <1>3, <1>5 DEF Children
    <3>2. z \in In(srcParent)
      BY <1>5, <3>1, NodesAssumption DEF In
    <3> QED
      BY <1>3, <3>1, <3>2
  <2>2. z \in Passed(srcParent, srcRow, e)
    BY <1>3, <1>5, <2>1 DEF Passed
  <2>3. t = Root \/ P(t, z)
    BY <1>3, <1>5, <2>1 DEF Precedes
  <2>4. z = a \/ P(z, a)
    <3>1. srcRow[z] = srcRow[a] \/ srcRow[z] < srcRow[a]
      BY <1>3, <1>5, <2>1
    <3> QED
      BY <1>1, <1>5, <2>1, <3>1, WalkIs
  <2>5. ~P(u, z)
    BY <1>1, <1>4, <1>5, <2>1, <2>4, WalkIs
  <2> QED
    BY <2>2, <2>3, <2>5
<1>13. ASSUME NEW z \in B
       PROVE  z \in Z
  <2>1. z \in In(srcParent)
    BY <1>1, <1>2, PassedIn
  <2>2. t = Root \/ P(t, a)
    BY <1>3, <1>5 DEF Precedes
  <2>3. t = Root \/ P(t, z)
    BY <1>1, <1>4, <1>5, <2>1, <2>2, WalkIs
  <2> QED
    BY <2>3
<1>14. ASSUME NEW z \in Z, ~P(u, z)
       PROVE  z \in K
  <2>1. PICK y \in up[e] : srcParent[z] = srcParent[y] /\ srcRow[z] <= srcRow[y] /\ z \in Nodes
    BY DEF Passed
  <2>2. y \in In(srcParent) /\ z \in In(srcParent)
    BY <1>1, <1>2, <2>1, AncestorsClosed, PassedIn
  <2>3. y = b
    <3>1. ASSUME y # b PROVE FALSE
      <4>1. y \in up[b] \/ b \in up[y]
        BY <1>1, <1>2, <2>1, AncestorsChain
      <4>2. CASE y \in up[b]
        <5>1. y \in up[t] /\ t \in In(srcParent) /\ t # Root
          BY <1>3, <1>5, <3>1, <4>2
        <5>2. y = t \/ P(y, t)
          BY <1>1, <5>1, AncestorFirst
        <5>3. z = y \/ P(z, y)
          <6>1. srcRow[z] = srcRow[y] \/ srcRow[z] < srcRow[y]
            BY <1>3, <2>1, <2>2
          <6> QED
            BY <1>1, <2>1, <2>2, <6>1, WalkIs
        <5>4. P(t, z)
          BY <5>1
        <5> QED
          BY <1>1, <2>2, <5>1, <5>2, <5>3, <5>4, WalkIs
      <4>3. CASE b \in up[y]
        <5>1. b \in up[srcParent[y]]
          BY <1>3, <2>2, <3>1, <4>3
        <5>2. b \in up[z]
          BY <1>3, <2>1, <2>2, <5>1
        <5> QED
          BY <1>5, <1>14, <5>2 DEF Precedes
      <4> QED
        BY <4>1, <4>2, <4>3
    <3> QED
      BY <3>1
  <2>4. srcParent[z] = t
    BY <2>1, <2>3
  <2>5. srcRow[z] <= srcRow[a]
    <3>1. ASSUME srcRow[a] < srcRow[z] PROVE P(u, z)
      BY <1>3, <1>5, <2>2, <2>4, <3>1 DEF Precedes
    <3> QED
      BY <1>3, <1>5, <1>14, <2>2, <3>1
  <2> QED
    BY <1>3, <1>5, <2>2, <2>4, <2>5 DEF Children
<1>15. Z = K \cup B /\ K \cap B = {}
  <2>1. Z \subseteq K \cup B
    BY <1>14
  <2>2. K \cup B \subseteq Z
    BY <1>12, <1>13
  <2>3. K \cap B = {}
    BY <1>12
  <2> QED
    BY <2>1, <2>2, <2>3
<1>16. Cardinality(Z) = Cardinality(K) + Cardinality(B)
  <2>1. K \in SUBSET Nodes /\ B \in SUBSET Nodes
    BY DEF Children, Passed
  <2> HIDE DEF K, B, Z
  <2>2. IsFiniteSet(K) /\ IsFiniteSet(B) /\ Cardinality(K) \in Nat /\ Cardinality(B) \in Nat
    BY <2>1, CountType
  <2>3. Cardinality(K \cup B) = Cardinality(K) + Cardinality(B) - Cardinality(K \cap B)
    BY <2>2, FS_Union
  <2>4. Cardinality(Z) = Cardinality(K \cup B) /\ Cardinality(K \cap B) = Cardinality({})
    BY <1>15, Zenon
  <2>5. Cardinality({}) = 0
    BY FS_EmptySet
  <2> QED
    BY <2>2, <2>3, <2>4, <2>5
<1>17. srcRow[a] \in Nat
  BY <1>3, <1>5
<1>18. rowsUpTo(p, t) + srcRow[e] + 1 = srcRow[a] + 1 + (j - g)
  BY <1>8, <1>9, <1>10, <1>11, <1>16
<1>19. rowsUpTo(p, t) \in Nat /\ srcRow[e] \in Nat /\ j \in Nat /\ g \in Nat
  BY <1>2, <1>9
<1> HIDE DEF t
<1>20. g - srcRow[a] + rowsUpTo(p, t) + srcRow[e] = j
  BY <1>17, <1>18, <1>19
<1> QED
  BY <1>20 DEF t

\* The row of the new last child, where everything that the climb can meet is mapped.
LEMMA NewEndRowIs ==
    ASSUME NEW L, NEW w, NEW c, NEW p, NEW e, NEW j, LastChildAt(L, w, c, p, e, j),
           NEW m, MapsSet(m, w, Lasts(srcParent, srcRow, L) \ {e}),
           NEW start \in Nat,
           \A k \in 0 .. c - 1 : k < start <=> k <= j \/ e \in Ancestors(srcParent)[w[k]]
    PROVE  newEndRow(m, p, start) = j
<1> DEFINE up == Ancestors(srcParent)
           T == Lasts(srcParent, srcRow, L) \ {e}
           above == Greatest({r \in DOMAIN m : r < start})
<1>1. IsTree(srcParent) /\ Numbered(srcParent, srcRow) /\ IsListing(srcParent, L)
      /\ WholeRows(srcParent, L) /\ IsList(srcParent, srcRow, w, c, L) /\ j \in 0 .. c - 1 /\ w[j] = e
      /\ p \in In(srcParent) \cup {Root} /\ e = index(rowCount(p) - 1, p)
  BY DEF LastChildAt
<1>2. /\ e \in In(srcParent) /\ srcParent[e] = p /\ j \in Nat /\ c \in Nat /\ L \in SUBSET In(srcParent)
      /\ e \in L /\ srcRow[e] \in Nat /\ srcRow[e] = rowCount(p) - 1 /\ e \in Nodes /\ rowCount(p) \in Nat
  <2>1. e \in In(srcParent)
    BY LastChildFacts
  <2> QED
    BY <2>1, LastChildFacts, RowCountType DEF In
<1>3. IndexRow(index(rowCount(p) - 1, p)) = srcRow[e]
  BY <1>1, <1>2 DEF IndexRow
<1>4. Distinct(w, c) /\ MapsSet(m, w, T)
  BY <1>1, <1>2, ListDistinct
<1>5. DOMAIN m \subseteq 0 .. c - 1
  BY <1>4, MappedDomain
<1>6. \A r \in 0 .. c - 1 : r \in DOMAIN m <=> w[r] \in Lasts(srcParent, srcRow, L) /\ w[r] # e
  BY <1>4, MappedDomain
<1>7. CASE m = EmptyMapping
  <2>1. \A k \in 0 .. c - 1 : w[k] \in Lasts(srcParent, srcRow, L) => w[k] = e
    BY <1>4, <1>7, MappedEmpty
  <2>2. \A k \in 0 .. j : w[k] \in Lasts(srcParent, srcRow, L) => w[k] = e
    BY <1>1, <1>2, <2>1
  <2>3. p = Root
    <3> SUFFICES ASSUME p # Root PROVE FALSE
      OBVIOUS
    <3>1. p \in L /\ p \in In(srcParent)
      BY <1>1, <1>2 DEF IsListing
    <3>2. PICK x \in L : srcParent[x] = srcParent[p] /\ IsLast(srcParent, srcRow, L, x)
      BY <1>1, <1>2, <3>1, LastSiblingExists
    <3>3. PICK k \in 0 .. c - 1 : w[k] = x
      BY <1>1, <3>2 DEF IsList
    <3>4. x = e
      BY <2>1, <3>2, <3>3 DEF Lasts
    <3>5. srcParent[p] = p
      BY <1>2, <3>2, <3>4
    <3>6. p \in Ancestors(srcParent)[p] /\ p \notin Ancestors(srcParent)[srcParent[p]]
      BY <1>1, <3>1, AncestorsOfOne, NoCycle
    <3> QED
      BY <3>5, <3>6
  <2>4. rowCount(p) - 1 = j
    BY <2>2, <2>3, EndAhead
  <2> QED
    BY <1>2, <1>3, <1>7, <2>4 DEF newEndRow
<1>8. CASE m # EmptyMapping /\ hasChildren(e)
  <2>1. newEndRow(m, p, start) = MappedRow(m, firstDeepest[e]) - rowsUpTo(firstDeepest[e], e)
    BY <1>1, <1>8 DEF newEndRow
  <2> QED
    BY <1>8, <2>1, EndWithChildren
<1>9. CASE m # EmptyMapping /\ ~hasChildren(e)
  \* A mapped row before "start" is a row before e.
  <2>1. ASSUME NEW k \in 0 .. c - 1, k \in DOMAIN m
        PROVE  k < start <=> k < j
    <3>1. k # j
      BY <1>1, <1>6, <2>1
    <3>2. e \notin up[w[k]]
      <4> SUFFICES ASSUME e \in up[w[k]] PROVE FALSE
        OBVIOUS
      <4>1. w[k] \in In(srcParent) /\ w[k] # e
        BY <1>2, <1>6, <2>1 DEF Lasts
      <4>2. e \in up[srcParent[w[k]]]
        BY <1>1, <4>1, AncestorsOfOne
      <4>3. \E z \in up[w[k]] : z \in In(srcParent) /\ srcParent[z] = e
        BY <1>1, <1>2, <4>1, <4>2, BranchBelow
      <4> QED
        BY <1>9, <4>3 DEF hasChildren, Children, In
    <3> QED
      BY <1>2, <2>1, <3>1, <3>2
  <2>2. PICK first \in DOMAIN m : TRUE
    BY <1>4, <1>6, <1>9, MappedEmpty, MappedDomain
  <2>3. CASE \A r \in DOMAIN m : r < start
    <3>1. PICK g \in DOMAIN m : \A r \in DOMAIN m : r <= g
      <4>1. DOMAIN m \in SUBSET Nat /\ DOMAIN m # {} /\ \A n \in DOMAIN m : n <= c
        BY <1>2, <1>5, <2>2
      <4> QED
        BY <1>2, <4>1, GreatestExists
    <3>2. Greatest(DOMAIN m) = g
      BY <1>5, <3>1, GreatestOf
    <3>3. g \in 0 .. j - 1 /\ w[g] \in Lasts(srcParent, srcRow, L)
      BY <1>2, <1>5, <1>6, <2>1, <2>3
    <3>4. \A k \in g + 1 .. c - 1 : w[k] \in Lasts(srcParent, srcRow, L) => w[k] = e
      BY <1>2, <1>5, <1>6, <3>1
    <3>5. g + Cardinality(TrailingLeaves(p)) = j
      BY <3>3, <3>4, EndBehindAll
    <3>6. newEndRow(m, p, start) = Greatest(DOMAIN m) + Cardinality(TrailingLeaves(p))
      BY <1>1, <1>9, <2>3 DEF newEndRow
    <3> QED
      BY <3>2, <3>5, <3>6
  <2>4. CASE ~(\A r \in DOMAIN m : r < start) /\ \A r \in DOMAIN m : r >= start
    <3>1. \A k \in 0 .. j : w[k] \in Lasts(srcParent, srcRow, L) => w[k] = e
      BY <1>1, <1>2, <1>6, <2>1, <2>4
    <3>2. rowCount(p) - 1 + rowsUpTo(p, Root) = j
      BY <3>1, EndAhead
    <3>3. newEndRow(m, p, start) = rowCount(p) - 1 + rowsUpTo(p, Root)
      BY <1>1, <1>9, <2>4 DEF newEndRow
    <3> QED
      BY <3>2, <3>3
  <2>5. CASE ~(\A r \in DOMAIN m : r < start) /\ ~(\A r \in DOMAIN m : r >= start)
    <3>1. PICK g \in DOMAIN m : g < start /\ \A r \in DOMAIN m : r < start => r <= g
      <4> DEFINE S == {r \in DOMAIN m : r < start}
      <4>1. S \in SUBSET Nat /\ S # {} /\ \A n \in S : n <= c
        BY <1>2, <1>5, <2>5
      <4>2. PICK g \in S : \A r \in S : r <= g
        <5> HIDE DEF S
        <5> QED
          BY <1>2, <4>1, GreatestExists
      <4> QED
        BY <4>2
    <3>2. above = g
      <4> DEFINE S == {r \in DOMAIN m : r < start}
      <4>1. S \in SUBSET Nat /\ g \in S /\ \A r \in S : r <= g
        BY <1>5, <3>1
      <4>2. Greatest(S) = g
        <5> HIDE DEF S
        <5> QED
          BY <4>1, GreatestOf
      <4> QED
        BY <4>2
    <3>3. g \in 0 .. j - 1 /\ w[g] \in Lasts(srcParent, srcRow, L)
      BY <1>2, <1>5, <1>6, <2>1, <3>1
    <3>4. \A k \in g + 1 .. j : w[k] \in Lasts(srcParent, srcRow, L) => w[k] = e
      <4> SUFFICES ASSUME NEW k \in g + 1 .. j, w[k] \in Lasts(srcParent, srcRow, L), w[k] # e
                   PROVE  FALSE
        OBVIOUS
      <4>1. k \in 0 .. c - 1 /\ k # j
        BY <1>1, <1>2, <3>3
      <4>2. k \in DOMAIN m
        BY <1>6, <4>1
      <4>3. k < start
        BY <1>2, <2>1, <3>3, <4>1, <4>2
      <4> QED
        BY <3>1, <3>3, <4>2, <4>3
    <3>5. newEndRow(m, p, start) = rowBelowAbove(m, p, g)
      BY <1>1, <1>9, <2>5, <3>2 DEF newEndRow
    <3>6. m[g] = w[g] /\ SelfAndAbove = up
      BY <1>4, MappedDomain, SelfAndAboveIsAncestors
    <3>7. CASE w[g] \in up[p]
      <4>1. rowBelowAbove(m, p, g) = g + rowsUpTo(p, w[g]) + srcRow[e] + 1
        BY <1>3, <3>6, <3>7 DEF rowBelowAbove
      <4> QED
        BY <3>3, <3>4, <3>5, <3>7, <4>1, EndBelow
    <3>8. CASE w[g] \notin up[p]
      <4>1. PICK a \in up[srcParent[w[g]]], b \in up[e] :
                    srcParent[a] = srcParent[b] /\ srcRow[a] < srcRow[b]
        BY <3>3, <3>8, BranchOfEnd
      <4>2. prevParent(m, p, g) = a
        BY <3>3, <3>4, <4>1, PrevParentIs
      <4>3. a \in Nodes
        <5>1. w[g] \in In(srcParent)
          BY <1>2, <3>3 DEF Lasts
        <5>2. srcParent[w[g]] \in In(srcParent) \cup {Root}
          BY <1>1, <5>1, AncestorsOfOne
        <5> QED
          BY <1>1, <4>1, <5>2, AncestorsClosed DEF In
      <4>4. rowBelowAbove(m, p, g) = g - srcRow[a] + rowsUpTo(p, srcParent[a]) + srcRow[e]
        BY <1>3, <3>6, <3>8, <4>2, <4>3 DEF rowBelowAbove, parent, IndexRow
      <4> QED
        BY <3>3, <3>4, <3>5, <4>1, <4>4, EndBeside
    <3> QED
      BY <3>7, <3>8
  <2> QED
    BY <2>3, <2>4, <2>5
<1> QED
  BY <1>7, <1>8, <1>9

----------------------------------------------------------------------------
(* Entries of the mapping whose index is gone.                             *)

\* Invalid entries in rows a .. b do not matter once these are erased.
LEMMA EraseInvalidated ==
    ASSUME NEW m, NEW a, NEW b, NEW gone,
           \A r \in DOMAIN m : m[r] \in gone => ~(r < a \/ r > b)
    PROVE  MapErase(Invalidated(m, gone), a, b) = MapErase(m, a, b)
  BY DEF MapErase, Overruns, Invalidated

LEMMA NothingInvalidated ==
    ASSUME NEW v, NEW T, NEW m, MapsSet(m, v, T), NEW gone, T \cap gone = {}
    PROVE  Invalidated(m, gone) = m
  BY DEF MapsSet, Invalidated

----------------------------------------------------------------------------
(* The children that show rows of their own.                               *)

\* NthRow enumerates a finite set of numbers.
LEMMA NthRowEnumerates ==
    ASSUME NEW S \in SUBSET Int, IsFiniteSet(S)
    PROVE  /\ \A k \in 1 .. Cardinality(S) : NthRow(S, k) \in S
           /\ \A j, k \in 1 .. Cardinality(S) : NthRow(S, j) = NthRow(S, k) => j = k
           /\ \A r \in S : \E k \in 1 .. Cardinality(S) : NthRow(S, k) = r
<1> DEFINE upTo(r) == {q \in S : q <= r}
           f == [r \in S |-> Cardinality(upTo(r))]
           N == Cardinality(S)
<1>1. N \in Nat
  BY FS_CardinalityType
<1>2. \A r \in S : IsFiniteSet(upTo(r)) /\ Cardinality(upTo(r)) \in Nat /\ Cardinality(upTo(r)) <= N
  <2> SUFFICES ASSUME NEW r \in S
               PROVE  IsFiniteSet(upTo(r)) /\ Cardinality(upTo(r)) \in Nat /\ Cardinality(upTo(r)) <= N
    OBVIOUS
  <2>1. upTo(r) \subseteq S
    OBVIOUS
  <2> HIDE DEF upTo
  <2> QED
    BY <2>1, FS_Subset, FS_CardinalityType
<1>3. \A r \in S : Cardinality(upTo(r)) # 0
  <2> SUFFICES ASSUME NEW r \in S PROVE Cardinality(upTo(r)) # 0
    OBVIOUS
  <2>1. r \in upTo(r)
    OBVIOUS
  <2> HIDE DEF upTo
  <2> QED
    BY <1>2, <2>1, FS_EmptySet
<1>4. \A q, r \in S : q < r => Cardinality(upTo(q)) < Cardinality(upTo(r))
  <2> SUFFICES ASSUME NEW q \in S, NEW r \in S, q < r
               PROVE  Cardinality(upTo(q)) < Cardinality(upTo(r))
    OBVIOUS
  <2>1. upTo(q) \subseteq upTo(r)
    <3>1. \A z \in S : z \in Int
      OBVIOUS
    <3>2. \A z \in S : z <= q => z <= r
      BY <3>1
    <3> QED
      BY <3>2
  <2>2. r \in upTo(r) /\ r \notin upTo(q)
    OBVIOUS
  <2>3. upTo(q) # upTo(r)
    BY <2>2
  <2> HIDE DEF upTo
  <2> QED
    BY <1>2, <2>1, <2>3, FS_Subset
<1>5. \A q, r \in S : f[q] = f[r] => q = r
  <2> SUFFICES ASSUME NEW q \in S, NEW r \in S, f[q] = f[r], q # r PROVE FALSE
    OBVIOUS
  <2>1. q < r \/ r < q
    OBVIOUS
  <2>2. Cardinality(upTo(q)) = Cardinality(upTo(r))
    OBVIOUS
  <2>3. Cardinality(upTo(q)) \in Nat /\ Cardinality(upTo(r)) \in Nat
    BY <1>2
  <2>4. Cardinality(upTo(q)) < Cardinality(upTo(r)) \/ Cardinality(upTo(r)) < Cardinality(upTo(q))
    BY <1>4, <2>1
  <2> HIDE DEF upTo, f
  <2> QED
    BY <2>2, <2>3, <2>4
<1>6. f \in [S -> 1 .. N]
  <2>1. \A r \in S : Cardinality(upTo(r)) \in 1 .. N
    <3> HIDE DEF upTo, N
    <3> QED
      BY <1>1, <1>2, <1>3
  <2> HIDE DEF upTo, N
  <2> QED
    BY <2>1
<1>7. IsFiniteSet(1 .. N) /\ Cardinality(1 .. N) = N
  BY <1>1, FS_Interval
<1>8. \A k \in 1 .. N : \E r \in S : f[r] = k
  <2> HIDE DEF f, N
  <2>1. f \in Injection(S, 1 .. N)
    BY <1>5, <1>6, Fun_IsInj
  <2>2. f \in Surjection(S, 1 .. N)
    BY <1>7, <2>1, FS_Injection DEF N
  <2> QED
    BY <2>2, Fun_SurjectionProperties
<1>9. \A k \in 1 .. N : NthRow(S, k) \in S /\ f[NthRow(S, k)] = k
  BY <1>8 DEF NthRow
<1>10. \A r \in S : f[r] \in 1 .. N /\ NthRow(S, f[r]) = r
  BY <1>5, <1>6, <1>9
<1> HIDE DEF f
<1> QED
  BY <1>9, <1>10

\* The parents among rows first .. last of p that are expanded.
ExpandedRows(p, first, last) ==
    {x \in RowsIn(srcParent, srcRow, p, first, last) : hasChildren(x) /\ isSourceIndexExpanded(x)}

\* Expandable lists them, each once.
LEMMA ExpandableIs ==
    ASSUME IsTree(srcParent), Numbered(srcParent, srcRow),
           NEW p \in In(srcParent) \cup {Root}, NEW first \in Nat, NEW last \in Nat,
           last < rowCount(p)
    PROVE  /\ Expandable(p, first, last) \in Seq(ExpandedRows(p, first, last))
           /\ \A j, k \in DOMAIN Expandable(p, first, last) :
                 Expandable(p, first, last)[j] = Expandable(p, first, last)[k] => j = k
           /\ \A x \in ExpandedRows(p, first, last) :
                 \E k \in DOMAIN Expandable(p, first, last) : Expandable(p, first, last)[k] = x
<1> DEFINE S == {r \in first .. last : /\ hasChildren(index(r, p))
                                       /\ isSourceIndexExpanded(index(r, p))}
           s == [k \in 1 .. Cardinality(S) |-> index(NthRow(S, k), p)]
           X == ExpandedRows(p, first, last)
<1>1. Expandable(p, first, last) = s
  BY DEF Expandable
<1>2. S \in SUBSET Int /\ IsFiniteSet(S)
  <2>1. S \subseteq first .. last /\ S \in SUBSET Int
    OBVIOUS
  <2>2. IsFiniteSet(first .. last)
    BY FS_Interval
  <2> HIDE DEF S
  <2> QED
    BY <2>1, <2>2, FS_Subset
<1>3. \A r \in first .. last : /\ index(r, p) \in RowsIn(srcParent, srcRow, p, first, last)
                               /\ srcRow[index(r, p)] = r
  <2> SUFFICES ASSUME NEW r \in first .. last
               PROVE  /\ index(r, p) \in RowsIn(srcParent, srcRow, p, first, last)
                      /\ srcRow[index(r, p)] = r
    OBVIOUS
  <2>1. p \in Nodes \cup {Root} /\ r \in 0 .. rowCount(p) - 1
    BY RowCountType DEF In
  <2>2. index(r, p) \in Children(p) /\ srcRow[index(r, p)] = r
    BY <2>1, IndexExists
  <2>3. index(r, p) \in In(srcParent)
    BY <2>2, NodesAssumption DEF Children, In
  <2> QED
    BY <2>2, <2>3 DEF RowsIn, Children
<1>4. \A x \in X : srcRow[x] \in S /\ index(srcRow[x], p) = x
  <2> SUFFICES ASSUME NEW x \in X PROVE srcRow[x] \in S /\ index(srcRow[x], p) = x
    OBVIOUS
  <2>1. x \in In(srcParent) /\ srcParent[x] = p /\ srcRow[x] \in first .. last
    BY DEF RowsIn, ExpandedRows
  <2>2. index(srcRow[x], p) = x
    <3>1. index(srcRow[x], p) \in RowsIn(srcParent, srcRow, p, first, last)
          /\ srcRow[index(srcRow[x], p)] = srcRow[x]
      BY <1>3, <2>1
    <3> QED
      BY <2>1, <3>1, RowsType DEF RowsIn
  <2> QED
    BY <2>1, <2>2 DEF ExpandedRows
<1>5. \A r \in S : index(r, p) \in X /\ srcRow[index(r, p)] = r
  BY <1>3 DEF ExpandedRows
<1> HIDE DEF S, X
<1>6. Cardinality(S) \in Nat
  BY <1>2, FS_CardinalityType
<1>7. s \in Seq(X)
  <2>1. \A k \in 1 .. Cardinality(S) : index(NthRow(S, k), p) \in X
    BY <1>2, <1>5, NthRowEnumerates
  <2> QED
    BY <1>6, <2>1
<1>8. DOMAIN s = 1 .. Cardinality(S)
  OBVIOUS
<1>9. ASSUME NEW j \in DOMAIN s, NEW k \in DOMAIN s, s[j] = s[k] PROVE j = k
  <2>1. NthRow(S, j) \in S /\ NthRow(S, k) \in S
    BY <1>2, <1>8, NthRowEnumerates
  <2>2. NthRow(S, j) = NthRow(S, k)
    BY <1>5, <1>9, <2>1
  <2> QED
    BY <1>2, <1>8, <2>2, NthRowEnumerates
<1>10. ASSUME NEW x \in X PROVE \E k \in DOMAIN s : s[k] = x
  <2>1. PICK k \in 1 .. Cardinality(S) : NthRow(S, k) = srcRow[x]
    BY <1>2, <1>4, NthRowEnumerates
  <2> QED
    BY <1>4, <2>1
<1> HIDE DEF s
<1> QED
  BY <1>1, <1>7, <1>9, <1>10 DEF X

----------------------------------------------------------------------------
(* The invariant of the rows.                                              *)

Listed == ListedIn(srcParent, ExpandedIndexes, QueueOf(m_pendingParents))

WholeList == ListedIn(srcParent, ExpandedIndexes, {})

\* v, with c rows, is the list of L, and the mapping and the row count are those of v.
MapsRowsOf(L, v, c) ==
    /\ IsList(srcParent, srcRow, v, c, L)
    /\ MapsSet(m_mapping, v, Lasts(srcParent, srcRow, L))
    /\ m_rowCount = c

\* A listener's rows and the mapping are those of L.
Follows(L) == MapsRowsOf(L, view, viewCount)

\* The mapping alone is.
MapsRows(L) == \E v : IsRows(v, m_rowCount) /\ MapsRowsOf(L, v, m_rowCount)

Announced == announced[1]

IsAnnounced == announced # <<>>

PendingRows ==
    /\ resume \in {"idle", "layoutRead", "rebuilt", "collapsed"}
    /\ phase = "pending" /\ resume = "idle" => ~m_relayouting
    /\ Apart(srcParent, ExpandedIndexes, m_pendingParents)

ListenerRows ==
    Where \in {"idle", "inserting", "pendingOpen", "relayouting", "moving", "collapsing"}
    => Follows(Listed)

RebuiltRows == Where \in {"layoutRead", "rebuilt", "collapsed"} => MapsRows(Listed)

OpenRows ==
    phase = "pendingOpen" =>
        LET p == Head(m_pendingParents)
        IN  /\ m_pendingParents # <<>> /\ rowCount(p) > 0
            /\ Announced.last = Announced.first + rowCount(p) - 1
            /\ IF p = Root THEN Announced.first = 0
               ELSE Announced.first \in 1 .. viewCount /\ view[Announced.first - 1] = p

\* The announced rows begin where rows first .. of op.parent do in the list v.
BeginsAhead(v, c) ==
    /\ Announced.first \in 0 .. c
    /\ \A r \in 0 .. c - 1 :
          r < Announced.first <=> Ahead(srcParent, srcRow, v[r], op.parent, op.first)

InsertionAnnounced ==
    IsAnnounced => /\ m_insertPair = <<Announced.first, Announced.last>>
                   /\ Announced.last = Announced.first + (op.last - op.first)
                   /\ BeginsAhead(view, viewCount)

InsertingRows ==
    phase = "inserting" => op.first <= RowCounts[op.parent] /\ InsertionAnnounced

InsertedRows ==
    phase = "inserted" =>
        /\ Follows(Listed \ BelowRows(srcParent, srcRow, op.parent, op.first, op.last))
        /\ op.last < RowCounts[op.parent]
        /\ InsertionAnnounced

Removed == RowsIn(srcParent, srcRow, op.parent, op.first, op.last)

ListedBeforeRemoval == ListedIn(srcParent, ExpandedIndexes \cup Removed, {})

RealRemoval == 0 <= Announced.first /\ Announced.first <= Announced.last /\ Announced.last < viewCount

RemovingRows ==
    phase = "removing" =>
        /\ op.last < RowCounts[op.parent]
        /\ Follows(ListedBeforeRemoval)
        /\ m_expandsByDefault => ListedBeforeRemoval = Listed
        /\ IsAnnounced =>
              /\ m_removePair = <<Announced.first, Announced.last>> /\ RealRemoval
              /\ \A r \in 0 .. viewCount - 1 :
                    r \in Announced.first .. Announced.last <=>
                        view[r] \in BelowRows(srcParent, srcRow, op.parent, op.first, op.last)
              /\ BeginsAhead(view, viewCount)
              /\ Under(srcParent, op.parent) \subseteq ListedBeforeRemoval

RemovedRows ==
    phase = "removed" =>
        IF IsAnnounced
        THEN LET a == Announced.first
                 b == Announced.last
                 d == b - a + 1
                 w == CutList(view, viewCount, a, b)
                 T == {n \in Lasts(srcParent, srcRow, Listed) :
                          ~(srcParent[n] = op.parent /\ srcRow[n] + 1 = op.first)}
             IN  /\ m_removePair = <<a, b>> /\ m_rowCount = viewCount /\ RealRemoval
                 /\ DOMAIN view = 0 .. viewCount - 1
                 /\ IsList(srcParent, srcRow, w, viewCount - d, Listed)
                 /\ MapsSet(MapShift(MapErase(m_mapping, a, b), a, -d), w, T)
                 /\ BeginsAhead(w, viewCount - d)
                 /\ Under(srcParent, op.parent) \subseteq Listed
        ELSE Follows(Listed)

InLayout == {"relayouting", "relayouted", "layoutRead", "moving", "moved"}

LayoutRows ==
    /\ m_layoutChangePersistentIndexes = IF Where \in InLayout THEN view ELSE EmptyMapping
    /\ phase = "moving" =>
          op.last < RowCounts[op.parent] /\ op.dest \in 0 .. RowCounts[op.target]
    /\ Where \in {"relayouted", "layoutRead", "moved"} => Holds(view, viewCount, WholeList)
    /\ Where \in {"relayouted", "moved"} =>
          m_rowCount = viewCount /\ (m_mapping = EmptyMapping => viewCount = 0)

CollapsingRows ==
    /\ phase = "collapsing" =>
          /\ op.parent \in Listed /\ op.parent \in ExpandedIndexes /\ RealRemoval
          /\ \A r \in 0 .. viewCount - 1 :
                r \in Announced.first .. Announced.last <=>
                    op.parent \in Ancestors(srcParent)[srcParent[view[r]]]
    /\ Where = "collapsed" =>
          /\ RealRemoval /\ DOMAIN view = 0 .. viewCount - 1
          /\ IsList(srcParent, srcRow, CutList(view, viewCount, Announced.first, Announced.last),
                    viewCount - (Announced.last - Announced.first + 1), WholeList)

RowsInv ==
    /\ Numbered(srcParent, srcRow)
    /\ PendingRows /\ ListenerRows /\ RebuiltRows /\ OpenRows
    /\ InsertingRows /\ InsertedRows /\ RemovingRows /\ RemovedRows
    /\ LayoutRows /\ CollapsingRows

----------------------------------------------------------------------------
(* What the mapping of a list answers.                                     *)

LEMMA VisibleIs ==
    ASSUME IsTree(srcParent), NEW n \in In(srcParent) \cup {Root}
    PROVE  /\ isSourceIndexVisible(n) <=> n = Root \/ Ancestors(srcParent)[srcParent[n]] \subseteq ExpandedIndexes
           /\ n # Root => (isSourceIndexExpanded(n) <=> n \in ExpandedIndexes)
<1>1. SelfAndAbove = Ancestors(srcParent) /\ Ancestors(srcParent)[Root] = {} /\ Root \notin Nodes
  BY SelfAndAboveIsAncestors, AncestorsOfOne, NodesAssumption
<1>2. CASE n = Root
  BY <1>1, <1>2 DEF isSourceIndexVisible, Above, parent
<1>3. CASE n \in In(srcParent)
  <2>1. n \in Nodes /\ n # Root /\ srcParent[n] \in In(srcParent) \cup {Root}
    BY <1>1, <1>3, AncestorsOfOne DEF In
  <2>2. Above(n) = Ancestors(srcParent)[srcParent[n]]
    BY <1>1, <2>1 DEF Above, parent
  <2>3. \A a \in Ancestors(srcParent)[srcParent[n]] : a \in Nodes
    BY <2>1, AncestorsClosed DEF In
  <2> QED
    BY <2>1, <2>2, <2>3 DEF isSourceIndexVisible, ExpandedIndexes
<1> QED
  BY <1>2, <1>3

LEMMA Reads ==
    ASSUME IsTree(srcParent), Numbered(srcParent, srcRow),
           NEW L, IsListing(srcParent, L), WholeRows(srcParent, L),
           NEW v, NEW c, IsList(srcParent, srcRow, v, c, L),
           NEW m, MapsSet(m, v, Lasts(srcParent, srcRow, L))
    PROVE  /\ \A q \in 0 .. c - 1 : mapToSource(m, q) = v[q]
           /\ \A q \in 0 .. c - 1 : isSourceIndexVisible(v[q]) => mapFromSource(m, v[q]) = q
           /\ m = EmptyMapping <=> c = 0
<1>1. MapsLast(srcParent, srcRow, m, v, L)
  BY MapsLastIs
<1>2. \A q \in 0 .. c - 1 : mapToSource(m, q) = v[q]
  BY <1>1, LookupsAgree
<1>3. \A q \in 0 .. c - 1 : isSourceIndexVisible(v[q]) => mapFromSource(m, v[q]) = q
  BY <1>1, LookupsAgree
<1>4. L \in SUBSET In(srcParent) /\ c \in Nat
  BY DEF IsListing, IsList
<1>5. Distinct(v, c)
  BY <1>4, ListDistinct
<1>6. m = EmptyMapping <=> \A r \in 0 .. c - 1 : v[r] \notin Lasts(srcParent, srcRow, L)
  BY <1>5, MappedEmpty
<1>7. ASSUME c # 0 PROVE \E r \in 0 .. c - 1 : v[r] \in Lasts(srcParent, srcRow, L)
  <2>1. v[0] \in L
    BY <1>4, <1>7 DEF IsList
  <2>2. PICK k \in L : IsLast(srcParent, srcRow, L, k)
    BY <1>4, <2>1, LastSiblingExists
  <2>3. PICK r \in 0 .. c - 1 : v[r] = k
    BY <2>2 DEF IsList
  <2> QED
    BY <2>2, <2>3 DEF Lasts
<1>8. c = 0 => m = EmptyMapping
  BY <1>6
<1>9. m = EmptyMapping => c = 0
  BY <1>6, <1>7
<1> QED
  BY <1>2, <1>3, <1>8, <1>9

LEMMA ListedAreVisible ==
    ASSUME IsTree(srcParent), NEW Q, NEW n \in ListedIn(srcParent, ExpandedIndexes, Q)
    PROVE  isSourceIndexVisible(n) /\ n \in In(srcParent)
<1>1. n \in In(srcParent) /\ Ancestors(srcParent)[srcParent[n]] \subseteq ExpandedIndexes
  BY DEF ListedIn
<1> QED
  BY <1>1, VisibleIs

\* The first parent on the list is listed itself, or it is the root and nothing is.
LEMMA HeadListed ==
    ASSUME IsTree(srcParent), NEW s, s \in Seq(Nodes \cup {Root}), s # <<>>,
           Apart(srcParent, ExpandedIndexes, s), isSourceIndexVisible(Head(s))
    PROVE  /\ Head(s) \in In(srcParent) \cup {Root}
           /\ Head(s) = Root => ListedIn(srcParent, ExpandedIndexes, QueueOf(s)) = {}
           /\ Head(s) # Root => Head(s) \in ListedIn(srcParent, ExpandedIndexes, QueueOf(s))
           /\ \A n \in ListedIn(srcParent, ExpandedIndexes, QueueOf(s)) :
                 Head(s) \notin Ancestors(srcParent)[srcParent[n]] \cup {Root}
<1> DEFINE p == Head(s)
           up == Ancestors(srcParent)
<1>1. 1 \in DOMAIN s /\ p = s[1]
  OBVIOUS
<1>2. p \in In(srcParent) \cup {Root} /\ p \in QueueOf(s)
  BY <1>1 DEF Apart, QueueOf
<1>3. p = Root => ListedIn(srcParent, ExpandedIndexes, QueueOf(s)) = {}
  BY <1>2 DEF ListedIn
<1>4. ASSUME p # Root PROVE p \in ListedIn(srcParent, ExpandedIndexes, QueueOf(s))
  <2>1. p \in In(srcParent) /\ up[srcParent[p]] \subseteq ExpandedIndexes
    BY <1>2, <1>4, VisibleIs
  <2>2. p \notin up[srcParent[p]] /\ up[srcParent[p]] \subseteq up[p]
    BY <2>1, NoCycle, AncestorsOfOne
  <2>3. ASSUME NEW k \in DOMAIN s PROVE s[k] \notin up[srcParent[p]] \cup {Root}
    <3>1. CASE k = 1
      BY <1>1, <1>4, <2>2, <3>1
    <3>2. CASE k # 1
      <4>1. s[k] \notin up[s[1]] \cup {Root}
        BY <1>1, <3>2 DEF Apart
      <4> QED
        BY <1>1, <2>2, <4>1
    <3> QED
      BY <3>1, <3>2
  <2> QED
    BY <2>1, <2>3 DEF ListedIn, QueueOf
<1>5. \A n \in ListedIn(srcParent, ExpandedIndexes, QueueOf(s)) : p \notin up[srcParent[n]] \cup {Root}
  BY <1>2 DEF ListedIn
<1> QED
  BY <1>2, <1>3, <1>4, <1>5

----------------------------------------------------------------------------
(* What a step leaves to show of the rows.                                 *)

LEMMA ExpandedKept == UNCHANGED userVars => ExpandedIndexes' = ExpandedIndexes
BY DEF userVars, ExpandedIndexes, isSourceIndexExpanded

\* Before the proxy is done, or after, but not in the middle of a change.
Between == {"idle", "pending", "layoutRead", "rebuilt", "collapsed", "resetting", "reset"}

LEMMA RowsBetween ==
    ASSUME phase' \in Between, Where' # "collapsed",
           Numbered(srcParent, srcRow)', PendingRows', ListenerRows', RebuiltRows', LayoutRows'
    PROVE  RowsInv'
BY DEF RowsInv, OpenRows, InsertingRows, InsertedRows, RemovingRows, RemovedRows,
       CollapsingRows, Between

\* A call is over.
LEMMA RowsAtIdle ==
    ASSUME phase' = "idle", resume' = "idle", m_pendingParents' = <<>>,
           m_layoutChangePersistentIndexes' = EmptyMapping,
           Numbered(srcParent, srcRow)', Follows(WholeList)'
    PROVE  RowsInv'
<1>1. Where' = "idle" /\ phase' \in Between
  BY DEF Where, Between
<1>2. Listed' = WholeList'
  BY NoQueue DEF Listed, WholeList
<1>3. PendingRows'
  BY NoQueue DEF PendingRows
<1>4. ListenerRows'
  BY <1>1, <1>2 DEF ListenerRows
<1>5. RebuiltRows' /\ LayoutRows'
  BY <1>1 DEF RebuiltRows, LayoutRows, InLayout
<1> QED
  BY <1>1, <1>3, <1>4, <1>5, RowsBetween

\* Nothing but pending parents is left of a call.
LEMMA RowsLeft ==
    ASSUME phase' = "pending", resume' = "idle", ~m_relayouting',
           Apart(srcParent, ExpandedIndexes, m_pendingParents)',
           m_layoutChangePersistentIndexes' = EmptyMapping,
           Numbered(srcParent, srcRow)', Follows(Listed)'
    PROVE  RowsInv'
<1>1. Where' = "idle" /\ phase' \in Between
  BY DEF Where, Between
<1>2. PendingRows'
  BY DEF PendingRows
<1>3. ListenerRows'
  BY <1>1 DEF ListenerRows
<1>4. RebuiltRows' /\ LayoutRows'
  BY <1>1 DEF RebuiltRows, LayoutRows, InLayout
<1> QED
  BY <1>1, <1>2, <1>3, <1>4, RowsBetween

\* What the rows are like when nothing is under way.
LEMMA IdleRows ==
    ASSUME BalanceInv, RowsInv, phase = "idle"
    PROVE  /\ resume = "idle" /\ m_pendingParents = <<>> /\ announced = <<>> /\ ~m_relayouting
           /\ m_layoutChangePersistentIndexes = EmptyMapping
           /\ IsTree(srcParent) /\ Numbered(srcParent, srcRow)
           /\ Listed = WholeList /\ Follows(WholeList)
           /\ IsListing(srcParent, WholeList) /\ WholeRows(srcParent, WholeList)
           /\ WholeList \in SUBSET In(srcParent)
<1>1. resume = "idle" /\ m_pendingParents = <<>> /\ announced = <<>> /\ ~m_relayouting
  BY AtIdle
<1>2. IsTree(srcParent) /\ Numbered(srcParent, srcRow)
  BY DEF BalanceInv, RowsInv
<1>3. Where = "idle"
  BY DEF Where
<1>4. m_layoutChangePersistentIndexes = EmptyMapping
  BY <1>3 DEF RowsInv, LayoutRows, InLayout
<1>5. Listed = WholeList
  BY <1>1, NoQueue DEF Listed, WholeList
<1>6. Follows(WholeList)
  BY <1>3, <1>5 DEF RowsInv, ListenerRows
<1>7. IsListing(srcParent, WholeList) /\ WholeRows(srcParent, WholeList)
  BY <1>2, ListedFacts DEF WholeList
<1> QED
  BY <1>1, <1>2, <1>4, <1>5, <1>6, <1>7 DEF IsListing

----------------------------------------------------------------------------
(* A listener applies a signal.                                            *)

LEMMA OneIs ==
    ASSUME NEW kind, One(kind)
    PROVE  announced # <<>> /\ Len(announced) = 1 /\ announced[1].kind = kind
<1>1. announced # <<>>
  BY DEF One
<1> QED
  BY <1>1 DEF One

LEMMA InsertedView ==
    ASSUME announced \in Seq(Announcements), One("insert"), NEW m, EndInsertRows(m), viewCount \in Nat, DOMAIN view = 0 .. viewCount - 1,
           NEW new, NEW count \in Nat,
           Announced.first \in 0 .. viewCount, Announced.last = Announced.first + count - 1,
           \A k \in 0 .. count - 1 : mapToSource(m, Announced.first + k) = new[k]
    PROVE  /\ view' = InsertedList(view, viewCount, Announced.first, new, count)
           /\ viewCount' = viewCount + count
<1> DEFINE a == Announced.first
           b == Announced.last
<1>0. announced # <<>> /\ Len(announced) = 1 /\ announced[1].kind = "insert"
  BY OneIs
<1>1. Closes("insert") /\ announced[Len(announced)] = Announced
  BY <1>0 DEF Closes, Announced
<1>2. a \in Nat /\ b - a + 1 = count /\ b \in Int
  OBVIOUS
<1>3. /\ viewCount' = viewCount + (b - a + 1)
      /\ view' = [r \in 0 .. viewCount + (b - a + 1) - 1 |->
                               IF r < a THEN At(view, r)
                               ELSE IF r <= b THEN mapToSource(m, r)
                               ELSE At(view, r - (b - a + 1))]
  BY <1>1 DEF EndInsertRows
<1>4. /\ viewCount' = viewCount + count
      /\ view' = [r \in 0 .. viewCount + count - 1 |->
                               IF r < a THEN At(view, r)
                               ELSE IF r <= b THEN mapToSource(m, r)
                               ELSE At(view, r - count)]
  BY <1>2, <1>3
<1> HIDE DEF b
<1>5. ASSUME NEW r \in 0 .. viewCount + count - 1
      PROVE  (IF r < a THEN At(view, r) ELSE IF r <= b THEN mapToSource(m, r) ELSE At(view, r - count))
               = (IF r < a THEN view[r] ELSE IF r < a + count THEN new[r - a] ELSE view[r - count])
  <2>1. CASE r < a
    <3>1. r \in DOMAIN view
      BY <2>1
    <3> QED
      BY <2>1, <3>1 DEF At
  <2>2. CASE ~(r < a) /\ r < a + count
    <3>1. r - a \in 0 .. count - 1 /\ a + (r - a) = r /\ r <= b
      BY <1>2, <2>2
    <3>2. mapToSource(m, r) = new[r - a]
      BY <3>1
    <3> QED
      BY <2>2, <3>1, <3>2
  <2>3. CASE ~(r < a + count)
    <3>1. r - count \in DOMAIN view /\ ~(r < a) /\ ~(r <= b)
      BY <1>2, <2>3
    <3> QED
      BY <2>3, <3>1 DEF At
  <2> QED
    BY <2>1, <2>2, <2>3
<1>6. view' = InsertedList(view, viewCount, a, new, count)
  <2>1. view' = [r \in 0 .. viewCount + count - 1 |->
                   IF r < a THEN view[r] ELSE IF r < a + count THEN new[r - a] ELSE view[r - count]]
    <3> HIDE DEF a
    <3> QED
      BY <1>4, <1>5
  <2> QED
    BY <2>1 DEF InsertedList
<1> QED
  BY <1>4, <1>6

LEMMA RemovedView ==
    ASSUME announced \in Seq(Announcements), One("remove"), EndRemoveRows, viewCount \in Nat, DOMAIN view = 0 .. viewCount - 1, RealRemoval,
           Announced.first \in Int, Announced.last \in Int
    PROVE  LET a == Announced.first
               b == Announced.last
           IN  view' = CutList(view, viewCount, a, b) /\ viewCount' = viewCount - (b - a + 1)
<1> DEFINE a == Announced.first
           b == Announced.last
<1>0. announced # <<>> /\ Len(announced) = 1 /\ announced[1].kind = "remove"
  BY OneIs
<1>1. Closes("remove") /\ announced[Len(announced)] = Announced
  BY <1>0 DEF Closes, Announced
<1>2. 0 <= a /\ a <= b /\ b < viewCount /\ a \in Int /\ b \in Int
  BY DEF RealRemoval
<1>3. /\ viewCount' = viewCount - (b - a + 1)
      /\ view' = [r \in 0 .. viewCount - (b - a + 1) - 1 |->
                               IF r < a THEN At(view, r) ELSE At(view, r + (b - a + 1))]
  BY <1>1 DEF EndRemoveRows
<1> HIDE DEF a, b
<1>4. ASSUME NEW r \in 0 .. viewCount - (b - a + 1) - 1
      PROVE  (IF r < a THEN At(view, r) ELSE At(view, r + (b - a + 1)))
               = (IF r < a THEN view[r] ELSE view[r + (b - a + 1)])
  <2>1. r \in DOMAIN view /\ r + (b - a + 1) \in DOMAIN view
    BY <1>2
  <2> QED
    BY <2>1 DEF At
<1>5. view' = [r \in 0 .. viewCount - (b - a + 1) - 1 |-> IF r < a THEN view[r] ELSE view[r + (b - a + 1)]]
  BY <1>3, <1>4
<1> QED
  BY <1>3, <1>5 DEF CutList, a, b

----------------------------------------------------------------------------
(* The pending parents.                                                    *)

\* While parents are worked off, the mapping is that of the rows listed so far.
LEMMA PendingIs ==
    ASSUME BalanceInv, RowsInv, phase = "pending"
    PROVE  /\ IsTree(srcParent) /\ Numbered(srcParent, srcRow)
           /\ Where = resume /\ resume \in {"idle", "layoutRead", "rebuilt", "collapsed"}
           /\ Apart(srcParent, ExpandedIndexes, m_pendingParents)
           /\ resume = "idle" => Follows(Listed)
           /\ resume # "idle" => MapsRows(Listed)
           /\ \E v : MapsRowsOf(Listed, v, m_rowCount)
           /\ Listed \in SUBSET In(srcParent)
           /\ IsListing(srcParent, Listed) /\ WholeRows(srcParent, Listed)
<1>1. IsTree(srcParent) /\ Numbered(srcParent, srcRow)
  BY DEF BalanceInv, RowsInv
<1>2. /\ Where = resume /\ resume \in {"idle", "layoutRead", "rebuilt", "collapsed"}
      /\ Apart(srcParent, ExpandedIndexes, m_pendingParents)
  BY DEF RowsInv, PendingRows, Where
<1>3. resume = "idle" => Follows(Listed)
  BY <1>2 DEF RowsInv, ListenerRows
<1>4. resume # "idle" => MapsRows(Listed)
  BY <1>2 DEF RowsInv, RebuiltRows
<1>5. \E v : MapsRowsOf(Listed, v, m_rowCount)
  <2>1. CASE resume = "idle"
    <3>1. MapsRowsOf(Listed, view, viewCount) /\ m_rowCount = viewCount
      BY <1>3, <2>1 DEF Follows, MapsRowsOf
    <3>2. MapsRowsOf(Listed, view, m_rowCount)
      BY <3>1
    <3> QED
      BY <3>2
  <2>2. CASE resume # "idle"
    BY <1>4, <2>2 DEF MapsRows
  <2> QED
    BY <2>1, <2>2
<1>6. IsListing(srcParent, Listed) /\ WholeRows(srcParent, Listed)
  BY <1>1, ListedFacts DEF Listed
<1> QED
  BY <1>1, <1>2, <1>3, <1>4, <1>5, <1>6 DEF IsListing

\* A parent that is passed hides nothing that would be listed without it.
LEMMA PassedHidesNothing ==
    ASSUME BalanceInv, RowsInv, phase = "pending",
           m_pendingParents \in Seq(Nodes \cup {Root}), m_pendingParents # <<>>,
           Passes(Head(m_pendingParents))
    PROVE  ListedIn(srcParent, ExpandedIndexes, QueueOf(Tail(m_pendingParents))) = Listed
<1> DEFINE s == m_pendingParents
           p == Head(s)
           t == Tail(s)
           up == Ancestors(srcParent)
           M == ListedIn(srcParent, ExpandedIndexes, QueueOf(t))
<1>1. /\ IsTree(srcParent) /\ Numbered(srcParent, srcRow)
      /\ Apart(srcParent, ExpandedIndexes, s) /\ Listed \in SUBSET In(srcParent)
  BY PendingIs
<1>2. /\ 1 \in DOMAIN s /\ p = s[1]
      /\ \A k \in DOMAIN t : k + 1 \in DOMAIN s /\ t[k] = s[k + 1]
      /\ \A k \in DOMAIN s : k # 1 => k - 1 \in DOMAIN t /\ t[k - 1] = s[k]
  OBVIOUS
<1>3. QueueOf(s) = QueueOf(t) \cup {p}
  <2> HIDE DEF s, p, t
  <2>1. \A x \in QueueOf(s) : x \in QueueOf(t) \/ x = p
    BY <1>2 DEF QueueOf
  <2>2. \A x \in QueueOf(t) : x \in QueueOf(s)
    BY <1>2 DEF QueueOf
  <2>3. p \in QueueOf(s)
    BY <1>2 DEF QueueOf
  <2> QED
    BY <2>1, <2>2, <2>3
<1>4. Listed = ListedIn(srcParent, ExpandedIndexes, QueueOf(s))
  BY DEF Listed
<1>5. p \in In(srcParent) \cup {Root}
  BY <1>1, <1>2 DEF Apart
<1> HIDE DEF s, p, t
<1>6. \A n \in Listed : n \in M
  BY <1>3, <1>4 DEF ListedIn
<1>7. ASSUME NEW n \in M PROVE n \in Listed
  <2>1. n \in In(srcParent) /\ up[srcParent[n]] \subseteq ExpandedIndexes
        /\ (up[srcParent[n]] \cup {Root}) \cap QueueOf(t) = {}
    BY DEF ListedIn
  <2>2. SUFFICES ASSUME p \in up[srcParent[n]] \cup {Root} PROVE FALSE
    BY <1>3, <1>4, <2>1 DEF ListedIn
  <2>3. CASE p = Root /\ m_rowCount > 0
    <3>1. Listed = {}
      BY <1>3, <1>4, <2>3 DEF ListedIn
    <3>2. PICK v : MapsRowsOf(Listed, v, m_rowCount)
      BY PendingIs
    <3>3. IsList(srcParent, srcRow, v, m_rowCount, {})
      BY <3>1, <3>2 DEF MapsRowsOf
    <3>4. 0 \in 0 .. m_rowCount - 1
      BY <2>3, <3>3 DEF IsList
    <3> QED
      BY <3>3, <3>4 DEF IsList
  <2>4. CASE ~isSourceIndexVisible(p)
    <3>1. p # Root /\ p \in In(srcParent)
      BY <1>1, <1>5, <2>4, VisibleIs
    <3>2. up[srcParent[p]] \subseteq up[p]
      BY <1>1, <3>1, AncestorsOfOne
    <3>3. srcParent[n] \in In(srcParent) \cup {Root} /\ p \in up[srcParent[n]]
      BY <1>1, <2>1, <2>2, <3>1, AncestorsOfOne
    <3>4. up[p] \subseteq up[srcParent[n]]
      BY <1>1, <3>3, AncestorsTransitive
    <3>5. up[srcParent[p]] \subseteq ExpandedIndexes
      BY <2>1, <3>2, <3>4
    <3> QED
      BY <1>1, <1>5, <2>4, <3>5, VisibleIs
  <2>5. CASE rowCount(p) = 0
    <3>1. PICK b \in up[n] : b \in In(srcParent) /\ srcParent[b] = p
      BY <1>1, <1>5, <2>1, <2>2, BranchBelow
    <3>2. Children(p) = {}
      BY <2>5, RowCountType
    <3> QED
      BY <3>1, <3>2 DEF Children, In
  <2>6. Passes(p)
    BY DEF p, s
  <2> QED
    BY <2>3, <2>4, <2>5, <2>6 DEF Passes
<1>8. M = Listed
  BY <1>6, <1>7
<1> QED
  BY <1>8 DEF t, s

LEMMA SkipPendingRows == TInv /\ BalanceInv /\ RowsInv /\ SkipPending => RowsInv'
<1> SUFFICES ASSUME TInv, BalanceInv, RowsInv, SkipPending PROVE RowsInv'
  OBVIOUS
<1>1. /\ phase = "pending" /\ m_pendingParents # <<>> /\ Passes(Head(m_pendingParents))
      /\ m_pendingParents' = Tail(m_pendingParents)
      /\ UNCHANGED <<srcParent, srcRow, userVars, phase, resume, op, announced, view, viewCount,
                     m_mapping, m_rowCount, m_relayouting, m_layoutChangePersistentIndexes>>
      /\ m_pendingParents \in Seq(Nodes \cup {Root})
  BY DEF SkipPending, srcVars, controlVars, viewVars, RowsKept, LayoutKept, TInv, QueueTypeOK
<1>2. ExpandedIndexes' = ExpandedIndexes
  BY <1>1, ExpandedKept
<1>3. Listed' = Listed
  BY <1>1, <1>2, PassedHidesNothing DEF Listed
<1>4. Apart(srcParent, ExpandedIndexes, m_pendingParents)'
  BY <1>1, <1>2, PendingIs, TailApart
<1>5. Where' = Where /\ Where = resume /\ phase' = "pending" /\ phase' \in Between
  BY <1>1 DEF Where, Between
<1>6. PendingRows'
  BY <1>1, <1>4 DEF RowsInv, PendingRows
<1>7. ListenerRows'
  BY <1>1, <1>3, <1>5 DEF RowsInv, ListenerRows, Follows, MapsRowsOf
<1>8. RebuiltRows'
  BY <1>1, <1>3, <1>5 DEF RowsInv, RebuiltRows, MapsRows, MapsRowsOf
<1>9. WholeList' = WholeList
  BY <1>1, <1>2 DEF WholeList
<1>10. LayoutRows'
  BY <1>1, <1>5, <1>9 DEF RowsInv, LayoutRows, Holds
<1>11. CollapsingRows'
  BY <1>1, <1>5, <1>9 DEF RowsInv, CollapsingRows, RealRemoval, Announced
<1>12. Numbered(srcParent, srcRow)'
  BY <1>1 DEF RowsInv
<1> QED
  BY <1>1, <1>6, <1>7, <1>8, <1>10, <1>11, <1>12
     DEF RowsInv, OpenRows, InsertingRows, InsertedRows, RemovingRows, RemovedRows

----------------------------------------------------------------------------
(* Where the rows of the first pending parent go.                          *)

LEMMA EmptyFindsNothing == mapFromSource(EmptyMapping, Root) = NoRow
<1>1. BlockRows(EmptyMapping, Root) = {}
  BY DEF BlockRows, EmptyMapping
<1> QED
  BY <1>1 DEF mapFromSource

LEMMA StartOfPending ==
    ASSUME IsTree(srcParent), Numbered(srcParent, srcRow),
           m_pendingParents \in Seq(Nodes \cup {Root}), m_pendingParents # <<>>,
           Apart(srcParent, ExpandedIndexes, m_pendingParents),
           ~Passes(Head(m_pendingParents)),
           NEW v, NEW c, MapsRowsOf(Listed, v, c)
    PROVE  LET p == Head(m_pendingParents)
               start == mapFromSource(m_mapping, p) + 1
           IN  /\ start \in 0 .. c
               /\ p = Root => start = 0 /\ c = 0
               /\ p # Root => start \in 1 .. c /\ v[start - 1] = p
               /\ p \in In(srcParent) \cup {Root}
               /\ p # Root => p \in Listed
               /\ \A n \in Listed : p \notin Ancestors(srcParent)[srcParent[n]] \cup {Root}
               /\ rowCount(p) \in Nat \ {0}
<1> DEFINE p == Head(m_pendingParents)
           start == mapFromSource(m_mapping, p) + 1
<1>1. isSourceIndexVisible(p) /\ rowCount(p) # 0
  BY DEF Passes
<1>2. /\ p \in In(srcParent) \cup {Root}
      /\ p = Root => Listed = {}
      /\ p # Root => p \in Listed
      /\ \A n \in Listed : p \notin Ancestors(srcParent)[srcParent[n]] \cup {Root}
  BY <1>1, HeadListed DEF Listed
<1>3. /\ IsList(srcParent, srcRow, v, c, Listed)
      /\ MapsSet(m_mapping, v, Lasts(srcParent, srcRow, Listed))
  BY DEF MapsRowsOf
<1>4. IsListing(srcParent, Listed) /\ WholeRows(srcParent, Listed)
  BY ListedFacts DEF Listed
<1>5. /\ \A q \in 0 .. c - 1 : isSourceIndexVisible(v[q]) => mapFromSource(m_mapping, v[q]) = q
      /\ m_mapping = EmptyMapping <=> c = 0
  BY <1>3, <1>4, Reads
<1>6. c \in Nat
  BY <1>3 DEF IsList
<1>7. CASE p = Root
  <2>1. c = 0
    <3>1. c # 0 => 0 \in 0 .. c - 1
      BY <1>6
    <3> QED
      BY <1>2, <1>3, <1>7, <3>1 DEF IsList
  <2>2. mapFromSource(m_mapping, p) = -1
    BY <1>5, <1>7, <2>1, EmptyFindsNothing DEF NoRow
  <2>3. start = 0
    BY <2>2
  <2> HIDE DEF start, p
  <2> QED
    BY <1>1, <1>2, <1>7, <2>1, <2>3, RowCountType DEF start, p
<1>8. CASE p # Root
  <2>1. PICK q \in 0 .. c - 1 : v[q] = p
    BY <1>2, <1>3, <1>8 DEF IsList
  <2>2. mapFromSource(m_mapping, p) = q
    BY <1>1, <1>5, <2>1
  <2>3. start = q + 1 /\ start \in 1 .. c /\ start - 1 = q /\ start \in 0 .. c
    BY <1>6, <2>2
  <2> HIDE DEF start, p
  <2> QED
    BY <1>1, <1>2, <1>8, <2>1, <2>3, RowCountType DEF start, p
<1> QED
  BY <1>7, <1>8

----------------------------------------------------------------------------
(* The list of pending parents.                                            *)

LEMMA ExpandableApart ==
    ASSUME IsTree(srcParent), Numbered(srcParent, srcRow),
           NEW p \in In(srcParent) \cup {Root}, NEW first \in Nat, NEW last \in Nat,
           last < rowCount(p)
    PROVE  LET s == Expandable(p, first, last)
           IN  /\ s \in Seq(Nodes \cup {Root})
               /\ Apart(srcParent, ExpandedIndexes, s)
               /\ \A x \in QueueOf(s) : x \in RowsIn(srcParent, srcRow, p, first, last)
               /\ \A x \in RowsIn(srcParent, srcRow, p, first, last) :
                     hasChildren(x) /\ x \in ExpandedIndexes => x \in QueueOf(s)
<1> DEFINE s == Expandable(p, first, last)
           X == ExpandedRows(p, first, last)
           up == Ancestors(srcParent)
<1>1. /\ s \in Seq(X)
      /\ \A j, k \in DOMAIN s : s[j] = s[k] => j = k
      /\ \A x \in X : \E k \in DOMAIN s : s[k] = x
  BY ExpandableIs
<1>2. \A x \in X : /\ x \in In(srcParent) /\ x \in Nodes /\ x \in ExpandedIndexes
                   /\ srcParent[x] = p /\ x # Root
                   /\ x \in RowsIn(srcParent, srcRow, p, first, last)
  BY NodesAssumption DEF RowsIn, In, ExpandedIndexes, ExpandedRows
<1>3. \A k \in DOMAIN s : s[k] \in X
  BY <1>1
<1>4. \A x \in RowsIn(srcParent, srcRow, p, first, last) :
                     hasChildren(x) /\ x \in ExpandedIndexes => x \in X
  BY DEF ExpandedIndexes, ExpandedRows
<1>5. s \in Seq(Nodes \cup {Root})
  <2> HIDE DEF s
  <2>1. X \subseteq Nodes \cup {Root}
    BY <1>2
  <2> HIDE DEF X
  <2> QED
    BY <1>1, <2>1
<1> HIDE DEF s, X
<1>6. ASSUME NEW j \in DOMAIN s, NEW k \in DOMAIN s, j # k PROVE s[j] \notin up[s[k]] \cup {Root}
  <2>1. s[j] # s[k] /\ s[j] \in X /\ s[k] \in X
    BY <1>1, <1>3, <1>6
  <2>2. up[s[k]] = {s[k]} \cup up[p] /\ s[j] \notin up[p]
    BY <1>2, <2>1, AncestorsOfOne, NoCycle
  <2> QED
    BY <1>2, <2>1, <2>2
<1>7. Apart(srcParent, ExpandedIndexes, s)
  BY <1>2, <1>3, <1>6 DEF Apart
<1>8. \A x \in QueueOf(s) : x \in RowsIn(srcParent, srcRow, p, first, last)
  BY <1>2, <1>3 DEF QueueOf
<1>9. \A x \in X : x \in QueueOf(s)
  BY <1>1 DEF QueueOf
<1> QED
  BY <1>4, <1>5, <1>7, <1>8, <1>9 DEF s

\* The list of pending parents once the first of them has been worked off.
LEMMA QueueAdvances ==
    ASSUME IsTree(srcParent), Numbered(srcParent, srcRow),
           NEW s, s \in Seq(Nodes \cup {Root}), s # <<>>,
           Apart(srcParent, ExpandedIndexes, s), rowCount(Head(s)) > 0
    PROVE  LET e == Expandable(Head(s), 0, rowCount(Head(s)) - 1)
           IN  /\ Tail(s) \o e \in Seq(Nodes \cup {Root})
               /\ Apart(srcParent, ExpandedIndexes, Tail(s) \o e)
               /\ QueueOf(Tail(s) \o e) = QueueOf(Tail(s)) \cup QueueOf(e)
               /\ \A x \in QueueOf(e) : x \in In(srcParent) /\ srcParent[x] = Head(s)
               /\ \A x \in Children(Head(s)) :
                     hasChildren(x) /\ x \in ExpandedIndexes => x \in QueueOf(e)
               /\ QueueOf(s) = QueueOf(Tail(s)) \cup {Head(s)}
               /\ \A y \in QueueOf(Tail(s)) : y \notin Ancestors(srcParent)[Head(s)] \cup {Root}
<1> DEFINE p == Head(s)
           t == Tail(s)
           e == Expandable(p, 0, rowCount(p) - 1)
           up == Ancestors(srcParent)
<1>1. /\ 1 \in DOMAIN s /\ p = s[1] /\ t \in Seq(Nodes \cup {Root})
      /\ \A k \in DOMAIN t : k + 1 \in DOMAIN s /\ t[k] = s[k + 1] /\ k + 1 # 1
      /\ \A k \in DOMAIN s : k # 1 => k - 1 \in DOMAIN t /\ t[k - 1] = s[k]
  OBVIOUS
<1>2. p \in In(srcParent) \cup {Root} /\ rowCount(p) - 1 \in Nat /\ rowCount(p) - 1 < rowCount(p)
  BY <1>1, RowCountType DEF Apart
<1>3. /\ e \in Seq(Nodes \cup {Root})
      /\ Apart(srcParent, ExpandedIndexes, e)
      /\ \A x \in QueueOf(e) : x \in RowsIn(srcParent, srcRow, p, 0, rowCount(p) - 1)
      /\ \A x \in RowsIn(srcParent, srcRow, p, 0, rowCount(p) - 1) :
                     hasChildren(x) /\ x \in ExpandedIndexes => x \in QueueOf(e)
  <2> HIDE DEF p
  <2> QED
    BY <1>2, ExpandableApart
<1>4. Apart(srcParent, ExpandedIndexes, t)
  BY TailApart
<1> HIDE DEF p, t, e
<1>5. \A y \in QueueOf(t) : /\ y \in In(srcParent) /\ p \notin up[y] \cup {Root}
                            /\ y \notin up[p] \cup {Root}
  <2> SUFFICES ASSUME NEW k \in DOMAIN t
               PROVE  t[k] \in In(srcParent) /\ p \notin up[t[k]] \cup {Root} /\ t[k] \notin up[p] \cup {Root}
    BY DEF QueueOf
  <2>1. k + 1 \in DOMAIN s /\ t[k] = s[k + 1] /\ k + 1 # 1
    BY <1>1
  <2> QED
    BY <1>1, <2>1 DEF Apart
<1>6. \A x \in QueueOf(e) : /\ x \in In(srcParent) /\ srcParent[x] = p /\ x # Root
                            /\ up[x] = {x} \cup up[p]
  BY <1>3, AncestorsOfOne, NodesAssumption DEF RowsIn, In
<1>7. ASSUME NEW y \in QueueOf(t), NEW x \in QueueOf(e)
      PROVE  y \notin up[x] \cup {Root} /\ x \notin up[y] \cup {Root}
  <2>1. /\ y \in In(srcParent) /\ p \notin up[y] \cup {Root} /\ y \notin up[p] \cup {Root}
        /\ x \in In(srcParent) /\ srcParent[x] = p /\ up[x] = {x} \cup up[p] /\ x # Root
    BY <1>5, <1>6
  <2>2. x \notin up[y]
    BY <2>1, AncestorsClosed
  <2>3. y \in up[y]
    BY <2>1, AncestorsOfOne
  <2> QED
    BY <2>1, <2>2, <2>3
<1>8. /\ Apart(srcParent, ExpandedIndexes, t \o e)
      /\ QueueOf(t \o e) = QueueOf(t) \cup QueueOf(e)
  <2>1. \A x \in QueueOf(t), y \in QueueOf(e) : x \notin up[y] \cup {Root} /\ y \notin up[x] \cup {Root}
    BY <1>7
  <2>2. t \in Seq(Nodes \cup {Root}) /\ e \in Seq(Nodes \cup {Root})
    BY <1>1, <1>3
  <2>3. Apart(srcParent, ExpandedIndexes, e)
    BY <1>3
  <2> QED
    BY <1>4, <2>1, <2>2, <2>3, ConcatApart
<1>9. t \o e \in Seq(Nodes \cup {Root})
  BY <1>1, <1>3
<1>10. \A x \in Children(p) : hasChildren(x) /\ x \in ExpandedIndexes => x \in QueueOf(e)
  BY <1>2, <1>3, AllRows
<1>11. QueueOf(s) = QueueOf(t) \cup {p}
  <2>1. \A x \in QueueOf(s) : x \in QueueOf(t) \/ x = p
    BY <1>1 DEF QueueOf
  <2>2. \A x \in QueueOf(t) : x \in QueueOf(s)
    BY <1>1 DEF QueueOf
  <2>3. p \in QueueOf(s)
    BY <1>1 DEF QueueOf
  <2> QED
    BY <2>1, <2>2, <2>3
<1> QED
  BY <1>5, <1>6, <1>8, <1>9, <1>10, <1>11 DEF e, t, p

\* What the children of the first pending parent make of a list, and of the mapping.
LEMMA AddedRows ==
    ASSUME IsTree(srcParent), Numbered(srcParent, srcRow),
           m_pendingParents \in Seq(Nodes \cup {Root}), m_pendingParents # <<>>,
           Apart(srcParent, ExpandedIndexes, m_pendingParents),
           ~Passes(Head(m_pendingParents)),
           NEW v, NEW c, MapsRowsOf(Listed, v, c),
           NEW p, p = Head(m_pendingParents), NEW rows, rows = rowCount(p),
           NEW start, start = mapFromSource(m_mapping, p) + 1,
           NEW new, new = [k \in 0 .. rows - 1 |-> index(k, p)],
           NEW L, L = ListedIn(srcParent, ExpandedIndexes,
                               QueueOf(Tail(m_pendingParents) \o Expandable(p, 0, rows - 1)))
    PROVE  /\ IsList(srcParent, srcRow, InsertedList(v, c, start, new, rows), c + rows, L)
           /\ MapsSet(MapInsert(MapShift(m_mapping, start, rows), index(rows - 1, p),
                                start + rows - 1),
                      InsertedList(v, c, start, new, rows), Lasts(srcParent, srcRow, L))
<1> DEFINE up == Ancestors(srcParent)
           w == InsertedList(v, c, start, new, rows)
           e == index(rows - 1, p)
<1>1. /\ start \in 0 .. c
      /\ p = Root => start = 0 /\ c = 0
      /\ p # Root => start \in 1 .. c /\ v[start - 1] = p
      /\ p \in In(srcParent) \cup {Root}
      /\ p # Root => p \in Listed
      /\ \A n \in Listed : p \notin up[srcParent[n]] \cup {Root}
      /\ rows \in Nat \ {0}
  <2>1. LET q == Head(m_pendingParents)
               st == mapFromSource(m_mapping, q) + 1
           IN  /\ st \in 0 .. c
               /\ q = Root => st = 0 /\ c = 0
               /\ q # Root => st \in 1 .. c /\ v[st - 1] = q
               /\ q \in In(srcParent) \cup {Root}
               /\ q # Root => q \in Listed
               /\ \A n \in Listed : q \notin Ancestors(srcParent)[srcParent[n]] \cup {Root}
               /\ rowCount(q) \in Nat \ {0}
    BY StartOfPending
  <2> QED
    BY <2>1
<1>2. /\ IsList(srcParent, srcRow, v, c, Listed)
      /\ MapsSet(m_mapping, v, Lasts(srcParent, srcRow, Listed))
      /\ Listed \in SUBSET In(srcParent)
      /\ IsListing(srcParent, Listed) /\ WholeRows(srcParent, Listed)
  BY ListedFacts DEF MapsRowsOf, IsListing, Listed
<1>3. L = Listed \cup Children(p)
  <2> DEFINE s == m_pendingParents
             ee == Expandable(p, 0, rows - 1)
  <2>1. /\ QueueOf(Tail(s) \o ee) = QueueOf(Tail(s)) \cup QueueOf(ee)
        /\ \A x \in QueueOf(ee) : x \in In(srcParent) /\ srcParent[x] = p
        /\ \A x \in Children(p) : hasChildren(x) /\ x \in ExpandedIndexes => x \in QueueOf(ee)
        /\ QueueOf(s) = QueueOf(Tail(s)) \cup {p}
        /\ \A y \in QueueOf(Tail(s)) : y \notin up[p] \cup {Root}
    <3>1. rowCount(Head(s)) > 0
      BY <1>1
    <3> QED
      BY <3>1, QueueAdvances
  <2>2. p # Root => p \in ExpandedIndexes
    <3>1. 1 \in DOMAIN s /\ p = s[1]
      OBVIOUS
    <3> QED
      BY <3>1 DEF Apart
  <2>3. up[p] \subseteq ExpandedIndexes
    <3>1. CASE p = Root
      BY <3>1, AncestorsOfOne
    <3>2. CASE p # Root
      <4>1. up[srcParent[p]] \subseteq ExpandedIndexes /\ up[p] = {p} \cup up[srcParent[p]]
        BY <1>1, <3>2, AncestorsOfOne DEF Listed, ListedIn
      <4> QED
        BY <2>2, <3>2, <4>1
    <3> QED
      BY <3>1, <3>2
  <2>4. Listed = ListedIn(srcParent, ExpandedIndexes, QueueOf(Tail(s)) \cup {p})
    BY <2>1 DEF Listed
  <2> DEFINE Q == QueueOf(Tail(s))
             R == QueueOf(ee)
  <2>5. L = ListedIn(srcParent, ExpandedIndexes, Q \cup R)
    BY <2>1
  <2>6. /\ \A y \in Q : y \notin Ancestors(srcParent)[p] \cup {Root}
        /\ \A x \in R : x \in In(srcParent) /\ srcParent[x] = p
        /\ \A x \in Children(p) : hasChildren(x) /\ x \in ExpandedIndexes => x \in R
        /\ Listed = ListedIn(srcParent, ExpandedIndexes, Q \cup {p})
    BY <2>1, <2>4
  <2> HIDE DEF Q, R
  <2>7. ListedIn(srcParent, ExpandedIndexes, Q \cup R)
          = ListedIn(srcParent, ExpandedIndexes, Q \cup {p}) \cup Children(p)
    BY <1>1, <2>2, <2>3, <2>6, ChildrenListed
  <2> QED
    BY <2>5, <2>6, <2>7
<1>4. /\ IsList(srcParent, srcRow, new, rows, Children(p))
      /\ new[rows - 1] = e
  <2> DEFINE new2 == [k \in 0 .. (rows - 1) - 0 |-> index(0 + k, p)]
  <2>1. /\ 0 \in Nat /\ rows - 1 \in Nat /\ 0 <= rows - 1 /\ rows - 1 < rowCount(p)
    BY <1>1
  <2>2. IsList(srcParent, srcRow, new2, (rows - 1) - 0 + 1, RowsIn(srcParent, srcRow, p, 0, rows - 1))
    BY <1>1, <2>1, ChildList
  <2>3. (rows - 1) - 0 + 1 = rows /\ (rows - 1) - 0 = rows - 1 /\ rows - 1 \in 0 .. rows - 1
    BY <1>1
  <2>4. new2 = new
    <3>1. \A k \in 0 .. rows - 1 : 0 + k = k
      OBVIOUS
    <3> QED
      BY <2>3, <3>1
  <2>5. RowsIn(srcParent, srcRow, p, 0, rows - 1) = Children(p)
    BY <1>1, AllRows
  <2> HIDE DEF new2
  <2>6. IsList(srcParent, srcRow, new, rows, Children(p))
    BY <2>2, <2>3, <2>4, <2>5
  <2> QED
    BY <2>3, <2>6
<1>5. /\ Children(p) \in SUBSET In(srcParent)
      /\ \A x \in Children(p) : srcParent[x] = p
  BY <1>1, NodesAssumption DEF Children, In
<1>6. ASSUME NEW r \in 0 .. c - 1, NEW x \in Children(p)
      PROVE  /\ r < start => Precedes(srcParent, srcRow, v[r], x)
             /\ start <= r => Precedes(srcParent, srcRow, x, v[r])
  <2>1. CASE p = Root
    BY <1>1, <2>1
  <2>2. CASE p # Root
    <3>1. start - 1 \in 0 .. c - 1 /\ v[start - 1] = p /\ p \in In(srcParent) /\ c \in Nat /\ start \in Nat
      BY <1>1, <1>2, <2>2 DEF IsList
    <3>2. v[r] \in In(srcParent) /\ v[r] \in Listed
      BY <1>2 DEF IsList
    <3>3. p \notin Ancestors(srcParent)[srcParent[v[r]]]
      BY <1>1, <3>2
    <3>4. /\ v[r] = p \/ Precedes(srcParent, srcRow, v[r], p) => Precedes(srcParent, srcRow, v[r], x)
          /\ Precedes(srcParent, srcRow, p, v[r]) => Precedes(srcParent, srcRow, x, v[r])
      BY <1>5, <3>1, <3>2, <3>3, AheadOfChildren
    <3>5. r < start => r = start - 1 \/ r < start - 1
      BY <3>1
    <3>6. start <= r => start - 1 < r
      BY <3>1
    <3> DEFINE t == start - 1
    <3>7. /\ r < t => Precedes(srcParent, srcRow, v[r], v[t])
          /\ t < r => Precedes(srcParent, srcRow, v[t], v[r])
      <4>1. t \in 0 .. c - 1
        BY <3>1
      <4> HIDE DEF t
      <4> QED
        BY <1>2, <4>1 DEF IsList
    <3>8. v[t] = p
      BY <3>1
    <3>9. r = t => v[r] = p
      BY <3>8
    <3>10. (r < start => r = t \/ r < t) /\ (start <= r => t < r)
      BY <3>5, <3>6
    <3> HIDE DEF t
    <3> QED
      BY <3>4, <3>7, <3>8, <3>9, <3>10
  <2> QED
    BY <2>1, <2>2
<1>7. IsList(srcParent, srcRow, w, c + rows, L)
  <2>1. \A r \in 0 .. c - 1 : \A x \in Children(p) :
            /\ r < start => Precedes(srcParent, srcRow, v[r], x)
            /\ start <= r => Precedes(srcParent, srcRow, x, v[r])
    BY <1>6
  <2>2. IsList(srcParent, srcRow, w, c + rows, Listed \cup Children(p))
    BY <1>1, <1>2, <1>4, <1>5, <2>1, InsertIntoList
  <2> QED
    BY <1>3, <2>2
<1>8. Lasts(srcParent, srcRow, L) = Lasts(srcParent, srcRow, Listed) \cup {e}
  <2>1. hasChildren(p)
    BY <1>1, RowCountType DEF hasChildren
  <2>2. \A n \in Listed : srcParent[n] # p
    <3> SUFFICES ASSUME NEW n \in Listed, srcParent[n] = p PROVE FALSE
      OBVIOUS
    <3>1. p # Root /\ p \in In(srcParent)
      BY <1>1
    <3>2. p \in up[p]
      BY <3>1, AncestorsOfOne
    <3> QED
      BY <1>1, <3>2
  <2>3. Lasts(srcParent, srcRow, Listed \cup Children(p))
             = Lasts(srcParent, srcRow, Listed) \cup {index(rowCount(p) - 1, p)}
    BY <1>1, <1>2, <2>1, <2>2, LastsWithChildren
  <2> QED
    BY <1>3, <2>3
<1>9. MapsSet(MapShift(m_mapping, start, rows), w, Lasts(srcParent, srcRow, Listed))
  <2>1. \A k \in 0 .. rows - 1 : new[k] \notin Lasts(srcParent, srcRow, Listed)
    <3> SUFFICES ASSUME NEW k \in 0 .. rows - 1, new[k] \in Listed PROVE FALSE
      BY DEF Lasts
    <3>1. new[k] \in Children(p)
      BY <1>4 DEF IsList
    <3>2. srcParent[new[k]] = p
      BY <1>5, <3>1
    <3>3. p \notin up[p] \cup {Root}
      BY <1>1, <3>2
    <3> QED
      BY <1>1, <3>3, AncestorsOfOne
  <2>2. c \in Nat /\ DOMAIN v = 0 .. c - 1 /\ rows \in Nat
    BY <1>1, <1>2 DEF IsList
  <2> DEFINE T == Lasts(srcParent, srcRow, Listed)
  <2>3. MapsSet(m_mapping, v, T) /\ \A k \in 0 .. rows - 1 : new[k] \notin T
    BY <1>2, <2>1
  <2> HIDE DEF T
  <2>4. MapsSet(MapShift(m_mapping, start, rows), InsertedList(v, c, start, new, rows), T)
    BY <1>1, <2>2, <2>3, ShiftForInsertion
  <2> QED
    BY <2>4 DEF T
<1>10. Distinct(w, c + rows)
  <2>1. L \in SUBSET In(srcParent)
    BY <1>2, <1>3, <1>5
  <2> HIDE DEF w
  <2> QED
    BY <1>7, <2>1, ListDistinct
<1>11. start + rows - 1 \in 0 .. (c + rows) - 1 /\ w[start + rows - 1] = e
  <2>1. c \in Nat /\ start \in Nat /\ start <= c /\ rows \in Nat /\ rows > 0
    BY <1>1, <1>2 DEF IsList
  <2>2. /\ start + rows - 1 \in 0 .. c + rows - 1
        /\ ~(start + rows - 1 < start) /\ start + rows - 1 < start + rows
        /\ (start + rows - 1) - start = rows - 1
    BY <2>1
  <2>3. w[start + rows - 1] = new[(start + rows - 1) - start]
    BY <2>2 DEF InsertedList
  <2>4. new[(start + rows - 1) - start] = new[rows - 1]
    BY <2>2
  <2>5. new[rows - 1] = e
    BY <1>4
  <2> HIDE DEF w, e
  <2>6. w[start + rows - 1] = e
    BY <2>3, <2>4, <2>5
  <2>7. start + rows - 1 \in 0 .. (c + rows) - 1
    BY <2>1
  <2> QED
    BY <2>6, <2>7
<1>12. MapsSet(MapInsert(MapShift(m_mapping, start, rows), e, start + rows - 1), w, Lasts(srcParent, srcRow, L))
  <2> DEFINE k == start + rows - 1
             T == Lasts(srcParent, srcRow, Listed)
             m == MapShift(m_mapping, start, rows)
             d == c + rows
  <2>1. Distinct(w, d) /\ MapsSet(m, w, T) /\ k \in 0 .. d - 1 /\ w[k] = e
    BY <1>9, <1>10, <1>11
  <2> HIDE DEF k, T, m, d, w, e
  <2>2. MapsSet(MapInsert(m, w[k], k), w, T \cup {w[k]})
    BY <2>1, AddEntry
  <2>3. MapsSet(MapInsert(m, e, k), w, T \cup {e})
    BY <2>1, <2>2
  <2> QED
    BY <1>8, <2>3 DEF k, T, m
<1> QED
  BY <1>7, <1>12

LEMMA BeginsFirst ==
    ASSUME announced = <<>>, NEW kind, NEW first, NEW last, Begin(kind, first, last)
    PROVE  /\ announced' # <<>> /\ Announced' = [kind |-> kind, first |-> first, last |-> last]
           /\ Announced'.first = first /\ Announced'.last = last
<1>1. announced' = <<[kind |-> kind, first |-> first, last |-> last]>>
  BY DEF Begin
<1> QED
  BY <1>1 DEF Announced

\* A step of the refresh that leaves listeners alone.
LEMMA PendingStep ==
    ASSUME BalanceInv, RowsInv, phase = "pending", phase' = "pending",
           UNCHANGED <<srcParent, srcRow, userVars, resume, op, announced, view, viewCount,
                       m_relayouting, m_layoutChangePersistentIndexes>>,
           Apart(srcParent, ExpandedIndexes, m_pendingParents)',
           resume = "idle" => Follows(Listed)', resume # "idle" => MapsRows(Listed)'
    PROVE  RowsInv'
<1>1. ExpandedIndexes' = ExpandedIndexes
  BY ExpandedKept
<1>2. Where' = Where /\ Where = resume /\ phase' \in Between
      /\ resume \in {"idle", "layoutRead", "rebuilt", "collapsed"}
  BY PendingIs DEF Where, Between
<1>3. PendingRows'
  BY DEF RowsInv, PendingRows
<1>4. ListenerRows' /\ RebuiltRows'
  BY <1>2 DEF ListenerRows, RebuiltRows
<1>5. WholeList' = WholeList
  BY <1>1 DEF WholeList
<1>6. LayoutRows'
  BY <1>2, <1>5 DEF RowsInv, LayoutRows, Holds
<1>7. CollapsingRows'
  BY <1>2, <1>5 DEF RowsInv, CollapsingRows, RealRemoval, Announced
<1>8. Numbered(srcParent, srcRow)'
  BY DEF RowsInv
<1> QED
  BY <1>3, <1>4, <1>6, <1>7, <1>8
     DEF RowsInv, OpenRows, InsertingRows, InsertedRows, RemovingRows, RemovedRows

LEMMA AnnouncePendingRows == TInv /\ BalanceInv /\ RowsInv /\ AnnouncePending => RowsInv'
<1> SUFFICES ASSUME TInv, BalanceInv, RowsInv, AnnouncePending PROVE RowsInv'
  OBVIOUS
<1> DEFINE p == Head(m_pendingParents)
           start == mapFromSource(m_mapping, p) + 1
<1>1. /\ phase = "pending" /\ ~m_relayouting /\ m_pendingParents # <<>> /\ ~Passes(p)
      /\ Begin("insert", start, start + rowCount(p) - 1)
      /\ phase' = "pendingOpen"
      /\ UNCHANGED <<srcParent, srcRow, userVars, resume, op, view, viewCount, m_pendingParents,
                     m_mapping, m_rowCount, m_relayouting, m_layoutChangePersistentIndexes>>
      /\ m_pendingParents \in Seq(Nodes \cup {Root})
  BY DEF AnnouncePending, srcVars, Enters, RowsKept, LayoutKept, PendingKept, TInv, QueueTypeOK
<1>2. resume = "idle"
  BY <1>1 DEF BalanceInv, QueueInv
<1>3. /\ IsTree(srcParent) /\ Numbered(srcParent, srcRow)
      /\ Where = "idle"
      /\ Apart(srcParent, ExpandedIndexes, m_pendingParents)
      /\ MapsRowsOf(Listed, view, viewCount)
  BY <1>1, <1>2, PendingIs DEF Follows
<1>4. announced = <<>>
  BY <1>3 DEF BalanceInv, WhereInv, QuietInv
<1>5. /\ start \in 0 .. viewCount
      /\ p = Root => start = 0 /\ viewCount = 0
      /\ p # Root => start \in 1 .. viewCount /\ view[start - 1] = p
      /\ rowCount(p) \in Nat \ {0}
  BY <1>1, <1>3, StartOfPending
<1>6. /\ Announced'.first = start /\ Announced'.last = start + rowCount(p) - 1
  BY <1>1, <1>4, BeginsFirst
<1>7. ExpandedIndexes' = ExpandedIndexes
  BY <1>1, ExpandedKept
<1>8. Where' = "pendingOpen"
  BY <1>1 DEF Where
<1>9. PendingRows'
  BY <1>1, <1>2, <1>3, <1>7 DEF PendingRows
<1>10. Listed' = Listed
  BY <1>1, <1>7 DEF Listed
<1>11. ListenerRows'
  BY <1>1, <1>3, <1>10 DEF ListenerRows, Follows, MapsRowsOf
<1>12. OpenRows'
  <2>1. p' = p /\ rowCount(p)' = rowCount(p)
    BY <1>1 DEF rowCount, Children
  <2> HIDE DEF start
  <2>2. rowCount(p) > 0
    BY <1>5
  <2>3. /\ m_pendingParents' # <<>> /\ rowCount(Head(m_pendingParents))' > 0
        /\ Announced'.last = Announced'.first + rowCount(Head(m_pendingParents))' - 1
        /\ IF Head(m_pendingParents)' = Root THEN Announced'.first = 0
           ELSE Announced'.first \in 1 .. viewCount' /\ view'[Announced'.first - 1] = Head(m_pendingParents)'
    BY <1>1, <1>5, <1>6, <2>1, <2>2
  <2> QED
    BY <2>3 DEF OpenRows
<1>13. LayoutRows'
  BY <1>1, <1>3, <1>8 DEF RowsInv, LayoutRows, InLayout
<1>14. Numbered(srcParent, srcRow)'
  BY <1>1 DEF RowsInv
<1> QED
  BY <1>1, <1>8, <1>9, <1>11, <1>12, <1>13, <1>14
     DEF RowsInv, RebuiltRows, InsertingRows, InsertedRows, RemovingRows, RemovedRows, CollapsingRows

LEMMA EndPendingRows == TInv /\ BalanceInv /\ RowsInv /\ EndPending => RowsInv'
<1> SUFFICES ASSUME TInv, BalanceInv, RowsInv, EndPending PROVE RowsInv'
  OBVIOUS
<1>1. /\ phase = "pending" /\ m_pendingParents = <<>> /\ ~m_relayouting'
      /\ phase' = resume /\ resume' = "idle"
      /\ UNCHANGED <<srcParent, srcRow, userVars, announced, view, viewCount, m_pendingParents,
                     m_mapping, m_rowCount, m_layoutChangePersistentIndexes>>
  BY DEF EndPending, srcVars, viewVars, RowsKept, PendingKept
<1>2. /\ Where = resume /\ resume \in {"idle", "layoutRead", "rebuilt", "collapsed"}
      /\ Numbered(srcParent, srcRow)
      /\ resume = "idle" => Follows(Listed)
      /\ resume # "idle" => MapsRows(Listed)
  BY <1>1, PendingIs
<1>3. Where' = Where /\ phase' \in Between
  BY <1>1, <1>2 DEF Where, Between
<1>4. ExpandedIndexes' = ExpandedIndexes
  BY <1>1, ExpandedKept
<1>5. Listed' = Listed /\ WholeList' = WholeList
  BY <1>1, <1>4 DEF Listed, WholeList
<1>6. PendingRows'
  BY <1>1, <1>2, NoQueue DEF PendingRows
<1>7. ListenerRows'
  BY <1>1, <1>2, <1>3, <1>5 DEF ListenerRows, Follows, MapsRowsOf
<1>8. RebuiltRows'
  BY <1>1, <1>2, <1>3, <1>5 DEF RebuiltRows, MapsRows, MapsRowsOf
<1>9. LayoutRows'
  BY <1>1, <1>2, <1>3, <1>5 DEF RowsInv, LayoutRows, Holds
<1>10. CollapsingRows'
  BY <1>1, <1>2, <1>3, <1>5 DEF RowsInv, CollapsingRows, RealRemoval, Announced
<1>11. Numbered(srcParent, srcRow)'
  BY <1>1 DEF RowsInv
<1> QED
  BY <1>1, <1>2, <1>6, <1>7, <1>8, <1>9, <1>10, <1>11
     DEF RowsInv, OpenRows, InsertingRows, InsertedRows, RemovingRows, RemovedRows

\* There is something to show, so there is a mapping.
LEMMA QueryFindsMapping == ~EagerListeners /\ TInv /\ BalanceInv /\ RowsInv => ~QueryRowCount
<1> SUFFICES ASSUME ~EagerListeners, TInv, BalanceInv, RowsInv, QueryRowCount PROVE FALSE
  OBVIOUS
<1>1. /\ phase \in {"idle", "inserting", "removing", "collapsing", "pendingOpen"}
      /\ \A k \in DOMAIN m_pendingParents : m_pendingParents[k] # Root
      /\ m_mapping = EmptyMapping /\ hasChildren(Root)
  BY DEF QueryRowCount, Listening, RefusesRowCount
<1>2. IsTree(srcParent) /\ Numbered(srcParent, srcRow)
  BY DEF BalanceInv, RowsInv
<1>3. PICK x \in Children(Root) : TRUE
  BY <1>1 DEF hasChildren
<1>4. x \in In(srcParent) /\ srcParent[x] = Root
  BY NodesAssumption DEF Children, In
<1>5. Ancestors(srcParent)[srcParent[x]] = {}
  BY <1>2, <1>4, AncestorsOfOne
<1>6. ASSUME NEW E, NEW Q, Root \notin Q, MapsRowsOf(ListedIn(srcParent, E, Q), view, viewCount) PROVE FALSE
  <2> DEFINE L == ListedIn(srcParent, E, Q)
  <2>1. x \in L
    BY <1>4, <1>5, <1>6 DEF ListedIn
  <2>2. /\ IsList(srcParent, srcRow, view, viewCount, L)
        /\ MapsSet(m_mapping, view, Lasts(srcParent, srcRow, L))
        /\ IsListing(srcParent, L) /\ WholeRows(srcParent, L)
    BY <1>2, <1>6, ListedFacts DEF MapsRowsOf
  <2> HIDE DEF L
  <2>3. viewCount = 0
    BY <1>1, <1>2, <2>2, Reads
  <2> QED
    BY <2>1, <2>2, <2>3 DEF IsList
<1>7. CASE phase # "removing"
  <2>1. Follows(Listed)
    BY <1>1, <1>7 DEF RowsInv, ListenerRows, Where
  <2>2. Root \notin QueueOf(m_pendingParents)
    BY <1>1 DEF QueueOf
  <2> QED
    BY <1>6, <2>1, <2>2 DEF Follows, Listed
<1>8. CASE phase = "removing"
  <2>1. Follows(ListedBeforeRemoval)
    BY <1>8 DEF RowsInv, RemovingRows
  <2> QED
    BY <1>6, <2>1 DEF Follows, ListedBeforeRemoval
<1> QED
  BY <1>7, <1>8

LEMMA AddPendingRows == TInv /\ BalanceInv /\ RowsInv /\ AddPending => RowsInv'
<1> SUFFICES ASSUME TInv, BalanceInv, RowsInv, AddPending PROVE RowsInv'
  OBVIOUS
<1> DEFINE s == m_pendingParents
           p == Head(s)
           rows == rowCount(p)
           start == mapFromSource(m_mapping, p) + 1
           new == [k \in 0 .. rows - 1 |-> index(k, p)]
           e == Expandable(p, 0, rows - 1)
           L == ListedIn(srcParent, ExpandedIndexes, QueueOf(Tail(s) \o e))
           mapping == MapInsert(MapShift(m_mapping, start, rows), index(rows - 1, p), start + rows - 1)
<1>1. /\ s # <<>> /\ ~Passes(p)
      /\ m_mapping' = mapping
      /\ m_rowCount' = m_rowCount + rows
      /\ m_pendingParents' = Tail(s) \o e
      /\ IF m_relayouting THEN UNCHANGED viewVars ELSE EndInsertRows(mapping)
      /\ phase' = "pending"
      /\ UNCHANGED <<srcParent, srcRow, userVars, resume, op, m_relayouting,
                     m_layoutChangePersistentIndexes>>
  <2>1. s # <<>> /\ ~Passes(p)
    BY Zenon DEF AddPending
  <2>3. /\ phase' = "pending"
        /\ UNCHANGED <<srcParent, srcRow, userVars, resume, op, m_relayouting,
                       m_layoutChangePersistentIndexes>>
    BY DEF AddPending, srcVars, Enters, LayoutKept
  <2>2. m_mapping' = mapping /\ m_rowCount' = m_rowCount + rows
        /\ m_pendingParents' = Tail(s) \o e
        /\ IF m_relayouting THEN UNCHANGED viewVars ELSE EndInsertRows(mapping)
    BY DEF AddPending
  <2> QED
    BY <2>1, <2>2, <2>3
<1>0. s \in Seq(Nodes \cup {Root}) /\ announced \in Seq(Announcements)
  BY DEF TInv, QueueTypeOK, ViewTypeOK
<1>2. /\ IsTree(srcParent) /\ Numbered(srcParent, srcRow)
      /\ Apart(srcParent, ExpandedIndexes, s)
  BY DEF BalanceInv, RowsInv, PendingRows
<1>3. ExpandedIndexes' = ExpandedIndexes
  BY <1>1, ExpandedKept
<1>4. rows > 0
  BY <1>1, RowCountType DEF Passes
<1>5. Apart(srcParent, ExpandedIndexes, m_pendingParents)'
  BY <1>0, <1>1, <1>2, <1>3, <1>4, QueueAdvances
<1>6. Listed' = L
  BY <1>1, <1>3 DEF Listed
<1>7. ASSUME NEW v, NEW c, MapsRowsOf(Listed, v, c)
      PROVE  /\ IsList(srcParent, srcRow, InsertedList(v, c, start, new, rows), c + rows, L)
             /\ MapsSet(mapping, InsertedList(v, c, start, new, rows), Lasts(srcParent, srcRow, L))
             /\ m_rowCount' = c + rows
  <2>1. m_rowCount = c
    BY <1>7 DEF MapsRowsOf
  <2>2. /\ IsList(srcParent, srcRow, InsertedList(v, c, start, new, rows), c + rows, L)
        /\ MapsSet(mapping, InsertedList(v, c, start, new, rows), Lasts(srcParent, srcRow, L))
    BY <1>0, <1>1, <1>2, <1>7, AddedRows
  <2> QED
    BY <1>1, <2>1, <2>2
<1>8. CASE m_relayouting
  <2>1. phase = "pending"
    BY <1>8 DEF BalanceInv, QueueInv, AddPending
  <2>2. resume # "idle"
    BY <1>8, <2>1 DEF RowsInv, PendingRows
  <2>3. PICK v : MapsRowsOf(Listed, v, m_rowCount)
    BY <2>1, PendingIs
  <2> DEFINE w == InsertedList(v, m_rowCount, start, new, rows)
  <2>4. /\ IsList(srcParent, srcRow, w, m_rowCount', L)
        /\ MapsSet(m_mapping', w, Lasts(srcParent, srcRow, L))
    BY <1>1, <1>7, <2>3
  <2>5. IsRows(w, m_rowCount')
    <3>1. m_rowCount \in Int /\ rows \in Int /\ m_rowCount' = m_rowCount + rows
      BY <1>1, RowCountType DEF TInv, RowsTypeOK
    <3> HIDE DEF start, new, rows
    <3> QED
      BY <3>1, InsertedIsFunction
  <2> HIDE DEF w, L
  <2>6. MapsRows(Listed)'
    BY <1>1, <1>6, <2>4, <2>5 DEF MapsRows, MapsRowsOf
  <2>7. UNCHANGED <<announced, view, viewCount>>
    BY <1>1, <1>8 DEF viewVars
  <2> QED
    BY <1>1, <1>5, <2>1, <2>2, <2>6, <2>7, PendingStep
<1>9. CASE ~m_relayouting
  <2>1. phase = "pendingOpen" /\ Where = "pendingOpen"
    BY <1>9 DEF Where, AddPending
  <2>2. resume = "idle"
    BY <2>1 DEF BalanceInv, QueueInv
  <2>3. MapsRowsOf(Listed, view, viewCount)
    BY <2>1 DEF RowsInv, ListenerRows, Follows
  <2>4. One("insert")
    BY <2>1 DEF BalanceInv, WhereInv, PendingInv
  <2>5. /\ Announced.last = Announced.first + rows - 1
        /\ IF p = Root THEN Announced.first = 0
           ELSE Announced.first \in 1 .. viewCount /\ view[Announced.first - 1] = p
    BY <2>1 DEF RowsInv, OpenRows
  <2>6. /\ start \in 0 .. viewCount
        /\ p = Root => start = 0 /\ viewCount = 0
        /\ p # Root => start \in 1 .. viewCount /\ view[start - 1] = p
        /\ rows \in Nat \ {0}
    BY <1>0, <1>1, <1>2, <2>3, StartOfPending
  <2>7. IsList(srcParent, srcRow, view, viewCount, Listed) /\ viewCount \in Nat
        /\ DOMAIN view = 0 .. viewCount - 1 /\ Listed \in SUBSET In(srcParent)
    BY <2>3 DEF MapsRowsOf, IsList, Listed, ListedIn
  <2>8. Announced.first = start
    <3>1. CASE p = Root
      BY <2>5, <2>6, <3>1
    <3>2. CASE p # Root
      <4> DEFINE a == Announced.first
      <4>1. a \in 1 .. viewCount /\ view[a - 1] = p /\ start \in 1 .. viewCount /\ view[start - 1] = p
        BY <2>5, <2>6, <3>2
      <4> HIDE DEF a, start, p
      <4>2. a - 1 \in 0 .. viewCount - 1 /\ start - 1 \in 0 .. viewCount - 1
        BY <2>7, <4>1
      <4>3. \A q, r \in 0 .. viewCount - 1 : view[q] = view[r] <=> q = r
        BY <1>2, <2>7, ListOrder
      <4>4. view[a - 1] = view[start - 1]
        BY <4>1
      <4>5. a - 1 = start - 1
        BY <4>2, <4>3, <4>4
      <4>6. a = start
        BY <4>1, <4>5
      <4> QED
        BY <4>6 DEF a
    <3> QED
      BY <3>1, <3>2
  <2> DEFINE w == InsertedList(view, viewCount, start, new, rows)
  <2>9. /\ IsList(srcParent, srcRow, w, viewCount + rows, L)
        /\ MapsSet(mapping, w, Lasts(srcParent, srcRow, L))
        /\ m_rowCount' = viewCount + rows
    BY <1>7, <2>3
  <2>10. \A k \in 0 .. rows - 1 : mapToSource(mapping, start + k) = new[k]
    <3>1. IsListing(srcParent, L) /\ WholeRows(srcParent, L)
      BY <1>2, ListedFacts
    <3>2. \A q \in 0 .. (viewCount + rows) - 1 : mapToSource(mapping, q) = w[q]
      <4> HIDE DEF L, w, mapping
      <4> QED
        BY <1>2, <2>9, <3>1, Reads
    <3> SUFFICES ASSUME NEW k \in 0 .. rows - 1 PROVE mapToSource(mapping, start + k) = new[k]
      OBVIOUS
    <3> HIDE DEF L, mapping, new, start, rows
    <3>5. viewCount \in Nat /\ start \in 0 .. viewCount /\ rows \in Nat /\ k \in 0 .. rows - 1
      BY <2>6, <2>7
    <3>6. start + k \in 0 .. (viewCount + rows) - 1 /\ w[start + k] = new[k]
      BY <3>5, InsertedRowIs
    <3> HIDE DEF w
    <3> QED
      BY <3>2, <3>6
  <2>11. view' = w /\ viewCount' = viewCount + rows
    <3>1. EndInsertRows(mapping)
      BY <1>1, <1>9
    <3> HIDE DEF mapping, new, start, rows
    <3>2. /\ Announced.first \in 0 .. viewCount /\ Announced.last = Announced.first + rows - 1
          /\ \A k \in 0 .. rows - 1 : mapToSource(mapping, Announced.first + k) = new[k]
      BY <2>5, <2>6, <2>8, <2>10
    <3>3. rows \in Nat
      BY <2>6
    <3>4. /\ view' = InsertedList(view, viewCount, Announced.first, new, rows)
          /\ viewCount' = viewCount + rows
      BY <1>0, <2>4, <2>7, <3>1, <3>2, <3>3, InsertedView
    <3> QED
      BY <2>8, <3>4
  <2>12. Follows(Listed)'
    <3>1. m_mapping' = mapping
      BY <1>1
    <3> HIDE DEF L, w, mapping
    <3> QED
      BY <1>1, <1>6, <2>9, <2>11, <3>1 DEF Follows, MapsRowsOf
  <2>13. m_layoutChangePersistentIndexes' = EmptyMapping
    BY <1>1, <2>1 DEF RowsInv, LayoutRows, InLayout
  <2>14. Numbered(srcParent, srcRow)'
    BY <1>1, <1>2
  <2> QED
    BY <1>1, <1>5, <1>9, <2>2, <2>12, <2>13, <2>14, RowsLeft
<1> QED
  BY <1>8, <1>9

----------------------------------------------------------------------------
(* Resets, and expanding an index.                                         *)

LEMMA AboutToResetRows == BalanceInv /\ RowsInv /\ AboutToReset => RowsInv'
<1> SUFFICES ASSUME BalanceInv, RowsInv, AboutToReset PROVE RowsInv'
  OBVIOUS
<1>1. /\ phase = "idle" /\ phase' = "resetting"
      /\ UNCHANGED <<srcParent, srcRow, resume, m_pendingParents, m_layoutChangePersistentIndexes>>
  BY DEF AboutToReset, Starts, Enters, srcVars, PendingKept
<1>2. /\ resume = "idle" /\ m_pendingParents = <<>> /\ m_layoutChangePersistentIndexes = EmptyMapping
      /\ Numbered(srcParent, srcRow)
  BY <1>1, IdleRows
<1>3. Where' = "resetting" /\ phase' \in Between
  BY <1>1 DEF Where, Between
<1>4. PendingRows'
  BY <1>1, <1>2, NoQueue DEF PendingRows
<1>5. ListenerRows' /\ RebuiltRows' /\ LayoutRows'
  BY <1>1, <1>2, <1>3 DEF ListenerRows, RebuiltRows, LayoutRows, InLayout
<1>6. Numbered(srcParent, srcRow)'
  BY <1>1, <1>2
<1> QED
  BY <1>3, <1>4, <1>5, <1>6, RowsBetween

LEMMA SourceResetsRows ==
    ASSUME BalanceInv, RowsInv, NEW f \in Forests, SourceResets(f)
    PROVE  RowsInv'
<1>1. /\ phase = "resetting" /\ phase' = "reset" /\ ReplaceAll(f)
      /\ UNCHANGED <<resume, m_pendingParents, m_layoutChangePersistentIndexes>>
  BY DEF SourceResets, Enters, LayoutKept, PendingKept
<1>2. resume = "idle" /\ m_pendingParents = <<>>
  BY <1>1 DEF BalanceInv, QueueInv
<1>3. m_layoutChangePersistentIndexes = EmptyMapping
  BY <1>1 DEF RowsInv, LayoutRows, InLayout, Where
<1>4. Where' = "reset" /\ phase' \in Between
  BY <1>1 DEF Where, Between
<1>5. PendingRows'
  BY <1>1, <1>2, NoQueue DEF PendingRows
<1>6. ListenerRows' /\ RebuiltRows' /\ LayoutRows'
  BY <1>1, <1>3, <1>4 DEF ListenerRows, RebuiltRows, LayoutRows, InLayout
<1>7. Numbered(srcParent, srcRow)'
  BY <1>1, ReplaceAllNumbers
<1> QED
  BY <1>4, <1>5, <1>6, <1>7, RowsBetween

\* The mapping is empty, and built anew unless there is nothing to map.
LEMMA StartsAnew ==
    ASSUME phase' = "pending", resume' = "rebuilt",
           Numbered(srcParent, srcRow)', m_mapping' = EmptyMapping, m_rowCount' = 0,
           m_layoutChangePersistentIndexes' = EmptyMapping,
           m_pendingParents' = <<Root>> \/ (m_pendingParents' = <<>> /\ In(srcParent') = {})
    PROVE  RowsInv'
<1>1. Where' = "rebuilt" /\ phase' \in Between
  BY DEF Where, Between
<1>2. PendingRows'
  BY NoQueue, RootAlone DEF PendingRows
<1>3. Listed' = {}
  <2>1. CASE m_pendingParents' = <<Root>>
    BY <2>1, RootAlone DEF Listed
  <2>2. CASE In(srcParent') = {}
    BY <2>2 DEF Listed, ListedIn
  <2> QED
    BY <2>1, <2>2
<1>4. MapsRows({})'
  BY NoRows DEF MapsRows, MapsRowsOf
<1>5. ListenerRows' /\ RebuiltRows' /\ LayoutRows'
  BY <1>1, <1>3, <1>4 DEF ListenerRows, RebuiltRows, LayoutRows, InLayout
<1> QED
  BY <1>1, <1>2, <1>5, RowsBetween

LEMMA HandleModelResetRows == BalanceInv /\ RowsInv /\ HandleModelReset => RowsInv'
<1> SUFFICES ASSUME BalanceInv, RowsInv, HandleModelReset PROVE RowsInv'
  OBVIOUS
<1>1. /\ phase = "reset" /\ phase' = "pending" /\ resume' = "rebuilt"
      /\ m_mapping' = EmptyMapping /\ m_rowCount' = 0 /\ m_layoutChangePersistentIndexes' = EmptyMapping
      /\ m_pendingParents' = IF hasChildren(Root) THEN Append(m_pendingParents, Root)
                             ELSE m_pendingParents
      /\ UNCHANGED <<srcParent, srcRow>>
  BY DEF HandleModelReset, Refreshes, srcVars
<1>2. m_pendingParents = <<>>
  BY <1>1 DEF BalanceInv, QueueInv
<1>3. m_pendingParents' = <<Root>> \/ (m_pendingParents' = <<>> /\ In(srcParent') = {})
  <2>1. CASE hasChildren(Root)
    <3>1. Append(<<>>, Root) = <<Root>>
      OBVIOUS
    <3>2. m_pendingParents' = Append(m_pendingParents, Root)
      BY <1>1, <2>1
    <3> QED
      BY <1>2, <3>1, <3>2
  <2>2. CASE ~hasChildren(Root)
    <3>1. \A n \in Nodes : srcParent[n] # Root
      BY <2>2 DEF hasChildren, Children
    <3>2. In(srcParent) = {}
      BY <3>1, EmptyTree DEF BalanceInv
    <3> QED
      BY <1>1, <1>2, <2>2, <3>2
  <2> QED
    BY <2>1, <2>2
<1>4. Numbered(srcParent, srcRow)'
  BY <1>1 DEF RowsInv
<1> QED
  BY <1>1, <1>3, <1>4, StartsAnew

LEMMA SetSourceModelRows ==
    ASSUME BalanceInv, RowsInv, NEW f \in Forests, SetSourceModel(f)
    PROVE  RowsInv'
<1>1. /\ phase = "idle" /\ phase' = "pending" /\ resume' = "rebuilt" /\ ReplaceAll(f)
      /\ m_mapping' = EmptyMapping /\ m_rowCount' = 0 /\ m_layoutChangePersistentIndexes' = EmptyMapping
      /\ f # EmptyMapping => m_pendingParents' = <<Root>>
      /\ f = EmptyMapping => m_pendingParents' = m_pendingParents
  BY DEF SetSourceModel, Starts, Refreshes, StartRefresh, PendingKept
<1>2. m_pendingParents = <<>>
  BY <1>1, AtIdle
<1>3. f = EmptyMapping => In(srcParent') = {}
  BY <1>1 DEF ReplaceAll, In, EmptyMapping
<1>4. Numbered(srcParent, srcRow)'
  BY <1>1, ReplaceAllNumbers
<1>5. m_pendingParents' = <<Root>> \/ (m_pendingParents' = <<>> /\ In(srcParent') = {})
  BY <1>1, <1>2, <1>3
<1> QED
  BY <1>1, <1>4, <1>5, StartsAnew

LEMMA FinishResetRows == BalanceInv /\ RowsInv /\ FinishReset => RowsInv'
<1> SUFFICES ASSUME BalanceInv, RowsInv, FinishReset PROVE RowsInv'
  OBVIOUS
<1>1. /\ phase = "rebuilt" /\ phase' = "idle" /\ resume' = "idle"
      /\ viewCount' = m_rowCount /\ view' = [r \in 0 .. m_rowCount - 1 |-> mapToSource(m_mapping, r)]
      /\ UNCHANGED <<srcParent, srcRow, userVars, m_mapping, m_rowCount, m_pendingParents,
                     m_layoutChangePersistentIndexes>>
  BY DEF FinishReset, Finishes, EndResetModel, srcVars, proxyVars, userVars
<1>2. Where = "rebuilt" /\ m_pendingParents = <<>> /\ IsTree(srcParent) /\ Numbered(srcParent, srcRow)
  BY <1>1 DEF BalanceInv, RowsInv, QueueInv, Where
<1>3. m_layoutChangePersistentIndexes = EmptyMapping
  BY <1>2 DEF RowsInv, LayoutRows, InLayout
<1>4. Listed = WholeList
  BY <1>2, NoQueue DEF Listed, WholeList
<1>5. PICK v : IsRows(v, m_rowCount) /\ MapsRowsOf(WholeList, v, m_rowCount)
  BY <1>2, <1>4 DEF RowsInv, RebuiltRows, MapsRows
<1>6. IsListing(srcParent, WholeList) /\ WholeRows(srcParent, WholeList)
  BY <1>2, ListedFacts DEF WholeList
<1>7. \A q \in 0 .. m_rowCount - 1 : mapToSource(m_mapping, q) = v[q]
  BY <1>2, <1>5, <1>6, Reads DEF MapsRowsOf
<1>8. view' = v
  BY <1>1, <1>5, <1>7 DEF IsRows
<1>9. ExpandedIndexes' = ExpandedIndexes
  BY <1>1, ExpandedKept
<1>10. Follows(WholeList)'
  BY <1>1, <1>5, <1>8, <1>9 DEF Follows, MapsRowsOf, WholeList
<1>11. Numbered(srcParent, srcRow)'
  BY <1>1, <1>2
<1> QED
  BY <1>1, <1>2, <1>3, <1>10, <1>11, RowsAtIdle

LEMMA SetExpandsByDefaultRows ==
    ASSUME BalanceInv, RowsInv, "expandsLoaded" \notin Operations,
           NEW expand, SetExpandsByDefault(expand)
    PROVE  RowsInv'
<1>1. /\ phase = "idle" /\ ~hasChildren(Root)
      /\ viewCount' = m_rowCount
      /\ view' = [r \in 0 .. m_rowCount - 1 |-> mapToSource(m_mapping, r)]
      /\ UNCHANGED <<srcParent, srcRow, phase, resume, m_mapping, m_rowCount, m_pendingParents,
                     m_layoutChangePersistentIndexes>>
  BY DEF SetExpandsByDefault, MaySetExpands, Starts, srcVars, controlVars, RowsKept, PendingKept,
         LayoutKept
<1>2. /\ resume = "idle" /\ m_pendingParents = <<>> /\ m_layoutChangePersistentIndexes = EmptyMapping
      /\ IsTree(srcParent) /\ Numbered(srcParent, srcRow) /\ Follows(WholeList)
      /\ IsListing(srcParent, WholeList) /\ WholeRows(srcParent, WholeList)
  BY <1>1, IdleRows
<1>3. In(srcParent) = {}
  <2>1. \A n \in Nodes : srcParent[n] # Root
    BY <1>1 DEF hasChildren, Children
  <2> QED
    BY <1>2, <2>1, EmptyTree
<1>4. WholeList = {} /\ WholeList' = {}
  BY <1>1, <1>3 DEF WholeList, ListedIn
<1>5. IsList(srcParent, srcRow, view, viewCount, {}) /\ m_rowCount = viewCount
      /\ MapsSet(m_mapping, view, Lasts(srcParent, srcRow, WholeList))
  BY <1>2, <1>4 DEF Follows, MapsRowsOf
<1>6. viewCount = 0
  <2>1. viewCount # 0 => 0 \in 0 .. viewCount - 1
    BY <1>5 DEF IsList
  <2> QED
    BY <1>5, <2>1 DEF IsList
<1>7. m_mapping = EmptyMapping
  BY <1>2, <1>4, <1>5, <1>6, Reads
<1>8. view' = EmptyMapping /\ viewCount' = 0 /\ m_rowCount' = 0
  <2>1. 0 .. m_rowCount - 1 = {}
    BY <1>5, <1>6
  <2> QED
    BY <1>1, <1>5, <1>6, <2>1 DEF EmptyMapping
<1>9. Follows(WholeList)'
  BY <1>1, <1>4, <1>7, <1>8, NoRows DEF Follows, MapsRowsOf
<1>10. Numbered(srcParent, srcRow)'
  BY <1>1, <1>2
<1> QED
  BY <1>1, <1>2, <1>9, <1>10, RowsAtIdle

LEMMA ExpandSourceIndexRows ==
    ASSUME BalanceInv, RowsInv, NEW i, ExpandSourceIndex(i)
    PROVE  RowsInv'
<1>1. /\ phase = "idle" /\ i \in Present /\ ~isSourceIndexExpanded(i) /\ SetExpanded(i)
      /\ m_pendingParents' = Append(m_pendingParents, i)
      /\ phase' = "pending" /\ resume' = "idle"
      /\ UNCHANGED <<srcParent, srcRow, view, viewCount, m_mapping, m_rowCount, m_relayouting,
                     m_layoutChangePersistentIndexes>>
  BY DEF ExpandSourceIndex, Starts, Refreshes, srcVars, viewVars, RowsKept, LayoutKept
<1>2. /\ m_pendingParents = <<>> /\ ~m_relayouting /\ m_layoutChangePersistentIndexes = EmptyMapping
      /\ IsTree(srcParent) /\ Numbered(srcParent, srcRow) /\ Follows(WholeList)
  BY <1>1, IdleRows
<1>3. i \in In(srcParent) /\ i \in Nodes /\ i # Root
  BY <1>1, NodesAssumption DEF Present, In
<1>4. i \notin ExpandedIndexes /\ ExpandedIndexes' = ExpandedIndexes \cup {i}
  <2>1. i \notin ExpandedIndexes
    BY <1>1 DEF ExpandedIndexes
  <2>2. \A n \in Nodes : isSourceIndexExpanded(n)' <=> isSourceIndexExpanded(n) \/ n = i
    BY <1>1, NodesAssumption DEF SetExpanded, isSourceIndexExpanded
  <2> QED
    BY <1>3, <2>1, <2>2 DEF ExpandedIndexes
<1>5. m_pendingParents' = <<i>> /\ QueueOf(<<i>>) = {i}
  BY <1>1, <1>2 DEF QueueOf
<1>6. Apart(srcParent, ExpandedIndexes, m_pendingParents)'
  <2>1. DOMAIN <<i>> = {1} /\ <<i>>[1] = i
    OBVIOUS
  <2> QED
    BY <1>1, <1>3, <1>4, <1>5, <2>1 DEF Apart
<1>7. Listed' = WholeList
  <2>1. Listed' = ListedIn(srcParent, ExpandedIndexes \cup {i}, {i})
    BY <1>1, <1>4, <1>5 DEF Listed
  <2>2. ListedIn(srcParent, ExpandedIndexes \cup {i}, {i}) = ListedIn(srcParent, ExpandedIndexes, {})
    <3>1. \A n \in In(srcParent) :
              (/\ Ancestors(srcParent)[srcParent[n]] \subseteq ExpandedIndexes \cup {i}
               /\ (Ancestors(srcParent)[srcParent[n]] \cup {Root}) \cap {i} = {})
              <=> Ancestors(srcParent)[srcParent[n]] \subseteq ExpandedIndexes
      BY <1>3, <1>4
    <3> QED
      BY <3>1 DEF ListedIn
  <2> QED
    BY <2>1, <2>2 DEF WholeList
<1>8. Follows(Listed)'
  BY <1>1, <1>2, <1>7 DEF Follows, MapsRowsOf
<1>9. Numbered(srcParent, srcRow)' /\ ~m_relayouting'
  BY <1>1, <1>2
<1> QED
  BY <1>1, <1>2, <1>6, <1>8, <1>9, RowsLeft

----------------------------------------------------------------------------
(* Insertions.                                                             *)

\* The rows of an index that is open are listed.
LEMMA OpenListed ==
    ASSUME IsTree(srcParent), NEW p \in Present \cup {Root}, Open(p)
    PROVE  /\ p \in In(srcParent) \cup {Root}
           /\ Ancestors(srcParent)[p] \subseteq ExpandedIndexes
           /\ \A n \in In(srcParent) : srcParent[n] = p => n \in WholeList
           /\ p # Root => p \in WholeList
<1>1. p \in In(srcParent) \cup {Root}
  BY DEF Present, In
<1>2. Ancestors(srcParent)[p] \subseteq ExpandedIndexes
  BY OpenByAncestors DEF OpenIndexes, Known
<1>3. \A n \in In(srcParent) : srcParent[n] = p => n \in WholeList
  BY <1>2 DEF WholeList, ListedIn
<1>4. p # Root => p \in WholeList
  BY <1>1, <1>2, AncestorsOfOne DEF WholeList, ListedIn
<1> QED
  BY <1>1, <1>2, <1>3, <1>4

LEMMA WholeReads ==
    ASSUME IsTree(srcParent), Numbered(srcParent, srcRow),
           NEW v, NEW c, MapsRowsOf(WholeList, v, c), NEW x \in WholeList
    PROVE  \E k \in 0 .. c - 1 : v[k] = x /\ mapFromSource(m_mapping, x) = k
<1>1. /\ IsList(srcParent, srcRow, v, c, WholeList)
      /\ MapsSet(m_mapping, v, Lasts(srcParent, srcRow, WholeList))
      /\ IsListing(srcParent, WholeList) /\ WholeRows(srcParent, WholeList)
  BY ListedFacts DEF MapsRowsOf, WholeList
<1>2. PICK k \in 0 .. c - 1 : v[k] = x
  BY <1>1 DEF IsList
<1>3. isSourceIndexVisible(x)
  BY ListedAreVisible DEF WholeList
<1>4. mapFromSource(m_mapping, v[k]) = k
  BY <1>1, <1>2, <1>3, Reads
<1> QED
  BY <1>2, <1>4

\* Where new rows of p begin: the rows above are those that come before them.
LEMMA InsertStartIs ==
    ASSUME IsTree(srcParent), Numbered(srcParent, srcRow),
           NEW v, NEW c, MapsRowsOf(WholeList, v, c),
           NEW p \in Present \cup {Root}, Open(p), hasChildren(p),
           NEW first \in 0 .. rowCount(p)
    PROVE  /\ insertStart(p, first) \in 0 .. c
           /\ \A r \in 0 .. c - 1 :
                 r < insertStart(p, first) <=> Ahead(srcParent, srcRow, v[r], p, first)
<1> DEFINE up == Ancestors(srcParent)
           prec(x, y) == Precedes(srcParent, srcRow, x, y)
<1>1. /\ p \in In(srcParent) \cup {Root}
      /\ up[p] \subseteq ExpandedIndexes
      /\ \A n \in In(srcParent) : srcParent[n] = p => n \in WholeList
  BY OpenListed
<1>2. /\ IsList(srcParent, srcRow, v, c, WholeList) /\ c \in Nat
      /\ WholeList \in SUBSET In(srcParent)
  BY DEF MapsRowsOf, IsList, WholeList, ListedIn
<1>3. \A q, r \in 0 .. c - 1 : /\ prec(v[q], v[r]) <=> q < r
                               /\ v[q] = v[r] <=> q = r
                               /\ v[q] \in In(srcParent)
  BY <1>2, ListOrder
<1>4. rowCount(p) \in Nat /\ rowCount(p) # 0 /\ p \in Nodes \cup {Root} /\ first \in Nat
  BY <1>1, RowCountType DEF hasChildren, In
<1>5. CASE rowCount(p) > first
  <2> DEFINE x == index(first, p)
  <2>1. first \in 0 .. rowCount(p) - 1
    BY <1>4, <1>5
  <2>2. x \in Children(p) /\ srcRow[x] = first
    BY <1>4, <2>1, IndexExists
  <2>3. x \in In(srcParent) /\ srcParent[x] = p
    BY <1>4, <2>2, NodesAssumption DEF Children, In
  <2>4. PICK k \in 0 .. c - 1 : v[k] = x /\ mapFromSource(m_mapping, x) = k
    BY <1>1, <2>3, WholeReads
  <2>5. insertStart(p, first) = k
    BY <1>5, <2>4 DEF insertStart
  <2> HIDE DEF x
  <2>6. \A n \in In(srcParent) : Ahead(srcParent, srcRow, n, p, first) <=> prec(n, x)
    BY <2>2, <2>3, AheadOfChild
  <2>7. \A r \in 0 .. c - 1 : r < k <=> Ahead(srcParent, srcRow, v[r], p, first)
    BY <1>3, <2>4, <2>6
  <2>8. k \in 0 .. c
    BY <1>2
  <2> QED
    BY <2>5, <2>7, <2>8
<1>6. CASE rowCount(p) = first
  <2> DEFINE e == index(rowCount(p) - 1, p)
             z == lastShown[e]
  <2>1. /\ e \in Nodes /\ srcParent[e] = p /\ srcRow[e] = first - 1
    BY <1>4, <1>6, LastChild
  <2>2. e \in In(srcParent) /\ srcRow[e] + 1 = first
    BY <1>4, <2>1, NodesAssumption DEF In
  <2>3. insertStart(p, first) = mapFromSource(m_mapping, z) + 1
    BY <1>4, <1>6 DEF insertStart
  <2> HIDE DEF e
  <2>4. /\ z \in ShownBelow(srcParent, ExpandedIndexes, e)
        /\ \A n \in ShownBelow(srcParent, ExpandedIndexes, e) : n = z \/ prec(n, z)
    BY <2>2, LastShownIs
  <2> HIDE DEF z
  <2>5. z \in In(srcParent) /\ e \in up[z]
        /\ \A a \in up[srcParent[z]] : e \in up[a] => a \in ExpandedIndexes
    BY <2>4 DEF ShownBelow
  <2>6. z \in WholeList
    <3> SUFFICES ASSUME NEW a \in up[srcParent[z]] PROVE a \in ExpandedIndexes
      BY <2>5 DEF WholeList, ListedIn
    <3>1. up[z] = {z} \cup up[srcParent[z]]
      BY <2>5, AncestorsOfOne
    <3>2. e \in up[a] \/ a \in up[e]
      BY <2>5, <3>1, AncestorsChain
    <3>3. up[e] = {e} \cup up[p]
      BY <2>1, <2>2, AncestorsOfOne
    <3> QED
      BY <1>1, <2>5, <3>2, <3>3
  <2>7. PICK k \in 0 .. c - 1 : v[k] = z /\ mapFromSource(m_mapping, z) = k
    BY <2>6, WholeReads
  <2>8. insertStart(p, first) = k + 1
    BY <2>3, <2>7
  <2>9. ASSUME NEW n \in WholeList PROVE Ahead(srcParent, srcRow, n, p, first) <=> n = z \/ prec(n, z)
    <3>1. /\ n = z \/ prec(n, z) => Ahead(srcParent, srcRow, n, srcParent[e], srcRow[e] + 1)
          /\ Ahead(srcParent, srcRow, n, srcParent[e], srcRow[e] + 1) => e \in up[n] \/ prec(n, z)
      BY <1>2, <2>2, <2>5, AheadOfNext
    <3>2. e \in up[n] => n \in ShownBelow(srcParent, ExpandedIndexes, e)
      BY <1>2 DEF ShownBelow, WholeList, ListedIn
    <3>3. e \in up[n] => n = z \/ prec(n, z)
      BY <2>4, <3>2
    <3> QED
      BY <2>1, <2>2, <3>1, <3>3
  <2>10. ASSUME NEW r \in 0 .. c - 1
         PROVE  r < k + 1 <=> Ahead(srcParent, srcRow, v[r], p, first)
    <3>1. v[r] \in WholeList
      BY <1>2 DEF IsList
    <3>2. Ahead(srcParent, srcRow, v[r], p, first) <=> v[r] = v[k] \/ prec(v[r], v[k])
      BY <2>7, <2>9, <3>1
    <3>3. (v[r] = v[k] <=> r = k) /\ (prec(v[r], v[k]) <=> r < k)
      BY <1>3
    <3>4. r < k + 1 <=> r = k \/ r < k
      BY <1>2
    <3> QED
      BY <3>2, <3>3, <3>4
  <2>11. k + 1 \in 0 .. c
    BY <1>2
  <2> QED
    BY <2>8, <2>10, <2>11
<1> QED
  BY <1>4, <1>5, <1>6

LEMMA AboutToInsertRows ==
    ASSUME BalanceInv, RowsInv, NEW p, NEW first, NEW last, AboutToInsert(p, first, last)
    PROVE  RowsInv'
<1> DEFINE start == insertStart(p, first)
<1>1. /\ phase = "idle" /\ phase' = "inserting" /\ p \in Present \cup {Root}
      /\ first \in 0 .. rowCount(p)
      /\ op' = [NoOp EXCEPT !.parent = p, !.first = first, !.last = last]
      /\ UNCHANGED <<srcParent, srcRow, userVars, resume, view, viewCount, m_mapping, m_rowCount,
                     m_pendingParents, m_relayouting, m_layoutChangePersistentIndexes>>
  BY DEF AboutToInsert, Starts, srcVars, RowsKept, PendingKept, LayoutKept
<1>2. IF AnnouncesInsert(p)
      THEN m_insertPair' = <<start, start + (last - first)>> /\ Begin("insert", start, start + (last - first))
      ELSE announced' = announced
  BY DEF AboutToInsert
<1>3. /\ resume = "idle" /\ m_pendingParents = <<>> /\ announced = <<>>
      /\ m_layoutChangePersistentIndexes = EmptyMapping
      /\ IsTree(srcParent) /\ Numbered(srcParent, srcRow)
      /\ Listed = WholeList /\ MapsRowsOf(WholeList, view, viewCount)
  BY <1>1, IdleRows DEF Follows
<1>4. op'.parent = p /\ op'.first = first /\ op'.last = last
  BY <1>1 DEF NoOp
<1>5. Where' = "inserting"
  BY <1>1 DEF Where
<1>6. PendingRows'
  BY <1>1, <1>3, NoQueue DEF PendingRows
<1>7. ExpandedIndexes' = ExpandedIndexes
  BY <1>1, ExpandedKept
<1>8. Listed' = Listed
  BY <1>1, <1>7 DEF Listed
<1>9. ListenerRows'
  BY <1>1, <1>3, <1>8 DEF ListenerRows, Follows, MapsRowsOf
<1>10. LayoutRows'
  BY <1>1, <1>3, <1>5 DEF LayoutRows, InLayout
<1>11. InsertingRows'
  <2>1. op'.first <= RowCounts'[op'.parent]
    <3>1. RowCounts' = RowCounts
      BY <1>1, <1>3, OpenKept
    <3>2. RowCounts[p] = rowCount(p) /\ rowCount(p) \in Nat
      BY <1>1, RowCountsOf, RowCountType DEF Known
    <3> QED
      BY <1>1, <1>4, <3>1, <3>2
  <2>2. CASE AnnouncesInsert(p)
    <3>1. /\ start \in 0 .. viewCount
          /\ \A r \in 0 .. viewCount - 1 : r < start <=> Ahead(srcParent, srcRow, view[r], p, first)
      BY <1>1, <1>3, <2>2, InsertStartIs DEF AnnouncesInsert
    <3>2. /\ m_insertPair' = <<start, start + (last - first)>>
          /\ Announced'.first = start /\ Announced'.last = start + (last - first)
      BY <1>2, <1>3, <2>2, BeginsFirst
    <3> HIDE DEF start
    <3>3. BeginsAhead(view, viewCount)'
      BY <1>1, <1>4, <3>1, <3>2 DEF BeginsAhead
    <3>4. InsertionAnnounced'
      BY <1>4, <3>2, <3>3 DEF InsertionAnnounced
    <3> QED
      BY <2>1, <3>4 DEF InsertingRows
  <2>3. CASE ~AnnouncesInsert(p)
    BY <1>2, <1>3, <2>1, <2>3 DEF InsertingRows, InsertionAnnounced, IsAnnounced
  <2> QED
    BY <2>2, <2>3
<1>12. Numbered(srcParent, srcRow)'
  BY <1>1, <1>3
<1> QED
  BY <1>1, <1>5, <1>6, <1>9, <1>10, <1>11, <1>12
     DEF RowsInv, RebuiltRows, OpenRows, InsertedRows, RemovingRows, RemovedRows, CollapsingRows

----------------------------------------------------------------------------
(* The source inserts rows.                                                *)

LEMMA InsertedBelow ==
    ASSUME IsTree(srcParent), Numbered(srcParent, srcRow), SourceTypeOK,
           NEW f \in Forests, DOMAIN f \subseteq Fresh,
           NEW p \in Known, NEW first \in Nat, NEW last \in Nat,
           first <= rowCount(p),
           Cardinality(Tops(f)) = last - first + 1, InsertRows(f, p, first)
    PROVE  /\ IsTree(srcParent') /\ Numbered(srcParent', srcRow')
           /\ KeepsOrder(srcParent, srcRow, srcParent', srcRow', Present)
           /\ \A i \in Present \cup {Root} : Ancestors(srcParent')[i] = Ancestors(srcParent)[i]
           /\ \A a \in Present : srcParent[a] = p => (srcRow[a] < first <=> srcRow'[a] < first)
           /\ \A n \in In(srcParent') : n \in Present <=> n \notin BelowRows(srcParent', srcRow', p, first, last)
           /\ last < RowCounts'[p]
           /\ Present \subseteq In(srcParent')
<1> DEFINE count == Cardinality(Tops(f))
           D == DOMAIN f
           X == RowsIn(srcParent', srcRow', p, first, last)
           up == Ancestors(srcParent)
           upp == Ancestors(srcParent')
<1>1. p \in Present \cup {Root} /\ D \subseteq Nodes \ Present
  BY DEF Known, Fresh
<1>2. /\ IsTree(srcParent')
      /\ Present \subseteq In(srcParent')
      /\ \A i \in Present \cup {Root} : upp[i] = up[i]
  BY <1>1, InsertRowsKeepsTree
<1>3. first \in 0 .. rowCount(p) /\ rowCount(p) \in Nat
  BY RowCountType
<1>4. Numbered(srcParent', srcRow')
  BY <1>1, <1>3, InsertRowsNumbers
<1>5. /\ \A n \in Nodes : srcParent'[n] = IF n \in Tops(f) THEN p ELSE IF n \in D THEN f[n].parent
                                          ELSE srcParent[n]
      /\ \A n \in Nodes : srcRow'[n] = IF n \in Tops(f) THEN first + f[n].row
                                       ELSE IF n \in D THEN f[n].row
                                       ELSE IF srcParent[n] = p /\ srcRow[n] >= first THEN srcRow[n] + count
                                       ELSE srcRow[n]
  BY DEF InsertRows
<1>6. /\ D \in SUBSET Nodes /\ Tops(f) \subseteq D
      /\ \A n \in D : f[n].parent \in D \cup {Root} /\ f[n].row \in Nat
      /\ \A n \in D : n \in Tops(f) <=> f[n].parent = Root
  BY ForestFacts DEF Tops
<1>7. count = last - first + 1 /\ count \in Nat
  <2>1. Tops(f) \in SUBSET Nodes
    BY <1>6
  <2>2. Cardinality(Tops(f)) \in Nat
    BY <2>1, CountType
  <2> QED
    BY <2>2
<1>8. \A n \in Tops(f) : f[n].row \in 0 .. count - 1
  <2>1. Root \in DOMAIN f \cup {Root}
    OBVIOUS
  <2>2. \A n \in {m \in DOMAIN f : f[m].parent = Root} :
            f[n].row \in 0 .. Cardinality({m \in DOMAIN f : f[m].parent = Root}) - 1
    BY <2>1, ForestNumbers
  <2> QED
    BY <2>2 DEF Tops
<1>9. Present = In(srcParent) /\ \A n \in Present : n \in Nodes /\ n \notin D /\ n \notin Tops(f)
  BY <1>1, <1>6 DEF Present, In
<1>10. \A n \in Present : srcRow[n] \in Nat /\ srcParent[n] \in Present \cup {Root}
  BY <1>9 DEF SourceTypeOK, IsTree
<1> HIDE DEF count, D
<1>11. \A n \in Present : /\ srcParent'[n] = srcParent[n]
                          /\ srcRow'[n] = IF srcParent[n] = p /\ srcRow[n] >= first THEN srcRow[n] + count
                                          ELSE srcRow[n]
  BY <1>5, <1>9
<1>12. \A m, n \in Present : srcParent[m] = srcParent[n] => (srcRow[m] < srcRow[n] <=> srcRow'[m] < srcRow'[n])
  BY <1>7, <1>10, <1>11
<1>13. KeepsOrder(srcParent, srcRow, srcParent', srcRow', Present)
  <2>1. srcParent' \in [Nodes -> Indexes]
    BY <1>2 DEF IsTree
  <2>2. \A n \in Present : srcRow'[n] \in Nat
    BY <1>7, <1>10, <1>11
  <2> QED
    BY <1>9, <1>10, <1>11, <1>12, <2>1, <2>2 DEF KeepsOrder
<1>14. \A a \in Present : srcParent[a] = p => /\ srcRow[a] < first <=> srcRow'[a] < first
                                              /\ srcRow'[a] \notin first .. last
  BY <1>7, <1>10, <1>11
<1>15. ASSUME NEW n \in Present PROVE n \notin BelowRows(srcParent', srcRow', p, first, last)
  <2>1. upp[n] = up[n]
    BY <1>2
  <2>2. \A a \in up[n] : a \in Present
    BY <1>9, AncestorsClosed
  <2>3. \A a \in up[n] : a \notin X
    BY <1>11, <1>14, <2>2 DEF RowsIn
  <2> QED
    BY <2>1, <2>3 DEF BelowRows
<1>16. ASSUME NEW n \in In(srcParent'), n \notin Present
       PROVE  n \in BelowRows(srcParent', srcRow', p, first, last)
  <2>1. n \in D
    BY <1>5, <1>6, <1>16 DEF In, Present
  <2>2. n \in upp[n]
    BY <1>2, AncestorsOfOne
  <2>3. PICK t \in upp[n] \cap D : upp[srcParent'[t]] \cap D = {}
    BY <1>2, <2>1, <2>2, HighestAncestor
  <2>4. t \in In(srcParent') /\ t \in Nodes
    BY <1>2, <2>3, AncestorsClosed DEF In
  <2>5. t \in Tops(f)
    <3> SUFFICES ASSUME t \notin Tops(f) PROVE FALSE
      OBVIOUS
    <3>1. srcParent'[t] = f[t].parent /\ f[t].parent \in D
      BY <1>5, <1>6, <2>3, <2>4
    <3>2. srcParent'[t] \in In(srcParent')
      BY <1>2, <1>6, <2>4, <3>1, AncestorsOfOne, NodesAssumption
    <3>3. srcParent'[t] \in upp[srcParent'[t]]
      BY <1>2, <3>2, AncestorsOfOne
    <3> QED
      BY <2>3, <3>1, <3>3
  <2>6. srcParent'[t] = p /\ srcRow'[t] = first + f[t].row /\ f[t].row \in 0 .. count - 1
    BY <1>5, <1>8, <2>4, <2>5
  <2>7. srcRow'[t] \in first .. last
    BY <1>7, <2>6
  <2> QED
    BY <2>3, <2>4, <2>6, <2>7 DEF BelowRows, RowsIn
<1>17. last < RowCounts'[p]
  <2>1. rowCount(p)' = rowCount(p) + count
    BY <1>1, InsertRowsCounts DEF D, count
  <2>2. RowCounts'[p] = rowCount(p)'
    BY <1>1 DEF RowCounts, Present
  <2>3. last < rowCount(p) + count
    BY <1>3, <1>7
  <2> QED
    BY <2>1, <2>2, <2>3
<1> QED
  BY <1>2, <1>4, <1>13, <1>14, <1>15, <1>16, <1>17

LEMMA SourceInsertsRows ==
    ASSUME TInv, BalanceInv, RowsInv, NEW f \in Forests, SourceInserts(f)
    PROVE  RowsInv'
<1> DEFINE p == op.parent
           first == op.first
           last == op.last
           B == BelowRows(srcParent', srcRow', p, first, last)
<1>1. /\ phase = "inserting" /\ phase' = "inserted" /\ DOMAIN f \subseteq Fresh
      /\ Cardinality(Tops(f)) = last - first + 1
      /\ InsertRows(f, p, first)
      /\ UNCHANGED <<resume, op, userVars, m_mapping, m_rowCount, m_pendingParents, m_insertPair,
                     m_layoutChangePersistentIndexes, announced, view, viewCount>>
  BY DEF SourceInserts, Enters, proxyVars, viewVars, userVars
<1>2. Where = "inserting" /\ Where' = "inserted" /\ resume = "idle" /\ m_pendingParents = <<>>
  BY <1>1 DEF Where, BalanceInv, QueueInv
<1>3. /\ IsTree(srcParent) /\ Numbered(srcParent, srcRow) /\ SourceTypeOK
      /\ p \in Known /\ first \in Nat /\ last \in Nat
  BY <1>2 DEF BalanceInv, WhereInv, InsertInv, RowsInv, TInv, ControlTypeOK
<1>4. first <= rowCount(p)
  <2>1. RowCounts[p] = rowCount(p)
    BY <1>3, RowCountsOf
  <2> QED
    BY <1>1, <2>1 DEF RowsInv, InsertingRows
<1>5. /\ IsTree(srcParent') /\ Numbered(srcParent', srcRow')
      /\ KeepsOrder(srcParent, srcRow, srcParent', srcRow', Present)
      /\ \A i \in Present \cup {Root} : Ancestors(srcParent')[i] = Ancestors(srcParent)[i]
      /\ \A a \in Present : srcParent[a] = p => (srcRow[a] < first <=> srcRow'[a] < first)
      /\ \A n \in In(srcParent') : n \in Present <=> n \notin B
      /\ last < RowCounts'[p]
      /\ Present \subseteq In(srcParent')
  <2> HIDE DEF p, first, last
  <2> QED
    BY <1>1, <1>3, <1>4, InsertedBelow
<1>6. ExpandedIndexes' = ExpandedIndexes /\ Present = In(srcParent)
  BY <1>1, ExpandedKept DEF Present, In
<1>7. Follows(Listed)
  BY <1>2 DEF RowsInv, ListenerRows
<1>8. Listed' \ B = Listed
  <2> HIDE DEF B, p
  <2>1. Listed' = ListedIn(srcParent', ExpandedIndexes, QueueOf(m_pendingParents))
    BY <1>1, <1>6 DEF Listed
  <2>2. ASSUME NEW n \in Present PROVE Ancestors(srcParent')[srcParent'[n]] = Ancestors(srcParent)[srcParent[n]]
    <3>1. srcParent'[n] = srcParent[n] /\ srcParent[n] \in Present \cup {Root}
      BY <1>5 DEF KeepsOrder
    <3> QED
      BY <1>5, <3>1
  <2>3. \A n \in Present : n \in In(srcParent') /\ n \in In(srcParent)
    BY <1>5, <1>6
  <2>4. \A n \in Present : n \in Listed' <=> n \in Listed
    BY <2>1, <2>2, <2>3 DEF Listed, ListedIn
  <2>5. \A n \in Listed : n \in Present
    BY <1>6 DEF Listed, ListedIn
  <2>6. \A n \in Listed' : n \in In(srcParent')
    BY <2>1 DEF ListedIn
  <2> QED
    BY <1>5, <2>4, <2>5, <2>6
<1>9. Listed \in SUBSET Present
  BY <1>6 DEF Listed, ListedIn
<1>10. /\ IsList(srcParent', srcRow', view, viewCount, Listed)
       /\ Lasts(srcParent', srcRow', Listed) = Lasts(srcParent, srcRow, Listed)
  <2>1. IsList(srcParent, srcRow, view, viewCount, Listed)
    BY <1>7 DEF Follows, MapsRowsOf
  <2> QED
    BY <1>3, <1>5, <1>9, <2>1, ListKept
<1>11. Follows(Listed \ BelowRows(srcParent, srcRow, op.parent, op.first, op.last))'
  <2>1. (Listed \ BelowRows(srcParent, srcRow, op.parent, op.first, op.last))' = Listed
    BY <1>1, <1>8
  <2>2. /\ IsList(srcParent', srcRow', view', viewCount', Listed)
        /\ MapsSet(m_mapping', view', Lasts(srcParent', srcRow', Listed))
        /\ m_rowCount' = viewCount'
    BY <1>1, <1>7, <1>10 DEF Follows, MapsRowsOf
  <2> QED
    BY <2>1, <2>2 DEF Follows, MapsRowsOf
<1>12. InsertionAnnounced'
  <2>1. CASE announced # <<>>
    <3>1. /\ m_insertPair = <<Announced.first, Announced.last>>
          /\ Announced.last = Announced.first + (last - first)
          /\ BeginsAhead(view, viewCount)
      BY <1>1, <2>1 DEF RowsInv, InsertingRows, InsertionAnnounced, IsAnnounced
    <3>2. Announced' = Announced
      BY <1>1 DEF Announced
    <3>3. ASSUME NEW r \in 0 .. viewCount - 1
          PROVE  Ahead(srcParent', srcRow', view[r], p, first) <=> Ahead(srcParent, srcRow, view[r], p, first)
      <4>1. view[r] \in Present
        BY <1>7, <1>9 DEF Follows, MapsRowsOf, IsList
      <4>2. p \in Present \cup {Root}
        BY <1>3 DEF Known
      <4> HIDE DEF p, first
      <4> QED
        BY <1>3, <1>5, <4>1, <4>2, AheadKept
    <3>4. BeginsAhead(view, viewCount)'
      BY <1>1, <3>1, <3>2, <3>3 DEF BeginsAhead
    <3> QED
      BY <1>1, <3>1, <3>2, <3>4 DEF InsertionAnnounced
  <2>2. CASE announced = <<>>
    BY <1>1, <2>2 DEF InsertionAnnounced, IsAnnounced
  <2> QED
    BY <2>1, <2>2
<1>13. InsertedRows'
  BY <1>1, <1>5, <1>11, <1>12 DEF InsertedRows
<1>14. PendingRows'
  BY <1>1, <1>2, NoQueue DEF PendingRows
<1>15. m_layoutChangePersistentIndexes = EmptyMapping
  BY <1>2 DEF RowsInv, LayoutRows, InLayout
<1>16. LayoutRows'
  BY <1>1, <1>2, <1>15 DEF LayoutRows, InLayout
<1> QED
  BY <1>1, <1>2, <1>5, <1>13, <1>14, <1>16
     DEF RowsInv, ListenerRows, RebuiltRows, OpenRows, InsertingRows, RemovingRows, RemovedRows,
         CollapsingRows

----------------------------------------------------------------------------
(* The handler adds the rows.                                              *)

\* What is shown last below an index that is listed.
LEMMA LastShownListed ==
    ASSUME IsTree(srcParent), Numbered(srcParent, srcRow), NEW e \in In(srcParent),
           Ancestors(srcParent)[srcParent[e]] \subseteq ExpandedIndexes
    PROVE  LET z == lastShown[e]
           IN  /\ z \in WholeList /\ e \in Ancestors(srcParent)[z]
               /\ \A n \in WholeList : e \in Ancestors(srcParent)[n] =>
                     n = z \/ Precedes(srcParent, srcRow, n, z)
               /\ z = e \/ \A k \in Nodes : srcParent[k] = srcParent[z] => srcRow[k] <= srcRow[z]
<1> DEFINE z == lastShown[e]
           up == Ancestors(srcParent)
<1>1. /\ z \in ShownBelow(srcParent, ExpandedIndexes, e)
      /\ \A n \in ShownBelow(srcParent, ExpandedIndexes, e) : n = z \/ Precedes(srcParent, srcRow, n, z)
      /\ z = e \/ \A k \in Nodes : srcParent[k] = srcParent[z] => srcRow[k] <= srcRow[z]
  BY LastShownIs
<1> HIDE DEF z
<1>2. z \in In(srcParent) /\ e \in up[z]
      /\ \A a \in up[srcParent[z]] : e \in up[a] => a \in ExpandedIndexes
  BY <1>1 DEF ShownBelow
<1>3. z \in WholeList
  <2> SUFFICES ASSUME NEW a \in up[srcParent[z]] PROVE a \in ExpandedIndexes
    BY <1>2 DEF WholeList, ListedIn
  <2>1. up[z] = {z} \cup up[srcParent[z]]
    BY <1>2, AncestorsOfOne
  <2>2. e \in up[a] \/ a \in up[e]
    BY <1>2, <2>1, AncestorsChain
  <2>3. up[e] = {e} \cup up[srcParent[e]]
    BY AncestorsOfOne
  <2> QED
    BY <1>2, <2>2, <2>3
<1>4. \A n \in WholeList : e \in up[n] => n = z \/ Precedes(srcParent, srcRow, n, z)
  <2>1. \A n \in WholeList : e \in up[n] => n \in ShownBelow(srcParent, ExpandedIndexes, e)
    BY DEF ShownBelow, WholeList, ListedIn
  <2> QED
    BY <1>1, <2>1
<1> QED
  BY <1>1, <1>2, <1>3, <1>4 DEF z

LEMMA EndOfBranch ==
    ASSUME IsTree(srcParent), Numbered(srcParent, srcRow), NEW e \in In(srcParent),
           Ancestors(srcParent)[srcParent[e]] \subseteq ExpandedIndexes,
           NEW L \in SUBSET WholeList, NEW v, NEW c, IsList(srcParent, srcRow, v, c, L),
           lastShown[e] \in L, NEW a \in 0 .. c,
           \A r \in 0 .. c - 1 :
              r < a <=> Ahead(srcParent, srcRow, v[r], srcParent[e], srcRow[e] + 1)
    PROVE  a - 1 \in 0 .. c - 1 /\ v[a - 1] = lastShown[e]
<1> DEFINE z == lastShown[e]
           up == Ancestors(srcParent)
           prec(x, y) == Precedes(srcParent, srcRow, x, y)
<1>1. /\ z \in WholeList /\ e \in up[z]
      /\ \A n \in WholeList : e \in up[n] => n = z \/ prec(n, z)
  BY LastShownListed
<1>2. z \in L
  OBVIOUS
<1> HIDE DEF z
<1>3. /\ L \in SUBSET In(srcParent) /\ c \in Nat
      /\ \A r \in 0 .. c - 1 : v[r] \in L
  BY DEF WholeList, ListedIn, IsList
<1>5. \A q, r \in 0 .. c - 1 : /\ Precedes(srcParent, srcRow, v[q], v[r]) <=> q < r
                               /\ v[q] = v[r] <=> q = r
                               /\ v[q] \in In(srcParent)
  <2>1. IsList(srcParent, srcRow, v, c, L) /\ L \in SUBSET In(srcParent)
    BY <1>3
  <2> QED
    BY <2>1, ListOrder
<1>4. PICK q \in 0 .. c - 1 : v[q] = z
  BY <1>2 DEF IsList
<1>6. \A n \in In(srcParent) :
          /\ n = z \/ prec(n, z) => Ahead(srcParent, srcRow, n, srcParent[e], srcRow[e] + 1)
          /\ Ahead(srcParent, srcRow, n, srcParent[e], srcRow[e] + 1) => e \in up[n] \/ prec(n, z)
  BY <1>1, AheadOfNext DEF WholeList, ListedIn
<1>7. q < a
  BY <1>1, <1>3, <1>4, <1>6
<1>8. ASSUME q < a - 1 PROVE FALSE
  <2>1. a - 1 \in 0 .. c - 1 /\ a - 1 < a
    BY <1>3, <1>8
  <2> DEFINE r == a - 1
  <2>2. r \in 0 .. c - 1 /\ r < a /\ q < r
    BY <1>8, <2>1
  <2> HIDE DEF r
  <2>3. Ahead(srcParent, srcRow, v[r], srcParent[e], srcRow[e] + 1) /\ v[r] \in L
    BY <1>3, <2>2
  <2>4. v[r] = z \/ prec(v[r], z)
    BY <1>1, <1>3, <1>6, <2>3
  <2>5. r = q \/ r < q
    <3>1. (prec(v[r], v[q]) <=> r < q) /\ (v[r] = v[q] <=> r = q)
      BY <1>5, <2>2
    <3> QED
      BY <1>4, <2>4, <3>1
  <2> QED
    BY <2>2, <2>5
<1>9. a - 1 = q
  BY <1>7, <1>8
<1> QED
  BY <1>4, <1>9 DEF z

LEMMA EndOfBranchEach ==
    ASSUME IsTree(srcParent), Numbered(srcParent, srcRow), NEW e \in In(srcParent),
           Ancestors(srcParent)[srcParent[e]] \subseteq ExpandedIndexes
    PROVE  \A L \in SUBSET WholeList : \A v, c :
              IsList(srcParent, srcRow, v, c, L) /\ lastShown[e] \in L =>
              \A a \in 0 .. c :
                 (\A r \in 0 .. c - 1 :
                     r < a <=> Ahead(srcParent, srcRow, v[r], srcParent[e], srcRow[e] + 1))
                 => a - 1 \in 0 .. c - 1 /\ v[a - 1] = lastShown[e]
  BY EndOfBranch

\* The list once rows first .. last of p are in it: those among them that show rows of
\* their own wait.
LEMMA RowsListed ==
    ASSUME IsTree(srcParent), Numbered(srcParent, srcRow),
           NEW p \in In(srcParent) \cup {Root}, Ancestors(srcParent)[p] \subseteq ExpandedIndexes,
           NEW first, NEW last, NEW Q,
           \A x \in Q : x \in RowsIn(srcParent, srcRow, p, first, last),
           \A x \in RowsIn(srcParent, srcRow, p, first, last) :
              hasChildren(x) /\ x \in ExpandedIndexes => x \in Q
    PROVE  ListedIn(srcParent, ExpandedIndexes, Q)
              = (WholeList \ BelowRows(srcParent, srcRow, p, first, last))
                \cup RowsIn(srcParent, srcRow, p, first, last)
<1> DEFINE X == RowsIn(srcParent, srcRow, p, first, last)
           B == BelowRows(srcParent, srcRow, p, first, last)
           up == Ancestors(srcParent)
           M == ListedIn(srcParent, ExpandedIndexes, Q)
<1>1. \A x \in X : x \in In(srcParent) /\ srcParent[x] = p /\ x \in Nodes /\ x # Root
  BY NodesAssumption DEF RowsIn, In
<1>2. \A n \in In(srcParent) : /\ up[n] = {n} \cup up[srcParent[n]]
                               /\ srcParent[n] \in In(srcParent) \cup {Root}
                               /\ n \notin up[srcParent[n]]
  BY AncestorsOfOne, NoCycle
<1>3. \A n \in In(srcParent) : n \in B <=> \E x \in X : x \in up[n]
  BY DEF BelowRows
<1>4. \A n : n \in WholeList <=> n \in In(srcParent) /\ up[srcParent[n]] \subseteq ExpandedIndexes
  BY DEF WholeList, ListedIn
<1>5. \A n : n \in M <=> /\ n \in In(srcParent) /\ up[srcParent[n]] \subseteq ExpandedIndexes
                         /\ (up[srcParent[n]] \cup {Root}) \cap Q = {}
  BY DEF ListedIn
<1>6. \A x \in Q : x \in X
  OBVIOUS
<1>7. \A x \in X : hasChildren(x) /\ x \in ExpandedIndexes => x \in Q
  OBVIOUS
<1> HIDE DEF X, B, M
<1>8. ASSUME NEW n \in M, n \in B PROVE n \in X
  <2>1. PICK x \in X : x \in up[n]
    BY <1>3, <1>5, <1>8
  <2>2. CASE x = n
    BY <2>1, <2>2
  <2>3. CASE x # n
    <3>1. n \in In(srcParent) /\ x \in up[srcParent[n]]
      BY <1>2, <1>5, <2>1, <2>3
    <3>2. x \in ExpandedIndexes
      BY <1>5, <3>1
    <3>3. PICK b \in up[n] : b \in In(srcParent) /\ srcParent[b] = x
      BY <1>1, <3>1, BranchBelow
    <3>4. hasChildren(x)
      BY <3>3 DEF hasChildren, Children, In
    <3> QED
      BY <1>5, <1>7, <3>1, <3>2, <3>4
  <2> QED
    BY <2>2, <2>3
<1>9. ASSUME NEW n \in X PROVE n \in M
  <2>1. n \in In(srcParent) /\ srcParent[n] = p
    BY <1>1
  <2>2. \A x \in X : x \notin up[p]
    BY <1>1, <1>2
  <2>3. (up[p] \cup {Root}) \cap Q = {}
    BY <1>1, <1>6, <2>2
  <2> QED
    BY <1>5, <2>1, <2>3
<1>10. ASSUME NEW n \in WholeList, n \notin B PROVE n \in M
  <2>1. n \in In(srcParent) /\ \A x \in X : x \notin up[n]
    BY <1>3, <1>4, <1>10
  <2>2. (up[srcParent[n]] \cup {Root}) \cap Q = {}
    BY <1>1, <1>2, <1>6, <2>1
  <2> QED
    BY <1>4, <1>5, <2>2
<1>11. \A n \in M : n \in WholeList
  BY <1>4, <1>5
<1>12. M = (WholeList \ B) \cup X
  BY <1>8, <1>9, <1>10, <1>11
<1> QED
  BY <1>12 DEF M, B, X

\* Rows first .. last of p, which has other rows, are to come before row a of the list v.
AddsAmong(p, first, last, L, v, c, a) ==
    /\ IsTree(srcParent) /\ Numbered(srcParent, srcRow)
    /\ p \in In(srcParent) \cup {Root} /\ Ancestors(srcParent)[p] \subseteq ExpandedIndexes
    /\ first \in Nat /\ last \in Nat /\ first <= last /\ last < rowCount(p)
    /\ last - first + 1 # rowCount(p)
    /\ L = WholeList \ BelowRows(srcParent, srcRow, p, first, last)
    /\ MapsRowsOf(L, v, c)
    /\ a \in 0 .. c /\ m_insertPair[1] = a
    /\ \A r \in 0 .. c - 1 : r < a <=> Ahead(srcParent, srcRow, v[r], p, first)

\* What they make of the list and of the mapping.
LEMMA AddedAmong ==
    ASSUME NEW p, NEW first, NEW last, NEW L, NEW v, NEW c, NEW a,
           AddsAmong(p, first, last, L, v, c, a)
    PROVE  LET count == last - first + 1
               new == [k \in 0 .. count - 1 |-> index(first + k, p)]
               K == ListedIn(srcParent, ExpandedIndexes, QueueOf(Expandable(p, first, last)))
           IN  /\ IsList(srcParent, srcRow, InsertedList(v, c, a, new, count), c + count, K)
               /\ MapsSet(insertMapping(p, first, last), InsertedList(v, c, a, new, count),
                          Lasts(srcParent, srcRow, K))
<1> DEFINE X == RowsIn(srcParent, srcRow, p, first, last)
           up == Ancestors(srcParent)
           count == last - first + 1
           new == [k \in 0 .. count - 1 |-> index(first + k, p)]
           K == ListedIn(srcParent, ExpandedIndexes, QueueOf(Expandable(p, first, last)))
           w == InsertedList(v, c, a, new, count)
           shifted == MapShift(m_mapping, a, count)
           d == c + count
<1>c. count = last - first + 1
  OBVIOUS
<1>d. new = [k \in 0 .. count - 1 |-> index(first + k, p)]
  OBVIOUS
<1>e. K = ListedIn(srcParent, ExpandedIndexes, QueueOf(Expandable(p, first, last)))
  OBVIOUS
<1> HIDE DEF count, new, K
<1>a. /\ IsTree(srcParent) /\ Numbered(srcParent, srcRow)
      /\ p \in In(srcParent) \cup {Root} /\ Ancestors(srcParent)[p] \subseteq ExpandedIndexes
      /\ first \in Nat /\ last \in Nat /\ first <= last /\ last < rowCount(p)
  BY DEF AddsAmong
<1>b. /\ last - first + 1 # rowCount(p)
      /\ L = WholeList \ BelowRows(srcParent, srcRow, p, first, last)
      /\ MapsRowsOf(L, v, c)
      /\ a \in 0 .. c /\ m_insertPair[1] = a
      /\ \A r \in 0 .. c - 1 : r < a <=> Ahead(srcParent, srcRow, v[r], p, first)
  BY DEF AddsAmong
<1>1. /\ count \in Nat \ {0} /\ rowCount(p) \in Nat /\ count < rowCount(p) /\ p \in Nodes \cup {Root}
  BY <1>a, <1>b, <1>c, <1>d, <1>e, RowCountType DEF In
<1>2. K = L \cup X
  <2>1. /\ \A x \in QueueOf(Expandable(p, first, last)) : x \in X
        /\ \A x \in X : hasChildren(x) /\ x \in ExpandedIndexes => x \in QueueOf(Expandable(p, first, last))
    BY <1>a, <1>b, <1>c, <1>d, <1>e, ExpandableApart
  <2>2. L = WholeList \ BelowRows(srcParent, srcRow, p, first, last)
    BY <1>b
  <2> QED
    BY <1>a, <1>b, <1>c, <1>d, <1>e, <2>1, <2>2, RowsListed
<1>3. /\ L \in SUBSET In(srcParent) /\ IsList(srcParent, srcRow, v, c, L) /\ c \in Nat
      /\ DOMAIN v = 0 .. c - 1 /\ \A r \in 0 .. c - 1 : v[r] \in L
      /\ MapsSet(m_mapping, v, Lasts(srcParent, srcRow, L))
      /\ L \in SUBSET WholeList
  BY <1>a, <1>b, <1>c, <1>d, <1>e DEF MapsRowsOf, IsList, WholeList, ListedIn
<1>4. X \in SUBSET In(srcParent) /\ \A x \in X : srcParent[x] = p /\ srcRow[x] \in first .. last
  BY <1>a, <1>b, <1>c, <1>d, <1>e DEF RowsIn
<1>5. \A n \in L : n \in In(srcParent) /\ n \notin BelowRows(srcParent, srcRow, p, first, last)
  BY <1>a, <1>b, <1>c, <1>d, <1>e, <1>3
<1>6. \A x \in X : x \in BelowRows(srcParent, srcRow, p, first, last)
  <2>1. \A x \in X : x \in up[x]
    BY <1>a, <1>b, <1>c, <1>d, <1>e, <1>4, AncestorsOfOne
  <2> QED
    BY <1>a, <1>b, <1>c, <1>d, <1>e, <1>4, <2>1 DEF BelowRows
<1>7. IsList(srcParent, srcRow, new, count, X)
  <2>1. count - 1 = last - first
    BY <1>a, <1>b, <1>c, <1>d, <1>e, <1>1
  <2>2. new = [k \in 0 .. last - first |-> index(first + k, p)]
    BY <1>a, <1>b, <1>c, <1>d, <1>e, <2>1
  <2>3. IsList(srcParent, srcRow, new, last - first + 1, X)
    BY <1>a, <1>b, <1>c, <1>d, <1>e, <2>2, ChildList
  <2> QED
    BY <1>a, <1>b, <1>c, <1>d, <1>e, <2>3
<1>8. IsList(srcParent, srcRow, w, d, K)
  <2>1. \A r \in 0 .. c - 1 : \A x \in X : /\ r < a => Precedes(srcParent, srcRow, v[r], x)
                                           /\ a <= r => Precedes(srcParent, srcRow, x, v[r])
    <3> SUFFICES ASSUME NEW r \in 0 .. c - 1, NEW x \in X
                 PROVE  /\ r < a => Precedes(srcParent, srcRow, v[r], x)
                        /\ a <= r => Precedes(srcParent, srcRow, x, v[r])
      OBVIOUS
    <3>1. v[r] \in In(srcParent) /\ v[r] \notin BelowRows(srcParent, srcRow, p, first, last)
      BY <1>a, <1>b, <1>c, <1>d, <1>e, <1>3, <1>5
    <3>2. /\ Ahead(srcParent, srcRow, v[r], p, first) => Precedes(srcParent, srcRow, v[r], x)
          /\ ~Ahead(srcParent, srcRow, v[r], p, first) => Precedes(srcParent, srcRow, x, v[r])
      BY <1>a, <1>b, <1>c, <1>d, <1>e, <3>1, AheadOfRows
    <3> QED
      BY <1>a, <1>b, <1>c, <1>d, <1>e, <1>3, <3>2
  <2> HIDE DEF X
  <2>2. IsList(srcParent, srcRow, w, d, L \cup X)
    BY <1>a, <1>b, <1>c, <1>d, <1>e, <1>3, <1>4, <1>7, <2>1, InsertIntoList
  <2> QED
    BY <1>a, <1>b, <1>c, <1>d, <1>e, <1>2, <2>2
<1>9. MapsSet(shifted, w, Lasts(srcParent, srcRow, L))
  <2>1. \A k \in 0 .. count - 1 : new[k] \in X
    BY <1>a, <1>b, <1>c, <1>d, <1>e, <1>7 DEF IsList
  <2>2. \A k \in 0 .. count - 1 : new[k] \notin Lasts(srcParent, srcRow, L)
    BY <1>a, <1>b, <1>c, <1>d, <1>e, <1>5, <1>6, <2>1 DEF Lasts
  <2> HIDE DEF X
  <2> QED
    BY <1>a, <1>b, <1>c, <1>d, <1>e, <1>1, <1>3, <2>2, ShiftForInsertion
<1>10. \A n \in Children(p) : n \in In(srcParent) /\ srcParent[n] = p
                              /\ (n \in L <=> srcRow[n] \notin first .. last)
  <2> SUFFICES ASSUME NEW n \in Children(p)
               PROVE  n \in In(srcParent) /\ srcParent[n] = p /\ (n \in L <=> srcRow[n] \notin first .. last)
    OBVIOUS
  <2>1. n \in In(srcParent) /\ srcParent[n] = p
    BY <1>a, <1>b, <1>c, <1>d, <1>e, NodesAssumption DEF Children, In
  <2>2. n \in WholeList
    BY <1>a, <1>b, <1>c, <1>d, <1>e, <2>1 DEF WholeList, ListedIn
  <2>3. n \in BelowRows(srcParent, srcRow, p, first, last) <=> srcRow[n] \in first .. last
    BY <1>a, <1>b, <1>c, <1>d, <1>e, ChildrenBelowRows
  <2> QED
    BY <1>a, <1>b, <1>c, <1>d, <1>e, <2>1, <2>2, <2>3
<1>11. /\ last # rowCount(p) - 1 =>
            Lasts(srcParent, srcRow, K) = Lasts(srcParent, srcRow, L)
       /\ last = rowCount(p) - 1 =>
            Lasts(srcParent, srcRow, K)
               = (Lasts(srcParent, srcRow, L) \ {index(first - 1, p)}) \cup {index(last, p)}
  <2>1. 0 < first \/ last # rowCount(p) - 1
    BY <1>a, <1>b, <1>c, <1>d, <1>e, <1>1
  <2>2. \A n \in Children(p) : n \in L <=> ~(first <= srcRow[n] /\ srcRow[n] <= last)
    <3>1. \A n \in Children(p) : srcRow[n] \in Nat
      BY <1>a, <1>b, <1>c, <1>d, <1>e, <1>10, RowsType
    <3> QED
      BY <1>a, <1>b, <1>c, <1>d, <1>e, <1>10, <3>1
  <2>3. K = L \cup RowsIn(srcParent, srcRow, p, first, last)
    BY <1>a, <1>b, <1>c, <1>d, <1>e, <1>2
  <2>4. L \in SUBSET In(srcParent)
    BY <1>a, <1>b, <1>c, <1>d, <1>e, <1>3
  <2> HIDE DEF X, w, shifted, d, up
  <2>5. /\ last # rowCount(p) - 1 => Lasts(srcParent, srcRow, K) = Lasts(srcParent, srcRow, L)
        /\ last = rowCount(p) - 1 =>
                 \A n : n \in Lasts(srcParent, srcRow, K) <=>
                           \/ n \in Lasts(srcParent, srcRow, L) /\ n # index(first - 1, p)
                           \/ n = index(last, p)
    BY <1>a, <2>1, <2>2, <2>3, <2>4, LastsWithRows
  <2> QED
    BY <2>5
<1>12. CASE rowCount(p) - 1 # last
  <2>1. insertMapping(p, first, last) = shifted
    BY <1>a, <1>b, <1>c, <1>d, <1>e, <1>12 DEF insertMapping
  <2> QED
    BY <1>a, <1>b, <1>c, <1>d, <1>e, <1>8, <1>9, <1>11, <1>12, <2>1
<1>13. CASE rowCount(p) - 1 = last
  <2> DEFINE e == index(first - 1, p)
             z == lastShown[e]
  <2>1. e \in Children(p) /\ srcRow[e] = first - 1
    <3>1. first - 1 \in 0 .. rowCount(p) - 1
      BY <1>a, <1>b, <1>c, <1>d, <1>e, <1>1, <1>13
    <3> QED
      BY <1>a, <1>b, <1>c, <1>d, <1>e, <1>1, <3>1, IndexExists
  <2>2. e \in In(srcParent) /\ srcParent[e] = p /\ e \in L
    <3>1. srcRow[e] \notin first .. last
      BY <1>a, <1>b, <1>c, <1>d, <1>e, <2>1
    <3> QED
      BY <1>a, <1>b, <1>c, <1>d, <1>e, <1>10, <2>1, <3>1
  <2> HIDE DEF e
  <2>3. /\ z \in WholeList /\ e \in up[z]
        /\ z = e \/ \A k \in Nodes : srcParent[k] = srcParent[z] => srcRow[k] <= srcRow[z]
    BY <1>a, <1>b, <1>c, <1>d, <1>e, <2>2, LastShownListed
  <2> HIDE DEF z
  <2>4. z \in L
    <3>1. \A x \in X : x \notin up[z]
      <4> SUFFICES ASSUME NEW x \in X, x \in up[z] PROVE FALSE
        OBVIOUS
      <4>1. z \in In(srcParent) /\ srcParent[x] = srcParent[e]
        BY <1>a, <1>b, <1>c, <1>d, <1>e, <1>4, <2>2, <2>3 DEF WholeList, ListedIn
      <4>2. x = e
        BY <1>a, <1>b, <1>c, <1>d, <1>e, <2>3, <4>1, SiblingsApart
      <4> QED
        BY <1>a, <1>b, <1>c, <1>d, <1>e, <1>4, <2>1, <4>2
    <3> QED
      BY <1>a, <1>b, <1>c, <1>d, <1>e, <2>3, <3>1 DEF BelowRows
  <2>5. z \in Lasts(srcParent, srcRow, L)
    <3>1. ASSUME z = e PROVE \A k \in L : srcParent[k] = srcParent[z] => srcRow[k] <= srcRow[z]
      <4> SUFFICES ASSUME NEW k \in L, srcParent[k] = p PROVE srcRow[k] <= srcRow[e]
        BY <1>a, <1>b, <1>c, <1>d, <1>e, <2>2, <3>1
      <4>1. k \in Children(p) /\ srcRow[k] \notin first .. last
        BY <1>a, <1>b, <1>c, <1>d, <1>e, <1>3, <1>10 DEF Children, In
      <4>2. srcRow[k] \in 0 .. rowCount(p) - 1
        BY <1>a, <1>b, <1>c, <1>d, <1>e, <1>1, <4>1 DEF Numbered, rowCount, Children
      <4> QED
        BY <1>a, <1>b, <1>c, <1>d, <1>e, <1>1, <1>13, <2>1, <4>1, <4>2
    <3>2. \A k \in L : k \in Nodes
      BY <1>a, <1>b, <1>c, <1>d, <1>e, <1>3 DEF In
    <3>3. \A k \in L : srcParent[k] = srcParent[z] => srcRow[k] <= srcRow[z]
      BY <1>a, <1>b, <1>c, <1>d, <1>e, <2>3, <3>1, <3>2
    <3> QED
      BY <1>a, <1>b, <1>c, <1>d, <1>e, <2>4, <3>3 DEF Lasts, IsLast
  <2>6. a - 1 \in 0 .. c - 1 /\ v[a - 1] = z
    <3>1. \A r \in 0 .. c - 1 :
              r < a <=> Ahead(srcParent, srcRow, v[r], srcParent[e], srcRow[e] + 1)
      <4>1. srcRow[e] + 1 = first /\ srcParent[e] = p
        BY <1>a, <1>b, <1>c, <1>d, <1>e, <2>1, <2>2
      <4> QED
        BY <1>a, <1>b, <1>c, <1>d, <1>e, <4>1
    <3>2. Ancestors(srcParent)[srcParent[e]] \subseteq ExpandedIndexes
      BY <1>a, <1>b, <1>c, <1>d, <1>e, <2>2
    <3>3. lastShown[e] \in L
      BY <1>a, <1>b, <1>c, <1>d, <1>e, <2>4 DEF z
    <3>4. a - 1 \in 0 .. c - 1 /\ v[a - 1] = lastShown[e]
      <4> HIDE DEF X, w, shifted, d, up
      <4>1. \A u, b :
              IsList(srcParent, srcRow, u, b, L) /\ lastShown[e] \in L =>
              \A k \in 0 .. b :
                 (\A r \in 0 .. b - 1 :
                     r < k <=> Ahead(srcParent, srcRow, u[r], srcParent[e], srcRow[e] + 1))
                 => k - 1 \in 0 .. b - 1 /\ u[k - 1] = lastShown[e]
        <5>1. IsTree(srcParent) /\ Numbered(srcParent, srcRow)
          BY <1>a
        <5>2. e \in In(srcParent) /\ L \in SUBSET WholeList
          BY <1>3, <2>2
        <5> QED
          BY <3>2, <5>1, <5>2, EndOfBranchEach
      <4>2. \A k \in 0 .. c :
                 (\A r \in 0 .. c - 1 :
                     r < k <=> Ahead(srcParent, srcRow, v[r], srcParent[e], srcRow[e] + 1))
                 => k - 1 \in 0 .. c - 1 /\ v[k - 1] = lastShown[e]
        BY <1>a, <1>b, <1>c, <1>d, <1>e, <1>3, <3>3, <4>1
      <4> QED
        BY <1>a, <1>b, <1>c, <1>d, <1>e, <3>1, <4>2
    <3> QED
      BY <1>a, <1>b, <1>c, <1>d, <1>e, <3>4 DEF z
  <2>7. a - 1 \in 0 .. d - 1 /\ w[a - 1] = z
    <3> DEFINE q == a - 1
    <3>1. q \in 0 .. c + count - 1 /\ q < a /\ q \in 0 .. d - 1
      BY <1>a, <1>b, <1>c, <1>d, <1>e, <1>1, <1>3, <2>6
    <3> HIDE DEF q
    <3>2. w[q] = v[q]
      BY <1>a, <1>b, <1>c, <1>d, <1>e, <3>1 DEF InsertedList
    <3> QED
      BY <1>a, <1>b, <1>c, <1>d, <1>e, <2>6, <3>1, <3>2 DEF q
  <2>8. a + count - 1 \in 0 .. d - 1 /\ w[a + count - 1] = index(last, p)
    <3>1. count - 1 \in 0 .. count - 1 /\ first + (count - 1) = last
      BY <1>a, <1>b, <1>c, <1>d, <1>e, <1>1
    <3>2. new[count - 1] = index(last, p)
      BY <1>a, <1>b, <1>c, <1>d, <1>e, <3>1
    <3>3. a + (count - 1) \in 0 .. d - 1 /\ w[a + (count - 1)] = new[count - 1]
      <4> DEFINE k == count - 1
      <4>1. k \in 0 .. count - 1 /\ count \in Nat
        BY <1>a, <1>b, <1>c, <1>d, <1>e, <1>1
      <4> HIDE DEF X, k
      <4>2. a + k \in 0 .. (c + count) - 1 /\ InsertedList(v, c, a, new, count)[a + k] = new[k]
        BY <1>b, <1>3, <4>1, InsertedRowIs
      <4> QED
        BY <1>a, <1>b, <1>c, <1>d, <1>e, <4>2 DEF k
    <3>4. a + (count - 1) = a + count - 1
      BY <1>a, <1>b, <1>c, <1>d, <1>e, <1>1
    <3> QED
      BY <1>a, <1>b, <1>c, <1>d, <1>e, <3>2, <3>3, <3>4
  <2> HIDE DEF X
  <2>9. Distinct(w, d)
    <3>1. K \in SUBSET In(srcParent)
      BY <1>a, <1>b, <1>c, <1>d, <1>e, <1>2, <1>3, <1>4
    <3> HIDE DEF w, d
    <3> QED
      BY <1>a, <1>b, <1>c, <1>d, <1>e, <1>8, <3>1, ListDistinct
  <2> DEFINE T == Lasts(srcParent, srcRow, L)
  <2>10. MappedRow(shifted, z) + count = a + count - 1
    <3>1. w[a - 1] \in T
      BY <1>a, <1>b, <1>c, <1>d, <1>e, <2>5, <2>7
    <3>2. MappedRow(shifted, w[a - 1]) = a - 1
      <4> HIDE DEF w, d, T, shifted
      <4> QED
        BY <1>a, <1>b, <1>c, <1>d, <1>e, <1>9, <2>7, <2>9, <3>1, MappedRowIs DEF T
    <3> QED
      BY <1>a, <1>b, <1>c, <1>d, <1>e, <1>1, <2>7, <3>2
  <2>11. insertMapping(p, first, last)
           = MapInsert(MapRemove(shifted, e), index(last, p), a + count - 1)
    <3>1. rowCount(p) - 1 - count = first - 1
      BY <1>a, <1>b, <1>c, <1>d, <1>e, <1>1, <1>13
    <3>2. insertMapping(p, first, last)
            = MapInsert(MapRemove(shifted, e), index(last, p), MappedRow(shifted, z) + count)
      BY <1>a, <1>b, <1>c, <1>d, <1>e, <1>13, <3>1 DEF insertMapping, e, z
    <3> QED
      BY <1>a, <1>b, <1>c, <1>d, <1>e, <2>10, <3>2
  <2>12. MapsSet(MapRemove(shifted, e), w, T \ {e})
    <3> HIDE DEF w, T, shifted
    <3> QED
      BY <1>a, <1>b, <1>c, <1>d, <1>e, <1>9, DropEntry DEF T
  <2>13. MapsSet(MapInsert(MapRemove(shifted, e), index(last, p), a + count - 1), w,
                 (T \ {e}) \cup {index(last, p)})
    <3> DEFINE k == a + count - 1
    <3>1. k \in 0 .. d - 1 /\ w[k] = index(last, p)
      BY <1>a, <1>b, <1>c, <1>d, <1>e, <2>8
    <3> HIDE DEF w, T, shifted, k, d
    <3>2. MapsSet(MapInsert(MapRemove(shifted, e), w[k], k), w, (T \ {e}) \cup {w[k]})
      BY <1>a, <1>b, <1>c, <1>d, <1>e, <2>9, <2>12, <3>1, AddEntry
    <3> QED
      BY <1>a, <1>b, <1>c, <1>d, <1>e, <3>1, <3>2 DEF k
  <2>14. Lasts(srcParent, srcRow, K) = (T \ {e}) \cup {index(last, p)}
    BY <1>a, <1>b, <1>c, <1>d, <1>e, <1>11, <1>13 DEF e
  <2> QED
    BY <1>a, <1>b, <1>c, <1>d, <1>e, <1>8, <2>11, <2>13, <2>14
<1> QED
  BY <1>12, <1>13 DEF count, new, K

\* Nothing of what is below the rows of a closed index is listed.
LEMMA ClosedHidesRows ==
    ASSUME IsTree(srcParent), NEW p \in Known, ~Open(p), NEW first, NEW last
    PROVE  WholeList \ BelowRows(srcParent, srcRow, p, first, last) = WholeList
<1> DEFINE up == Ancestors(srcParent)
<1>1. SUFFICES ASSUME NEW n \in WholeList, n \in BelowRows(srcParent, srcRow, p, first, last) PROVE FALSE
  OBVIOUS
<1>2. PICK x \in up[n] : srcParent[x] = p
  BY <1>1 DEF BelowRows, RowsIn
<1>3. n \in In(srcParent) /\ up[srcParent[n]] \subseteq ExpandedIndexes
  BY DEF WholeList, ListedIn
<1>4. up[p] \subseteq ExpandedIndexes
  BY <1>2, <1>3, AboveAncestor
<1>5. p \in OpenIndexes
  BY <1>4, OpenByAncestors
<1> QED
  BY <1>5, RowCountsOf

\* What is below an index is below one of its rows.
LEMMA BelowAllRows ==
    ASSUME IsTree(srcParent), Numbered(srcParent, srcRow), NEW p \in In(srcParent) \cup {Root}
    PROVE  WholeList \ BelowRows(srcParent, srcRow, p, 0, rowCount(p) - 1)
              = ListedIn(srcParent, ExpandedIndexes, {p})
<1> DEFINE up == Ancestors(srcParent)
           B == BelowRows(srcParent, srcRow, p, 0, rowCount(p) - 1)
<1>1. \A n \in In(srcParent) : n \in B <=> \E x \in up[n] : x \in Children(p)
  BY AllRows DEF BelowRows
<1>2. ASSUME NEW n \in In(srcParent) PROVE n \in B <=> p \in up[srcParent[n]] \cup {Root}
  <2>1. ASSUME NEW x \in up[n], x \in Children(p) PROVE p \in up[srcParent[n]] \cup {Root}
    <3>1. up[p] \subseteq up[srcParent[n]]
      BY <2>1, AboveAncestor DEF Children
    <3>2. p = Root \/ p \in up[p]
      BY AncestorsOfOne
    <3> QED
      BY <3>1, <3>2
  <2>2. ASSUME p \in up[srcParent[n]] \cup {Root} PROVE \E x \in up[n] : x \in Children(p)
    <3>1. PICK b \in up[n] : b \in In(srcParent) /\ srcParent[b] = p
      BY <2>2, BranchBelow
    <3> QED
      BY <3>1 DEF Children, In
  <2> QED
    BY <1>1, <2>1, <2>2
<1> HIDE DEF B
<1>3. \A n : n \in WholeList \ B <=> n \in ListedIn(srcParent, ExpandedIndexes, {p})
  BY <1>2 DEF WholeList, ListedIn
<1> QED
  BY <1>3 DEF B

LEMMA HandleRowsInsertedRows == TInv /\ BalanceInv /\ RowsInv /\ HandleRowsInserted => RowsInv'
<1> SUFFICES ASSUME TInv, BalanceInv, RowsInv, HandleRowsInserted PROVE RowsInv'
  OBVIOUS
<1> DEFINE p == op.parent
           first == op.first
           last == op.last
           count == last - first + 1
           B == BelowRows(srcParent, srcRow, p, first, last)
<1>1. /\ phase = "inserted"
      /\ UNCHANGED <<srcParent, srcRow, userVars, m_relayouting, m_layoutChangePersistentIndexes>>
  BY DEF HandleRowsInserted, srcVars, LayoutKept
<1>2. \/ /\ ~Open(p) /\ Finishes
         /\ UNCHANGED <<announced, view, viewCount, m_mapping, m_rowCount, m_pendingParents>>
      \/ /\ Open(p) /\ rowCount(p) = count
         /\ m_pendingParents' = Append(m_pendingParents, p)
         /\ Refreshes("idle")
         /\ UNCHANGED <<announced, view, viewCount, m_mapping, m_rowCount>>
      \/ /\ Open(p) /\ rowCount(p) # count
         /\ m_mapping' = insertMapping(p, first, last)
         /\ m_rowCount' = m_rowCount + count
         /\ m_pendingParents' = m_pendingParents \o Expandable(p, first, last)
         /\ EndInsertRows(m_mapping')
         /\ Refreshes("idle")
  BY DEF HandleRowsInserted, viewVars, RowsKept, PendingKept
<1>3. /\ Where = "inserted" /\ resume = "idle" /\ m_pendingParents = <<>> /\ ~m_relayouting
  BY <1>1 DEF Where, BalanceInv, QueueInv, TInv, LayoutTypeOK
<1>4. /\ IsTree(srcParent) /\ Numbered(srcParent, srcRow)
      /\ p \in Known /\ first \in Nat /\ last \in Nat /\ first <= last
  BY <1>3 DEF BalanceInv, WhereInv, InsertInv, RowsInv, TInv, ControlTypeOK
<1>5. /\ p \in Nodes \cup {Root} /\ p \in In(srcParent) \cup {Root}
      /\ RowCounts[p] = rowCount(p) /\ rowCount(p) \in Nat
      /\ p \in OpenIndexes <=> Open(p)
  BY <1>4, RowCountsOf, RowCountType DEF Known, Present, In
<1>6. Listed = WholeList
  BY <1>3, NoQueue DEF Listed, WholeList
<1>7. /\ Follows(WholeList \ B) /\ last < rowCount(p) /\ InsertionAnnounced
  BY <1>1, <1>5, <1>6 DEF RowsInv, InsertedRows
<1>8. ExpandedIndexes' = ExpandedIndexes
  BY <1>1, ExpandedKept
<1>9. m_layoutChangePersistentIndexes' = EmptyMapping
  BY <1>1, <1>3 DEF RowsInv, LayoutRows, InLayout
<1>10. Numbered(srcParent, srcRow)'
  BY <1>1, <1>4
<1>11. CASE ~Open(p)
  <2>1. /\ phase' = "idle" /\ resume' = "idle" /\ m_pendingParents' = <<>>
        /\ UNCHANGED <<view, viewCount, m_mapping, m_rowCount>>
    BY <1>2, <1>3, <1>11 DEF Finishes
  <2>2. WholeList \ B = WholeList
    BY <1>4, <1>11, ClosedHidesRows
  <2>3. WholeList' = WholeList
    BY <1>1, <1>8 DEF WholeList
  <2>4. Follows(WholeList)'
    BY <1>1, <1>7, <2>1, <2>2, <2>3 DEF Follows, MapsRowsOf
  <2> QED
    BY <1>9, <1>10, <2>1, <2>4, RowsAtIdle
<1>12. ASSUME Open(p) PROVE p \in ExpandedIndexes \cup {Root} /\ Ancestors(srcParent)[p] \subseteq ExpandedIndexes
  <2>1. Ancestors(srcParent)[p] \subseteq ExpandedIndexes
    BY <1>4, <1>5, <1>12, OpenByAncestors
  <2>2. p = Root \/ p \in Ancestors(srcParent)[p]
    BY <1>4, <1>5, AncestorsOfOne
  <2> QED
    BY <2>1, <2>2
<1>13. CASE Open(p) /\ rowCount(p) = count
  <2>1. /\ phase' = "pending" /\ resume' = "idle" /\ m_pendingParents' = <<p>>
        /\ UNCHANGED <<view, viewCount, m_mapping, m_rowCount>>
    <3>1. Append(<<>>, p) = <<p>>
      OBVIOUS
    <3> QED
      BY <1>2, <1>3, <1>13, <3>1 DEF Refreshes
  <2>2. first = 0 /\ last = rowCount(p) - 1
    BY <1>4, <1>5, <1>7, <1>13
  <2>3. /\ QueueOf(<<p>>) = {p} /\ Apart(srcParent, ExpandedIndexes, <<p>>)
    BY <1>5, <1>12, <1>13, OneQueued
  <2>4. WholeList \ B = Listed'
    <3>1. WholeList \ B = ListedIn(srcParent, ExpandedIndexes, {p})
      BY <1>4, <1>5, <2>2, BelowAllRows
    <3> QED
      BY <1>1, <1>8, <2>1, <2>3, <3>1 DEF Listed
  <2>5. Follows(Listed)'
    <3>1. MapsRowsOf(Listed', view, viewCount)
      BY <1>7, <2>4 DEF Follows
    <3> HIDE DEF B
    <3> QED
      BY <1>1, <2>1, <3>1 DEF Follows, MapsRowsOf
  <2>6. Apart(srcParent, ExpandedIndexes, m_pendingParents)'
    BY <1>1, <1>8, <2>1, <2>3
  <2> QED
    BY <1>1, <1>3, <1>9, <1>10, <2>1, <2>5, <2>6, RowsLeft
<1>14. CASE Open(p) /\ rowCount(p) # count
  <2> DEFINE a == Announced.first
             L == WholeList \ B
             e == Expandable(p, first, last)
             K == ListedIn(srcParent, ExpandedIndexes, QueueOf(e))
             new == [k \in 0 .. count - 1 |-> index(first + k, p)]
             mapping == insertMapping(p, first, last)
             w == InsertedList(view, viewCount, a, new, count)
             d == viewCount + count
  <2>1. /\ m_mapping' = mapping /\ m_rowCount' = m_rowCount + count
        /\ m_pendingParents' = e /\ EndInsertRows(mapping)
        /\ phase' = "pending" /\ resume' = "idle"
    <3>1. /\ m_mapping' = mapping /\ m_rowCount' = m_rowCount + count
          /\ m_pendingParents' = m_pendingParents \o e /\ EndInsertRows(m_mapping')
          /\ phase' = "pending" /\ resume' = "idle"
      BY <1>2, <1>14 DEF Refreshes
    <3>2. e \in Seq(Nodes \cup {Root})
      BY ExpandableType, <1>4
    <3>3. <<>> \o e = e
      BY <3>2
    <3> HIDE DEF e, mapping
    <3> QED
      BY <1>3, <3>1, <3>3
  <2>2. One("insert")
    BY <1>3, <1>5, <1>14 DEF BalanceInv, WhereInv, InsertInv
  <2>3. IsAnnounced
    BY <2>2, OneIs DEF IsAnnounced
  <2>4. /\ m_insertPair = <<Announced.first, Announced.last>>
        /\ Announced.last = Announced.first + (last - first)
        /\ BeginsAhead(view, viewCount)
    BY <1>7, <2>3 DEF InsertionAnnounced
  <2>5. /\ a \in 0 .. viewCount /\ m_insertPair[1] = a
        /\ \A r \in 0 .. viewCount - 1 : r < a <=> Ahead(srcParent, srcRow, view[r], p, first)
    BY <2>4 DEF BeginsAhead
  <2>6. AddsAmong(p, first, last, L, view, viewCount, a)
    <3>1. MapsRowsOf(L, view, viewCount)
      BY <1>7 DEF Follows
    <3> HIDE DEF p, first, last, a
    <3> QED
      BY <1>4, <1>5, <1>7, <1>12, <1>14, <2>5, <3>1 DEF AddsAmong
  <2> HIDE DEF a, p, first, last
  <2>7. /\ IsList(srcParent, srcRow, w, d, K)
        /\ MapsSet(mapping, w, Lasts(srcParent, srcRow, K))
    BY <2>6, AddedAmong
  <2>8. /\ viewCount \in Nat /\ DOMAIN view = 0 .. viewCount - 1 /\ m_rowCount = viewCount
    BY <1>7 DEF Follows, MapsRowsOf, IsList
  <2>9. count \in Nat /\ Announced.last = Announced.first + count - 1
    <3>1. Announced.first \in Nat
      BY <2>5, <2>8 DEF a
    <3> QED
      BY <1>4, <2>4, <3>1 DEF first, last
  <2>10. \A k \in 0 .. count - 1 : mapToSource(mapping, a + k) = new[k]
    <3>1. IsListing(srcParent, K) /\ WholeRows(srcParent, K)
      BY <1>4, ListedFacts
    <3>2. \A q \in 0 .. d - 1 : mapToSource(mapping, q) = w[q]
      <4> HIDE DEF K, w, mapping, d
      <4> QED
        BY <1>4, <2>7, <3>1, Reads
    <3> SUFFICES ASSUME NEW k \in 0 .. count - 1 PROVE mapToSource(mapping, a + k) = new[k]
      OBVIOUS
    <3> HIDE DEF K, mapping, new, count
    <3>6. a + k \in 0 .. (viewCount + count) - 1 /\ w[a + k] = new[k]
      BY <2>5, <2>8, <2>9, InsertedRowIs
    <3> HIDE DEF w
    <3> QED
      BY <3>2, <3>6
  <2>11. view' = w /\ viewCount' = d
    <3>0. announced \in Seq(Announcements) /\ EndInsertRows(mapping) /\ Announced.first = a
      BY <2>1 DEF TInv, ViewTypeOK, a
    <3> HIDE DEF mapping, new, count
    <3>2. /\ Announced.first \in 0 .. viewCount /\ Announced.last = Announced.first + count - 1
          /\ \A k \in 0 .. count - 1 : mapToSource(mapping, Announced.first + k) = new[k]
      BY <2>5, <2>9, <2>10, <3>0
    <3>4. /\ view' = InsertedList(view, viewCount, Announced.first, new, count)
          /\ viewCount' = viewCount + count
      BY <2>2, <2>8, <2>9, <3>0, <3>2, InsertedView
    <3> QED
      BY <3>0, <3>4
  <2>12. Listed' = K
    BY <1>1, <1>8, <2>1 DEF Listed
  <2>13. Follows(Listed)'
    <3>1. m_mapping' = mapping /\ m_rowCount' = d
      BY <2>1, <2>8
    <3> HIDE DEF K, w, mapping, d
    <3> QED
      BY <1>1, <2>7, <2>11, <2>12, <3>1 DEF Follows, MapsRowsOf
  <2>14. Apart(srcParent, ExpandedIndexes, m_pendingParents)'
    <3>1. Apart(srcParent, ExpandedIndexes, e)
      BY <1>4, <1>5, <1>7, ExpandableApart
    <3> HIDE DEF e
    <3> QED
      BY <1>1, <1>8, <2>1, <3>1
  <2> QED
    BY <1>1, <1>3, <1>9, <1>10, <2>1, <2>13, <2>14, RowsLeft
<1> QED
  BY <1>11, <1>13, <1>14

----------------------------------------------------------------------------
(* Removals.                                                               *)

\* All that is below p is expanded.
AllExpanded(p) ==
    \A n \in Present : (p \in Above(n) \cup {Root}) /\ hasChildren(n) => isSourceIndexExpanded(n)

\* So all of it is listed.
LEMMA AllListed ==
    ASSUME IsTree(srcParent), NEW p \in Known, Ancestors(srcParent)[p] \subseteq ExpandedIndexes,
           AllExpanded(p)
    PROVE  Under(srcParent, p) \subseteq WholeList
<1> DEFINE up == Ancestors(srcParent)
<1>1. p \in In(srcParent) \cup {Root}
  BY DEF Known, Present, In
<1>2. SUFFICES ASSUME NEW n \in In(srcParent), p \in up[srcParent[n]] \cup {Root},
                      NEW a \in up[srcParent[n]]
               PROVE  a \in ExpandedIndexes
  BY DEF Under, WholeList, ListedIn
<1>3. srcParent[n] \in In(srcParent) \cup {Root}
  BY AncestorsOfOne
<1>4. a \in In(srcParent)
  BY <1>3, AncestorsClosed
<1>5. hasChildren(a)
  <2>1. PICK b \in up[n] : b \in In(srcParent) /\ srcParent[b] = a
    BY <1>2, <1>4, BranchBelow
  <2> QED
    BY <2>1 DEF hasChildren, Children, In
<1>6. CASE a \in up[p]
  BY <1>6
<1>7. CASE a \notin up[p]
  <2>1. p = Root \/ p \in up[a]
    BY <1>2, <1>3, <1>7, AncestorsChain
  <2>2. p = Root \/ p \in up[srcParent[a]]
    <3>1. up[a] = {a} \cup up[srcParent[a]]
      BY <1>4, AncestorsOfOne
    <3>2. p # Root => p \in up[p]
      BY <1>1, AncestorsOfOne
    <3> QED
      BY <1>7, <2>1, <3>1, <3>2
  <2>3. Above(a) = up[srcParent[a]] /\ a \in Present /\ a \in Nodes
    BY <1>4, SelfAndAboveIsAncestors DEF Above, parent, Present, In
  <2>4. isSourceIndexExpanded(a)
    BY <1>5, <2>2, <2>3 DEF AllExpanded
  <2> QED
    BY <2>3, <2>4 DEF ExpandedIndexes
<1> QED
  BY <1>6, <1>7

\* Where the rows of p that go are: the rows above them are those that come before them.
LEMMA RemovalIs ==
    ASSUME IsTree(srcParent), Numbered(srcParent, srcRow),
           NEW v, NEW c, MapsRowsOf(WholeList, v, c),
           NEW p \in Known, Open(p), AllExpanded(p),
           NEW first \in Nat, NEW last \in Nat, first <= last, last < rowCount(p)
    PROVE  LET start == mapFromSource(m_mapping, index(first, p))
               end == mapFromSource(m_mapping, lastBelow[index(last, p)])
           IN  /\ start \in 0 .. c - 1 /\ end \in 0 .. c - 1 /\ start <= end
               /\ \A r \in 0 .. c - 1 :
                     /\ r \in start .. end <=>
                           v[r] \in BelowRows(srcParent, srcRow, p, first, last)
                     /\ r < start <=> Ahead(srcParent, srcRow, v[r], p, first)
               /\ Under(srcParent, p) \subseteq WholeList
<1> DEFINE up == Ancestors(srcParent)
           prec(a, b) == Precedes(srcParent, srcRow, a, b)
           x == index(first, p)
           y == index(last, p)
           z == lastBelow[y]
           B == BelowRows(srcParent, srcRow, p, first, last)
<1>1. /\ p \in Present \cup {Root} /\ p \in In(srcParent) \cup {Root} /\ p \in Nodes \cup {Root}
      /\ up[p] \subseteq ExpandedIndexes
      /\ \A n \in In(srcParent) : srcParent[n] = p => n \in WholeList
  BY OpenListed DEF Known, In
<1>2. /\ IsList(srcParent, srcRow, v, c, WholeList) /\ c \in Nat
      /\ WholeList \in SUBSET In(srcParent)
  BY DEF MapsRowsOf, IsList, WholeList, ListedIn
<1>3. \A q, r \in 0 .. c - 1 : /\ prec(v[q], v[r]) <=> q < r
                               /\ v[q] = v[r] <=> q = r
                               /\ v[q] \in In(srcParent)
  BY <1>2, ListOrder
<1>4. /\ x \in Children(p) /\ srcRow[x] = first /\ y \in Children(p) /\ srcRow[y] = last
  <2>1. first \in 0 .. rowCount(p) - 1 /\ last \in 0 .. rowCount(p) - 1
    BY RowCountType
  <2> QED
    BY <1>1, <2>1, IndexExists
<1>5. /\ x \in In(srcParent) /\ srcParent[x] = p /\ y \in In(srcParent) /\ srcParent[y] = p
  BY <1>1, <1>4, NodesAssumption DEF Children, In
<1> HIDE DEF x, y
<1>6. /\ z \in In(srcParent) /\ y \in up[z]
      /\ \A n \in In(srcParent) : y \in up[n] => n = z \/ prec(n, z)
  BY <1>5, LastBelowIs
<1> HIDE DEF z
<1>7. StretchOf(p, first, last, x, y, z)
  BY <1>4, <1>5, <1>6 DEF StretchOf
<1>8. Under(srcParent, p) \subseteq WholeList
  BY <1>1, AllListed
<1>9. z \in WholeList
  <2>1. p = Root \/ p \in up[srcParent[z]]
    <3>1. up[p] \subseteq up[srcParent[z]]
      BY <1>5, <1>6, AboveAncestor
    <3>2. p = Root \/ p \in up[p]
      BY <1>1, AncestorsOfOne
    <3> QED
      BY <3>1, <3>2
  <2> QED
    BY <1>6, <1>8, <2>1 DEF Under
<1>10. PICK s \in 0 .. c - 1 : v[s] = x /\ mapFromSource(m_mapping, x) = s
  BY <1>1, <1>5, WholeReads
<1>11. PICK t \in 0 .. c - 1 : v[t] = z /\ mapFromSource(m_mapping, z) = t
  BY <1>9, WholeReads
<1>12. \A n \in In(srcParent) : n \in B <=> (n = x \/ prec(x, n)) /\ (n = z \/ prec(n, z))
  BY <1>7, StretchIs
<1>13. s <= t
  <2>1. z \in B
    <3>1. y \in RowsIn(srcParent, srcRow, p, first, last)
      BY <1>4, <1>5 DEF RowsIn
    <3> QED
      BY <1>6, <3>1 DEF BelowRows
  <2>2. z = x \/ prec(x, z)
    BY <1>6, <1>12, <2>1
  <2>3. v[s] = v[t] \/ prec(v[s], v[t])
    BY <1>10, <1>11, <2>2
  <2>4. s = t \/ s < t
    BY <1>3, <2>3
  <2> QED
    BY <2>4
<1>14. ASSUME NEW r \in 0 .. c - 1
       PROVE  (r \in s .. t <=> v[r] \in B) /\ (r < s <=> Ahead(srcParent, srcRow, v[r], p, first))
  <2>1. /\ v[r] \in In(srcParent)
        /\ v[r] = x <=> r = s
        /\ v[r] = z <=> r = t
        /\ prec(x, v[r]) <=> s < r
        /\ prec(v[r], z) <=> r < t
        /\ prec(v[r], x) <=> r < s
    BY <1>3, <1>10, <1>11
  <2>2. v[r] \in B <=> (r = s \/ s < r) /\ (r = t \/ r < t)
    BY <1>12, <2>1
  <2>3. Ahead(srcParent, srcRow, v[r], srcParent[x], srcRow[x]) <=> prec(v[r], x)
    BY <1>5, <2>1, AheadOfChild
  <2>4. Ahead(srcParent, srcRow, v[r], p, first) <=> r < s
    BY <1>4, <1>5, <2>1, <2>3
  <2>5. r \in s .. t <=> (r = s \/ s < r) /\ (r = t \/ r < t)
    OBVIOUS
  <2> QED
    BY <2>2, <2>4, <2>5
<1> QED
  BY <1>8, <1>10, <1>11, <1>13, <1>14 DEF x, y, z

\* Rows first .. last of p are marked as expanded: that shows nothing more where all
\* below p is expanded anyway, or where p is closed.
LEMMA MarkedShowsNothing ==
    ASSUME IsTree(srcParent), NEW p \in Known, NEW first, NEW last,
           ~Open(p) \/ AllExpanded(p)
    PROVE  ListedIn(srcParent,
                    ExpandedIndexes \cup RowsIn(srcParent, srcRow, p, first, last), {}) = WholeList
<1> DEFINE up == Ancestors(srcParent)
           X == RowsIn(srcParent, srcRow, p, first, last)
<1>1. \A x \in X : x \in In(srcParent) /\ srcParent[x] = p
  BY DEF RowsIn
<1>2. p \in In(srcParent) \cup {Root}
  BY DEF Known, Present, In
<1> HIDE DEF X
<1>3. SUFFICES ASSUME NEW n \in In(srcParent), up[srcParent[n]] \subseteq ExpandedIndexes \cup X,
                      NEW a \in up[srcParent[n]], a \in X
               PROVE  a \in ExpandedIndexes
  BY DEF WholeList, ListedIn, X
<1>4. a \in In(srcParent) /\ srcParent[a] = p /\ srcParent[n] \in In(srcParent) \cup {Root}
  BY <1>1, <1>3, AncestorsOfOne
<1>5. up[p] \subseteq up[srcParent[n]]
  <2>1. up[n] = {n} \cup up[srcParent[n]]
    BY AncestorsOfOne
  <2> QED
    BY <1>3, <1>4, <2>1, AboveAncestor
<1>6. \A x \in X : x \notin up[p]
  BY <1>1, NoCycle
<1>7. up[p] \subseteq ExpandedIndexes
  BY <1>3, <1>5, <1>6
<1>8. AllExpanded(p)
  <2>1. p \in OpenIndexes
    BY <1>7, OpenByAncestors
  <2> QED
    BY <2>1, RowCountsOf
<1>9. hasChildren(a)
  <2>1. PICK b \in up[n] : b \in In(srcParent) /\ srcParent[b] = a
    BY <1>3, <1>4, BranchBelow
  <2> QED
    BY <2>1 DEF hasChildren, Children, In
<1>10. Above(a) = up[p] /\ a \in Present /\ a \in Nodes
  BY <1>4, SelfAndAboveIsAncestors DEF Above, parent, Present, In
<1>11. p = Root \/ p \in up[p]
  BY <1>2, AncestorsOfOne
<1>12. isSourceIndexExpanded(a)
  BY <1>8, <1>9, <1>10, <1>11 DEF AllExpanded
<1> QED
  BY <1>10, <1>12 DEF ExpandedIndexes

\* sourceRowsAboutToBeRemoved forgets at most that the rows are expanded.
LEMMA ForgetsRemoved ==
    ASSUME IsTree(srcParent), Numbered(srcParent, srcRow),
           NEW p \in Known, NEW first \in Nat, NEW last \in Nat, last < rowCount(p),
           UNCHANGED <<m_expandsByDefault, m_collapsedSourceIndexes>>,
           \/ m_expandedSourceIndexes' = m_expandedSourceIndexes
           \/ m_expandedSourceIndexes' = m_expandedSourceIndexes \ {index(r, p) : r \in first .. last}
    PROVE  /\ ExpandedIndexes' \cup RowsIn(srcParent, srcRow, p, first, last)
                = ExpandedIndexes \cup RowsIn(srcParent, srcRow, p, first, last)
           /\ m_expandsByDefault => ExpandedIndexes' = ExpandedIndexes
<1> DEFINE X == RowsIn(srcParent, srcRow, p, first, last)
<1>1. \A r \in first .. last : index(r, p) \in X
  <2> SUFFICES ASSUME NEW r \in first .. last PROVE index(r, p) \in X
    OBVIOUS
  <2>1. p \in Nodes \cup {Root} /\ r \in 0 .. rowCount(p) - 1
    BY RowCountType DEF Known, Present
  <2>2. index(r, p) \in Children(p) /\ srcRow[index(r, p)] = r
    BY <2>1, IndexExists
  <2> QED
    BY <2>1, <2>2, NodesAssumption DEF RowsIn, Children, In
<1>2. \A i \in Nodes : /\ i \in ExpandedIndexes <=>
                              IF m_expandsByDefault THEN i \notin m_collapsedSourceIndexes
                              ELSE i \in m_expandedSourceIndexes
                       /\ i \in ExpandedIndexes' <=>
                              IF m_expandsByDefault' THEN i \notin m_collapsedSourceIndexes'
                              ELSE i \in m_expandedSourceIndexes'
  BY NodesAssumption DEF ExpandedIndexes, isSourceIndexExpanded
<1>3. ExpandedIndexes \in SUBSET Nodes /\ ExpandedIndexes' \in SUBSET Nodes
  BY DEF ExpandedIndexes
<1>4. \A i \in m_expandedSourceIndexes : i \notin X => i \in m_expandedSourceIndexes'
  BY <1>1
<1>5. m_expandedSourceIndexes' \subseteq m_expandedSourceIndexes
  OBVIOUS
<1> HIDE DEF X
<1>6. \A i \in Nodes : i \notin X => (i \in ExpandedIndexes' <=> i \in ExpandedIndexes)
  BY <1>2, <1>4, <1>5
<1>7. ExpandedIndexes' \cup X = ExpandedIndexes \cup X
  BY <1>3, <1>6
<1>8. m_expandsByDefault => ExpandedIndexes' = ExpandedIndexes
  BY <1>2, <1>3
<1> QED
  BY <1>7, <1>8 DEF X

LEMMA AboutToRemoveRows ==
    ASSUME BalanceInv, RowsInv, {"removeCollapsed", "removeBeside"} \cap Operations = {},
           NEW p, NEW first, NEW last, AboutToRemove(p, first, last), last \in Int
    PROVE  RowsInv'
<1> DEFINE start == mapFromSource(m_mapping, index(first, p))
           end == mapFromSource(m_mapping, lastBelow[index(last, p)])
           X == RowsIn(srcParent, srcRow, p, first, last)
           B == BelowRows(srcParent, srcRow, p, first, last)
<1>1. /\ phase = "idle" /\ phase' = "removing" /\ p \in Known
      /\ first \in 0 .. last /\ last < rowCount(p)
      /\ op' = [NoOp EXCEPT !.parent = p, !.first = first, !.last = last]
      /\ UNCHANGED <<srcParent, srcRow, m_expandsByDefault, m_collapsedSourceIndexes, resume,
                     view, viewCount, m_mapping, m_rowCount,
                     m_pendingParents, m_relayouting, m_layoutChangePersistentIndexes>>
  BY DEF AboutToRemove, MayRemove, Starts, srcVars, RowsKept, PendingKept, LayoutKept, Known
<1>2. IF Open(p)
      THEN /\ m_expandedSourceIndexes' = m_expandedSourceIndexes \ {index(r, p) : r \in first .. last}
           /\ m_removePair' = <<start, end>> /\ Begin("remove", start, end)
      ELSE m_expandedSourceIndexes' = m_expandedSourceIndexes /\ announced' = announced
  BY DEF AboutToRemove
<1>3. ~Open(p) \/ AllExpanded(p)
  BY DEF AboutToRemove, MayRemove, NoneHiddenBelow, Starts, AllExpanded
<1>4. /\ resume = "idle" /\ m_pendingParents = <<>> /\ announced = <<>>
      /\ m_layoutChangePersistentIndexes = EmptyMapping
      /\ IsTree(srcParent) /\ Numbered(srcParent, srcRow)
      /\ MapsRowsOf(WholeList, view, viewCount)
  BY <1>1, IdleRows DEF Follows
<1>5. op'.parent = p /\ op'.first = first /\ op'.last = last
  BY <1>1 DEF NoOp
<1>6. first \in Nat /\ last \in Nat /\ first <= last /\ p \in Nodes \cup {Root}
      /\ RowCounts[p] = rowCount(p)
  BY <1>1, RowCountsOf
<1>7. Where' = "removing"
  BY <1>1 DEF Where
<1>8. PendingRows'
  BY <1>1, <1>4, NoQueue DEF PendingRows
<1>9. LayoutRows'
  BY <1>1, <1>4, <1>7 DEF LayoutRows, InLayout
<1>10. Numbered(srcParent, srcRow)'
  BY <1>1, <1>4
<1>11. /\ ExpandedIndexes' \cup X = ExpandedIndexes \cup X
       /\ m_expandsByDefault => ExpandedIndexes' = ExpandedIndexes
  <2>1. \/ m_expandedSourceIndexes' = m_expandedSourceIndexes
        \/ m_expandedSourceIndexes' = m_expandedSourceIndexes \ {index(r, p) : r \in first .. last}
    BY <1>2
  <2> QED
    BY <1>1, <1>4, <1>6, <2>1, ForgetsRemoved
<1>12. Removed' = X
  BY <1>1, <1>5 DEF Removed
<1>13. ListedBeforeRemoval' = WholeList
  <2>1. ListedBeforeRemoval' = ListedIn(srcParent, ExpandedIndexes \cup X, {})
    <3> HIDE DEF X
    <3> QED
      BY <1>1, <1>11, <1>12 DEF ListedBeforeRemoval
  <2> QED
    BY <1>1, <1>3, <1>4, <2>1, MarkedShowsNothing
<1>14. Follows(ListedBeforeRemoval)'
  BY <1>1, <1>4, <1>13 DEF Follows, MapsRowsOf
<1>15. m_expandsByDefault' => ListedBeforeRemoval' = Listed'
  BY <1>1, <1>4, <1>11, <1>13, NoQueue DEF Listed, WholeList
<1>16. op'.last < RowCounts'[op'.parent]
  <2>1. RowCounts' = RowCounts
    BY <1>1 DEF RowCounts, rowCount, Children
  <2> QED
    BY <1>1, <1>5, <1>6, <2>1
<1>17. CASE Open(p)
  <2>1. /\ start \in 0 .. viewCount - 1 /\ end \in 0 .. viewCount - 1 /\ start <= end
        /\ \A r \in 0 .. viewCount - 1 :
              /\ r \in start .. end <=> view[r] \in B
              /\ r < start <=> Ahead(srcParent, srcRow, view[r], p, first)
        /\ Under(srcParent, p) \subseteq WholeList
    <3> HIDE DEF start, end, B
    <3>1. AllExpanded(p)
      BY <1>3, <1>17
    <3> QED
      BY <1>1, <1>4, <1>6, <1>17, <3>1, RemovalIs DEF start, end, B
  <2>2. /\ m_removePair' = <<start, end>> /\ Announced'.first = start /\ Announced'.last = end
    BY <1>2, <1>4, <1>17, BeginsFirst
  <2>3. viewCount \in Nat
    BY <1>4 DEF MapsRowsOf, IsList
  <2> HIDE DEF start, end
  <2>4. RealRemoval'
    BY <1>1, <2>1, <2>2, <2>3 DEF RealRemoval
  <2>5. (\A r \in 0 .. viewCount - 1 :
            r \in Announced.first .. Announced.last <=>
                view[r] \in BelowRows(srcParent, srcRow, op.parent, op.first, op.last))'
    BY <1>1, <1>5, <2>1, <2>2
  <2>6. BeginsAhead(view, viewCount)'
    <3>1. start \in 0 .. viewCount
      BY <2>1, <2>3
    <3> QED
      BY <1>1, <1>5, <2>1, <2>2, <3>1 DEF BeginsAhead
  <2>7. (Under(srcParent, op.parent) \subseteq ListedBeforeRemoval)'
    BY <1>1, <1>5, <1>13, <2>1
  <2>8. m_removePair' = <<Announced'.first, Announced'.last>>
    BY <2>2
  <2>9. RemovingRows'
    BY <1>14, <1>15, <1>16, <2>4, <2>5, <2>6, <2>7, <2>8 DEF RemovingRows
  <2> QED
    BY <1>1, <1>7, <1>8, <1>9, <1>10, <2>9
       DEF RowsInv, ListenerRows, RebuiltRows, OpenRows, InsertingRows, InsertedRows, RemovedRows,
           CollapsingRows
<1>18. CASE ~Open(p)
  <2>1. ~IsAnnounced'
    BY <1>2, <1>4, <1>18 DEF IsAnnounced
  <2>2. RemovingRows'
    BY <1>14, <1>15, <1>16, <2>1 DEF RemovingRows
  <2> QED
    BY <1>1, <1>7, <1>8, <1>9, <1>10, <2>2
       DEF RowsInv, ListenerRows, RebuiltRows, OpenRows, InsertingRows, InsertedRows, RemovedRows,
           CollapsingRows
<1> QED
  BY <1>17, <1>18

\* The source removes rows first .. last of p.
RemovesRows(p, first, last) ==
    /\ IsTree(srcParent) /\ Numbered(srcParent, srcRow) /\ SourceTypeOK
    /\ p \in Known /\ first \in Nat /\ last \in Nat /\ first <= last /\ last < rowCount(p)
    /\ RemoveRows(p, first, last)

LEMMA RemovedRest ==
    ASSUME NEW p, NEW first, NEW last, RemovesRows(p, first, last)
    PROVE  LET B == BelowRows(srcParent, srcRow, p, first, last)
               rest == In(srcParent) \ B
           IN  /\ IsTree(srcParent') /\ Numbered(srcParent', srcRow')
               /\ In(srcParent') = rest
               /\ KeepsOrder(srcParent, srcRow, srcParent', srcRow', rest)
               /\ p \in rest \cup {Root}
               /\ \A i \in rest \cup {Root} : /\ Ancestors(srcParent')[i] = Ancestors(srcParent)[i]
                                              /\ Ancestors(srcParent)[i] \subseteq rest
               /\ \A n \in rest : srcParent[n] = p =>
                     /\ srcRow'[n] < first <=> srcRow[n] < first
                     /\ srcRow'[n] + 1 = first <=> srcRow[n] + 1 = first
<1> DEFINE B == BelowRows(srcParent, srcRow, p, first, last)
           rest == In(srcParent) \ B
<1>1. /\ IsTree(srcParent) /\ Numbered(srcParent, srcRow) /\ SourceTypeOK
      /\ p \in Present \cup {Root} /\ first \in Nat /\ last \in Nat /\ first <= last
      /\ last < rowCount(p) /\ RemoveRows(p, first, last)
  BY DEF RemovesRows, Known
<1>2. rest = Present \ InRows(p, first, last) /\ InRows(p, first, last) = B
  BY <1>1, InRowsIsBelow DEF Present, In
<1>3. /\ IsTree(srcParent') /\ In(srcParent') = rest
      /\ \A i \in rest \cup {Root} : Ancestors(srcParent')[i] = Ancestors(srcParent)[i]
  BY <1>1, <1>2, RemoveRowsKeepsTree
<1>4. Numbered(srcParent', srcRow')
  BY <1>1, RemoveRowsNumbers
<1>5. /\ \A n \in rest : srcParent[n] \in rest \cup {Root}
      /\ p \in rest \cup {Root}
      /\ \A i \in rest \cup {Root} : Ancestors(srcParent)[i] \subseteq rest
  BY <1>1, <1>2, RestOfTree
<1>6. ASSUME NEW n \in rest
      PROVE  /\ n \in Nodes /\ srcParent'[n] = srcParent[n]
             /\ srcRow[n] \in Nat /\ srcRow'[n] \in Nat
             /\ srcRow'[n] = IF srcParent[n] = p /\ srcRow[n] > last
                             THEN srcRow[n] - (last - first + 1) ELSE srcRow[n]
  <2>1. n \in Nodes /\ n \notin InRows(p, first, last)
    BY <1>2 DEF In
  <2>2. srcRow[n] \in Nat
    BY <1>1, <2>1 DEF SourceTypeOK
  <2>3. srcParent'[n] = srcParent[n]
    BY <1>1, <2>1 DEF RemoveRows
  <2>4. srcRow'[n] = IF srcParent[n] = p /\ srcRow[n] > last
                     THEN srcRow[n] - (last - first + 1) ELSE srcRow[n]
    BY <1>1, <2>1 DEF RemoveRows
  <2> QED
    BY <1>1, <2>1, <2>2, <2>3, <2>4
<1>7. ASSUME NEW n \in rest, srcParent[n] = p
      PROVE  srcRow[n] < first \/ srcRow[n] > last
  <2>1. n \in Present /\ n \notin InRows(p, first, last)
    BY <1>2
  <2>2. ~(srcRow[n] \in first .. last)
    BY <1>1, <1>7, <2>1, ChildrenInRows
  <2> QED
    BY <1>1, <1>6, <2>2
<1>8. ASSUME NEW n \in rest, srcParent[n] = p
      PROVE  /\ srcRow'[n] < first <=> srcRow[n] < first
             /\ srcRow'[n] + 1 = first <=> srcRow[n] + 1 = first
  BY <1>1, <1>6, <1>7, <1>8
<1>9. \A m, n \in rest : srcParent[m] = srcParent[n] => (srcRow[m] < srcRow[n] <=> srcRow'[m] < srcRow'[n])
  <2> SUFFICES ASSUME NEW m \in rest, NEW n \in rest, srcParent[m] = srcParent[n]
               PROVE  srcRow[m] < srcRow[n] <=> srcRow'[m] < srcRow'[n]
    OBVIOUS
  <2>1. CASE srcParent[n] = p
    BY <1>1, <1>6, <1>7, <2>1
  <2>2. CASE srcParent[n] # p
    BY <1>6, <2>2
  <2> QED
    BY <2>1, <2>2
<1>10. srcParent' \in [Nodes -> Indexes]
  BY <1>3 DEF IsTree
<1>11. KeepsOrder(srcParent, srcRow, srcParent', srcRow', rest)
  <2> HIDE DEF B
  <2> QED
  BY <1>5, <1>6, <1>9, <1>10 DEF KeepsOrder
<1> HIDE DEF rest
<1> QED
  BY <1>3, <1>4, <1>5, <1>8, <1>11 DEF rest

\* The last children of what is left.
LEMMA LastsAfterRemoval ==
    ASSUME NEW p, NEW first, NEW last, RemovesRows(p, first, last),
           NEW L \in SUBSET In(srcParent), Children(p) \subseteq L,
           NEW n \in L, n \notin BelowRows(srcParent, srcRow, p, first, last)
    PROVE  n \in Lasts(srcParent, srcRow, L) <=>
              /\ n \in Lasts(srcParent, srcRow, L \ BelowRows(srcParent, srcRow, p, first, last))
              /\ ~(srcParent[n] = p /\ srcRow[n] + 1 = first)
<1> DEFINE B == BelowRows(srcParent, srcRow, p, first, last)
<1>1. /\ IsTree(srcParent) /\ Numbered(srcParent, srcRow) /\ SourceTypeOK
      /\ p \in Nodes \cup {Root} /\ first \in Nat /\ last \in Nat /\ first <= last
      /\ last < rowCount(p)
  BY DEF RemovesRows, Known, Present
<1>2. \A k \in L : k \in Nodes /\ k \in Present /\ srcRow[k] \in Nat
  BY <1>1 DEF SourceTypeOK, In, Present
<1>3. \A k \in L : k \in B <=> \/ srcParent[k] = p /\ srcRow[k] \in first .. last
                               \/ srcParent[k] \in B
  BY <1>1, <1>2, InRowsIsBelow, ChildrenInRows
<1> HIDE DEF B
<1>4. n \notin B
  BY DEF B
<1>5. CASE srcParent[n] # p
  <2>1. \A k \in L : srcParent[k] = srcParent[n] => k \notin B
    BY <1>3, <1>4, <1>5
  <2>2. n \in Lasts(srcParent, srcRow, L) <=> n \in Lasts(srcParent, srcRow, L \ B)
    BY <1>4, <2>1 DEF Lasts, IsLast
  <2> QED
    BY <1>5, <2>2 DEF B
<1>6. CASE srcParent[n] = p
  <2>1. srcParent[n] \notin B
    BY <1>3, <1>4
  <2>2. \A k \in L : srcParent[k] = p => (k \in B <=> srcRow[k] \in first .. last)
    BY <1>3, <1>6, <2>1
  <2>3. srcRow[n] \in Nat /\ ~(srcRow[n] \in first .. last)
    BY <1>2, <1>4, <1>6, <2>2
  <2>4. CASE srcRow[n] > last
    <3>1. \A k \in L : srcParent[k] = p /\ k \in B => srcRow[k] <= srcRow[n]
      BY <1>1, <1>2, <2>2, <2>4
    <3>2. n \in Lasts(srcParent, srcRow, L) <=> n \in Lasts(srcParent, srcRow, L \ B)
      BY <1>4, <1>6, <3>1 DEF Lasts, IsLast
    <3>3. srcRow[n] + 1 # first
      BY <1>1, <2>3, <2>4
    <3> QED
      BY <3>2, <3>3 DEF B
  <2>5. CASE srcRow[n] < first
    <3>1. index(first, p) \in Children(p) /\ srcRow[index(first, p)] = first
      <4>1. first \in 0 .. rowCount(p) - 1
        BY <1>1, RowCountType
      <4> QED
        BY <1>1, <4>1, IndexExists
    <3>2. n \notin Lasts(srcParent, srcRow, L)
      BY <1>1, <1>6, <2>3, <2>5, <3>1 DEF Lasts, IsLast, Children
    <3>3. index(first - 1, p) \in Children(p) /\ srcRow[index(first - 1, p)] = first - 1
      <4>1. first - 1 \in 0 .. rowCount(p) - 1
        BY <1>1, <2>3, <2>5, RowCountType
      <4> QED
        BY <1>1, <4>1, IndexExists
    <3>4. index(first - 1, p) \in L \ B /\ srcParent[index(first - 1, p)] = p
      BY <1>1, <2>2, <3>3 DEF Children
    <3>5. n \in Lasts(srcParent, srcRow, L \ B) => srcRow[n] + 1 = first
      BY <1>1, <1>6, <2>3, <2>5, <3>3, <3>4 DEF Lasts, IsLast
    <3> QED
      BY <1>6, <3>2, <3>5 DEF B
  <2> QED
    BY <1>1, <2>3, <2>4, <2>5
<1> QED
  BY <1>5, <1>6

\* What is left listed.
LEMMA ListedAfterRemoval ==
    ASSUME NEW p, NEW first, NEW last, RemovesRows(p, first, last),
           m_pendingParents' = <<>>,
           \A a \in In(srcParent) \ BelowRows(srcParent, srcRow, p, first, last) :
              a \in ExpandedIndexes' <=> a \in ExpandedIndexes
    PROVE  Listed' = ListedIn(srcParent,
                              ExpandedIndexes \cup RowsIn(srcParent, srcRow, p, first, last), {})
                     \ BelowRows(srcParent, srcRow, p, first, last)
<1> DEFINE B == BelowRows(srcParent, srcRow, p, first, last)
           X == RowsIn(srcParent, srcRow, p, first, last)
           rest == In(srcParent) \ B
<1>1. /\ In(srcParent') = rest /\ p \in rest \cup {Root}
      /\ KeepsOrder(srcParent, srcRow, srcParent', srcRow', rest)
      /\ \A i \in rest \cup {Root} : /\ Ancestors(srcParent')[i] = Ancestors(srcParent)[i]
                                     /\ Ancestors(srcParent)[i] \subseteq rest
  BY RemovedRest
<1>2. IsTree(srcParent)
  BY DEF RemovesRows
<1>3. \A a \in rest : a \notin X
  <2>1. \A a \in In(srcParent) : a \in Ancestors(srcParent)[a]
    BY <1>2, AncestorsOfOne
  <2> QED
    BY <2>1 DEF BelowRows
<1>4. \A n \in rest : srcParent'[n] = srcParent[n] /\ srcParent[n] \in rest \cup {Root}
  BY <1>1 DEF KeepsOrder
<1> HIDE DEF B, X
<1>5. ASSUME NEW n \in rest
      PROVE  Ancestors(srcParent')[srcParent'[n]] \subseteq ExpandedIndexes'
                <=> Ancestors(srcParent)[srcParent[n]] \subseteq ExpandedIndexes \cup X
  <2>1. Ancestors(srcParent')[srcParent'[n]] = Ancestors(srcParent)[srcParent[n]]
    BY <1>1, <1>4
  <2>2. Ancestors(srcParent)[srcParent[n]] \subseteq rest
    BY <1>1, <1>4
  <2>3. \A a \in rest : a \in ExpandedIndexes' <=> a \in ExpandedIndexes
    BY DEF B
  <2> HIDE DEF rest
  <2> QED
    BY <1>3, <2>1, <2>2, <2>3
<1>6. Listed' = ListedIn(srcParent', ExpandedIndexes', {})
  BY NoQueue DEF Listed
<1> QED
  BY <1>1, <1>5, <1>6 DEF ListedIn, B, X

\* Rows of a closed index were not listed before.
LEMMA ClosedHidesRemoved ==
    ASSUME IsTree(srcParent), NEW p \in Known, p \notin OpenIndexes, NEW first, NEW last
    PROVE  ListedIn(srcParent,
                    ExpandedIndexes \cup RowsIn(srcParent, srcRow, p, first, last), {})
              \cap BelowRows(srcParent, srcRow, p, first, last) = {}
<1> DEFINE up == Ancestors(srcParent)
           X == RowsIn(srcParent, srcRow, p, first, last)
<1>1. PICK a \in up[p] : a \notin ExpandedIndexes
  BY OpenByAncestors
<1>2. p \in In(srcParent)
  BY <1>1, AncestorsOfOne DEF Known, Present, In
<1> SUFFICES ASSUME NEW n \in In(srcParent), up[srcParent[n]] \subseteq ExpandedIndexes \cup X,
                    NEW x \in up[n], x \in X
             PROVE  FALSE
  BY DEF ListedIn, BelowRows
<1>3. x \in In(srcParent) /\ srcParent[x] = p
  BY DEF RowsIn
<1>4. up[p] \subseteq up[srcParent[n]]
  BY <1>3, AboveAncestor
<1>5. a \notin X
  <2>1. \A y \in X : y \in In(srcParent) /\ srcParent[y] = p
    BY DEF RowsIn
  <2> QED
    BY <1>1, <2>1, NoCycle
<1> QED
  BY <1>1, <1>4, <1>5

\* What that makes of the list and of the mapping.
CutLeaves(p, first, last, L, v, c, m, a, b) ==
    LET d == b - a + 1
        w == CutList(v, c, a, b)
        K == L \ BelowRows(srcParent, srcRow, p, first, last)
    IN  /\ IsList(srcParent', srcRow', w, c - d, K)
        /\ MapsSet(MapShift(MapErase(Invalidated(m, InRows(p, first, last)), a, b), a, -d), w,
                   {n \in Lasts(srcParent', srcRow', K) :
                      ~(srcParent'[n] = p /\ srcRow'[n] + 1 = first)})
        /\ K \in SUBSET In(srcParent')
        /\ \A r \in 0 .. c - d - 1 : /\ w[r] \in K
                                     /\ w[r] = IF r < a THEN v[r] ELSE v[r + d]

LEMMA CutByRemoval ==
    ASSUME NEW p, NEW first, NEW last, RemovesRows(p, first, last),
           NEW L, NEW v, NEW c, NEW m, NEW a, NEW b, CutsRows(p, first, last, L, v, c, m, a, b)
    PROVE  CutLeaves(p, first, last, L, v, c, m, a, b)
<1> DEFINE d == b - a + 1
           w == CutList(v, c, a, b)
           B == BelowRows(srcParent, srcRow, p, first, last)
           K == L \ B
           rest == In(srcParent) \ B
           T == {n \in Lasts(srcParent', srcRow', K) :
                    ~(srcParent'[n] = p /\ srcRow'[n] + 1 = first)}
<1>1. /\ IsTree(srcParent) /\ Numbered(srcParent, srcRow) /\ InRows(p, first, last) = B
  BY InRowsIsBelow DEF RemovesRows
<1>2. /\ L \in SUBSET In(srcParent) /\ Children(p) \subseteq L
      /\ IsList(srcParent, srcRow, v, c, L)
      /\ MapsSet(m, v, Lasts(srcParent, srcRow, L))
      /\ a \in Nat /\ b \in Nat /\ a <= b /\ b < c /\ c \in Nat
      /\ \A r \in 0 .. c - 1 : r \in a .. b <=> v[r] \in B
  BY DEF CutsRows, IsList
<1>3. /\ In(srcParent') = rest
      /\ KeepsOrder(srcParent, srcRow, srcParent', srcRow', rest)
      /\ \A n \in rest : srcParent[n] = p => (srcRow'[n] + 1 = first <=> srcRow[n] + 1 = first)
  BY RemovedRest
<1>4. \A n \in rest : srcParent'[n] = srcParent[n]
  BY <1>3 DEF KeepsOrder
<1>5. \A n \in L : n \notin B =>
         (n \in Lasts(srcParent, srcRow, L) <=>
             n \in Lasts(srcParent, srcRow, K) /\ ~(srcParent[n] = p /\ srcRow[n] + 1 = first))
  BY <1>2, LastsAfterRemoval
<1> HIDE DEF B, rest
<1>6. K \in SUBSET rest
  BY <1>2 DEF rest
<1>7. L \ Span(v, a, b) = K
  <2>1. \A n \in L : n \in Span(v, a, b) => n \in B
    BY <1>2 DEF Span
  <2>2. \A n \in L : n \in B => n \in Span(v, a, b)
    <3> SUFFICES ASSUME NEW n \in L, n \in B PROVE n \in Span(v, a, b)
      OBVIOUS
    <3>1. PICK r \in 0 .. c - 1 : v[r] = n
      BY <1>2 DEF IsList
    <3> QED
      BY <1>2, <3>1 DEF Span
  <2> QED
    BY <2>1, <2>2
<1>8. IsList(srcParent, srcRow, w, c - d, K)
  <2>1. a \in 0 .. c /\ b \in Int /\ a <= b + 1
    BY <1>2
  <2>2. IsList(srcParent, srcRow, w, c - d, L \ Span(v, a, b))
    BY <1>1, <1>2, <2>1, CutFromList
  <2> QED
    BY <1>7, <2>2
<1>9. /\ IsList(srcParent', srcRow', w, c - d, K)
      /\ Lasts(srcParent', srcRow', K) = Lasts(srcParent, srcRow, K)
  <2> HIDE DEF K, w, d
  <2> QED
    BY <1>1, <1>3, <1>6, <1>8, ListKept
<1>10. \A n \in K : n \in Lasts(srcParent, srcRow, L) <=> n \in T
  <2>1. \A n \in K : n \in L /\ n \notin B /\ n \in rest
    BY <1>6
  <2> QED
    BY <1>3, <1>4, <1>5, <1>9, <2>1
<1>11. MapErase(Invalidated(m, InRows(p, first, last)), a, b) = MapErase(m, a, b)
  <2>1. ASSUME NEW r \in DOMAIN m, m[r] \in B PROVE ~(r < a \/ r > b)
    <3>1. r \in 0 .. c - 1 /\ m[r] = v[r]
      BY <1>2 DEF MapsSet, IsList
    <3>2. r \in a .. b
      BY <1>2, <2>1, <3>1
    <3> QED
      BY <1>2, <3>1, <3>2
  <2> QED
    BY <1>1, <2>1, EraseInvalidated
<1>12. MapsSet(MapShift(MapErase(m, a, b), a, -d), w, Lasts(srcParent, srcRow, L))
  <2>1. a \in 0 .. c /\ b \in Int /\ a <= b + 1 /\ DOMAIN v = 0 .. c - 1
    BY <1>2 DEF IsList
  <2> QED
    BY <1>2, <2>1, EraseAndShift
<1>13. \A r \in 0 .. c - d - 1 : w[r] \in K
  BY <1>8 DEF IsList
<1>14. MapsSet(MapShift(MapErase(m, a, b), a, -d), w, T)
  <2>1. DOMAIN w = 0 .. c - d - 1
    BY <1>8 DEF IsList
  <2>2. \A r \in DOMAIN w : w[r] \in Lasts(srcParent, srcRow, L) <=> w[r] \in T
    BY <1>10, <1>13, <2>1
  <2> HIDE DEF w, T, d
  <2> QED
    BY <1>12, <2>2, SameEntries
<1>15. \A r \in 0 .. c - d - 1 : w[r] = IF r < a THEN v[r] ELSE v[r + d]
  BY <1>2 DEF CutList
<1> QED
  BY <1>3, <1>6, <1>9, <1>11, <1>13, <1>14, <1>15 DEF B, CutLeaves

\* An announced removal: the listener still has the rows.
LEMMA AnnouncedRemoval ==
    ASSUME NEW p, NEW first, NEW last, RemovesRows(p, first, last),
           UNCHANGED <<op, announced, view, viewCount, m_rowCount, m_removePair>>,
           p = op.parent, first = op.first, last = op.last,
           RemovingRows, phase = "removing", IsAnnounced, announced \in Seq(Announcements),
           m_mapping' = Invalidated(m_mapping, InRows(p, first, last)),
           Listed' = ListedBeforeRemoval \ BelowRows(srcParent, srcRow, p, first, last)
    PROVE  RemovedRows'
<1> DEFINE B == BelowRows(srcParent, srcRow, p, first, last)
           L == ListedBeforeRemoval
           K == L \ B
           a == Announced.first
           b == Announced.last
           d == b - a + 1
           w == CutList(view, viewCount, a, b)
<1>1. /\ IsTree(srcParent) /\ Numbered(srcParent, srcRow) /\ p \in Known
  BY DEF RemovesRows
<1>2. /\ Follows(L)
      /\ m_removePair = <<a, b>> /\ RealRemoval
      /\ \A r \in 0 .. viewCount - 1 : r \in a .. b <=> view[r] \in B
      /\ BeginsAhead(view, viewCount)
      /\ Under(srcParent, p) \subseteq L
  BY DEF RemovingRows
<1>3. a \in Int /\ b \in Int
  <2>1. 1 \in DOMAIN announced
    BY EmptySeq, LenProperties DEF IsAnnounced
  <2>2. announced[1] \in Announcements
    BY <2>1, ElementOfSeq, LenProperties
  <2> QED
    BY <2>2 DEF Announced, Announcements
<1>4. CutsRows(p, first, last, L, view, viewCount, m_mapping, a, b)
  <2>1. L \in SUBSET In(srcParent)
    BY DEF ListedBeforeRemoval, ListedIn
  <2>2. Children(p) \subseteq L
    <3>1. \A n \in Children(p) : n \in Under(srcParent, p)
      <4> SUFFICES ASSUME NEW n \in Nodes, srcParent[n] = p PROVE n \in Under(srcParent, p)
        BY DEF Children
      <4>1. p # Absent
        BY <1>1, NodesAssumption DEF Known, Present
      <4>2. p = Root \/ p \in Ancestors(srcParent)[p]
        BY <1>1, AncestorsOfOne DEF Known, Present, In
      <4> QED
        BY <4>1, <4>2 DEF Under, In
    <3> QED
      BY <1>2, <3>1
  <2>3. a \in Nat /\ b \in Nat /\ a <= b /\ b < viewCount
    BY <1>2, <1>3 DEF RealRemoval
  <2> HIDE DEF B, L, a, b
  <2>4. /\ IsList(srcParent, srcRow, view, viewCount, L)
        /\ MapsSet(m_mapping, view, Lasts(srcParent, srcRow, L))
    BY <1>2 DEF Follows, MapsRowsOf
  <2> QED
    BY <1>2, <2>1, <2>2, <2>3, <2>4 DEF CutsRows, B
<1>5. /\ IsList(srcParent', srcRow', w, viewCount - d, K)
      /\ MapsSet(MapShift(MapErase(m_mapping', a, b), a, -d), w,
                 {n \in Lasts(srcParent', srcRow', K) :
                    ~(srcParent'[n] = p /\ srcRow'[n] + 1 = first)})
      /\ K \in SUBSET In(srcParent')
      /\ \A r \in 0 .. viewCount - d - 1 : /\ w[r] \in K
                                           /\ w[r] = IF r < a THEN view[r] ELSE view[r + d]
  <2> HIDE DEF L, a, b
  <2>1. CutLeaves(p, first, last, L, view, viewCount, m_mapping, a, b)
    BY <1>4, CutByRemoval
  <2> QED
    BY <2>1 DEF CutLeaves, K, B
<1>6. /\ In(srcParent') = In(srcParent) \ B /\ p \in (In(srcParent) \ B) \cup {Root}
      /\ KeepsOrder(srcParent, srcRow, srcParent', srcRow', In(srcParent) \ B)
      /\ \A i \in (In(srcParent) \ B) \cup {Root} : Ancestors(srcParent')[i] = Ancestors(srcParent)[i]
      /\ \A n \in In(srcParent) \ B : srcParent[n] = p => (srcRow'[n] < first <=> srcRow[n] < first)
  BY RemovedRest
<1>7. viewCount \in Nat /\ a \in Nat /\ b \in Nat /\ a <= b /\ b < viewCount
  BY <1>4 DEF CutsRows, IsList
<1>8. \A r \in 0 .. viewCount - 1 : r < a <=> Ahead(srcParent, srcRow, view[r], p, first)
  BY <1>2 DEF BeginsAhead
<1>9. ASSUME NEW r \in 0 .. viewCount - d - 1
      PROVE  r < a <=> Ahead(srcParent', srcRow', w[r], p, first)
  <2> DEFINE n == w[r]
  <2>1. n \in In(srcParent) \ B
    BY <1>5, <1>6
  <2>2. Ahead(srcParent', srcRow', n, p, first) <=> Ahead(srcParent, srcRow, n, p, first)
    <3> HIDE DEF n, B
    <3> QED
      BY <1>1, <1>6, <2>1, AheadKept
  <2>3. CASE r < a
    <3>1. r \in 0 .. viewCount - 1 /\ n = view[r]
      BY <1>5, <1>7, <2>3
    <3>2. r < a <=> Ahead(srcParent, srcRow, view[r], p, first)
      BY <1>8, <3>1
    <3> QED
      BY <2>2, <2>3, <3>1, <3>2
  <2>4. CASE ~(r < a)
    <3>1. r + d \in 0 .. viewCount - 1 /\ n = view[r + d] /\ ~(r + d < a)
      BY <1>5, <1>7, <2>4
    <3>2. r + d < a <=> Ahead(srcParent, srcRow, view[r + d], p, first)
      BY <1>8, <3>1
    <3> QED
      BY <2>2, <2>4, <3>1, <3>2
  <2> QED
    BY <2>3, <2>4
<1>10. Under(srcParent', p) \subseteq K
  <2> SUFFICES ASSUME NEW n \in In(srcParent'), p \in Ancestors(srcParent')[srcParent'[n]] \cup {Root}
               PROVE  n \in K
    BY DEF Under
  <2>1. n \in In(srcParent) \ B /\ srcParent'[n] = srcParent[n]
        /\ srcParent[n] \in (In(srcParent) \ B) \cup {Root}
    BY <1>6 DEF KeepsOrder
  <2>2. p \in Ancestors(srcParent)[srcParent[n]] \cup {Root}
    BY <1>6, <2>1
  <2> QED
    BY <1>2, <2>1, <2>2 DEF Under
<1>11. a \in 0 .. viewCount - d
  BY <1>7
<1> HIDE DEF L, B
<1>12. Announced' = Announced /\ IsAnnounced' /\ RealRemoval'
  BY <1>2 DEF Announced, IsAnnounced, RealRemoval
<1>13. Listed' = K
  BY DEF L, B
<1>14. BeginsAhead(w, viewCount - d)'
  <2>1. (op.parent)' = p /\ (op.first)' = first
    OBVIOUS
  <2>2. (CutList(view, viewCount, a, b))' = w
    BY <1>12
  <2>3. (viewCount - d)' = viewCount - d /\ a' = a
    BY <1>12
  <2> HIDE DEF w, d, a
  <2>4. w' = w
    BY <2>2 DEF w
  <2> QED
    BY <1>9, <1>11, <1>12, <2>1, <2>3, <2>4 DEF BeginsAhead, a
<1>15. /\ (m_removePair = <<Announced.first, Announced.last>>)'
       /\ (m_rowCount = viewCount)'
       /\ (DOMAIN view = 0 .. viewCount - 1)'
       /\ (IsList(srcParent, srcRow, CutList(view, viewCount, Announced.first, Announced.last),
                  viewCount - (Announced.last - Announced.first + 1), Listed))'
       /\ (Under(srcParent, op.parent) \subseteq Listed)'
  <2>1. m_rowCount = viewCount /\ DOMAIN view = 0 .. viewCount - 1
    BY <1>2 DEF Follows, MapsRowsOf, IsList
  <2> HIDE DEF K
  <2> QED
    BY <1>2, <1>5, <1>10, <1>12, <1>13, <2>1
<1>16. (MapsSet(MapShift(MapErase(m_mapping, Announced.first, Announced.last), Announced.first,
                        -(Announced.last - Announced.first + 1)),
               CutList(view, viewCount, Announced.first, Announced.last),
               {n \in Lasts(srcParent, srcRow, Listed) :
                  ~(srcParent[n] = op.parent /\ srcRow[n] + 1 = op.first)}))'
  <2> HIDE DEF K
  <2> QED
    BY <1>5, <1>12, <1>13
<1> QED
  BY <1>12, <1>14, <1>15, <1>16 DEF RemovedRows

\* A removal that is not announced: nothing of it was listed.
LEMMA QuietRemoval ==
    ASSUME NEW p, NEW first, NEW last, RemovesRows(p, first, last),
           UNCHANGED <<announced, view, viewCount, m_rowCount>>,
           p \notin OpenIndexes, p = op.parent, first = op.first, last = op.last,
           Follows(ListedBeforeRemoval), ~IsAnnounced,
           m_mapping' = Invalidated(m_mapping, InRows(p, first, last)),
           Listed' = ListedBeforeRemoval \ BelowRows(srcParent, srcRow, p, first, last)
    PROVE  RemovedRows'
<1> DEFINE B == BelowRows(srcParent, srcRow, p, first, last)
           L == ListedBeforeRemoval
<1>1. IsTree(srcParent) /\ p \in Known /\ InRows(p, first, last) = B
  BY InRowsIsBelow DEF RemovesRows
<1>2. L \cap B = {}
  BY <1>1, ClosedHidesRemoved DEF ListedBeforeRemoval, Removed
<1>3. Listed' = L
  BY <1>2
<1>4. L \in SUBSET In(srcParent)
  BY DEF ListedBeforeRemoval, ListedIn
<1>5. KeepsOrder(srcParent, srcRow, srcParent', srcRow', In(srcParent) \ B)
  BY RemovedRest
<1> HIDE DEF L, B
<1>6. /\ IsList(srcParent, srcRow, view, viewCount, L)
      /\ MapsSet(m_mapping, view, Lasts(srcParent, srcRow, L))
      /\ m_rowCount = viewCount
  BY DEF Follows, MapsRowsOf, L
<1>7. /\ IsList(srcParent', srcRow', view, viewCount, L)
      /\ Lasts(srcParent', srcRow', L) = Lasts(srcParent, srcRow, L)
  <2>1. L \in SUBSET (In(srcParent) \ B)
    BY <1>2, <1>4
  <2> QED
    BY <1>1, <1>5, <1>6, <2>1, ListKept
<1>8. m_mapping' = m_mapping
  <2>1. Lasts(srcParent, srcRow, L) \cap B = {}
    BY <1>2 DEF Lasts
  <2> QED
    BY <1>1, <1>6, <2>1, NothingInvalidated
<1>9. Follows(Listed)'
  BY <1>3, <1>6, <1>7, <1>8 DEF Follows, MapsRowsOf
<1> QED
  BY <1>9 DEF RemovedRows, IsAnnounced

LEMMA SourceRemovesRows == TInv /\ BalanceInv /\ RowsInv /\ SourceRemoves => RowsInv'
<1> SUFFICES ASSUME TInv, BalanceInv, RowsInv, SourceRemoves PROVE RowsInv'
  OBVIOUS
<1>0. PICK p, first, last : p = op.parent /\ first = op.first /\ last = op.last
  OBVIOUS
<1>1. /\ phase = "removing" /\ phase' = "removed"
      /\ RemoveRows(p, first, last)
      /\ m_mapping' = Invalidated(m_mapping, InRows(p, first, last))
      /\ UNCHANGED <<resume, op, m_expandsByDefault, m_rowCount, m_pendingParents, m_removePair,
                     m_layoutChangePersistentIndexes, announced, view, viewCount>>
  BY <1>0 DEF SourceRemoves, Enters, PendingKept, PairsKept, LayoutKept, viewVars
<1>2. Where = "removing" /\ Where' = "removed" /\ resume = "idle" /\ m_pendingParents = <<>>
  BY <1>1 DEF Where, BalanceInv, QueueInv
<1>3. /\ IsTree(srcParent) /\ Numbered(srcParent, srcRow) /\ SourceTypeOK
      /\ p \in Known /\ first \in Nat /\ last \in Nat /\ first <= last
      /\ announced \in Seq(Announcements)
      /\ IF p \in OpenIndexes THEN One("remove") ELSE announced = <<>>
  BY <1>0, <1>2 DEF BalanceInv, WhereInv, RemoveInv, RowsInv, TInv, ControlTypeOK, ViewTypeOK
<1>4. RemovingRows /\ last < rowCount(p) /\ Follows(ListedBeforeRemoval)
  BY <1>0, <1>1, <1>3, RowCountsOf DEF RowsInv, RemovingRows
<1>5. RemovesRows(p, first, last)
  BY <1>1, <1>3, <1>4 DEF RemovesRows
<1>6. IsTree(srcParent') /\ Numbered(srcParent', srcRow')
  BY <1>5, RemovedRest
<1>7. \A a \in In(srcParent) \ BelowRows(srcParent, srcRow, p, first, last) :
         a \in ExpandedIndexes' <=> a \in ExpandedIndexes
  BY <1>0, <1>1, <1>3, InRowsIsBelow DEF SourceRemoves, ExpandedIndexes, isSourceIndexExpanded
<1>8. Listed' = ListedBeforeRemoval \ BelowRows(srcParent, srcRow, p, first, last)
  <2>1. ListedBeforeRemoval
          = ListedIn(srcParent, ExpandedIndexes \cup RowsIn(srcParent, srcRow, p, first, last), {})
    BY <1>0 DEF ListedBeforeRemoval, Removed
  <2> QED
    BY <1>1, <1>2, <1>5, <1>7, <2>1, ListedAfterRemoval
<1>9. RemovedRows'
  <2>1. CASE IsAnnounced
    BY <1>0, <1>1, <1>3, <1>4, <1>5, <1>8, <2>1, AnnouncedRemoval
  <2>2. CASE ~IsAnnounced
    <3>1. p \notin OpenIndexes
      BY <1>3, <2>2, OneIs DEF IsAnnounced
    <3> QED
      BY <1>0, <1>1, <1>3, <1>4, <1>5, <1>8, <2>2, <3>1, QuietRemoval
  <2> QED
    BY <2>1, <2>2
<1>10. PendingRows'
  BY <1>1, <1>2, NoQueue DEF PendingRows
<1>11. m_layoutChangePersistentIndexes = EmptyMapping
  BY <1>2 DEF RowsInv, LayoutRows, InLayout
<1>12. LayoutRows'
  BY <1>1, <1>2, <1>11 DEF LayoutRows, InLayout
<1> QED
  BY <1>1, <1>2, <1>6, <1>9, <1>10, <1>12
     DEF RowsInv, ListenerRows, RebuiltRows, OpenRows, InsertingRows, InsertedRows, RemovingRows,
         CollapsingRows

\* Rows of p from row "first" on, above row a of the list w, are gone, and m has
\* the last children of w, that of p missing if it is the one before them.
LostRows(p, first, L, w, c, m, a) ==
    /\ IsTree(srcParent) /\ Numbered(srcParent, srcRow)
    /\ p \in Known /\ first \in Nat /\ Under(srcParent, p) \subseteq L
    /\ IsListing(srcParent, L) /\ WholeRows(srcParent, L)
    /\ IsList(srcParent, srcRow, w, c, L)
    /\ MapsSet(m, w, {n \in Lasts(srcParent, srcRow, L) :
                        ~(srcParent[n] = p /\ srcRow[n] + 1 = first)})
    /\ a \in 0 .. c
    /\ \A r \in 0 .. c - 1 : r < a <=> Ahead(srcParent, srcRow, w[r], p, first)

LEMMA ChildrenUnder ==
    ASSUME IsTree(srcParent), NEW p \in Known
    PROVE  Children(p) \subseteq Under(srcParent, p) /\ p \in In(srcParent) \cup {Root}
<1> SUFFICES ASSUME NEW n \in Nodes, srcParent[n] = p
             PROVE  n \in Under(srcParent, p)
  BY DEF Children, Known, Present, In
<1>1. p # Absent
  BY NodesAssumption DEF Known, Present
<1>2. p = Root \/ p \in Ancestors(srcParent)[p]
  BY AncestorsOfOne DEF Known, Present, In
<1> QED
  BY <1>1, <1>2 DEF Under, In

\* The last child of p, where all children are listed.
LEMMA LastOfChildren ==
    ASSUME IsTree(srcParent), Numbered(srcParent, srcRow), NEW p \in Known,
           NEW L \in SUBSET In(srcParent), Children(p) \subseteq L,
           NEW n \in Lasts(srcParent, srcRow, L), srcParent[n] = p
    PROVE  n = index(rowCount(p) - 1, p) /\ srcRow[n] + 1 = rowCount(p) /\ hasChildren(p)
<1>1. n \in Children(p) /\ p \in Nodes \cup {Root}
  BY DEF Lasts, IsLast, In, Children, Known, Present
<1>2. hasChildren(p)
  BY <1>1 DEF hasChildren
<1> DEFINE e == index(rowCount(p) - 1, p)
<1>3. /\ e \in Nodes /\ srcParent[e] = p /\ srcRow[e] = rowCount(p) - 1
      /\ rowCount(p) \in Nat \ {0}
      /\ \A k \in Nodes : srcParent[k] = p =>
            /\ srcRow[k] \in Nat /\ srcRow[k] <= srcRow[e]
            /\ srcRow[k] = srcRow[e] => k = e
  BY <1>1, <1>2, LastChild
<1> HIDE DEF e
<1>4. e \in L
  BY <1>3 DEF Children
<1>5. srcRow[e] <= srcRow[n]
  BY <1>3, <1>4 DEF Lasts, IsLast
<1>6. n = e
  BY <1>1, <1>3, <1>5 DEF Children
<1> QED
  BY <1>2, <1>3, <1>6 DEF e

LEMMA EndRestored ==
    ASSUME NEW p, NEW first, NEW L, NEW w, NEW c, NEW m, NEW a, LostRows(p, first, L, w, c, m, a),
           NewLastChild(p, first)
    PROVE  MapsSet(MapInsert(m, index(rowCount(p) - 1, p), newEndRow(m, p, a)), w,
                   Lasts(srcParent, srcRow, L))
<1> DEFINE e == index(rowCount(p) - 1, p)
           T == {n \in Lasts(srcParent, srcRow, L) : ~(srcParent[n] = p /\ srcRow[n] + 1 = first)}
<1>1. /\ IsTree(srcParent) /\ Numbered(srcParent, srcRow)
      /\ p \in Known /\ first \in Nat /\ Under(srcParent, p) \subseteq L
      /\ IsListing(srcParent, L) /\ WholeRows(srcParent, L)
      /\ IsList(srcParent, srcRow, w, c, L)
      /\ MapsSet(m, w, T)
      /\ a \in 0 .. c
      /\ \A r \in 0 .. c - 1 : r < a <=> Ahead(srcParent, srcRow, w[r], p, first)
      /\ L \in SUBSET In(srcParent)
  BY DEF LostRows, IsListing
<1>2. Children(p) \subseteq L /\ p \in In(srcParent) \cup {Root} /\ hasChildren(p)
      /\ rowCount(p) = first
  <2>1. hasChildren(p)
    BY <1>1, RowCountsOf DEF NewLastChild
  <2> QED
    BY <1>1, <2>1, ChildrenUnder DEF NewLastChild
<1>3. e \in Nodes /\ srcParent[e] = p /\ srcRow[e] + 1 = first /\ srcRow[e] \in Nat
  <2>1. p \in Nodes \cup {Root}
    BY <1>2 DEF In
  <2> QED
    BY <1>1, <1>2, <2>1, LastChild
<1>4. e \in L
  BY <1>2, <1>3 DEF Children
<1>5. PICK j \in 0 .. c - 1 : w[j] = e
  BY <1>1, <1>4 DEF IsList
<1>6. LastChildAt(L, w, c, p, e, j)
  BY <1>1, <1>2, <1>5 DEF LastChildAt
<1>7. e \in Lasts(srcParent, srcRow, L)
  BY <1>6, LastChildFacts
<1>8. T = Lasts(srcParent, srcRow, L) \ {e}
  <2>1. \A n \in Lasts(srcParent, srcRow, L) : srcParent[n] = p => n = e
    BY <1>1, <1>2, LastOfChildren
  <2> HIDE DEF e
  <2> QED
    BY <1>3, <2>1
<1> HIDE DEF T, e
<1>9. ASSUME NEW k \in 0 .. c - 1
      PROVE  k < a <=> k <= j \/ e \in Ancestors(srcParent)[w[k]]
  <2> DEFINE n == w[k]
  <2>1. n \in In(srcParent) /\ e \in In(srcParent) /\ e \in Ancestors(srcParent)[e]
    BY <1>1, <1>4, AncestorsOfOne DEF IsList
  <2>2. /\ n = e \/ Precedes(srcParent, srcRow, n, e) => Ahead(srcParent, srcRow, n, p, first)
        /\ Ahead(srcParent, srcRow, n, p, first)
              => e \in Ancestors(srcParent)[n] \/ Precedes(srcParent, srcRow, n, e)
        /\ e \in Ancestors(srcParent)[n] => Ahead(srcParent, srcRow, n, p, first)
    <3> HIDE DEF n
    <3>1. /\ n = e \/ Precedes(srcParent, srcRow, n, e)
                => Ahead(srcParent, srcRow, n, srcParent[e], srcRow[e] + 1)
          /\ Ahead(srcParent, srcRow, n, srcParent[e], srcRow[e] + 1)
                => e \in Ancestors(srcParent)[n] \/ Precedes(srcParent, srcRow, n, e)
          /\ e \in Ancestors(srcParent)[n]
                => Ahead(srcParent, srcRow, n, srcParent[e], srcRow[e] + 1)
      BY <1>1, <2>1, AheadOfNext
    <3> QED
      BY <1>3, <3>1
  <2>3. /\ Precedes(srcParent, srcRow, n, e) <=> k < j
        /\ n = e <=> k = j
    BY <1>1, <1>5, ListOrder
  <2>4. k \in Int /\ j \in Int
    OBVIOUS
  <2>5. k < a <=> Ahead(srcParent, srcRow, n, p, first)
    BY <1>1
  <2> HIDE DEF n
  <2>6. k <= j <=> n = e \/ Precedes(srcParent, srcRow, n, e)
    BY <2>3, <2>4
  <2> QED
    BY <2>2, <2>5, <2>6 DEF n
<1>10. newEndRow(m, p, a) = j
  <2>1. a \in Nat /\ MapsSet(m, w, Lasts(srcParent, srcRow, L) \ {e})
    BY <1>1, <1>8
  <2> QED
    BY <1>6, <1>9, <2>1, NewEndRowIs
<1>11. Distinct(w, c)
  BY <1>1, ListDistinct
<1>12. MapsSet(MapInsert(m, w[j], j), w, T \cup {w[j]})
  BY <1>1, <1>11, AddEntry
<1>13. T \cup {w[j]} = Lasts(srcParent, srcRow, L)
  BY <1>5, <1>7, <1>8
<1> QED
  BY <1>5, <1>10, <1>12, <1>13 DEF e

LEMMA NoEndLost ==
    ASSUME NEW p, NEW first, NEW L, NEW w, NEW c, NEW m, NEW a, LostRows(p, first, L, w, c, m, a),
           ~NewLastChild(p, first)
    PROVE  MapsSet(m, w, Lasts(srcParent, srcRow, L))
<1> DEFINE T == {n \in Lasts(srcParent, srcRow, L) : ~(srcParent[n] = p /\ srcRow[n] + 1 = first)}
<1>1. /\ IsTree(srcParent) /\ Numbered(srcParent, srcRow)
      /\ p \in Known /\ Under(srcParent, p) \subseteq L
      /\ MapsSet(m, w, T)
      /\ L \in SUBSET In(srcParent)
  BY DEF LostRows, IsListing
<1>2. Children(p) \subseteq L
  BY <1>1, ChildrenUnder
<1>3. ASSUME NEW n \in Lasts(srcParent, srcRow, L), srcParent[n] = p, srcRow[n] + 1 = first
      PROVE  FALSE
  <2>1. srcRow[n] + 1 = rowCount(p) /\ hasChildren(p)
    BY <1>1, <1>2, <1>3, LastOfChildren
  <2>2. rowCount(p) # 0
    BY <1>1, <2>1, RowCountsOf
  <2> QED
    BY <1>3, <2>1, <2>2 DEF NewLastChild
<1>4. T = Lasts(srcParent, srcRow, L)
  BY <1>3
<1> HIDE DEF T
<1> QED
  BY <1>1, <1>4

LEMMA HandleRowsRemovedRows == TInv /\ BalanceInv /\ RowsInv /\ HandleRowsRemoved => RowsInv'
<1> SUFFICES ASSUME TInv, BalanceInv, RowsInv, HandleRowsRemoved PROVE RowsInv'
  OBVIOUS
<1> DEFINE p == op.parent
           a == Announced.first
           b == Announced.last
           d == b - a + 1
           w == CutList(view, viewCount, a, b)
           shifted == MapShift(MapErase(m_mapping, a, b), a, -d)
<1>1. /\ phase = "removed" /\ phase' = "idle" /\ resume' = "idle"
      /\ UNCHANGED <<srcParent, srcRow, userVars, m_pendingParents, m_layoutChangePersistentIndexes>>
  BY DEF HandleRowsRemoved, Finishes, PendingKept, LayoutKept, srcVars
<1>2. Where = "removed" /\ m_pendingParents = <<>>
  BY <1>1 DEF Where, BalanceInv, QueueInv
<1>3. /\ IsTree(srcParent) /\ Numbered(srcParent, srcRow)
      /\ p \in Known /\ op.first \in Nat
      /\ announced \in Seq(Announcements)
      /\ IF Open(p) THEN One("remove") ELSE announced = <<>>
  BY <1>2, RowCountsOf DEF BalanceInv, WhereInv, RemoveInv, RowsInv, TInv, ControlTypeOK, ViewTypeOK
<1>4. m_layoutChangePersistentIndexes = EmptyMapping
  BY <1>2 DEF RowsInv, LayoutRows, InLayout
<1>5. Listed = WholeList /\ WholeList' = WholeList
  BY <1>1, <1>2, NoQueue, ExpandedKept DEF Listed, WholeList
<1>6. SUFFICES Follows(WholeList)'
  BY <1>1, <1>2, <1>3, <1>4, RowsAtIdle
<1>7. RemovedRows
  BY DEF RowsInv
<1>8. CASE ~Open(p)
  <2>1. UNCHANGED <<m_mapping, m_rowCount, view, viewCount>>
    BY <1>8 DEF HandleRowsRemoved, viewVars, RowsKept
  <2>2. Follows(WholeList)
    BY <1>1, <1>3, <1>5, <1>7, <1>8 DEF RemovedRows, IsAnnounced
  <2> QED
    BY <1>1, <1>5, <2>1, <2>2 DEF Follows, MapsRowsOf
<1>9. CASE Open(p)
  <2>1. One("remove") /\ IsAnnounced
    BY <1>3, <1>9, OneIs DEF IsAnnounced
  <2>2. /\ m_removePair = <<a, b>> /\ m_rowCount = viewCount /\ RealRemoval
        /\ IsList(srcParent, srcRow, w, viewCount - d, WholeList)
        /\ MapsSet(shifted, w, {n \in Lasts(srcParent, srcRow, WholeList) :
                                  ~(srcParent[n] = p /\ srcRow[n] + 1 = op.first)})
        /\ BeginsAhead(w, viewCount - d)
        /\ Under(srcParent, p) \subseteq WholeList
    BY <1>1, <1>5, <1>7, <2>1 DEF RemovedRows
  <2>3. a \in Int /\ b \in Int
    <3>1. 1 \in DOMAIN announced
      BY <1>3, <2>1, EmptySeq, LenProperties DEF IsAnnounced
    <3>2. announced[1] \in Announcements
      BY <1>3, <3>1, ElementOfSeq, LenProperties
    <3> QED
      BY <3>2 DEF Announced, Announcements
  <2>4. /\ m_mapping' = IF NewLastChild(p, op.first)
                        THEN MapInsert(shifted, index(rowCount(p) - 1, p), newEndRow(shifted, p, a))
                        ELSE shifted
        /\ m_rowCount' = m_rowCount - d
        /\ EndRemoveRows
    <3>1. m_removePair[1] = a /\ m_removePair[2] = b
      BY <2>2
    <3> HIDE DEF a, b
    <3> QED
      BY <1>9, <3>1 DEF HandleRowsRemoved
  <2>5. viewCount \in Nat /\ DOMAIN view = 0 .. viewCount - 1
    <3>1. viewCount \in Int /\ 0 <= a /\ a <= b /\ b < viewCount
      BY <2>2 DEF TInv, ViewTypeOK, RealRemoval
    <3>2. DOMAIN view = 0 .. viewCount - 1
      BY <1>7, <2>1, <1>1 DEF RowsInv, RemovedRows
    <3> QED
      BY <2>3, <3>1, <3>2
  <2>6. view' = w /\ viewCount' = viewCount - d
    <3> HIDE DEF a, b
    <3> QED
      BY <1>3, <2>1, <2>2, <2>3, <2>4, <2>5, RemovedView DEF a, b
  <2>7. LostRows(p, op.first, WholeList, w, viewCount - d, shifted, a)
    <3>1. IsListing(srcParent, WholeList) /\ WholeRows(srcParent, WholeList)
      BY <1>3, ListedFacts DEF WholeList
    <3> HIDE DEF w, d, shifted
    <3> QED
      BY <1>3, <2>2, <3>1 DEF LostRows, BeginsAhead
  <2>8. MapsSet(m_mapping', w, Lasts(srcParent, srcRow, WholeList))
    <3> HIDE DEF w, d, shifted, a, p
    <3>1. CASE NewLastChild(p, op.first)
      BY <2>4, <2>7, <3>1, EndRestored
    <3>2. CASE ~NewLastChild(p, op.first)
      BY <2>4, <2>7, <3>2, NoEndLost
    <3> QED
      BY <3>1, <3>2
  <2>9. m_rowCount' = viewCount'
    BY <2>2, <2>4, <2>6
  <2> HIDE DEF w, d
  <2> QED
    BY <1>1, <1>5, <2>2, <2>6, <2>8, <2>9 DEF Follows, MapsRowsOf
<1> QED
  BY <1>8, <1>9

----------------------------------------------------------------------------
(* Layout changes and moves.                                               *)

\* A list without rows.
LEMMA NoView ==
    ASSUME IsMapping(view), DOMAIN view = {}
    PROVE  view = EmptyMapping
<1>1. view = [r \in DOMAIN view |-> view[r]]
  BY DEF IsMapping
<1> QED
  BY <1>1 DEF EmptyMapping

\* What is saved is what the listener has.
LEMMA SavedLayout ==
    ASSUME TInv, BalanceInv, RowsInv, phase = "idle", SaveLayout
    PROVE  m_layoutChangePersistentIndexes' = view
<1>1. /\ m_layoutChangePersistentIndexes = EmptyMapping
      /\ IsTree(srcParent) /\ Numbered(srcParent, srcRow)
      /\ Follows(WholeList)
      /\ IsListing(srcParent, WholeList) /\ WholeRows(srcParent, WholeList)
  BY IdleRows
<1>2. /\ IsList(srcParent, srcRow, view, viewCount, WholeList)
      /\ MapsSet(m_mapping, view, Lasts(srcParent, srcRow, WholeList))
      /\ viewCount \in Nat /\ DOMAIN view = 0 .. viewCount - 1
  BY <1>1 DEF Follows, MapsRowsOf, IsList
<1>3. /\ \A q \in 0 .. viewCount - 1 : mapToSource(m_mapping, q) = view[q]
      /\ m_mapping = EmptyMapping <=> viewCount = 0
  BY <1>1, <1>2, Reads
<1>4. IsMapping(view) /\ view = [r \in 0 .. viewCount - 1 |-> view[r]]
  BY <1>2 DEF TInv, ViewTypeOK, IsMapping
<1>5. CASE m_mapping = EmptyMapping
  <2>1. DOMAIN view = {}
    BY <1>2, <1>3, <1>5
  <2> QED
    BY <1>1, <1>4, <1>5, <2>1, NoView DEF SaveLayout
<1>6. CASE m_mapping # EmptyMapping
  <2>1. [r \in 0 .. viewCount - 1 |-> mapToSource(m_mapping, r)] = [r \in 0 .. viewCount - 1 |-> view[r]]
    BY <1>3
  <2> QED
    BY <1>4, <1>6, <2>1 DEF SaveLayout
<1> QED
  BY <1>5, <1>6

\* The change begins: all is as before, and saved.
LEMMA LayoutBegins ==
    ASSUME TInv, BalanceInv, RowsInv, phase = "idle", phase' \in {"relayouting", "moving"},
           SaveLayout,
           UNCHANGED <<srcParent, srcRow, userVars, resume, m_mapping, m_rowCount,
                       m_pendingParents, view, viewCount>>,
           phase' = "moving" =>
              op'.last < RowCounts'[op'.parent] /\ op'.dest \in 0 .. RowCounts'[op'.target]
    PROVE  RowsInv'
<1>1. /\ resume = "idle" /\ m_pendingParents = <<>> /\ Listed = WholeList
      /\ Numbered(srcParent, srcRow) /\ Follows(WholeList)
  BY IdleRows
<1>2. Where' = phase' /\ resume' = "idle" /\ m_pendingParents' = <<>>
  BY <1>1 DEF Where
<1>3. Follows(Listed)'
  BY <1>1, ExpandedKept DEF Follows, MapsRowsOf, Listed, WholeList
<1>4. LayoutRows'
  BY <1>2, SavedLayout DEF LayoutRows, InLayout
<1>5. PendingRows'
  BY <1>2, NoQueue DEF PendingRows
<1> QED
  BY <1>1, <1>2, <1>3, <1>4, <1>5
     DEF RowsInv, ListenerRows, RebuiltRows, OpenRows, InsertingRows, InsertedRows, RemovingRows,
         RemovedRows, CollapsingRows

LEMMA AboutToRelayoutRows ==
    ASSUME TInv, BalanceInv, RowsInv, NEW p, AboutToRelayout(p)
    PROVE  RowsInv'
<1>1. /\ phase = "idle" /\ phase' = "relayouting" /\ SaveLayout
      /\ UNCHANGED <<srcParent, srcRow, userVars, resume, m_mapping, m_rowCount,
                     m_pendingParents, view, viewCount>>
  BY DEF AboutToRelayout, Starts, RowsKept, PendingKept, viewVars, srcVars
<1> QED
  BY <1>1, LayoutBegins

LEMMA AboutToMoveRows ==
    ASSUME TInv, BalanceInv, RowsInv, NEW p, NEW first, NEW last, NEW q, NEW dest,
           AboutToMove(p, first, last, q, dest)
    PROVE  RowsInv'
<1>1. phase = "idle"
  BY DEF AboutToMove, MayMove, Starts
<1>2. /\ phase' = "moving" /\ SaveLayout
      /\ UNCHANGED <<srcParent, srcRow, userVars, resume, m_mapping, m_rowCount,
                     m_pendingParents, view, viewCount>>
  BY DEF AboutToMove, RowsKept, PendingKept, srcVars
<1>3. op'.last < RowCounts'[op'.parent] /\ op'.dest \in 0 .. RowCounts'[op'.target]
  <2>1. /\ p \in Known /\ q \in Known /\ last < rowCount(p) /\ dest \in 0 .. rowCount(q)
        /\ op' = [parent |-> p, first |-> first, last |-> last, target |-> q, dest |-> dest]
    BY DEF AboutToMove, Known
  <2>2. RowCounts' = RowCounts
    BY <1>2 DEF RowCounts, rowCount, Children
  <2>3. last < RowCounts[p] /\ dest \in 0 .. RowCounts[q]
    BY <2>1, RowCountsOf
  <2>4. op'.last = last /\ op'.parent = p /\ op'.target = q /\ op'.dest = dest
    BY <2>1
  <2> QED
    BY <2>2, <2>3, <2>4
<1> QED
  BY <1>1, <1>2, <1>3, LayoutBegins

\* The tree has changed, but not what is listed.
LEMMA LayoutChanges ==
    ASSUME TInv, BalanceInv, RowsInv, phase \in {"relayouting", "moving"},
           phase' \in {"relayouted", "moved"},
           UNCHANGED <<resume, m_mapping, m_rowCount, m_pendingParents,
                       m_layoutChangePersistentIndexes, view, viewCount>>,
           Numbered(srcParent, srcRow)', WholeList' = WholeList
    PROVE  RowsInv'
<1>1. Where = phase /\ Where' = phase' /\ resume = "idle" /\ m_pendingParents = <<>>
  BY DEF Where, BalanceInv, QueueInv
<1>2. Follows(WholeList) /\ IsTree(srcParent) /\ Numbered(srcParent, srcRow)
      /\ m_layoutChangePersistentIndexes = view
  BY <1>1, NoQueue DEF RowsInv, ListenerRows, Listed, WholeList, BalanceInv, LayoutRows, InLayout
<1>3. WholeList \in SUBSET In(srcParent) /\ IsListing(srcParent, WholeList) /\ WholeRows(srcParent, WholeList)
  BY <1>2, ListedFacts DEF WholeList, IsListing
<1>4. /\ IsList(srcParent, srcRow, view, viewCount, WholeList)
      /\ MapsSet(m_mapping, view, Lasts(srcParent, srcRow, WholeList))
      /\ m_rowCount = viewCount
  BY <1>2 DEF Follows, MapsRowsOf
<1>5. Cardinality(WholeList) = viewCount
  BY <1>2, <1>3, <1>4, RowsCounted
<1>6. m_mapping = EmptyMapping => viewCount = 0
  BY <1>2, <1>3, <1>4, Reads
<1>7. Holds(view, viewCount, WholeList)
  <2>1. WholeList = {view[r] : r \in 0 .. viewCount - 1}
    BY <1>4 DEF IsList
  <2> QED
    BY <1>4, <1>5, <2>1 DEF Holds, IsList
<1>8. LayoutRows'
  BY <1>1, <1>2, <1>4, <1>6, <1>7 DEF LayoutRows, InLayout, Holds
<1>9. PendingRows'
  BY <1>1, NoQueue DEF PendingRows
<1> QED
  BY <1>1, <1>8, <1>9
     DEF RowsInv, ListenerRows, RebuiltRows, OpenRows, InsertingRows, InsertedRows, RemovingRows,
         RemovedRows, CollapsingRows

LEMMA SourceRelayoutsRows == TInv /\ BalanceInv /\ RowsInv /\ SourceRelayouts => RowsInv'
<1> SUFFICES ASSUME TInv, BalanceInv, RowsInv, SourceRelayouts PROVE RowsInv'
  OBVIOUS
<1>1. /\ phase = "relayouting" /\ phase' = "relayouted" /\ Reorder(op.parent)
      /\ UNCHANGED <<srcParent, userVars, resume, m_mapping, m_rowCount, m_pendingParents,
                     m_layoutChangePersistentIndexes, view, viewCount>>
  BY DEF SourceRelayouts, Enters, proxyVars, viewVars, userVars, Reorder
<1>2. Numbered(srcParent, srcRow)'
  BY <1>1, ReorderNumbers DEF RowsInv
<1>3. WholeList' = WholeList
  BY <1>1, ExpandedKept DEF WholeList
<1> QED
  BY <1>1, <1>2, <1>3, LayoutChanges

\* Rows that move from an open parent to an open one stay listed, or not.
LEMMA MovedStaysListed ==
    ASSUME IsTree(srcParent), NEW p \in Known, NEW q \in Known, NEW first, NEW last, NEW dest,
           CanMove(p, first, last, q, dest), MoveRows(p, first, last, q, dest),
           NEW E, Ancestors(srcParent)[p] \subseteq E, Ancestors(srcParent)[q] \subseteq E
    PROVE  ListedIn(srcParent', E, {}) = ListedIn(srcParent, E, {})
<1> DEFINE up == Ancestors(srcParent)
           new == Ancestors(srcParent')
           rest == Present \ InRows(p, first, last)
           moves(n) == srcParent[n] = p /\ srcRow[n] \in first .. last
<1>1. /\ IsTree(srcParent') /\ In(srcParent') = In(srcParent) /\ Present = In(srcParent)
      /\ q \in rest \cup {Root} /\ p \in rest \cup {Root}
      /\ \A i \in rest \cup {Root} : new[i] = up[i]
  BY MoveRowsKeepsTree DEF Known, Present, In
<1>2. \A n \in In(srcParent) : srcParent'[n] = IF moves(n) THEN q ELSE srcParent[n]
  BY DEF MoveRows, In
<1>3. new[p] \subseteq E /\ new[q] \subseteq E
  BY <1>1
<1>4. \A n \in In(srcParent) : /\ up[n] = {n} \cup up[srcParent[n]]
                               /\ new[n] = {n} \cup new[srcParent'[n]]
                               /\ srcParent[n] \in In(srcParent) \cup {Root}
  BY <1>1, AncestorsOfOne
<1>5. up[Root] = {} /\ new[Root] = {}
  BY <1>1, AncestorsOfOne
<1> DEFINE Bad == {n \in In(srcParent) : ~(up[n] \subseteq E <=> new[n] \subseteq E)}
<1> HIDE DEF up, new, rest
<1>6. Bad = {}
  <2> SUFFICES ASSUME Bad # {} PROVE FALSE
    OBVIOUS
  <2>1. PICK n \in Bad : srcParent[n] \notin Bad
    <3>1. Bad \in SUBSET In(srcParent)
      OBVIOUS
    <3> HIDE DEF Bad
    <3> QED
      BY <3>1 DEF IsTree
  <2>2. n \in In(srcParent)
    OBVIOUS
  <2>3. CASE moves(n)
    <3>1. srcParent[n] = p /\ srcParent'[n] = q
      BY <1>2, <2>2, <2>3
    <3>2. up[n] = {n} \cup up[p] /\ new[n] = {n} \cup new[q]
      BY <1>4, <2>2, <3>1
    <3>3. up[p] \subseteq E /\ new[q] \subseteq E
      BY <1>3 DEF up
    <3> QED
      BY <3>2, <3>3
  <2>4. CASE ~moves(n)
    <3>1. srcParent'[n] = srcParent[n]
      BY <1>2, <2>2, <2>4
    <3>2. up[srcParent[n]] \subseteq E <=> new[srcParent[n]] \subseteq E
      BY <1>4, <1>5, <2>1, <2>2
    <3>3. up[n] = {n} \cup up[srcParent[n]] /\ new[n] = {n} \cup new[srcParent[n]]
      BY <1>4, <2>2, <3>1
    <3> HIDE DEF Bad
    <3>4. up[n] \subseteq E <=> new[n] \subseteq E
      BY <3>2, <3>3
    <3> QED
      BY <2>1, <3>4 DEF Bad
  <2> QED
    BY <2>3, <2>4
<1>7. ASSUME NEW n \in In(srcParent)
      PROVE  up[srcParent[n]] \subseteq E <=> new[srcParent'[n]] \subseteq E
  <2>1. CASE moves(n)
    BY <1>2, <1>3, <2>1 DEF up
  <2>2. CASE ~moves(n)
    <3>1. srcParent'[n] = srcParent[n]
      BY <1>2, <2>2
    <3> QED
      BY <1>4, <1>5, <1>6, <3>1
  <2> QED
    BY <2>1, <2>2
<1> QED
  BY <1>1, <1>7 DEF ListedIn, up, new

LEMMA SourceMovesRows == TInv /\ BalanceInv /\ RowsInv /\ SourceMoves => RowsInv'
<1> SUFFICES ASSUME TInv, BalanceInv, RowsInv, SourceMoves PROVE RowsInv'
  OBVIOUS
<1> DEFINE p == op.parent
           q == op.target
<1>1. /\ phase = "moving" /\ phase' = "moved" /\ MoveRows(p, op.first, op.last, q, op.dest)
      /\ UNCHANGED <<userVars, resume, m_mapping, m_rowCount, m_pendingParents,
                     m_layoutChangePersistentIndexes, view, viewCount>>
  BY DEF SourceMoves, Enters, proxyVars, viewVars, userVars
<1>2. Where = "moving"
  BY <1>1 DEF Where
<1>3. /\ p \in OpenIndexes /\ q \in OpenIndexes /\ CanMove(p, op.first, op.last, q, op.dest)
      /\ op.first \in Nat /\ op.last \in Nat /\ op.first <= op.last /\ op.dest \in Nat
      /\ SourceTypeOK /\ IsTree(srcParent) /\ Numbered(srcParent, srcRow)
  BY <1>2 DEF BalanceInv, WhereInv, MoveInv, MoveAllowed, TInv, ControlTypeOK, RowsInv
<1>4. p \in Known /\ q \in Known
      /\ Ancestors(srcParent)[p] \subseteq ExpandedIndexes
      /\ Ancestors(srcParent)[q] \subseteq ExpandedIndexes
  BY <1>3, OpenByAncestors
<1>5. Numbered(srcParent, srcRow)'
  <2>1. op.last < RowCounts[p] /\ op.dest \in 0 .. RowCounts[q]
    BY <1>1 DEF RowsInv, LayoutRows
  <2> HIDE DEF p, q
  <2>2. op.last < rowCount(p) /\ op.dest \in 0 .. rowCount(q)
    BY <1>4, <2>1, RowCountsOf
  <2> QED
    BY <1>1, <1>3, <1>4, <2>2, MoveRowsNumbers DEF Known
<1>6. WholeList' = WholeList
  <2>1. ListedIn(srcParent', ExpandedIndexes, {}) = ListedIn(srcParent, ExpandedIndexes, {})
    <3> HIDE DEF p, q
    <3> QED
    BY <1>1, <1>3, <1>4, MovedStaysListed
  <2> QED
    BY <1>1, <2>1, ExpandedKept DEF WholeList
<1> QED
  BY <1>1, <1>5, <1>6, LayoutChanges

\* The refresh after a layout change or a move.
LEMMA RefreshLayoutRows ==
    ASSUME TInv, BalanceInv, RowsInv, phase \in {"relayouted", "moved"}, RefreshLayout,
           UNCHANGED <<srcParent, srcRow, userVars, m_layoutChangePersistentIndexes,
                       view, viewCount>>
    PROVE  RowsInv'
<1>1. Where = phase /\ resume = "idle" /\ m_pendingParents = <<>>
  BY DEF Where, BalanceInv, QueueInv
<1>2. /\ m_layoutChangePersistentIndexes = view /\ Holds(view, viewCount, WholeList)
      /\ m_rowCount = viewCount /\ (m_mapping = EmptyMapping => viewCount = 0)
      /\ Numbered(srcParent, srcRow) /\ IsMapping(view)
  BY <1>1 DEF RowsInv, LayoutRows, InLayout, TInv, ViewTypeOK
<1>3. WholeList' = WholeList
  BY ExpandedKept DEF WholeList
<1>4. CASE m_mapping = EmptyMapping
  <2>1. /\ phase' = "idle" /\ resume' = "idle"
        /\ UNCHANGED <<m_mapping, m_rowCount, m_pendingParents>>
    BY <1>4 DEF RefreshLayout, Finishes, RowsKept, PendingKept
  <2>2. viewCount = 0 /\ WholeList = {} /\ DOMAIN view = {}
    <3>1. viewCount = 0
      BY <1>2, <1>4
    <3>2. 0 .. viewCount - 1 = {}
      BY <3>1
    <3>3. DOMAIN view = 0 .. viewCount - 1 /\ WholeList = {view[r] : r \in 0 .. viewCount - 1}
      BY <1>2 DEF Holds
    <3>4. DOMAIN view = {}
      BY <3>2, <3>3
    <3>5. WholeList = {}
      BY <3>2, <3>3
    <3> QED
      BY <3>1, <3>4, <3>5
  <2>3. view = EmptyMapping
    BY <1>2, <2>2, NoView
  <2>4. Follows(WholeList)'
    <3>1. /\ IsList(srcParent', srcRow', EmptyMapping, 0, {})
          /\ MapsSet(EmptyMapping, EmptyMapping, Lasts(srcParent', srcRow', {}))
      BY NoRows
    <3>2. view' = EmptyMapping /\ m_mapping' = EmptyMapping /\ viewCount' = 0 /\ m_rowCount' = 0
          /\ WholeList' = {}
      BY <1>2, <1>3, <1>4, <2>1, <2>2, <2>3
    <3> QED
      BY <3>1, <3>2 DEF Follows, MapsRowsOf
  <2> QED
    BY <1>1, <1>2, <2>1, <2>3, <2>4, RowsAtIdle
<1>5. CASE m_mapping # EmptyMapping
  <2>1. /\ phase' = "pending" /\ resume' = "layoutRead" /\ m_pendingParents' = <<Root>>
        /\ m_mapping' = EmptyMapping /\ m_rowCount' = 0
    BY <1>5 DEF RefreshLayout, StartRefresh, Refreshes
  <2>2. Where' = "layoutRead"
    BY <2>1 DEF Where
  <2>3. PendingRows'
    BY <2>1, RootAlone DEF PendingRows
  <2>4. Listed' = {}
    BY <2>1, RootAlone DEF Listed
  <2>5. MapsRows(Listed)'
    <3>1. /\ IsList(srcParent', srcRow', EmptyMapping, 0, {})
          /\ MapsSet(EmptyMapping, EmptyMapping, Lasts(srcParent', srcRow', {}))
          /\ IsRows(EmptyMapping, 0)
      BY NoRows
    <3> QED
      BY <2>1, <2>4, <3>1 DEF MapsRows, MapsRowsOf
  <2>6. RebuiltRows'
    BY <2>5 DEF RebuiltRows
  <2>7. LayoutRows'
    BY <1>2, <1>3, <2>1, <2>2 DEF LayoutRows, InLayout, Holds
  <2>8. ListenerRows'
    BY <2>2 DEF ListenerRows
  <2> QED
    BY <1>2, <2>1, <2>2, <2>3, <2>6, <2>7, <2>8, RowsBetween DEF Between
<1> QED
  BY <1>4, <1>5

LEMMA HandleLayoutChangedRows == TInv /\ BalanceInv /\ RowsInv /\ HandleLayoutChanged => RowsInv'
<1> SUFFICES ASSUME TInv, BalanceInv, RowsInv, HandleLayoutChanged PROVE RowsInv'
  OBVIOUS
<1>1. /\ phase = "relayouted" /\ RefreshLayout
      /\ UNCHANGED <<srcParent, srcRow, userVars, m_layoutChangePersistentIndexes,
                     view, viewCount>>
  BY DEF HandleLayoutChanged, srcVars, viewVars
<1> QED
  BY <1>1, RefreshLayoutRows

\* Both parents are open, so nothing was announced.
LEMMA HandleRowsMovedRows == TInv /\ BalanceInv /\ RowsInv /\ HandleRowsMoved => RowsInv'
<1> SUFFICES ASSUME TInv, BalanceInv, RowsInv, HandleRowsMoved PROVE RowsInv'
  OBVIOUS
<1>1. phase = "moved"
  BY DEF HandleRowsMoved
<1>2. Open(op.parent) /\ Open(op.target) /\ isSourceIndexExpanded(op.parent)
  BY <1>1 DEF BalanceInv, WhereInv, MoveInv, Where, OpenIndexes, Open
<1>3. /\ RefreshLayout
      /\ UNCHANGED <<srcParent, srcRow, userVars, m_layoutChangePersistentIndexes,
                     view, viewCount>>
  BY <1>2 DEF HandleRowsMoved, srcVars, viewVars
<1> QED
  BY <1>1, <1>3, RefreshLayoutRows

LEMMA FinishLayoutRows == TInv /\ BalanceInv /\ RowsInv /\ FinishLayout => RowsInv'
<1> SUFFICES ASSUME TInv, BalanceInv, RowsInv, FinishLayout PROVE RowsInv'
  OBVIOUS
<1>1. /\ phase = "layoutRead" /\ phase' = "idle" /\ resume' = "idle"
      /\ m_layoutChangePersistentIndexes' = EmptyMapping
      /\ UNCHANGED <<srcParent, srcRow, userVars, m_mapping, m_rowCount, m_pendingParents, viewCount>>
  BY DEF FinishLayout, Finishes, RowsKept, PendingKept, srcVars
<1>2. Where = "layoutRead" /\ m_pendingParents = <<>>
  BY <1>1 DEF Where, BalanceInv, QueueInv
<1>3. /\ m_layoutChangePersistentIndexes = view /\ Holds(view, viewCount, WholeList)
      /\ MapsRows(Listed)
      /\ Numbered(srcParent, srcRow) /\ IsTree(srcParent)
  BY <1>2 DEF RowsInv, LayoutRows, InLayout, RebuiltRows, BalanceInv
<1>4. Listed = WholeList /\ WholeList' = WholeList
  BY <1>1, <1>2, NoQueue, ExpandedKept DEF Listed, WholeList
<1>5. PICK v : IsRows(v, m_rowCount) /\ MapsRowsOf(WholeList, v, m_rowCount)
  BY <1>3, <1>4 DEF MapsRows
<1>6. IsListing(srcParent, WholeList) /\ WholeRows(srcParent, WholeList)
      /\ WholeList \in SUBSET In(srcParent)
  BY <1>3, ListedFacts DEF WholeList, IsListing
<1>7. /\ IsList(srcParent, srcRow, v, m_rowCount, WholeList)
      /\ MapsSet(m_mapping, v, Lasts(srcParent, srcRow, WholeList))
  BY <1>5 DEF MapsRowsOf
<1>8. viewCount = m_rowCount
  <2>1. Cardinality(WholeList) = m_rowCount
    BY <1>3, <1>6, <1>7, RowsCounted
  <2> QED
    BY <1>3, <2>1 DEF Holds
<1> DEFINE c == viewCount
<1>9. \A q \in 0 .. c - 1 : v[q] \in WholeList /\ mapFromSource(m_mapping, v[q]) = q
  <2>1. \A q \in 0 .. c - 1 : v[q] \in WholeList
    BY <1>7, <1>8 DEF IsList
  <2>2. \A n \in WholeList : isSourceIndexVisible(n)
    BY <1>3, ListedAreVisible DEF WholeList
  <2>3. \A q \in 0 .. c - 1 : isSourceIndexVisible(v[q]) => mapFromSource(m_mapping, v[q]) = q
    BY <1>3, <1>6, <1>7, <1>8, Reads
  <2> QED
    BY <2>1, <2>2, <2>3
<1>10. /\ \A n \in WholeList : \E q \in 0 .. c - 1 : v[q] = n
       /\ DOMAIN view = 0 .. c - 1
       /\ \A r \in 0 .. c - 1 : view[r] \in WholeList
       /\ \A n \in WholeList : \E r \in 0 .. c - 1 : view[r] = n
  <2>1. \A n \in WholeList : \E q \in 0 .. c - 1 : v[q] = n
    BY <1>7, <1>8 DEF IsList
  <2>2. DOMAIN view = 0 .. c - 1 /\ WholeList = {view[r] : r \in 0 .. c - 1}
    BY <1>3 DEF Holds
  <2> QED
    BY <2>1, <2>2
\* What was at row r goes to the row of the same index.
<1>11. ASSUME NEW n \in 0 .. c - 1
       PROVE  (IF \E r \in DOMAIN view : mapFromSource(m_mapping, view[r]) = n
               THEN At(view, CHOOSE r \in DOMAIN view : mapFromSource(m_mapping, view[r]) = n)
               ELSE Root) = v[n]
  <2>1. \E r \in DOMAIN view : mapFromSource(m_mapping, view[r]) = n
    <3>1. PICK r \in 0 .. c - 1 : view[r] = v[n]
      BY <1>9, <1>10
    <3> QED
      BY <1>9, <1>10, <3>1
  <2>2. ASSUME NEW r \in DOMAIN view, mapFromSource(m_mapping, view[r]) = n
        PROVE  At(view, r) = v[n]
    <3>1. PICK k \in 0 .. c - 1 : v[k] = view[r]
      BY <1>10
    <3>2. k = n
      BY <1>9, <2>2, <3>1
    <3> QED
      BY <3>1, <3>2 DEF At
  <2> DEFINE P(r) == r \in DOMAIN view /\ mapFromSource(m_mapping, view[r]) = n
             s == CHOOSE r \in DOMAIN view : mapFromSource(m_mapping, view[r]) = n
  <2>3. s \in DOMAIN view /\ mapFromSource(m_mapping, view[s]) = n
    BY <2>1
  <2> HIDE DEF s
  <2>4. At(view, s) = v[n]
    BY <2>2, <2>3
  <2> QED
    BY <2>1, <2>4 DEF s
<1>12. view' = v
  <2>1. view' = [n \in 0 .. c - 1 |->
                   IF \E r \in DOMAIN view : mapFromSource(m_mapping, view[r]) = n
                   THEN At(view, CHOOSE r \in DOMAIN view : mapFromSource(m_mapping, view[r]) = n)
                   ELSE Root]
    BY <1>3 DEF FinishLayout
  <2>2. view' = [n \in 0 .. c - 1 |-> v[n]]
    BY <1>11, <2>1
  <2> QED
    BY <1>5, <1>8, <2>2 DEF IsRows
<1>13. Follows(WholeList)'
  BY <1>1, <1>4, <1>5, <1>8, <1>12 DEF Follows, MapsRowsOf
<1> QED
  BY <1>1, <1>2, <1>3, <1>13, RowsAtIdle

----------------------------------------------------------------------------
(* Collapsing.                                                             *)

\* What collapsing i takes away is what is listed below i.
LEMMA ShownUnderIs ==
    ASSUME IsTree(srcParent), NEW i \in WholeList, i \in ExpandedIndexes
    PROVE  ShownUnder(i) = {n \in WholeList : i \in Ancestors(srcParent)[srcParent[n]]}
<1> DEFINE up == Ancestors(srcParent)
<1>1. \A n \in In(srcParent) : Above(n) = up[srcParent[n]] /\ n \in Nodes
  BY SelfAndAboveIsAncestors DEF Above, parent, In
<1>2. Present = In(srcParent) /\ i \in In(srcParent) /\ i \in Nodes /\ up[srcParent[i]] \subseteq ExpandedIndexes
  BY DEF Present, In, WholeList, ListedIn
<1>3. up[i] \subseteq ExpandedIndexes
  BY <1>2, AncestorsOfOne
<1>4. ASSUME NEW n \in In(srcParent), i \in up[srcParent[n]]
      PROVE  n \in WholeList <=> \A a \in Above(n) : i \in Above(a) => isSourceIndexExpanded(a)
  <2>1. srcParent[n] \in In(srcParent) \cup {Root}
    BY AncestorsOfOne
  <2>2. \A a \in up[srcParent[n]] : a \in In(srcParent)
    BY <2>1, AncestorsClosed
  <2>3. ASSUME NEW a \in up[srcParent[n]], i \notin up[srcParent[a]]
        PROVE  a \in ExpandedIndexes
    <3>1. a \in up[i] \/ i \in up[a]
      BY <1>4, <2>1, AncestorsChain
    <3>2. up[a] = {a} \cup up[srcParent[a]]
      BY <2>2, AncestorsOfOne
    <3>3. a \in up[i]
      <4>1. i \in up[a] => i = a
        BY <2>3, <3>2
      <4>2. i \in up[i]
        BY <1>2, AncestorsOfOne
      <4> QED
        BY <3>1, <4>1, <4>2
    <3> QED
      BY <1>3, <3>3
  <2>4. \A a \in up[srcParent[n]] : a \in ExpandedIndexes <=> isSourceIndexExpanded(a)
    BY <2>2 DEF ExpandedIndexes, In
  <2>5. n \in WholeList <=> up[srcParent[n]] \subseteq ExpandedIndexes
    BY DEF WholeList, ListedIn
  <2>6. \A a \in up[srcParent[n]] : Above(a) = up[srcParent[a]]
    BY <1>1, <2>2
  <2>7. Above(n) = up[srcParent[n]]
    BY <1>1
  <2> QED
    BY <2>3, <2>4, <2>5, <2>6, <2>7
<1>5. WholeList \subseteq In(srcParent)
  BY DEF WholeList, ListedIn
<1> QED
  BY <1>1, <1>2, <1>4, <1>5 DEF ShownUnder

\* It stands together, right behind i.
LEMMA ShownBehind ==
    ASSUME IsTree(srcParent), Numbered(srcParent, srcRow),
           NEW v, NEW c, MapsRowsOf(WholeList, v, c),
           NEW i \in WholeList, i \in ExpandedIndexes, hasChildren(i)
    PROVE  LET row == mapFromSource(m_mapping, i)
               end == row + Cardinality(ShownUnder(i))
           IN  /\ row \in Nat /\ end \in Nat /\ row + 1 <= end /\ end < c
               /\ \A r \in 0 .. c - 1 :
                     r \in row + 1 .. end <=> i \in Ancestors(srcParent)[srcParent[v[r]]]
<1> DEFINE up == Ancestors(srcParent)
           U == {n \in WholeList : i \in up[srcParent[n]]}
<1>1. IsList(srcParent, srcRow, v, c, WholeList) /\ c \in Nat
      /\ WholeList \in SUBSET In(srcParent) /\ i \in In(srcParent)
      /\ up[srcParent[i]] \subseteq ExpandedIndexes
  BY DEF MapsRowsOf, IsList, WholeList, ListedIn
<1>2. PICK k \in 0 .. c - 1 : v[k] = i /\ mapFromSource(m_mapping, i) = k
  BY WholeReads
<1>3. \A r \in 0 .. c - 1 : v[r] \in WholeList /\ v[r] \in In(srcParent)
  BY <1>1 DEF IsList
<1>4. ASSUME NEW r \in 0 .. c - 1, v[r] \in U
      PROVE  /\ k < r
             /\ \A q \in 0 .. c - 1 : k < q /\ q <= r => v[q] \in U
  <2>1. up[v[r]] = {v[r]} \cup up[srcParent[v[r]]] /\ i \in up[srcParent[v[r]]]
    BY <1>3, <1>4, AncestorsOfOne
  <2>2. i # v[r]
    BY <1>3, <2>1, NoCycle
  <2>3. Precedes(srcParent, srcRow, i, v[r])
    BY <1>3, <2>1, <2>2, AncestorFirst
  <2>4. k < r
    BY <1>1, <1>2, <2>3, ListOrder
  <2>5. ASSUME NEW q \in 0 .. c - 1, k < q, q <= r PROVE v[q] \in U
    <3>1. Precedes(srcParent, srcRow, i, v[q]) /\ i # v[q]
      BY <1>1, <1>2, <2>5, ListOrder
    <3>2. v[q] = v[r] \/ Precedes(srcParent, srcRow, v[q], v[r])
      BY <1>1, <2>5, ListOrder
    <3>3. i \in up[v[q]]
      BY <1>1, <1>3, <2>1, <3>1, <3>2, SubtreeConvex
    <3>4. i \in up[srcParent[v[q]]]
      BY <1>3, <3>1, <3>3, AncestorsOfOne
    <3> QED
      BY <1>3, <3>4
  <2> QED
    BY <2>4, <2>5
<1>5. PICK g \in 0 .. c - 1 : v[g] \in U /\ \A r \in 0 .. c - 1 : v[r] \in U => r <= g
  <2> DEFINE S == {r \in 0 .. c - 1 : v[r] \in U}
  <2>1. S # {}
    <3>1. PICK x \in Nodes : srcParent[x] = i
      BY DEF hasChildren, Children
    <3>2. x \in In(srcParent) /\ i \in up[i]
      <4>1. i # Absent
        BY <1>1, NodesAssumption DEF In
      <4> QED
        BY <1>1, <3>1, <4>1, AncestorsOfOne DEF In
    <3>3. up[i] \subseteq ExpandedIndexes
      BY <1>1, AncestorsOfOne
    <3>4. x \in U
      BY <3>1, <3>2, <3>3 DEF WholeList, ListedIn
    <3>5. PICK r \in 0 .. c - 1 : v[r] = x
      BY <1>1, <3>4 DEF IsList
    <3> QED
      BY <3>4, <3>5
  <2>2. S \in SUBSET Nat /\ \A r \in S : r <= c
    BY <1>1
  <2>3. \E g \in S : \A r \in S : r <= g
    <3> HIDE DEF S
    <3> QED
      BY <1>1, <2>1, <2>2, GreatestExists
  <2> QED
    BY <2>3
<1>6. k < g
  BY <1>4, <1>5
<1>7. \A r \in 0 .. c - 1 : r \in k + 1 .. g <=> v[r] \in U
  <2>1. ASSUME NEW r \in 0 .. c - 1, v[r] \in U PROVE k < r /\ r <= g
    BY <1>4, <1>5, <2>1
  <2>2. ASSUME NEW r \in 0 .. c - 1, k < r, r <= g PROVE v[r] \in U
    BY <1>4, <1>5, <2>2
  <2> HIDE DEF U
  <2> QED
    BY <1>1, <2>1, <2>2
<1>8. Span(v, k + 1, g) = U
  <2>1. ASSUME NEW n \in U PROVE n \in Span(v, k + 1, g)
    <3>1. PICK r \in 0 .. c - 1 : v[r] = n
      BY <1>1 DEF IsList
    <3> QED
      BY <1>7, <3>1 DEF Span
  <2>2. ASSUME NEW r \in k + 1 .. g PROVE v[r] \in U
    <3>1. r \in 0 .. c - 1
      BY <1>1
    <3> QED
      BY <1>7, <3>1
  <2> HIDE DEF U
  <2> QED
    BY <2>1, <2>2 DEF Span
<1>9. Cardinality(U) = g - k
  <2>1. Cardinality(Span(v, k + 1, g)) = g - (k + 1) + 1
    BY <1>1, <1>6, SpanCount
  <2> HIDE DEF U
  <2> QED
    BY <1>8, <2>1
<1>10. ShownUnder(i) = U
  BY ShownUnderIs
<1>11. \A r \in 0 .. c - 1 : v[r] \in U <=> i \in up[srcParent[v[r]]]
  BY <1>3
<1> HIDE DEF U
<1>12. mapFromSource(m_mapping, i) = k /\ mapFromSource(m_mapping, i) + Cardinality(ShownUnder(i)) = g
  BY <1>2, <1>9, <1>10
<1> QED
  BY <1>1, <1>6, <1>7, <1>11, <1>12

LEMMA AboutToCollapseRows ==
    ASSUME BalanceInv, RowsInv, "collapseAny" \notin Operations,
           NEW i, AboutToCollapse(i)
    PROVE  RowsInv'
<1> DEFINE row == mapFromSource(m_mapping, i)
           end == row + Cardinality(ShownUnder(i))
<1>1. /\ phase = "idle" /\ isSourceIndexVisible(i) /\ hasChildren(i)
      /\ i \in Present /\ isSourceIndexExpanded(i)
      /\ Begin("remove", row + 1, end)
      /\ op' = [NoOp EXCEPT !.parent = i] /\ phase' = "collapsing"
      /\ UNCHANGED <<srcParent, srcRow, userVars, resume, m_mapping, m_rowCount, m_pendingParents,
                     m_layoutChangePersistentIndexes, view, viewCount>>
  BY DEF AboutToCollapse, MayCollapse, Starts, srcVars, proxyVars, userVars
<1>2. /\ resume = "idle" /\ m_pendingParents = <<>> /\ announced = <<>>
      /\ m_layoutChangePersistentIndexes = EmptyMapping
      /\ IsTree(srcParent) /\ Numbered(srcParent, srcRow)
      /\ Listed = WholeList /\ Follows(WholeList)
  BY <1>1, IdleRows
<1>3. i \in WholeList /\ i \in ExpandedIndexes
  <2>1. i \in In(srcParent)
    BY <1>1 DEF Present, In
  <2>2. i # Root
    BY <2>1, NodesAssumption DEF In
  <2> QED
    BY <1>1, <1>2, <2>1, <2>2, VisibleIs DEF WholeList, ListedIn
<1>4. /\ row \in Nat /\ end \in Nat /\ row + 1 <= end /\ end < viewCount
      /\ \A r \in 0 .. viewCount - 1 :
            r \in row + 1 .. end <=> i \in Ancestors(srcParent)[srcParent[view[r]]]
  <2>1. MapsRowsOf(WholeList, view, viewCount)
    BY <1>2 DEF Follows
  <2> QED
    BY <1>1, <1>2, <1>3, <2>1, ShownBehind
<1> HIDE DEF row, end
<1>5. Announced'.first = row + 1 /\ Announced'.last = end
  BY <1>1, <1>2, BeginsFirst
<1>6. Where' = "collapsing" /\ op'.parent = i
  BY <1>1 DEF Where, NoOp
<1>7. ExpandedIndexes' = ExpandedIndexes /\ Listed' = Listed
  BY <1>1, ExpandedKept DEF Listed
<1>8. CollapsingRows'
  <2>1. RealRemoval'
    BY <1>1, <1>4, <1>5 DEF RealRemoval
  <2> QED
    BY <1>1, <1>2, <1>3, <1>4, <1>5, <1>6, <1>7, <2>1 DEF CollapsingRows
<1>9. ListenerRows'
  BY <1>1, <1>2, <1>7 DEF ListenerRows, Follows, MapsRowsOf
<1>10. LayoutRows'
  BY <1>1, <1>2, <1>6 DEF LayoutRows, InLayout
<1>11. PendingRows'
  BY <1>1, <1>2, NoQueue DEF PendingRows
<1> QED
  BY <1>1, <1>2, <1>6, <1>8, <1>9, <1>10, <1>11
     DEF RowsInv, RebuiltRows, OpenRows, InsertingRows, InsertedRows, RemovingRows, RemovedRows

LEMMA CollapseSourceIndexRows == TInv /\ BalanceInv /\ RowsInv /\ CollapseSourceIndex => RowsInv'
<1> SUFFICES ASSUME TInv, BalanceInv, RowsInv, CollapseSourceIndex PROVE RowsInv'
  OBVIOUS
<1> DEFINE i == op.parent
           a == Announced.first
           b == Announced.last
           d == b - a + 1
           up == Ancestors(srcParent)
<1>1. /\ phase = "collapsing" /\ phase' = "pending" /\ resume' = "collapsed"
      /\ SetCollapsed(i)
      /\ m_pendingParents' = <<Root>> /\ m_mapping' = EmptyMapping /\ m_rowCount' = 0
      /\ UNCHANGED <<srcParent, srcRow, m_layoutChangePersistentIndexes, announced, view, viewCount>>
  BY DEF CollapseSourceIndex, StartRefresh, Refreshes, srcVars, viewVars
<1>2. Where = "collapsing" /\ Where' = "collapsed" /\ m_pendingParents = <<>>
  BY <1>1 DEF Where, BalanceInv, QueueInv
<1>3. /\ IsTree(srcParent) /\ Numbered(srcParent, srcRow)
      /\ Follows(WholeList) /\ i \in WholeList /\ i \in ExpandedIndexes /\ RealRemoval
      /\ \A r \in 0 .. viewCount - 1 : r \in a .. b <=> i \in up[srcParent[view[r]]]
      /\ announced \in Seq(Announcements) /\ One("remove")
  BY <1>1, <1>2, NoQueue DEF RowsInv, ListenerRows, CollapsingRows, Listed, WholeList, BalanceInv,
     TInv, ViewTypeOK, WhereInv, CollapseAnnounced
<1>4. a \in Int /\ b \in Int
  <2>1. 1 \in DOMAIN announced
    BY <1>3 DEF One
  <2>2. announced[1] \in Announcements
    BY <1>3, <2>1, ElementOfSeq, LenProperties
  <2> QED
    BY <2>2 DEF Announced, Announcements
<1>5. /\ IsList(srcParent, srcRow, view, viewCount, WholeList)
      /\ viewCount \in Nat /\ DOMAIN view = 0 .. viewCount - 1
      /\ WholeList \in SUBSET In(srcParent)
      /\ 0 <= a /\ a <= b /\ b < viewCount
  BY <1>3 DEF Follows, MapsRowsOf, IsList, WholeList, ListedIn, RealRemoval
<1> HIDE DEF a, b
<1>6. IsList(srcParent, srcRow, CutList(view, viewCount, a, b), viewCount - d, WholeList \ Span(view, a, b))
  <2>1. a \in 0 .. viewCount /\ a <= b + 1
    BY <1>4, <1>5
  <2> QED
    BY <1>3, <1>4, <1>5, <2>1, CutFromList
<1>7. ExpandedIndexes' = ExpandedIndexes \ {i}
  <2>1. i \in Nodes /\ i # Root
    BY <1>3, NodesAssumption DEF WholeList, ListedIn, In
  <2>2. \A n \in Nodes : isSourceIndexExpanded(n)' <=> isSourceIndexExpanded(n) /\ n # i
    BY <1>1, <2>1, NodesAssumption DEF SetCollapsed, isSourceIndexExpanded
  <2> HIDE DEF i
  <2> QED
    BY <2>2 DEF ExpandedIndexes
<1>8. WholeList' = WholeList \ Span(view, a, b)
  <2>1. \A n \in In(srcParent) : n \in WholeList' <=> n \in WholeList /\ i \notin up[srcParent[n]]
    BY <1>1, <1>7 DEF WholeList, ListedIn
  <2>2. WholeList' \subseteq In(srcParent)
    BY <1>1 DEF WholeList, ListedIn
  <2>3. ASSUME NEW n \in WholeList
        PROVE  n \in Span(view, a, b) <=> i \in up[srcParent[n]]
    <3>1. PICK r \in 0 .. viewCount - 1 : view[r] = n
      BY <1>5 DEF IsList
    <3>2. \A q \in 0 .. viewCount - 1 : view[q] = view[r] <=> q = r
      BY <1>3, <1>5, ListOrder
    <3>3. n \in Span(view, a, b) <=> r \in a .. b
      <4>1. \A q \in a .. b : q \in 0 .. viewCount - 1
        BY <1>4, <1>5
      <4> QED
        BY <3>1, <3>2, <4>1 DEF Span
    <3> QED
      BY <1>3, <3>1, <3>3 DEF a, b
  <2> HIDE DEF i, up
  <2> QED
    BY <1>5, <2>1, <2>2, <2>3
<1>9. CollapsingRows'
  <2>1. Announced' = Announced /\ RealRemoval'
    BY <1>1, <1>3 DEF Announced, RealRemoval
  <2>2. (IsList(srcParent, srcRow, CutList(view, viewCount, Announced.first, Announced.last),
                viewCount - (Announced.last - Announced.first + 1), WholeList))'
    BY <1>1, <1>6, <1>8, <2>1 DEF a, b
  <2>3. (DOMAIN view = 0 .. viewCount - 1)'
    BY <1>1, <1>5
  <2> QED
    BY <1>1, <1>2, <2>1, <2>2, <2>3 DEF CollapsingRows
<1>10. PendingRows'
  BY <1>1, RootAlone DEF PendingRows
<1>11. Listed' = {}
  BY <1>1, RootAlone DEF Listed
<1>12. RebuiltRows'
  <2>1. /\ IsList(srcParent', srcRow', EmptyMapping, 0, {})
        /\ MapsSet(EmptyMapping, EmptyMapping, Lasts(srcParent', srcRow', {}))
        /\ IsRows(EmptyMapping, 0)
    BY NoRows
  <2>2. MapsRows(Listed)'
    BY <1>1, <1>11, <2>1 DEF MapsRows, MapsRowsOf
  <2> QED
    BY <2>2 DEF RebuiltRows
<1>13. LayoutRows'
  <2>1. m_layoutChangePersistentIndexes = EmptyMapping
    BY <1>2 DEF RowsInv, LayoutRows, InLayout
  <2> QED
    BY <1>1, <1>2, <2>1 DEF LayoutRows, InLayout
<1>14. Numbered(srcParent, srcRow)' /\ ListenerRows'
  BY <1>1, <1>2, <1>3 DEF ListenerRows
<1> QED
  BY <1>1, <1>9, <1>10, <1>12, <1>13, <1>14
     DEF RowsInv, OpenRows, InsertingRows, InsertedRows, RemovingRows, RemovedRows

LEMMA FinishCollapseRows == TInv /\ BalanceInv /\ RowsInv /\ FinishCollapse => RowsInv'
<1> SUFFICES ASSUME TInv, BalanceInv, RowsInv, FinishCollapse PROVE RowsInv'
  OBVIOUS
<1> DEFINE a == Announced.first
           b == Announced.last
           w == CutList(view, viewCount, a, b)
           c == viewCount - (b - a + 1)
<1>1. /\ phase = "collapsed" /\ phase' = "idle" /\ resume' = "idle" /\ EndRemoveRows
      /\ UNCHANGED <<srcParent, srcRow, userVars, m_mapping, m_rowCount, m_pendingParents,
                     m_layoutChangePersistentIndexes>>
  BY DEF FinishCollapse, Finishes, srcVars, proxyVars, userVars
<1>2. Where = "collapsed" /\ m_pendingParents = <<>>
  BY <1>1 DEF Where, BalanceInv, QueueInv
<1>3. /\ IsTree(srcParent) /\ Numbered(srcParent, srcRow)
      /\ RealRemoval /\ DOMAIN view = 0 .. viewCount - 1
      /\ IsList(srcParent, srcRow, w, c, WholeList)
      /\ MapsRows(Listed)
      /\ m_layoutChangePersistentIndexes = EmptyMapping
      /\ announced \in Seq(Announcements) /\ One("remove") /\ viewCount \in Int
  BY <1>2 DEF RowsInv, RebuiltRows, CollapsingRows, LayoutRows, InLayout, BalanceInv,
     TInv, ViewTypeOK, WhereInv, CollapseAnnounced
<1>4. a \in Int /\ b \in Int
  <2>1. 1 \in DOMAIN announced
    BY <1>3 DEF One
  <2>2. announced[1] \in Announcements
    BY <1>3, <2>1, ElementOfSeq, LenProperties
  <2> QED
    BY <2>2 DEF Announced, Announcements
<1>5. Listed = WholeList /\ WholeList' = WholeList
  BY <1>1, <1>2, NoQueue, ExpandedKept DEF Listed, WholeList
<1>6. view' = w /\ viewCount' = c
  <2>1. viewCount \in Nat
    BY <1>3, <1>4 DEF RealRemoval
  <2> QED
    BY <1>1, <1>3, <1>4, <2>1, RemovedView
<1>7. PICK v : IsRows(v, m_rowCount) /\ MapsRowsOf(WholeList, v, m_rowCount)
  BY <1>3, <1>5 DEF MapsRows
<1>8. w = v /\ c = m_rowCount
  <2>1. IsList(srcParent, srcRow, v, m_rowCount, WholeList) /\ DOMAIN v = 0 .. m_rowCount - 1
    BY <1>7 DEF MapsRowsOf, IsList
  <2>2. v = [r \in DOMAIN v |-> v[r]]
    BY <1>7, <2>1 DEF IsRows
  <2>3. w = [r \in DOMAIN w |-> w[r]]
    BY DEF CutList
  <2>4. WholeList \in SUBSET In(srcParent)
    BY DEF WholeList, ListedIn
  <2> HIDE DEF w, c
  <2> QED
    BY <1>3, <2>1, <2>2, <2>3, <2>4, ListUnique
<1>9. Follows(WholeList)'
  BY <1>1, <1>5, <1>6, <1>7, <1>8 DEF Follows, MapsRowsOf
<1> QED
  BY <1>1, <1>2, <1>3, <1>9, RowsAtIdle

----------------------------------------------------------------------------
(* Every step keeps the invariant of the rows.                             *)

LEMMA InitRows == Init => RowsInv
<1> SUFFICES ASSUME Init PROVE RowsInv
  OBVIOUS
<1>1. /\ phase = "idle" /\ resume = "idle" /\ m_pendingParents = <<>> /\ Where = "idle"
      /\ m_mapping = EmptyMapping /\ m_rowCount = 0 /\ view = EmptyMapping /\ viewCount = 0
      /\ m_layoutChangePersistentIndexes = EmptyMapping /\ m_relayouting = FALSE
      /\ \A n \in Nodes : srcParent[n] = Absent
  BY DEF Init, Where
<1>2. Numbered(srcParent, srcRow)
  BY <1>1, NodesAssumption DEF Numbered
<1>3. Listed = {}
  BY <1>1 DEF Listed, ListedIn, In
<1>4. Follows(Listed)
  BY <1>1, <1>3, NoRows DEF Follows, MapsRowsOf
<1>5. PendingRows
  BY <1>1, NoQueue DEF PendingRows
<1> QED
  BY <1>1, <1>2, <1>4, <1>5
     DEF RowsInv, ListenerRows, RebuiltRows, OpenRows, InsertingRows, InsertedRows, RemovingRows,
         RemovedRows, LayoutRows, InLayout, CollapsingRows

LEMMA RowsUnchanged == RowsInv /\ UNCHANGED vars => RowsInv'
<1> SUFFICES ASSUME RowsInv, UNCHANGED vars PROVE RowsInv'
  OBVIOUS
<1>1. UNCHANGED <<srcParent, srcRow, m_mapping, m_rowCount, m_pendingParents, m_insertPair,
                  m_removePair, m_relayouting, m_layoutChangePersistentIndexes, phase, resume, op,
                  announced, view, viewCount, m_expandsByDefault, userVars>>
  BY DEF vars, srcVars, proxyVars, userVars, controlVars, viewVars
<1>2. ExpandedIndexes' = ExpandedIndexes
  BY <1>1, ExpandedKept
<1>3. Listed' = Listed /\ WholeList' = WholeList
  BY <1>1, <1>2 DEF Listed, WholeList
<1>4. RowCounts' = RowCounts /\ Where' = Where /\ Announced' = Announced
      /\ Removed' = Removed /\ (IsAnnounced' <=> IsAnnounced)
  BY <1>1 DEF RowCounts, rowCount, Children, Where, Announced, Removed, IsAnnounced
<1>5. ListedBeforeRemoval' = ListedBeforeRemoval /\ (RealRemoval' <=> RealRemoval)
  BY <1>1, <1>2, <1>4 DEF ListedBeforeRemoval, RealRemoval
<1>6. \A L : Follows(L)' <=> Follows(L)
  BY <1>1 DEF Follows, MapsRowsOf
<1>7. Numbered(srcParent, srcRow)' /\ PendingRows'
  BY <1>1, <1>2 DEF RowsInv, PendingRows
<1>8. ListenerRows'
  BY <1>1, <1>3, <1>4 DEF RowsInv, ListenerRows, Follows, MapsRowsOf
<1>9. RebuiltRows'
  BY <1>1, <1>3, <1>4 DEF RowsInv, RebuiltRows, MapsRows, MapsRowsOf
<1>10. OpenRows'
  <2>1. \A p : rowCount(p)' = rowCount(p)
    BY <1>1 DEF rowCount, Children
  <2> QED
    BY <1>1, <1>4, <2>1 DEF RowsInv, OpenRows
<1>11. InsertionAnnounced' <=> InsertionAnnounced
  BY <1>1, <1>4 DEF InsertionAnnounced, BeginsAhead
<1>12. InsertingRows'
  BY <1>1, <1>4, <1>11 DEF RowsInv, InsertingRows
<1>13. InsertedRows'
  BY <1>1, <1>3, <1>4, <1>11 DEF RowsInv, InsertedRows, Follows, MapsRowsOf
<1>14. RemovingRows'
  BY <1>1, <1>3, <1>4, <1>5 DEF RowsInv, RemovingRows, Follows, MapsRowsOf, BeginsAhead
<1>15. RemovedRows'
  BY <1>1, <1>3, <1>4, <1>5 DEF RowsInv, RemovedRows, Follows, MapsRowsOf, BeginsAhead
<1>16. LayoutRows'
  BY <1>1, <1>3, <1>4 DEF RowsInv, LayoutRows, Holds
<1>17. CollapsingRows'
  BY <1>1, <1>2, <1>3, <1>4, <1>5 DEF RowsInv, CollapsingRows
<1> QED
  BY <1>7, <1>8, <1>9, <1>10, <1>12, <1>13, <1>14, <1>15, <1>16, <1>17 DEF RowsInv

\* What the theorems about the rows assume: no slot that the source calls before the
\* proxy asks for rows, and the operations keep to what the tests do.  Without any other
\* part a listener gets wrong rows in some run; "removeBeside" is only not covered here.
OrdinaryUse ==
    /\ ~EagerListeners
    /\ Operations \cap {"removeBeside", "removeCollapsed", "moveAcross", "expandsLoaded", "collapseAny"} = {}

LEMMA RowsStep ==
    ASSUME OrdinaryUse
    PROVE  TInv /\ BalanceInv /\ RowsInv /\ [Next]_vars => RowsInv'
<1> SUFFICES ASSUME TInv, BalanceInv, RowsInv, [Next]_vars PROVE RowsInv'
  OBVIOUS
<1>0. /\ ~EagerListeners /\ "removeCollapsed" \notin Operations /\ "moveAcross" \notin Operations
      /\ "removeBeside" \notin Operations
      /\ "expandsLoaded" \notin Operations /\ "collapseAny" \notin Operations
  BY DEF OrdinaryUse
<1>1. CASE Begins
  <2>1. ASSUME NEW p, NEW first, NEW last, AboutToInsert(p, first, last)
        PROVE  RowsInv'
    BY <2>1, AboutToInsertRows
  <2>2. ASSUME NEW p, NEW first, NEW last \in Int, AboutToRemove(p, first, last)
        PROVE  RowsInv'
    BY <1>0, <2>2, AboutToRemoveRows
  <2>3. ASSUME NEW p, NEW first, NEW last, NEW q, NEW dest,
               AboutToMove(p, first, last, q, dest)
        PROVE  RowsInv'
    BY <2>3, AboutToMoveRows
  <2>4. ASSUME NEW p, AboutToRelayout(p)
        PROVE  RowsInv'
    BY <2>4, AboutToRelayoutRows
  <2>5. ASSUME NEW f \in Forests, SetSourceModel(f)
        PROVE  RowsInv'
    BY <2>5, SetSourceModelRows
  <2>6. ASSUME NEW expand, SetExpandsByDefault(expand)
        PROVE  RowsInv'
    BY <1>0, <2>6, SetExpandsByDefaultRows
  <2>7. ASSUME NEW i, ExpandSourceIndex(i)
        PROVE  RowsInv'
    BY <2>7, ExpandSourceIndexRows
  <2>8. ASSUME NEW i, AboutToCollapse(i)
        PROVE  RowsInv'
    BY <1>0, <2>8, AboutToCollapseRows
  <2>9. \A p : \A last \in 0 .. rowCount(p) - 1 : last \in Int
    OBVIOUS
  <2> QED
    BY <1>1, <2>1, <2>2, <2>3, <2>4, <2>5, <2>6, <2>7, <2>8, <2>9, AboutToResetRows DEF Begins
<1>2. CASE Continues
  <2>1. ASSUME NEW f \in Forests, SourceInserts(f) \/ SourceResets(f)
        PROVE  RowsInv'
    BY <2>1, SourceInsertsRows, SourceResetsRows
  <2> QED
    BY <1>2, <2>1, SkipPendingRows, AnnouncePendingRows, AddPendingRows, EndPendingRows,
       HandleRowsInsertedRows, SourceRemovesRows, HandleRowsRemovedRows, SourceRelayoutsRows,
       HandleLayoutChangedRows, FinishLayoutRows, SourceMovesRows, HandleRowsMovedRows,
       HandleModelResetRows, FinishResetRows, CollapseSourceIndexRows, FinishCollapseRows
       DEF Continues
<1>3. CASE QueryRowCount
  BY <1>0, <1>3, QueryFindsMapping
<1>4. CASE UNCHANGED vars
  BY <1>4, RowsUnchanged
<1> QED
  BY <1>1, <1>2, <1>3, <1>4 DEF Next

----------------------------------------------------------------------------
(* What the invariant says of the properties.                              *)

\* What is shown is what is listed, in the order of the list.
LEMMA ShownIsWhole ==
    ASSUME BalanceInv, RowsInv, phase = "idle"
    PROVE  /\ Shown = WholeList /\ viewCount \in Nat /\ DOMAIN view = 0 .. viewCount - 1
           /\ viewCount = Cardinality(Shown) /\ m_rowCount = viewCount
           /\ \A r \in 0 .. viewCount - 1 : view[r] \in Shown /\ RowOf(view[r]) = r
           /\ \A n \in Shown : \E r \in 0 .. viewCount - 1 : view[r] = n
<1>1. /\ IsTree(srcParent) /\ Numbered(srcParent, srcRow)
      /\ Follows(WholeList) /\ WholeList \in SUBSET In(srcParent)
  BY IdleRows
<1>2. IsList(srcParent, srcRow, view, viewCount, WholeList) /\ m_rowCount = viewCount
  BY <1>1 DEF Follows, MapsRowsOf
<1>3. Present = In(srcParent)
  BY DEF Present, In
<1>4. Shown = WholeList
  <2>1. \A n : n \in WholeList
               <=> n \in In(srcParent) /\ Ancestors(srcParent)[srcParent[n]] \subseteq ExpandedIndexes
    BY DEF WholeList, ListedIn
  <2>2. \A n \in In(srcParent) :
           isSourceIndexVisible(n) <=> Ancestors(srcParent)[srcParent[n]] \subseteq ExpandedIndexes
    <3>1. \A n \in In(srcParent) : n # Root
      BY NodesAssumption DEF In
    <3> QED
      BY <1>1, <3>1, VisibleIs
  <2>3. \A n : n \in Shown <=> n \in In(srcParent) /\ isSourceIndexVisible(n)
    BY <1>3 DEF Shown
  <2> QED
    BY <2>1, <2>2, <2>3
<1>5. /\ viewCount \in Nat /\ DOMAIN view = 0 .. viewCount - 1
      /\ \A r \in 0 .. viewCount - 1 : view[r] \in WholeList
      /\ \A n \in WholeList : \E r \in 0 .. viewCount - 1 : view[r] = n
  BY <1>2 DEF IsList
<1>6. /\ Cardinality(WholeList) = viewCount
      /\ \A r \in 0 .. viewCount - 1 :
            Cardinality({x \in WholeList : Precedes(srcParent, srcRow, x, view[r])}) = r
  BY <1>1, <1>2, RowsCounted
<1>7. ASSUME NEW r \in 0 .. viewCount - 1 PROVE RowOf(view[r]) = r
  <2>1. \A x \in WholeList : Before(x, view[r]) <=> Precedes(srcParent, srcRow, x, view[r])
    BY <1>1, <1>3, <1>5, <1>7, BeforeIsPrecedes
  <2>2. {x \in Shown : Before(x, view[r])}
           = {x \in WholeList : Precedes(srcParent, srcRow, x, view[r])}
    BY <1>4, <2>1
  <2> QED
    BY <1>6, <1>7, <2>2 DEF RowOf
<1> QED
  BY <1>2, <1>4, <1>5, <1>6, <1>7

LEMMA RowsShowTree ==
    ASSUME BalanceInv, RowsInv
    PROVE  ShowsVisibleTree
<1> SUFFICES ASSUME phase = "idle"
             PROVE  /\ viewCount = Cardinality(Shown) /\ DOMAIN view = 0 .. viewCount - 1
                    /\ \A n \in Shown : view[RowOf(n)] = n
  BY DEF ShowsVisibleTree
<1> QED
  BY ShownIsWhole

LEMMA RowsAreMapped ==
    ASSUME TInv, BalanceInv, RowsInv
    PROVE  LastChildrenMapped
<1> SUFFICES ASSUME phase = "idle"
             PROVE  /\ m_rowCount = Cardinality(Shown)
                    /\ MappedIndexes(m_mapping)
                          = {n \in Shown : srcRow[n] = rowCount(srcParent[n]) - 1}
                    /\ \A r \in DOMAIN m_mapping : RowOf(m_mapping[r]) = r
  BY DEF LastChildrenMapped
<1> DEFINE T == Lasts(srcParent, srcRow, WholeList)
<1>1. /\ IsTree(srcParent) /\ Numbered(srcParent, srcRow)
      /\ Follows(WholeList) /\ WholeList \in SUBSET In(srcParent)
      /\ WholeRows(srcParent, WholeList)
  BY IdleRows
<1>2. /\ Shown = WholeList /\ viewCount = Cardinality(Shown) /\ m_rowCount = viewCount
      /\ \A r \in 0 .. viewCount - 1 : RowOf(view[r]) = r
      /\ \A n \in Shown : \E r \in 0 .. viewCount - 1 : view[r] = n
  BY ShownIsWhole
<1>3. IsList(srcParent, srcRow, view, viewCount, WholeList) /\ MapsSet(m_mapping, view, T)
  BY <1>1 DEF Follows, MapsRowsOf
<1>4. Distinct(view, viewCount)
  BY <1>1, <1>3, ListDistinct
<1>5. \A n : n \in T => n \in WholeList
  BY DEF Lasts
<1> HIDE DEF T
<1>6. /\ DOMAIN m_mapping \subseteq 0 .. viewCount - 1
      /\ \A r \in DOMAIN m_mapping : m_mapping[r] = view[r]
  BY <1>3, <1>4, MappedDomain
<1>7. \A n : n \in MappedIndexes(m_mapping) <=> n \in T
  <2>1. \A n : n \in MappedIndexes(m_mapping)
               <=> n \in T /\ \E r \in 0 .. viewCount - 1 : view[r] = n
    BY <1>3, <1>4, MappedSet
  <2> QED
    BY <1>2, <1>5, <2>1
<1>8. ASSUME NEW n \in WholeList
      PROVE  n \in T <=> srcRow[n] = rowCount(srcParent[n]) - 1
  <2> DEFINE p == srcParent[n]
  <2>1. n \in In(srcParent) /\ n \in Nodes /\ p \in In(srcParent) \cup {Root}
    BY <1>1, AncestorsOfOne DEF In
  <2>2. p \in Known /\ p \in Nodes \cup {Root}
    BY <2>1 DEF Known, Present, In
  <2>3. Children(p) \subseteq WholeList
    BY <1>1 DEF WholeRows, Children
  <2>4. \A k \in Nodes : srcParent[k] = p => srcRow[k] \in 0 .. rowCount(p) - 1
    BY <1>1, <2>2 DEF Numbered, rowCount, Children
  <2>5. rowCount(p) \in Nat /\ srcRow[n] \in Nat
    BY <1>1, <2>1, CountType, WalkIs DEF rowCount, Children
  <2>6. ASSUME n \in T PROVE srcRow[n] = rowCount(p) - 1
    <3>1. srcRow[n] + 1 = rowCount(p)
      BY <1>1, <2>2, <2>3, <2>6, LastOfChildren DEF T
    <3> QED
      BY <2>5, <3>1
  <2>7. ASSUME srcRow[n] = rowCount(p) - 1 PROVE n \in T
    <3>1. \A k \in WholeList : srcParent[k] = srcParent[n] => srcRow[k] <= srcRow[n]
      <4>1. \A k \in WholeList : k \in Nodes
        BY <1>1 DEF In
      <4> QED
        BY <2>4, <2>5, <2>7, <4>1
    <3> QED
      BY <3>1 DEF T, Lasts, IsLast
  <2> QED
    BY <2>6, <2>7
<1>9. MappedIndexes(m_mapping) = {n \in Shown : srcRow[n] = rowCount(srcParent[n]) - 1}
  BY <1>2, <1>5, <1>7, <1>8
<1>10. \A r \in DOMAIN m_mapping : RowOf(m_mapping[r]) = r
  BY <1>2, <1>6
<1> QED
  BY <1>2, <1>9, <1>10

\* What a listener reads through a mapping that follows its rows.
LEMMA ReadsRows ==
    ASSUME IsTree(srcParent), Numbered(srcParent, srcRow),
           NEW E, NEW Q, NEW L, L = ListedIn(srcParent, E, Q), Follows(L)
    PROVE  /\ m_rowCount = viewCount /\ viewCount \in Nat
           /\ m_mapping # EmptyMapping <=> viewCount > 0
           /\ \A r \in 0 .. viewCount - 1 :
                 /\ view[r] \in L
                 /\ mapToSource(m_mapping, r) = view[r]
                 /\ isSourceIndexVisible(view[r]) => mapFromSource(m_mapping, view[r]) = r
<1>1. IsListing(srcParent, L) /\ WholeRows(srcParent, L)
  BY ListedFacts
<1>2. /\ IsList(srcParent, srcRow, view, viewCount, L)
      /\ MapsSet(m_mapping, view, Lasts(srcParent, srcRow, L))
      /\ m_rowCount = viewCount
  BY DEF Follows, MapsRowsOf
<1>3. /\ \A q \in 0 .. viewCount - 1 : mapToSource(m_mapping, q) = view[q]
      /\ \A q \in 0 .. viewCount - 1 :
            isSourceIndexVisible(view[q]) => mapFromSource(m_mapping, view[q]) = q
      /\ m_mapping = EmptyMapping <=> viewCount = 0
  BY <1>1, <1>2, Reads
<1>4. viewCount \in Nat /\ \A r \in 0 .. viewCount - 1 : view[r] \in L
  BY <1>2 DEF IsList
<1> QED
  BY <1>2, <1>3, <1>4

LEMMA RowsReadable ==
    ASSUME TInv, BalanceInv, RowsInv
    PROVE  ReadableMidway
<1> SUFFICES ASSUME phase \in {"idle", "inserting", "removing", "collapsing", "pendingOpen"}
             PROVE  /\ listRowCount = viewCount /\ listHasChildren = (viewCount > 0)
                    /\ \A r \in 0 .. viewCount - 1 :
                          /\ mapToSource(m_mapping, r) = view[r]
                          /\ phase # "removing" \/ m_expandsByDefault =>
                                mapFromSource(m_mapping, view[r]) = r
  BY DEF ReadableMidway
<1>1. IsTree(srcParent) /\ Numbered(srcParent, srcRow) /\ Where = phase
  BY DEF BalanceInv, RowsInv, Where
<1>2. phase # "pendingOpen" => m_pendingParents = <<>>
  BY DEF BalanceInv, QueueInv
<1>3. RefusesRowCount <=> Root \in QueueOf(m_pendingParents)
  BY DEF RefusesRowCount, QueueOf
<1>4. Root \in QueueOf(m_pendingParents) => Listed = {}
  BY DEF Listed, ListedIn
<1>5. CASE phase = "removing"
  <2>1. Follows(ListedBeforeRemoval) /\ (m_expandsByDefault => ListedBeforeRemoval = Listed)
    BY <1>5 DEF RowsInv, RemovingRows
  <2>2. /\ m_rowCount = viewCount /\ viewCount \in Nat
        /\ m_mapping # EmptyMapping <=> viewCount > 0
        /\ \A r \in 0 .. viewCount - 1 :
              /\ view[r] \in ListedBeforeRemoval
              /\ mapToSource(m_mapping, r) = view[r]
              /\ isSourceIndexVisible(view[r]) => mapFromSource(m_mapping, view[r]) = r
    BY <1>1, <2>1, ReadsRows DEF ListedBeforeRemoval
  <2>3. m_expandsByDefault => \A r \in 0 .. viewCount - 1 : isSourceIndexVisible(view[r])
    BY <1>1, <2>1, <2>2, ListedAreVisible DEF Listed
  <2>4. ~RefusesRowCount
    BY <1>2, <1>5 DEF RefusesRowCount
  <2>5. listRowCount = viewCount /\ listHasChildren = (viewCount > 0)
    BY <2>2, <2>4 DEF listRowCount, listHasChildren
  <2> QED
    BY <1>5, <2>2, <2>3, <2>5
<1>6. CASE phase # "removing"
  <2>1. Follows(Listed)
    BY <1>1, <1>6 DEF RowsInv, ListenerRows
  <2>2. /\ m_rowCount = viewCount /\ viewCount \in Nat
        /\ m_mapping # EmptyMapping <=> viewCount > 0
        /\ \A r \in 0 .. viewCount - 1 :
              /\ view[r] \in Listed
              /\ mapToSource(m_mapping, r) = view[r]
              /\ isSourceIndexVisible(view[r]) => mapFromSource(m_mapping, view[r]) = r
    BY <1>1, <2>1, ReadsRows DEF Listed
  <2>3. \A r \in 0 .. viewCount - 1 : isSourceIndexVisible(view[r])
    BY <1>1, <2>2, ListedAreVisible DEF Listed
  <2>4. RefusesRowCount => viewCount = 0
    BY <1>3, <1>4, <2>2
  <2>5. listRowCount = viewCount /\ listHasChildren = (viewCount > 0)
    BY <2>2, <2>4 DEF listRowCount, listHasChildren
  <2> QED
    BY <2>2, <2>3, <2>5
<1> QED
  BY <1>5, <1>6

LEMMA RowsAnnounced ==
    ASSUME TInv, BalanceInv, RowsInv
    PROVE  AnnouncesRealRows
<1> DEFINE a == Announced
           Real == \/ a.kind = "reset"
                   \/ a.kind = "insert" /\ 0 <= a.first /\ a.first <= viewCount /\ a.first <= a.last
                   \/ a.kind = "remove" /\ RealRemoval
<1>1. SUFFICES announced = <<>> \/ (Len(announced) = 1 /\ Real)
  <2>1. CASE announced = <<>>
    BY <2>1 DEF AnnouncesRealRows
  <2>2. CASE Len(announced) = 1 /\ Real
    <3>1. announced \in Seq(Announcements)
      BY DEF TInv, ViewTypeOK
    <3>2. \A k \in DOMAIN announced : announced[k] = a
      BY <2>2, <3>1, LenProperties DEF Announced
    <3> QED
      BY <2>2, <3>2 DEF AnnouncesRealRows, RealRemoval
  <2> QED
    BY <1>1, <2>1, <2>2
<1>2. \A kind : One(kind) => Len(announced) = 1 /\ a.kind = kind /\ announced # <<>>
  BY OneIs DEF Announced
<1>3. /\ announced \in Seq(Announcements) /\ phase \in Phases
      /\ op.first \in Nat /\ op.last \in Nat /\ op.first <= op.last
  BY DEF TInv, ViewTypeOK, ControlTypeOK
<1>4. announced # <<>> => a.first \in Int /\ a.last \in Int
  <2> SUFFICES ASSUME announced # <<>> PROVE a.first \in Int /\ a.last \in Int
    OBVIOUS
  <2>1. 1 \in DOMAIN announced
    BY <1>3, LenProperties, EmptySeq
  <2>2. announced[1] \in Announcements
    BY <1>3, <2>1, ElementOfSeq
  <2> QED
    BY <2>2 DEF Announcements, Announced
<1>5. phase = "pending" => Where \in {"idle", "layoutRead", "rebuilt", "collapsed"}
  BY DEF RowsInv, PendingRows, Where
<1>6. phase # "pending" => Where = phase
  BY DEF Where
<1>7. CASE Where \in {"idle", "moving", "moved", "relayouting", "relayouted", "layoutRead"}
  BY <1>7 DEF BalanceInv, WhereInv, QuietInv
<1>8. CASE Where \in {"resetting", "reset", "rebuilt"}
  BY <1>2, <1>8 DEF BalanceInv, WhereInv, ResetInv
<1>9. CASE Where = "collapsed" \/ phase = "collapsing"
  <2>1. One("remove")
    BY <1>6, <1>9 DEF BalanceInv, WhereInv, CollapseAnnounced
  <2>2. RealRemoval
    BY <1>9 DEF RowsInv, CollapsingRows
  <2> QED
    BY <1>2, <2>1, <2>2
<1>10. CASE phase = "pendingOpen"
  <2>1. One("insert")
    BY <1>6, <1>10 DEF BalanceInv, WhereInv, PendingInv
  <2>2. viewCount \in Nat
    BY <1>6, <1>10 DEF RowsInv, ListenerRows, Follows, MapsRowsOf, IsList
  <2> DEFINE p == Head(m_pendingParents)
             n == rowCount(p)
  <2>3. /\ n > 0 /\ a.last = a.first + n - 1
        /\ a.first = 0 \/ a.first \in 1 .. viewCount
    BY <1>10 DEF RowsInv, OpenRows
  <2>4. n \in Nat
    BY CountType DEF rowCount, Children
  <2> HIDE DEF n
  <2>5. 0 <= a.first /\ a.first <= viewCount /\ a.first <= a.last
    BY <2>2, <2>3, <2>4
  <2> QED
    BY <1>2, <2>1, <2>5
<1>11. CASE phase \in {"inserting", "inserted"} /\ announced # <<>>
  <2>1. One("insert")
    BY <1>6, <1>11 DEF BalanceInv, WhereInv, InsertInv
  <2>2. /\ a.last = a.first + (op.last - op.first) /\ a.first \in 0 .. viewCount
    BY <1>11 DEF RowsInv, InsertingRows, InsertedRows, InsertionAnnounced, BeginsAhead, IsAnnounced
  <2>3. viewCount \in Nat
    BY <1>6, <1>11 DEF RowsInv, ListenerRows, InsertedRows, Follows, MapsRowsOf, IsList
  <2>4. 0 <= a.first /\ a.first <= viewCount /\ a.first <= a.last
    BY <1>3, <2>2, <2>3
  <2> QED
    BY <1>2, <2>1, <2>4
<1>12. CASE phase \in {"removing", "removed"} /\ announced # <<>>
  <2>1. One("remove")
    BY <1>6, <1>12 DEF BalanceInv, WhereInv, RemoveInv
  <2>2. RealRemoval
    BY <1>12 DEF RowsInv, RemovingRows, RemovedRows, IsAnnounced
  <2> QED
    BY <1>2, <2>1, <2>2
<1> HIDE DEF Real
<1> QED
  BY <1>3, <1>5, <1>6, <1>7, <1>8, <1>9, <1>10, <1>11, <1>12 DEF Phases

----------------------------------------------------------------------------
(* The theorems about the rows.                                            *)

LEMMA RowsInvariant ==
    ASSUME OrdinaryUse
    PROVE  Spec => [](TInv /\ BalanceInv /\ RowsInv)
<1>1. ~EagerListeners /\ "moveAcross" \notin Operations
  BY DEF OrdinaryUse
<1>2. Init => TInv /\ CollapseInv /\ BalanceInv /\ RowsInv
  BY InitTInv, InitBalances, InitRows DEF Init, CollapseInv
<1>3. TInv /\ CollapseInv /\ BalanceInv /\ RowsInv /\ [Next]_vars
      => TInv' /\ CollapseInv' /\ BalanceInv' /\ RowsInv'
  BY <1>1, TInvStep, CollapseInvStep, StepBalances, RowsStep
<1> QED
  BY <1>2, <1>3, PTL DEF Spec

\* Whatever the size of the tree and however long the calls go on, the listener that
\* follows the signals of the proxy holds the visible tree between calls.
THEOREM ListShowsTree ==
    ASSUME OrdinaryUse
    PROVE  Spec => []ShowsVisibleTree
<1>1. TInv /\ BalanceInv /\ RowsInv => ShowsVisibleTree
  BY RowsShowTree
<1> QED
  BY <1>1, RowsInvariant, PTL

\* Between calls m_mapping has the last children of the shown parents at their rows.
THEOREM MappingIsLastChildren ==
    ASSUME OrdinaryUse
    PROVE  Spec => []LastChildrenMapped
<1>1. TInv /\ BalanceInv /\ RowsInv => LastChildrenMapped
  BY RowsAreMapped
<1> QED
  BY <1>1, RowsInvariant, PTL

\* Where a slot of a listener runs in the middle of a call, mapToSource() and
\* mapFromSource() answer for the rows the listener has been told of.
THEOREM AnswersMidway ==
    ASSUME OrdinaryUse
    PROVE  Spec => []ReadableMidway
<1>1. TInv /\ BalanceInv /\ RowsInv => ReadableMidway
  BY RowsReadable
<1> QED
  BY <1>1, RowsInvariant, PTL

\* What is announced as removed is there, and what is inserted has a place there.
THEOREM AnnouncementsFit ==
    ASSUME OrdinaryUse
    PROVE  Spec => []AnnouncesRealRows
<1>1. TInv /\ BalanceInv /\ RowsInv => AnnouncesRealRows
  BY RowsAnnounced
<1> QED
  BY <1>1, RowsInvariant, PTL
============================================================================
