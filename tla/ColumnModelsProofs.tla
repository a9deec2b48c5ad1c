-------------------------- MODULE ColumnModelsProofs --------------------------
(***************************************************************************)
(* Theorems about the column proxies, for a source of any rows below rows, *)
(* any columns and any extra columns: persistent indexes follow, a view on *)
(* the headers hears of all of them, and selections reach the source.      *)
(***************************************************************************)
EXTENDS ColumnModels, FiniteSetTheorems, SequenceTheorems, TLAPS

----------------------------------------------------------------------------
(* Lists.                                                                   *)

LEMMA InsertAtIs ==
    ASSUME NEW S, NEW s \in Seq(S), NEW e \in S, NEW i \in Int, 1 <= i, i <= Len(s) + 1
    PROVE  /\ Seqs!InsertAt(s, i, e) \in Seq(S)
           /\ Len(Seqs!InsertAt(s, i, e)) = Len(s) + 1
           /\ \A k \in 1 .. Len(s) + 1 :
                 Seqs!InsertAt(s, i, e)[k] = IF k < i THEN s[k] ELSE IF k = i THEN e ELSE s[k - 1]
<1> DEFINE a == SubSeq(s, 1, i - 1)
           b == SubSeq(s, i, Len(s))
           one == <<e>>
           ab == a \o one
           all == ab \o b
<1>1. Len(s) \in Nat /\ \A k \in 1 .. Len(s) : s[k] \in S
  OBVIOUS
<1>2. a \in Seq(S) /\ Len(a) = i - 1 /\ \A k \in 1 .. i - 1 : a[k] = s[k]
  <2>1. /\ a \in Seq(S)
        /\ Len(a) = IF 1 <= i - 1 THEN (i - 1) - 1 + 1 ELSE 0
        /\ \A k \in 1 .. (i - 1) - 1 + 1 : a[k] = s[1 + k - 1]
    BY <1>1, SubSeqProperties
  <2> HIDE DEF a
  <2> QED
    BY <2>1
<1>3. b \in Seq(S) /\ Len(b) = Len(s) - i + 1 /\ \A k \in 1 .. Len(s) - i + 1 : b[k] = s[i + k - 1]
  <2>1. /\ b \in Seq(S)
        /\ Len(b) = IF i <= Len(s) THEN Len(s) - i + 1 ELSE 0
        /\ \A k \in 1 .. Len(s) - i + 1 : b[k] = s[i + k - 1]
    BY <1>1, SubSeqProperties
  <2> HIDE DEF b
  <2> QED
    BY <1>1, <2>1
<1>4. one \in Seq(S) /\ Len(one) = 1 /\ one[1] = e
  OBVIOUS
<1>5. Seqs!InsertAt(s, i, e) = all
  BY DEF Seqs!InsertAt
<1> HIDE DEF a, b, one
<1>6. ab \in Seq(S) /\ Len(ab) = i /\ \A k \in 1 .. i : ab[k] = IF k < i THEN s[k] ELSE e
  <2>1. /\ ab \in Seq(S) /\ Len(ab) = Len(a) + Len(one)
        /\ \A k \in 1 .. Len(a) + Len(one) : ab[k] = IF k <= Len(a) THEN a[k] ELSE one[k - Len(a)]
    BY <1>2, <1>4, ConcatProperties
  <2> HIDE DEF ab
  <2>2. \A k \in 1 .. i : k < i => ab[k] = s[k]
    BY <1>2, <1>4, <2>1
  <2>3. i - Len(a) = 1
    BY <1>2
  <2>4. ab[i] = e
    BY <1>2, <1>4, <2>1, <2>3
  <2> QED
    BY <1>2, <1>4, <2>1, <2>2, <2>4
<1> HIDE DEF ab
<1>7. /\ all \in Seq(S) /\ Len(all) = Len(ab) + Len(b)
      /\ \A k \in 1 .. Len(ab) + Len(b) : all[k] = IF k <= Len(ab) THEN ab[k] ELSE b[k - Len(ab)]
  BY <1>3, <1>6, ConcatProperties
<1> HIDE DEF all
<1>8. ASSUME NEW k \in Int, i < k, k <= Len(s) + 1 PROVE all[k] = s[k - 1]
  <2>1. k - i \in 1 .. Len(s) - i + 1 /\ i + (k - i) - 1 = k - 1
    BY <1>1, <1>8
  <2>2. b[k - i] = s[k - 1]
    BY <1>3, <2>1
  <2> QED
    BY <1>1, <1>3, <1>6, <1>7, <1>8, <2>2
<1>9. ASSUME NEW k \in Int, 1 <= k, k <= i PROVE all[k] = IF k < i THEN s[k] ELSE e
  BY <1>1, <1>3, <1>6, <1>7, <1>9
<1> QED
  BY <1>1, <1>3, <1>5, <1>6, <1>7, <1>8, <1>9

LEMMA RemoveAtIs ==
    ASSUME NEW S, NEW s \in Seq(S), NEW i \in Int, 1 <= i, i <= Len(s)
    PROVE  /\ Seqs!RemoveAt(s, i) \in Seq(S)
           /\ Len(Seqs!RemoveAt(s, i)) = Len(s) - 1
           /\ \A k \in 1 .. Len(s) - 1 : Seqs!RemoveAt(s, i)[k] = IF k < i THEN s[k] ELSE s[k + 1]
<1> DEFINE a == SubSeq(s, 1, i - 1)
           b == SubSeq(s, i + 1, Len(s))
           all == a \o b
<1>1. Len(s) \in Nat /\ \A k \in 1 .. Len(s) : s[k] \in S
  OBVIOUS
<1>2. a \in Seq(S) /\ Len(a) = i - 1 /\ \A k \in 1 .. i - 1 : a[k] = s[k]
  <2>1. /\ a \in Seq(S)
        /\ Len(a) = IF 1 <= i - 1 THEN (i - 1) - 1 + 1 ELSE 0
        /\ \A k \in 1 .. (i - 1) - 1 + 1 : a[k] = s[1 + k - 1]
    BY <1>1, SubSeqProperties
  <2> HIDE DEF a
  <2> QED
    BY <2>1
<1>3. b \in Seq(S) /\ Len(b) = Len(s) - i /\ \A k \in 1 .. Len(s) - i : b[k] = s[i + k]
  <2>1. /\ b \in Seq(S)
        /\ Len(b) = IF i + 1 <= Len(s) THEN Len(s) - (i + 1) + 1 ELSE 0
        /\ \A k \in 1 .. Len(s) - (i + 1) + 1 : b[k] = s[(i + 1) + k - 1]
    BY <1>1, SubSeqProperties
  <2> HIDE DEF b
  <2>2. \A k \in 1 .. Len(s) - i : (i + 1) + k - 1 = i + k /\ k \in 1 .. Len(s) - (i + 1) + 1
    BY <1>1
  <2> QED
    BY <1>1, <2>1, <2>2
<1>4. Seqs!RemoveAt(s, i) = all
  BY DEF Seqs!RemoveAt
<1> HIDE DEF a, b
<1>5. /\ all \in Seq(S) /\ Len(all) = Len(a) + Len(b)
      /\ \A k \in 1 .. Len(a) + Len(b) : all[k] = IF k <= Len(a) THEN a[k] ELSE b[k - Len(a)]
  BY <1>2, <1>3, ConcatProperties
<1> HIDE DEF all
<1> DEFINE l == i - 1
<1>8. /\ all \in Seq(S) /\ Len(all) = Len(s) - 1 /\ l \in Int
      /\ \A k \in 1 .. Len(s) - 1 : all[k] = IF k <= l THEN a[k] ELSE b[k - l]
  <2>1. Len(a) = l /\ Len(a) + Len(b) = Len(s) - 1 /\ l \in Int
    BY <1>1, <1>2, <1>3
  <2> HIDE DEF l
  <2> QED
    BY <1>5, <2>1
<1>6. ASSUME NEW k \in Int, i <= k, k <= Len(s) - 1 PROVE all[k] = s[k + 1]
  <2>1. k - (i - 1) \in 1 .. Len(s) - i /\ i + (k - (i - 1)) = k + 1
    BY <1>1, <1>6
  <2>2. b[k - (i - 1)] = s[k + 1]
    BY <1>3, <2>1
  <2> QED
    BY <1>1, <1>6, <1>8, <2>2
<1>7. ASSUME NEW k \in Int, 1 <= k, k < i, k <= Len(s) - 1 PROVE all[k] = s[k]
  BY <1>1, <1>2, <1>7, <1>8
<1> QED
  BY <1>1, <1>4, <1>6, <1>7, <1>8

\* In a list without repetition each entry has one position.
LEMMA PositionIs ==
    ASSUME NEW s, Seqs!IsInjective(s), NEW i \in DOMAIN s
    PROVE  Position(s, s[i]) = i
BY DEF Position, Seqs!IsInjective

\* A list of a set without repetition has all of it.
LEMMA ListsHaveAll ==
    ASSUME NEW S, IsFiniteSet(S), NEW s \in Seqs!SetToSeqs(S)
    PROVE  /\ s \in Seq(S) /\ Seqs!IsInjective(s)
           /\ \A e \in S : \E i \in DOMAIN s : s[i] = e
           /\ S # {} => s # <<>>
<1> DEFINE n == Cardinality(S)
           D == 1 .. n
<1>1. n \in Nat
  BY FS_CardinalityType
<1>2. s \in [D -> S] /\ \A i, j \in D : i # j => s[i] # s[j]
  <2>1. Seqs!Cardinality(S) = Cardinality(S)
    BY DEF Seqs!Cardinality, Cardinality
  <2> QED
    BY <2>1 DEF Seqs!SetToSeqs
<1>3. s \in Seq(S) /\ Len(s) = n
  <2> HIDE DEF n
  <2> QED
    BY <1>1, <1>2
<1>8. DOMAIN s = D /\ (S # {} => s # <<>>)
  <2>1. S # {} => n # 0
    BY FS_EmptySet
  <2> QED
    BY <1>1, <1>2, <1>3, <2>1
<1>4. Seqs!IsInjective(s) /\ s \in Injection(D, S)
  BY <1>2 DEF Seqs!IsInjective, Injection, IsInjective
<1>5. Cardinality(D) = n
  BY <1>1, FS_Interval
<1> HIDE DEF D
<1>6. s \in Surjection(D, S)
  BY <1>4, <1>5, FS_Injection
<1>7. \A e \in S : \E i \in D : s[i] = e
  BY <1>6 DEF Surjection
<1> QED
  BY <1>3, <1>4, <1>7, <1>8

----------------------------------------------------------------------------
(* Rows and indexes.                                                        *)

Rows == RowIds \cup {Top}

\* Each row is at one place, among the rows that are under the same one.
LEMMA RowsHavePlaces ==
    ASSUME NEW f \in Orderings, NEW q \in Rows
    PROVE  /\ f[q] \in Seq(RowIds)
           /\ \A i \in DOMAIN f[q] : f[q][i] \in RowIds /\ Under[f[q][i]] = q /\ Position(f[q], f[q][i]) = i
           /\ \A n \in RowIds : Under[n] = q => Position(f[q], n) \in DOMAIN f[q] /\ f[q][Position(f[q], n)] = n
<1> DEFINE S == {n \in RowIds : Under[n] = q}
<1>1. f[q] \in Seqs!SetToSeqs(S)
  BY DEF Orderings, Rows
<1>2. IsFiniteSet(S)
  BY ColumnsAssumption, FS_Subset
<1>3. f[q] \in Seq(S) /\ Seqs!IsInjective(f[q]) /\ \A n \in S : \E i \in DOMAIN f[q] : f[q][i] = n
  BY <1>1, <1>2, ListsHaveAll
<1>4. \A i \in DOMAIN f[q] : f[q][i] \in S
  BY <1>3
<1>5. \A i \in DOMAIN f[q] : Position(f[q], f[q][i]) = i
  BY <1>3, PositionIs
<1>6. f[q] \in Seq(RowIds)
  BY <1>3
<1> QED
  BY <1>3, <1>4, <1>5, <1>6
----------------------------------------------------------------------------
(* Indexes.                                                                 *)

Phases == {"idle", "announced", "kept", "relaid", "resetting", "reset"}

ColTypes ==
    /\ sourceRows \in Orderings
    /\ sourceColumns \in Seq(ColumnIds) /\ Seqs!IsInjective(sourceColumns) /\ sourceColumns # <<>>
    /\ m_sourceColumns \in Seq(DOMAIN sourceColumns) /\ Seqs!IsInjective(m_sourceColumns) /\ m_sourceColumns # <<>>
    /\ rearranges \in BOOLEAN /\ (~rearranges => m_sourceColumns = [i \in DOMAIN sourceColumns |-> i])
    /\ headerText \in [ColumnIds -> Texts]
    /\ phase \in Phases /\ m_resetting = (phase \in {"resetting", "reset"})

AllColumns == 1 .. Width + Len(m_extraHeaders)

\* The index that parent() gives for what is under a row.
ParentOf(q) == IF q = Top THEN NoIndex ELSE Index(Position(sourceRows[Under[q]], q), 1, Under[q])

LEMMA Widths ==
    ASSUME ColTypes
    PROVE  /\ Width \in Nat /\ Width >= 1 /\ Len(m_extraHeaders) \in Nat
           /\ Len(sourceColumns) \in Nat /\ Len(sourceColumns) >= 1
           /\ DOMAIN m_sourceColumns = 1 .. Width /\ DOMAIN sourceColumns = 1 .. Len(sourceColumns)
           /\ \A c \in 1 .. Width : m_sourceColumns[c] \in 1 .. Len(sourceColumns)
           /\ \A c \in 1 .. Len(sourceColumns) : sourceColumns[c] \in ColumnIds
BY ColumnsAssumption DEF ColTypes, Width

LEMMA IndexFields ==
    ASSUME NEW row, NEW column, NEW pointer
    PROVE  /\ Index(row, column, pointer).row = row /\ Index(row, column, pointer).column = column
           /\ Index(row, column, pointer).pointer = pointer
           /\ \A c : [Index(row, column, pointer) EXCEPT !.column = c] = Index(row, c, pointer)
           /\ \A p : [Index(row, column, pointer) EXCEPT !.pointer = p] = Index(row, column, p)
           /\ row \in Nat /\ column \in Nat /\ pointer \in Rows => Index(row, column, pointer) # NoIndex
BY UnderAssumption DEF Index, Rows

\* The parent index of a row, and that it is the one of its first column.
LEMMA ParentsAre ==
    ASSUME ColTypes, NEW q \in Rows
    PROVE  /\ RowAt(ParentOf(q)) = q /\ sourceRowCount(ParentOf(q)) = Len(sourceRows[q])
           /\ FirstColumn(ParentOf(q)) = ParentOf(q)
           /\ ~IsBeside(ParentOf(q)) /\ mapToSource(ParentOf(q)) = ParentOf(q)
           /\ ParentOf(q) # NoIndex => ParentOf(q).column = 1
<1>1. Width >= 1 /\ Width \in Nat /\ m_sourceColumns[1] \in 1 .. Len(sourceColumns) /\ 1 \in DOMAIN sourceColumns
  BY Widths
<1>2. ASSUME NEW r \in Rows, r # Top
      PROVE  \E k \in Nat, u \in Rows :
                /\ ParentOf(r) = Index(k, 1, u) /\ k \in DOMAIN sourceRows[u] /\ sourceRows[u][k] = r /\ u = Under[r]
  <2>1. r \in RowIds /\ Under[r] \in Rows
    BY <1>2, UnderAssumption DEF Rows
  <2>2. /\ Position(sourceRows[Under[r]], r) \in DOMAIN sourceRows[Under[r]]
        /\ sourceRows[Under[r]][Position(sourceRows[Under[r]], r)] = r
        /\ sourceRows[Under[r]] \in Seq(RowIds)
    BY <2>1, RowsHavePlaces DEF ColTypes
  <2>3. Position(sourceRows[Under[r]], r) \in Nat
    BY <2>2
  <2> QED
    BY <1>2, <2>1, <2>2, <2>3 DEF ParentOf
<1>3. ASSUME NEW r \in Rows
      PROVE  RowAt(ParentOf(r)) = r /\ sourceRowCount(ParentOf(r)) = Len(sourceRows[r])
  <2>1. CASE r = Top
    BY <2>1 DEF ParentOf, RowAt, sourceRowCount
  <2>2. CASE r # Top
    <3>1. PICK k \in Nat, u \in Rows : ParentOf(r) = Index(k, 1, u) /\ sourceRows[u][k] = r
      BY <1>2, <2>2
    <3>2. Index(k, 1, u).column = 1 /\ Index(k, 1, u).row = k /\ Index(k, 1, u).pointer = u /\ Index(k, 1, u) # NoIndex
      BY IndexFields
    <3> QED
      BY <3>1, <3>2 DEF RowAt, sourceRowCount
  <2> QED
    BY <2>1, <2>2
<1>4. CASE q = Top
  <2>1. ParentOf(q) = NoIndex
    BY <1>4 DEF ParentOf
  <2> QED
    BY <1>3, <2>1 DEF FirstColumn, IsBeside, mapToSource
<1>5. CASE q # Top
  <2>1. PICK k \in Nat, u \in Rows :
            ParentOf(q) = Index(k, 1, u) /\ k \in DOMAIN sourceRows[u] /\ sourceRows[u][k] = q /\ u = Under[q]
    BY <1>2, <1>5
  <2>2. /\ Index(k, 1, u).column = 1 /\ Index(k, 1, u).row = k /\ Index(k, 1, u).pointer = u /\ Index(k, 1, u) # NoIndex
        /\ [Index(k, 1, u) EXCEPT !.column = m_sourceColumns[1]] = Index(k, m_sourceColumns[1], u)
    BY IndexFields
  <2>3. /\ Index(k, m_sourceColumns[1], u).pointer = u /\ Index(k, m_sourceColumns[1], u) # NoIndex
    BY <1>1, IndexFields
  <2>4. ToSource(ParentOf(q)) = Index(k, m_sourceColumns[1], u)
    <3>1. ToSource(Index(k, 1, u)) = [Index(k, 1, u) EXCEPT !.column = m_sourceColumns[Index(k, 1, u).column]]
      BY <2>2 DEF ToSource, sourceColumnForProxyColumn
    <3> QED
      BY <2>1, <2>2, <3>1
  <2>5. sourceParent(Index(k, m_sourceColumns[1], u)) = ParentOf(u)
    BY <2>3 DEF sourceParent, ParentOf
  <2>6. sourceRows[u] \in Seq(RowIds)
    BY RowsHavePlaces DEF ColTypes
  <2>7. sourceIndex(k, 1, ParentOf(u)) = Index(k, 1, u)
    BY <1>1, <1>3, <2>1, <2>6 DEF sourceIndex
  <2>8. FirstColumn(ParentOf(q)) = ParentOf(q)
    BY <2>1, <2>2, <2>3, <2>4, <2>5, <2>7 DEF FirstColumn, sourceSibling
  <2>9. ~IsBeside(ParentOf(q)) /\ mapToSource(ParentOf(q)) = ParentOf(q) /\ ParentOf(q).column = 1
    BY <1>1, <2>1, <2>2 DEF IsBeside, mapToSource, IsExtra, extraColumnForProxyColumn
  <2> QED
    BY <1>3, <2>8, <2>9
<1> QED
  BY <1>4, <1>5

LEMMA ExtraIs ==
    ASSUME ColTypes, NEW column \in AllColumns
    PROVE  /\ column \in Nat /\ column >= 1 /\ (IsExtra(column) <=> column > Width)
           /\ extraColumnForProxyColumn(column) = IF column > Width THEN column - Width ELSE 0
BY Widths DEF AllColumns, IsExtra, extraColumnForProxyColumn

\* index() and parent() of a row and a column that are there.
LEMMA IndexIs ==
    ASSUME ColTypes, NEW q \in Rows, NEW row \in DOMAIN sourceRows[q], NEW column \in AllColumns
    PROVE  index(row, column, ParentOf(q)) = Index(row, column, q)
<1> DEFINE c == IF IsExtra(column) THEN 1 ELSE column
           p == ParentOf(q)
<1>1. /\ RowAt(p) = q /\ sourceRowCount(p) = Len(sourceRows[q]) /\ FirstColumn(p) = p /\ ~IsBeside(p) /\ mapToSource(p) = p
  BY ParentsAre
<1>2. /\ column \in Nat /\ column >= 1 /\ (IsExtra(column) <=> column > Width) /\ Width \in Nat /\ Width >= 1
      /\ \A k \in 1 .. Width : m_sourceColumns[k] \in 1 .. Len(sourceColumns)
      /\ DOMAIN sourceColumns = 1 .. Len(sourceColumns) /\ Len(sourceColumns) \in Nat
  BY ExtraIs, Widths
<1>3. c \in 1 .. Width /\ m_sourceColumns[c] \in DOMAIN sourceColumns /\ m_sourceColumns[c] \in Nat
  BY <1>2
<1>4. row \in 1 .. Len(sourceRows[q]) /\ row \in Nat
  <2>1. sourceRows[q] \in Seq(RowIds)
    BY RowsHavePlaces DEF ColTypes
  <2> QED
    BY <2>1
<1> HIDE DEF c, p
<1>5. sourceIndex(row, m_sourceColumns[c], p) = Index(row, m_sourceColumns[c], q)
  BY <1>1, <1>3, <1>4 DEF sourceIndex
<1>6. /\ Index(row, m_sourceColumns[c], q) # NoIndex /\ Index(row, m_sourceColumns[c], q).pointer = q
      /\ Index(row, c, q) # NoIndex /\ Index(row, c, q).pointer = q
  BY <1>2, <1>3, <1>4, IndexFields
<1>7. rearrangedIndex(row, c, p) = Index(row, c, q)
  BY <1>1, <1>5, <1>6 DEF rearrangedIndex, sourceColumnForProxyColumn, ColTypes
<1>8. index(row, column, p) = IF IsExtra(column) THEN Index(row, column, PointerOf(Index(row, c, q))) ELSE Index(row, c, q)
  BY <1>1, <1>7 DEF index, c
<1>9. PointerOf(Index(row, c, q)) = q
  BY <1>6 DEF PointerOf
<1> QED
  BY <1>8, <1>9 DEF c, p

LEMMA ParentIs ==
    ASSUME ColTypes, NEW q \in Rows, NEW row \in Nat, NEW column \in AllColumns
    PROVE  parent(Index(row, column, q)) = ParentOf(q)
<1> DEFINE c == IF IsExtra(column) THEN 1 ELSE column
<1>1. /\ column \in Nat /\ column >= 1 /\ (IsExtra(column) <=> column > Width) /\ Width \in Nat /\ Width >= 1
      /\ \A k \in 1 .. Width : m_sourceColumns[k] \in 1 .. Len(sourceColumns)
  BY ExtraIs, Widths
<1>2. c \in 1 .. Width /\ m_sourceColumns[c] \in Nat
  BY <1>1
<1>3. /\ Index(row, column, q).column = column /\ Index(row, column, q).row = row /\ Index(row, column, q).pointer = q
      /\ Index(row, c, q).column = c
      /\ [Index(row, c, q) EXCEPT !.column = m_sourceColumns[c]] = Index(row, m_sourceColumns[c], q)
      /\ Index(row, m_sourceColumns[c], q) # NoIndex /\ Index(row, c, q) # NoIndex
      /\ Index(row, m_sourceColumns[c], q).pointer = q
  BY <1>1, <1>2, IndexFields
<1>4. parent(Index(row, column, q)) = rearrangedParent(Index(row, c, q))
  BY <1>3 DEF parent
<1> HIDE DEF c
<1>5. ToSource(Index(row, c, q)) = Index(row, m_sourceColumns[c], q)
  BY <1>3 DEF ToSource, sourceColumnForProxyColumn
<1>6. sourceParent(Index(row, m_sourceColumns[c], q)) = ParentOf(q)
  BY <1>3 DEF sourceParent, ParentOf
<1>7. rearrangedParent(Index(row, c, q)) = IF ParentOf(q) = NoIndex THEN NoIndex
                                           ELSE Index(ParentOf(q).row, 1, ParentOf(q).pointer)
  BY <1>5, <1>6 DEF rearrangedParent
<1>8. ParentOf(q) # NoIndex => Index(ParentOf(q).row, 1, ParentOf(q).pointer) = ParentOf(q)
  BY IndexFields DEF ParentOf
<1> QED
  BY <1>4, <1>7, <1>8
----------------------------------------------------------------------------
(* What is at an index.                                                     *)

ItemOf(columns, arrangement, n, column) ==
    IF column > Len(arrangement)
    THEN [row |-> n, extra |-> column - Len(arrangement), column |-> NoIndex]
    ELSE [row |-> n, extra |-> 0, column |-> columns[arrangement[column]]]
Item(n, column) == ItemOf(sourceColumns, m_sourceColumns, n, column)

LEMMA DataIs ==
    ASSUME ColTypes, NEW q \in Rows, NEW row \in DOMAIN sourceRows[q], NEW column \in AllColumns
    PROVE  data(Index(row, column, q)) = Item(sourceRows[q][row], column)
<1> DEFINE i == Index(row, column, q)
<1>1. /\ column \in Nat /\ column >= 1 /\ (IsExtra(column) <=> column > Width)
      /\ extraColumnForProxyColumn(column) = IF column > Width THEN column - Width ELSE 0
  BY ExtraIs
<1>2. sourceRows[q] \in Seq(RowIds) /\ row \in Nat
  <2>1. sourceRows[q] \in Seq(RowIds)
    BY RowsHavePlaces DEF ColTypes
  <2> QED
    BY <2>1
<1>3. i.row = row /\ i.column = column /\ i.pointer = q /\ i # NoIndex /\ [i EXCEPT !.pointer = q] = i
  BY <1>1, <1>2, IndexFields
<1>4. RowAt(parent(i)) = q
  BY <1>2, ParentIs, ParentsAre
<1> HIDE DEF i
<1>5. RowAt(i) = sourceRows[q][row]
  BY <1>3 DEF RowAt
<1>6. CASE column > Width
  <2>1. data(i) = [row |-> RowAt([i EXCEPT !.pointer = RowAt(parent(i))]), extra |-> extraColumnForProxyColumn(column),
                   column |-> NoIndex]
    BY <1>1, <1>3, <1>6 DEF data
  <2> QED
    BY <1>1, <1>3, <1>4, <1>5, <1>6, <2>1 DEF i, Item, ItemOf, Width
<1>7. CASE ~(column > Width)
  <2>1. mapToSource(i) = i
    BY <1>1, <1>3, <1>7 DEF mapToSource
  <2>2. data(i) = [row |-> RowAt(i), extra |-> 0, column |-> sourceColumns[m_sourceColumns[column]]]
    BY <1>1, <1>3, <1>7, <2>1 DEF data, sourceColumnForProxyColumn
  <2> QED
    BY <1>5, <1>7, <2>2 DEF i, Item, ItemOf, Width
<1> QED
  BY <1>6, <1>7

LEMMA PlacesAre ==
    ASSUME ColTypes, NEW i \in Places
    PROVE  \E q \in Rows : \E row \in DOMAIN sourceRows[q], column \in AllColumns : i = Index(row, column, q)
<1>1. \A p \in Parents : \E q \in Rows : p = ParentOf(q)
  BY UnderAssumption DEF Parents, ParentOf, Rows
<1>2. PICK p \in Parents : \E row \in DOMAIN sourceRows[RowAt(p)], column \in AllColumns : i = index(row, column, p)
  BY DEF Places, AllColumns
<1>3. PICK q \in Rows : p = ParentOf(q)
  BY <1>1, <1>2
<1>4. RowAt(p) = q
  BY <1>3, ParentsAre
<1>5. PICK row \in DOMAIN sourceRows[q], column \in AllColumns : i = index(row, column, p)
  BY <1>2, <1>4
<1>6. i = Index(row, column, q)
  BY <1>3, <1>5, IndexIs
<1> QED
  BY <1>5, <1>6

\* The column in the first of the columns that stands for an extra one.
Followed(column) == IF column > Width THEN 1 ELSE column

LEMMA FollowedIs ==
    ASSUME ColTypes, NEW q \in Rows, NEW row \in DOMAIN sourceRows[q], NEW column \in AllColumns
    PROVE  data(mapToSource(FollowedIndex(Index(row, column, q)))) = Item(sourceRows[q][row], Followed(column))
<1> DEFINE i == Index(row, column, q)
           j == Index(row, Followed(column), q)
<1>1. /\ column \in Nat /\ column >= 1 /\ (IsExtra(column) <=> column > Width)
      /\ Width \in Nat /\ Width >= 1 /\ Len(m_extraHeaders) \in Nat
  BY ExtraIs, Widths
<1>2. Followed(column) \in AllColumns /\ ~(Followed(column) > Width) /\ 1 \in AllColumns
  BY <1>1 DEF AllColumns, Followed
<1>3. ~IsExtra(Followed(column))
  BY <1>2, ExtraIs
<1>4. row \in Nat
  <2>1. sourceRows[q] \in Seq(RowIds)
    BY RowsHavePlaces DEF ColTypes
  <2> QED
    BY <2>1
<1>5. i.row = row /\ i.column = column /\ j.column = Followed(column)
  BY IndexFields
<1>6. parent(i) = ParentOf(q) /\ index(row, 1, ParentOf(q)) = Index(row, 1, q)
  BY <1>2, <1>4, ParentIs, IndexIs
<1> HIDE DEF i
<1>7. FollowedIndex(i) = j
  <2>1. CASE column > Width
    BY <1>1, <1>2, <1>5, <1>6, <2>1 DEF FollowedIndex, sibling, Followed
  <2>2. CASE ~(column > Width)
    BY <1>1, <1>5, <2>2 DEF FollowedIndex, Followed, i
  <2> QED
    BY <2>1, <2>2
<1>8. data(j) = Item(sourceRows[q][row], Followed(column))
  BY <1>2, DataIs
<1> HIDE DEF j
<1>9. mapToSource(j) = j
  BY <1>3, <1>5 DEF mapToSource
<1> QED
  BY <1>7, <1>8, <1>9 DEF i

\* Where that is found after the layout has changed, and what takes the place of the index.
LEMMA MovedIs ==
    ASSUME ColTypes, NEW n \in RowIds, NEW row \in Nat, NEW column \in AllColumns
    PROVE  \E k \in DOMAIN sourceRows[Under[n]] :
              /\ sourceRows[Under[n]][k] = n
              /\ MovedIndex(Index(row, column, Under[n]), PlaceOf(Item(n, Followed(column)))) = Index(k, column, Under[n])
<1> DEFINE q == Under[n]
           k == Position(sourceRows[q], n)
           c == Followed(column)
           now == Index(k, c, q)
<1>1. /\ column \in Nat /\ column >= 1 /\ (IsExtra(column) <=> column > Width)
      /\ Width \in Nat /\ Width >= 1 /\ Len(m_extraHeaders) \in Nat
      /\ DOMAIN m_sourceColumns = 1 .. Width
      /\ \A e \in 1 .. Width : m_sourceColumns[e] \in 1 .. Len(sourceColumns)
      /\ DOMAIN sourceColumns = 1 .. Len(sourceColumns)
  BY ExtraIs, Widths
<1>2. c \in AllColumns /\ c \in 1 .. Width
  BY <1>1 DEF AllColumns, Followed
<1>3. q \in Rows /\ k \in DOMAIN sourceRows[q] /\ sourceRows[q][k] = n /\ sourceRows[q] \in Seq(RowIds)
  BY UnderAssumption, RowsHavePlaces DEF ColTypes, Rows
<1>4. k \in Nat
  BY <1>3
<1>5. Item(n, c) = [row |-> n, extra |-> 0, column |-> sourceColumns[m_sourceColumns[c]]]
  BY <1>2 DEF Item, ItemOf, Width
<1> HIDE DEF c, k, q
<1>6. Position(sourceColumns, sourceColumns[m_sourceColumns[c]]) = m_sourceColumns[c]
  BY <1>1, <1>2, PositionIs DEF ColTypes
<1>7. Position(m_sourceColumns, m_sourceColumns[c]) = c
  BY <1>1, <1>2, PositionIs DEF ColTypes
<1>8. PlaceOf(Item(n, c)) = now
  BY <1>5, <1>6, <1>7 DEF PlaceOf, proxyColumnForSourceColumn, k, q
<1>9. now.row = k /\ now.column = c /\ Index(row, column, q).column = column
  BY IndexFields
<1>10. parent(now) = ParentOf(q)
  BY <1>2, <1>3, <1>4, ParentIs
<1>11. index(k, column, ParentOf(q)) = Index(k, column, q)
  BY <1>3, IndexIs
<1>12. MovedIndex(Index(row, column, q), now) = Index(k, column, q)
  <2> HIDE DEF now
  <2>1. CASE column > Width
    <3>1. column # c
      BY <1>1, <1>2, <2>1
    <3> QED
      BY <1>1, <1>9, <1>10, <1>11, <2>1, <3>1 DEF MovedIndex, sibling
  <2>2. CASE ~(column > Width)
    <3>1. MovedIndex(Index(row, column, q), now) = now
      BY <1>1, <1>9, <2>2 DEF MovedIndex
    <3> QED
      BY <2>2, <3>1 DEF now, c, Followed
  <2> QED
    BY <2>1, <2>2
<1> QED
  BY <1>3, <1>8, <1>12 DEF q, c
----------------------------------------------------------------------------
(* Headers of columns that are not rearranged.                              *)

Id(s) == [i \in DOMAIN s |-> i]
Plain(s, texts) == HeadersOf(s, Id(s), texts)

LEMMA HeadersAre ==
    ASSUME NEW s \in Seq(ColumnIds), NEW m \in Seq(DOMAIN s), NEW texts \in [ColumnIds -> Texts]
    PROVE  /\ HeadersOf(s, m, texts) \in Seq(Texts)
           /\ Len(HeadersOf(s, m, texts)) = Len(m) + Len(m_extraHeaders)
           /\ \A i \in 1 .. Len(m) + Len(m_extraHeaders) :
                 HeadersOf(s, m, texts)[i] = IF i <= Len(m) THEN texts[s[m[i]]] ELSE m_extraHeaders[i - Len(m)]
<1> DEFINE a == [i \in DOMAIN m |-> texts[s[m[i]]]]
<1>1. DOMAIN m = 1 .. Len(m) /\ Len(m) \in Nat /\ m_extraHeaders \in Seq(Texts)
  BY ColumnsAssumption
<1>2. \A i \in DOMAIN m : s[m[i]] \in ColumnIds
  OBVIOUS
<1>3. a \in [1 .. Len(m) -> Texts]
  BY <1>1, <1>2
<1>4. a \in Seq(Texts) /\ Len(a) = Len(m) /\ \A i \in 1 .. Len(m) : a[i] = texts[s[m[i]]]
  <2>1. \A i \in 1 .. Len(m) : a[i] = texts[s[m[i]]]
    BY <1>1
  <2> DEFINE n == Len(m)
  <2>2. n \in Nat /\ a \in [1 .. n -> Texts]
    BY <1>1, <1>3
  <2> HIDE DEF a, n
  <2>3. a \in Seq(Texts) /\ Len(a) = n
    BY <2>2
  <2> QED
    BY <2>1, <2>3 DEF n
<1>5. HeadersOf(s, m, texts) = a \o m_extraHeaders
  BY DEF HeadersOf
<1> HIDE DEF a
<1> DEFINE h == a \o m_extraHeaders
<1>6. /\ h \in Seq(Texts) /\ Len(h) = Len(a) + Len(m_extraHeaders)
      /\ \A i \in 1 .. Len(a) + Len(m_extraHeaders) : h[i] = IF i <= Len(a) THEN a[i] ELSE m_extraHeaders[i - Len(a)]
  BY <1>1, <1>4, ConcatProperties
<1> HIDE DEF h
<1> QED
  BY <1>4, <1>5, <1>6 DEF h

LEMMA PlainIs ==
    ASSUME NEW s \in Seq(ColumnIds), NEW texts \in [ColumnIds -> Texts]
    PROVE  /\ Id(s) \in Seq(DOMAIN s) /\ Seqs!IsInjective(Id(s)) /\ Len(Id(s)) = Len(s) /\ Len(s) \in Nat
           /\ \A i \in DOMAIN s : Id(s)[i] = i
           /\ (s # <<>> => Id(s) # <<>>)
           /\ Plain(s, texts) \in Seq(Texts) /\ Len(Plain(s, texts)) = Len(s) + Len(m_extraHeaders)
           /\ \A i \in 1 .. Len(s) + Len(m_extraHeaders) :
                 Plain(s, texts)[i] = IF i <= Len(s) THEN texts[s[i]] ELSE m_extraHeaders[i - Len(s)]
<1> DEFINE m == Id(s)
<1>1. DOMAIN s = 1 .. Len(s) /\ Len(s) \in Nat
  OBVIOUS
<1>2. m \in [1 .. Len(s) -> DOMAIN s] /\ \A i \in DOMAIN s : m[i] = i
  BY <1>1 DEF Id
<1> HIDE DEF m
<1>3. m \in Seq(DOMAIN s) /\ Len(m) = Len(s) /\ DOMAIN m = DOMAIN s
  BY <1>1, <1>2
<1>4. Seqs!IsInjective(m)
  BY <1>2, <1>3 DEF Seqs!IsInjective
<1>5. s # <<>> => m # <<>>
  BY <1>1, <1>3
<1>6. /\ HeadersOf(s, m, texts) \in Seq(Texts)
      /\ Len(HeadersOf(s, m, texts)) = Len(m) + Len(m_extraHeaders)
      /\ \A i \in 1 .. Len(m) + Len(m_extraHeaders) :
            HeadersOf(s, m, texts)[i] = IF i <= Len(m) THEN texts[s[m[i]]] ELSE m_extraHeaders[i - Len(m)]
  BY <1>3, HeadersAre
<1>7. Len(m_extraHeaders) \in Nat
  BY ColumnsAssumption
<1>8. \A i \in 1 .. Len(s) + Len(m_extraHeaders) : i <= Len(s) => m[i] = i
  BY <1>1, <1>2, <1>7
<1> QED
  BY <1>1, <1>2, <1>3, <1>4, <1>5, <1>6, <1>8 DEF m, Plain

\* A column inserted, removed or moved, in a list without repetition: where each is then.
LEMMA InsertedColumn ==
    ASSUME NEW s \in Seq(ColumnIds), Seqs!IsInjective(s), NEW at \in Int, 1 <= at, at <= Len(s) + 1,
           NEW c \in ColumnIds \ Seqs!ToSet(s), NEW texts \in [ColumnIds -> Texts]
    PROVE  LET t == Seqs!InsertAt(s, at, c)
           IN  /\ t \in Seq(ColumnIds) /\ Seqs!IsInjective(t) /\ Len(t) = Len(s) + 1
               /\ \A i \in 1 .. Len(s) : t[IF i >= at THEN i + 1 ELSE i] = s[i]
               /\ \A i \in 1 .. Len(s) + 1 + Len(m_extraHeaders) :
                     /\ i < at => Plain(t, texts)[i] = Plain(s, texts)[i]
                     /\ i > at => Plain(t, texts)[i] = Plain(s, texts)[i - 1]
<1> DEFINE t == Seqs!InsertAt(s, at, c)
<1>1. /\ Len(s) \in Nat /\ DOMAIN s = 1 .. Len(s) /\ c \in ColumnIds /\ Len(m_extraHeaders) \in Nat
      /\ \A i \in 1 .. Len(s) : s[i] # c
      /\ \A i, j \in 1 .. Len(s) : s[i] = s[j] => i = j
  BY ColumnsAssumption DEF Seqs!ToSet, Seqs!IsInjective
<1>2. /\ t \in Seq(ColumnIds) /\ Len(t) = Len(s) + 1 /\ DOMAIN t = 1 .. Len(s) + 1
      /\ \A k \in 1 .. Len(s) + 1 : t[k] = IF k < at THEN s[k] ELSE IF k = at THEN c ELSE s[k - 1]
  <2>1. /\ t \in Seq(ColumnIds) /\ Len(t) = Len(s) + 1
        /\ \A k \in 1 .. Len(s) + 1 : t[k] = IF k < at THEN s[k] ELSE IF k = at THEN c ELSE s[k - 1]
    BY <1>1, InsertAtIs
  <2> HIDE DEF t
  <2> QED
    BY <2>1
<1> HIDE DEF t
<1>3. ASSUME NEW i \in 1 .. Len(s) + 1, NEW j \in 1 .. Len(s) + 1, t[i] = t[j] PROVE i = j
  <2> DEFINE old(k) == IF k < at THEN k ELSE k - 1
  <2>1. \A k \in 1 .. Len(s) + 1 : k # at => old(k) \in 1 .. Len(s) /\ t[k] = s[old(k)] /\ t[k] # c
    BY <1>1, <1>2
  <2>2. t[at] = c
    BY <1>1, <1>2
  <2>3. CASE i = at \/ j = at
    BY <1>3, <2>1, <2>2, <2>3
  <2>4. CASE i # at /\ j # at
    <3>1. old(i) = old(j)
      BY <1>1, <1>3, <2>1, <2>4
    <3> QED
      BY <2>4, <3>1
  <2> QED
    BY <2>3, <2>4
<1>4. Seqs!IsInjective(t)
  BY <1>2, <1>3 DEF Seqs!IsInjective
<1>5. ASSUME NEW i \in 1 .. Len(s) PROVE t[IF i >= at THEN i + 1 ELSE i] = s[i]
  <2>1. CASE i >= at
    <3>1. i + 1 \in 1 .. Len(s) + 1 /\ ~(i + 1 < at) /\ i + 1 # at /\ (i + 1) - 1 = i
      BY <1>1, <2>1
    <3>2. t[i + 1] = s[(i + 1) - 1]
      BY <1>2, <3>1
    <3> QED
      BY <2>1, <3>1, <3>2
  <2>2. CASE ~(i >= at)
    BY <1>1, <1>2, <2>2
  <2> QED
    BY <2>1, <2>2
<1>6. /\ \A i \in 1 .. Len(s) + 1 + Len(m_extraHeaders) :
            Plain(t, texts)[i] = IF i <= Len(s) + 1 THEN texts[t[i]] ELSE m_extraHeaders[i - (Len(s) + 1)]
      /\ \A i \in 1 .. Len(s) + Len(m_extraHeaders) :
            Plain(s, texts)[i] = IF i <= Len(s) THEN texts[s[i]] ELSE m_extraHeaders[i - Len(s)]
  <2>1. \A i \in 1 .. Len(t) + Len(m_extraHeaders) :
            Plain(t, texts)[i] = IF i <= Len(t) THEN texts[t[i]] ELSE m_extraHeaders[i - Len(t)]
    BY <1>2, PlainIs
  <2>2. \A i \in 1 .. Len(s) + Len(m_extraHeaders) :
            Plain(s, texts)[i] = IF i <= Len(s) THEN texts[s[i]] ELSE m_extraHeaders[i - Len(s)]
    BY PlainIs
  <2> QED
    BY <1>2, <2>1, <2>2
<1>7. ASSUME NEW i \in 1 .. Len(s) + 1 + Len(m_extraHeaders), i < at PROVE Plain(t, texts)[i] = Plain(s, texts)[i]
  <2>1. i \in 1 .. Len(s) /\ i \in 1 .. Len(s) + Len(m_extraHeaders) /\ i <= Len(s) + 1
    BY <1>1, <1>7
  <2> QED
    BY <1>1, <1>2, <1>6, <1>7, <2>1
<1>8. ASSUME NEW i \in 1 .. Len(s) + 1 + Len(m_extraHeaders), i > at PROVE Plain(t, texts)[i] = Plain(s, texts)[i - 1]
  <2> DEFINE j == i - 1
  <2>1. j \in 1 .. Len(s) + Len(m_extraHeaders) /\ (i <= Len(s) + 1 <=> j <= Len(s)) /\ i - (Len(s) + 1) = j - Len(s)
    BY <1>1, <1>8
  <2>2. i <= Len(s) + 1 => t[i] = s[j]
    BY <1>1, <1>2, <1>8
  <2> HIDE DEF j
  <2>3. Plain(t, texts)[i] = Plain(s, texts)[j]
    BY <1>6, <2>1, <2>2
  <2> QED
    BY <2>3 DEF j
<1> QED
  BY <1>2, <1>4, <1>5, <1>7, <1>8 DEF t

LEMMA RemovedColumn ==
    ASSUME NEW s \in Seq(ColumnIds), Seqs!IsInjective(s), NEW at \in Int, 1 <= at, at <= Len(s),
           NEW texts \in [ColumnIds -> Texts]
    PROVE  LET t == Seqs!RemoveAt(s, at)
           IN  /\ t \in Seq(ColumnIds) /\ Seqs!IsInjective(t) /\ Len(t) = Len(s) - 1
               /\ \A i \in 1 .. Len(s) : i # at => t[IF i > at THEN i - 1 ELSE i] = s[i]
               /\ \A i \in 1 .. Len(s) - 1 + Len(m_extraHeaders) :
                     Plain(t, texts)[i] = Plain(s, texts)[IF i < at THEN i ELSE i + 1]
<1> DEFINE t == Seqs!RemoveAt(s, at)
           old(k) == IF k < at THEN k ELSE k + 1
<1>1. /\ Len(s) \in Nat /\ DOMAIN s = 1 .. Len(s) /\ Len(m_extraHeaders) \in Nat
      /\ \A i, j \in 1 .. Len(s) : s[i] = s[j] => i = j
  BY ColumnsAssumption DEF Seqs!IsInjective
<1>2. /\ t \in Seq(ColumnIds) /\ Len(t) = Len(s) - 1 /\ DOMAIN t = 1 .. Len(s) - 1
      /\ \A k \in 1 .. Len(s) - 1 : t[k] = s[old(k)]
  <2>1. /\ t \in Seq(ColumnIds) /\ Len(t) = Len(s) - 1
        /\ \A k \in 1 .. Len(s) - 1 : t[k] = IF k < at THEN s[k] ELSE s[k + 1]
    BY <1>1, RemoveAtIs
  <2> HIDE DEF t
  <2> QED
    BY <2>1
<1> HIDE DEF t
<1>3. \A k \in 1 .. Len(s) - 1 : old(k) \in 1 .. Len(s)
  BY <1>1
<1>4. \A i, j \in 1 .. Len(s) - 1 : old(i) = old(j) => i = j
  BY <1>1
<1>5. Seqs!IsInjective(t)
  BY <1>1, <1>2, <1>3, <1>4 DEF Seqs!IsInjective
<1>6. ASSUME NEW i \in 1 .. Len(s), i # at PROVE t[IF i > at THEN i - 1 ELSE i] = s[i]
  <2> DEFINE k == IF i > at THEN i - 1 ELSE i
  <2>1. k \in 1 .. Len(s) - 1 /\ old(k) = i
    BY <1>1, <1>6
  <2> HIDE DEF k
  <2>2. t[k] = s[i]
    BY <1>2, <2>1
  <2> QED
    BY <2>2 DEF k
<1>7. /\ \A i \in 1 .. Len(s) - 1 + Len(m_extraHeaders) :
            Plain(t, texts)[i] = IF i <= Len(s) - 1 THEN texts[t[i]] ELSE m_extraHeaders[i - (Len(s) - 1)]
      /\ \A i \in 1 .. Len(s) + Len(m_extraHeaders) :
            Plain(s, texts)[i] = IF i <= Len(s) THEN texts[s[i]] ELSE m_extraHeaders[i - Len(s)]
  <2>1. \A i \in 1 .. Len(t) + Len(m_extraHeaders) :
            Plain(t, texts)[i] = IF i <= Len(t) THEN texts[t[i]] ELSE m_extraHeaders[i - Len(t)]
    BY <1>2, PlainIs
  <2>2. \A i \in 1 .. Len(s) + Len(m_extraHeaders) :
            Plain(s, texts)[i] = IF i <= Len(s) THEN texts[s[i]] ELSE m_extraHeaders[i - Len(s)]
    BY PlainIs
  <2> QED
    BY <1>2, <2>1, <2>2
<1>8. ASSUME NEW i \in 1 .. Len(s) - 1 + Len(m_extraHeaders) PROVE Plain(t, texts)[i] = Plain(s, texts)[old(i)]
  <2> DEFINE j == old(i)
  <2>1. j \in 1 .. Len(s) + Len(m_extraHeaders) /\ (i <= Len(s) - 1 <=> j <= Len(s))
        /\ (i > Len(s) - 1 => i - (Len(s) - 1) = j - Len(s))
    BY <1>1
  <2>2. i <= Len(s) - 1 => t[i] = s[j]
    BY <1>1, <1>2
  <2> HIDE DEF j
  <2>3. Plain(t, texts)[i] = Plain(s, texts)[j]
    BY <1>1, <1>7, <2>1, <2>2
  <2> QED
    BY <2>3 DEF j
<1> QED
  BY <1>2, <1>5, <1>6, <1>8 DEF t

\* Where what is at k came from, and where what is at h goes to.
MovedFrom(from, to, k) ==
    IF k = to THEN from
    ELSE LET l == IF k < to THEN k ELSE k - 1 IN IF l < from THEN l ELSE l + 1
MovedTo(from, to, h) ==
    IF h = from THEN to
    ELSE LET left == IF h > from THEN h - 1 ELSE h IN IF left >= to THEN left + 1 ELSE left

LEMMA MovesBothWays ==
    ASSUME NEW n \in Nat, NEW from \in 1 .. n, NEW to \in 1 .. n
    PROVE  /\ \A k \in 1 .. n : MovedFrom(from, to, k) \in 1 .. n /\ MovedTo(from, to, k) \in 1 .. n
           /\ \A k \in 1 .. n : MovedFrom(from, to, MovedTo(from, to, k)) = k
           /\ \A i, j \in 1 .. n : MovedFrom(from, to, i) = MovedFrom(from, to, j) => i = j
           /\ \A k \in Int : k > n => MovedFrom(from, to, k) = k
BY DEF MovedFrom, MovedTo

Moved(s, from, to) == Seqs!InsertAt(Seqs!RemoveAt(s, from), to, s[from])

LEMMA MovedList ==
    ASSUME NEW S, NEW s \in Seq(S), NEW from \in Int, NEW to \in Int,
           1 <= from, from <= Len(s), 1 <= to, to <= Len(s)
    PROVE  /\ Moved(s, from, to) \in Seq(S) /\ Len(Moved(s, from, to)) = Len(s)
           /\ \A k \in 1 .. Len(s) : Moved(s, from, to)[k] = s[MovedFrom(from, to, k)]
<1> DEFINE r == Seqs!RemoveAt(s, from)
           e == s[from]
           t == Seqs!InsertAt(r, to, e)
<1>1. Len(s) \in Nat /\ e \in S /\ from \in Int /\ to \in Int /\ 1 <= from /\ from <= Len(s) /\ 1 <= to /\ to <= Len(s)
  OBVIOUS
<1> HIDE DEF e
<1>2. /\ r \in Seq(S) /\ Len(r) = Len(s) - 1
      /\ \A k \in 1 .. Len(s) - 1 : r[k] = IF k < from THEN s[k] ELSE s[k + 1]
  BY <1>1, RemoveAtIs
<1> HIDE DEF r
<1>3. /\ t \in Seq(S) /\ Len(t) = Len(r) + 1
      /\ \A k \in 1 .. Len(r) + 1 : t[k] = IF k < to THEN r[k] ELSE IF k = to THEN e ELSE r[k - 1]
  <2>1. to <= Len(r) + 1 /\ r \in Seq(S)
    BY <1>1, <1>2
  <2> QED
    BY <1>1, <2>1, InsertAtIs
<1> HIDE DEF t
<1>4. Len(t) = Len(s) /\ \A k \in 1 .. Len(s) : t[k] = IF k < to THEN r[k] ELSE IF k = to THEN e ELSE r[k - 1]
  BY <1>1, <1>2, <1>3
<1>5. ASSUME NEW k \in 1 .. Len(s) PROVE t[k] = s[MovedFrom(from, to, k)]
  <2> DEFINE l == IF k < to THEN k ELSE k - 1
  <2>1. CASE k = to
    BY <1>4, <2>1 DEF MovedFrom, e
  <2>2. CASE k # to
    <3>1. l \in 1 .. Len(s) - 1 /\ t[k] = r[l]
      BY <1>1, <1>4, <2>2
    <3>2. MovedFrom(from, to, k) = IF l < from THEN l ELSE l + 1
      BY <2>2 DEF MovedFrom
    <3> HIDE DEF l
    <3> QED
      BY <1>2, <3>1, <3>2
  <2> QED
    BY <2>1, <2>2
<1> QED
  BY <1>3, <1>4, <1>5 DEF t, r, e, Moved

LEMMA MovedColumn ==
    ASSUME NEW s \in Seq(ColumnIds), Seqs!IsInjective(s), NEW from \in DOMAIN s, NEW to \in DOMAIN s,
           NEW texts \in [ColumnIds -> Texts]
    PROVE  LET t == Moved(s, from, to)
           IN  /\ t \in Seq(ColumnIds) /\ Seqs!IsInjective(t) /\ Len(t) = Len(s)
               /\ \A i \in 1 .. Len(s) : MovedTo(from, to, i) \in 1 .. Len(s) /\ t[MovedTo(from, to, i)] = s[i]
               /\ \A i \in 1 .. Len(s) + Len(m_extraHeaders) :
                     Plain(t, texts)[i] = Plain(s, texts)[MovedFrom(from, to, i)]
<1> DEFINE t == Moved(s, from, to)
           n == Len(s)
<1>1. n \in Nat /\ DOMAIN s = 1 .. n /\ from \in 1 .. n /\ to \in 1 .. n /\ Len(m_extraHeaders) \in Nat
      /\ \A i, j \in 1 .. n : s[i] = s[j] => i = j
  BY ColumnsAssumption DEF Seqs!IsInjective
<1>2. t \in Seq(ColumnIds) /\ Len(t) = n /\ \A k \in 1 .. n : t[k] = s[MovedFrom(from, to, k)]
  <2>1. from \in Int /\ to \in Int /\ 1 <= from /\ from <= Len(s) /\ 1 <= to /\ to <= Len(s)
    BY <1>1
  <2> HIDE DEF t
  <2>2. /\ Moved(s, from, to) \in Seq(ColumnIds) /\ Len(Moved(s, from, to)) = Len(s)
        /\ \A k \in 1 .. Len(s) : Moved(s, from, to)[k] = s[MovedFrom(from, to, k)]
    BY <2>1, MovedList
  <2> QED
    BY <2>2 DEF t
<1> HIDE DEF t
<1>3. /\ \A k \in 1 .. n : MovedFrom(from, to, k) \in 1 .. n /\ MovedTo(from, to, k) \in 1 .. n
      /\ \A k \in 1 .. n : MovedFrom(from, to, MovedTo(from, to, k)) = k
      /\ \A i, j \in 1 .. n : MovedFrom(from, to, i) = MovedFrom(from, to, j) => i = j
      /\ \A k \in Int : k > n => MovedFrom(from, to, k) = k
  BY <1>1, MovesBothWays
<1>4. DOMAIN t = 1 .. n
  BY <1>2
<1>5. Seqs!IsInjective(t)
  BY <1>1, <1>2, <1>3, <1>4 DEF Seqs!IsInjective
<1>6. \A i \in 1 .. n : MovedTo(from, to, i) \in 1 .. n /\ t[MovedTo(from, to, i)] = s[i]
  BY <1>2, <1>3
<1>7. /\ \A i \in 1 .. n + Len(m_extraHeaders) :
            Plain(t, texts)[i] = IF i <= n THEN texts[t[i]] ELSE m_extraHeaders[i - n]
      /\ \A i \in 1 .. n + Len(m_extraHeaders) :
            Plain(s, texts)[i] = IF i <= n THEN texts[s[i]] ELSE m_extraHeaders[i - n]
  <2>1. \A i \in 1 .. Len(t) + Len(m_extraHeaders) :
            Plain(t, texts)[i] = IF i <= Len(t) THEN texts[t[i]] ELSE m_extraHeaders[i - Len(t)]
    BY <1>2, PlainIs
  <2>2. \A i \in 1 .. Len(s) + Len(m_extraHeaders) :
            Plain(s, texts)[i] = IF i <= Len(s) THEN texts[s[i]] ELSE m_extraHeaders[i - Len(s)]
    BY PlainIs
  <2> QED
    BY <1>2, <2>1, <2>2
<1> HIDE DEF n
<1>8. ASSUME NEW i \in 1 .. n + Len(m_extraHeaders) PROVE Plain(t, texts)[i] = Plain(s, texts)[MovedFrom(from, to, i)]
  <2>1. CASE i <= n
    <3> DEFINE j == MovedFrom(from, to, i)
    <3>1. i \in 1 .. n
      BY <1>1, <2>1
    <3>2. j \in 1 .. n /\ t[i] = s[j]
      BY <1>2, <1>3, <3>1
    <3>3. j \in 1 .. n + Len(m_extraHeaders) /\ j <= n
      BY <1>1, <3>2
    <3> HIDE DEF j
    <3>4. Plain(t, texts)[i] = Plain(s, texts)[j]
      BY <1>7, <2>1, <3>2, <3>3
    <3> QED
      BY <3>4 DEF j
  <2>2. CASE ~(i <= n)
    <3>1. i \in Int /\ i > n
      BY <1>1, <2>2
    <3>2. MovedFrom(from, to, i) = i
      BY <1>3, <3>1
    <3> QED
      BY <1>7, <2>2, <3>2
  <2> QED
    BY <2>1, <2>2
<1> QED
  BY <1>2, <1>5, <1>6, <1>8 DEF t, n
----------------------------------------------------------------------------
(* The inductive invariant: what the persistent index is on, and what the   *)
(* view of the headers has drawn.                                           *)

Resetting == {"resetting", "reset"}
Kept == {"kept", "relaid"}

\* The persistent index is on row n of the source, which it leaves only while the source
\* has another layout and the proxy has not heard of that, and on the column it was taken on.
HeldAt(n, row, column) ==
    /\ held = Index(row, column, Under[n]) /\ heldItem = Item(n, column)
    /\ phase # "relaid" => row \in DOMAIN sourceRows[Under[n]] /\ sourceRows[Under[n]][row] = n
    /\ phase \in Kept => proxyIndexes = held /\ layoutChangePersistentIndexes = Item(n, Followed(column))

HeldInv ==
    phase \notin Resetting =>
        /\ held # NoIndex => \E n \in RowIds, row \in Nat, column \in AllColumns : HeldAt(n, row, column)
        /\ held = NoIndex /\ phase \in Kept => proxyIndexes = NoIndex

DrawnRows == [text : Texts, mark : SUBSET Orders]

\* What a view has drawn of the headers texts.
Shown(rows, texts, column, order, moved) ==
    /\ rows \in Seq(DrawnRows) /\ Len(rows) = Len(texts)
    /\ \A i \in 1 .. Len(texts) : rows[i].text = texts[i] /\ (~moved => rows[i] = RowData(texts, i, column, order))

\* The same, where the texts of some rows may be out of date.
ShownBut(rows, texts, stale, column, order, moved) ==
    /\ rows \in Seq(DrawnRows) /\ Len(rows) = Len(texts)
    /\ \A i \in 1 .. Len(texts) :
          /\ i \in stale \/ rows[i].text = texts[i]
          /\ moved \/ rows[i].mark = RowData(texts, i, column, order).mark

HeardInv ==
    /\ attached \in BOOLEAN /\ sortColumn \in Nat /\ sortOrder \in Orders /\ marksMoved \in BOOLEAN
    /\ drawn \in Seq(DrawnRows) /\ (~attached => drawn = <<>>) /\ (~rearranges => headersMissed = {})
    /\ attached /\ phase \notin Resetting => ShownBut(drawn, Headers, StaleRows, sortColumn, sortOrder, marksMoved)

\* Where no header is missed, the two are the same.
LEMMA NothingStale ==
    ASSUME NEW rows, NEW texts \in Seq(Texts), NEW stale, stale = {}, NEW column, NEW order, NEW moved \in BOOLEAN
    PROVE  ShownBut(rows, texts, stale, column, order, moved) <=> Shown(rows, texts, column, order, moved)
<1>1. ASSUME NEW i \in 1 .. Len(texts), rows \in Seq(DrawnRows), Len(rows) = Len(texts), rows[i].text = texts[i],
             rows[i].mark = RowData(texts, i, column, order).mark
      PROVE  rows[i] = RowData(texts, i, column, order)
  <2>1. rows[i] \in DrawnRows
    BY <1>1
  <2> QED
    BY <1>1, <2>1 DEF RowData, DrawnRows
<1> QED
  BY <1>1 DEF Shown, ShownBut

LEMMA ShownIsShownBut ==
    ASSUME NEW rows, NEW texts, NEW stale, NEW column, NEW order, NEW moved \in BOOLEAN,
           Shown(rows, texts, column, order, moved)
    PROVE  ShownBut(rows, texts, stale, column, order, moved)
BY DEF Shown, ShownBut

ColInv == ColTypes /\ HeldInv /\ HeardInv

LEMMA TypesFrame ==
    ASSUME ColTypes, UNCHANGED <<sourceRows, sourceColumns, m_sourceColumns, m_resetting, headerText, rearranges>>,
           phase' \in Phases, phase' \in Resetting <=> phase \in Resetting
    PROVE  ColTypes'
BY DEF ColTypes, Resetting

LEMMA ItemFrame ==
    ASSUME UNCHANGED <<sourceColumns, m_sourceColumns>>
    PROVE  /\ AllColumns' = AllColumns
           /\ \A n, column : Item(n, column)' = Item(n, column) /\ Followed(column)' = Followed(column)
BY DEF AllColumns, Item, ItemOf, Followed, Width

LEMMA HeldFrame ==
    ASSUME HeldInv, extraVars' = extraVars, heldItem' = heldItem, sourceRows' = sourceRows,
           sourceColumns' = sourceColumns, m_sourceColumns' = m_sourceColumns,
           phase' \in Resetting => phase \in Resetting, phase \in Resetting => phase' \in Resetting,
           phase' \in Kept => phase \in Kept, phase = "relaid" => phase' = "relaid"
    PROVE  HeldInv'
<1>1. UNCHANGED <<held, proxyIndexes, layoutChangePersistentIndexes, heldItem, sourceRows, sourceColumns, m_sourceColumns>>
  BY DEF extraVars
<1>2. /\ AllColumns' = AllColumns
      /\ \A n, column : Item(n, column)' = Item(n, column) /\ Followed(column)' = Followed(column)
  BY <1>1, ItemFrame
<1>3. ASSUME NEW n \in RowIds, NEW row \in Nat, NEW column \in AllColumns, HeldAt(n, row, column)
      PROVE  HeldAt(n, row, column)'
  BY <1>1, <1>2, <1>3 DEF HeldAt
<1> QED
  BY <1>1, <1>2, <1>3 DEF HeldInv

LEMMA HeardFrame ==
    ASSUME HeardInv, UNCHANGED headerVars, rearranges' = rearranges,
           phase' \in Resetting \/ (phase \notin Resetting /\ UNCHANGED <<sourceColumns, m_sourceColumns, headerText>>)
    PROVE  HeardInv'
<1>1. UNCHANGED <<attached, sortColumn, sortOrder, drawn, marksMoved, headersMissed>>
  BY DEF headerVars
<1>2. UNCHANGED <<sourceColumns, m_sourceColumns, headerText>> => Headers' = Headers /\ StaleRows' = StaleRows
  BY <1>1 DEF Headers, HeadersOf, StaleRows
<1>3. \A texts, stale : ShownBut(drawn, texts, stale, sortColumn, sortOrder, marksMoved)
                    <=> ShownBut(drawn', texts, stale, sortColumn', sortOrder', marksMoved')
  BY <1>1
<1>4. CASE phase' \in Resetting
  BY <1>1, <1>4 DEF HeardInv
<1>5. CASE phase \notin Resetting /\ UNCHANGED <<sourceColumns, m_sourceColumns, headerText>>
  BY <1>1, <1>2, <1>3, <1>5 DEF HeardInv
<1> QED
  BY <1>4, <1>5

LEMMA HeardInReset ==
    ASSUME HeardInv, UNCHANGED headerVars, rearranges' = rearranges, phase' \in Resetting
    PROVE  HeardInv'
<1>1. UNCHANGED <<attached, sortColumn, sortOrder, drawn, marksMoved, headersMissed>>
  BY DEF headerVars
<1> QED
  BY <1>1 DEF HeardInv

\* Without a persistent index there is nothing to say.
LEMMA HeldNothing ==
    ASSUME held' = NoIndex, phase' \notin Kept
    PROVE  HeldInv'
BY DEF HeldInv

LEMMA TableFrame ==
    ASSUME ColTypes, HeldInv, sourceRows' = sourceRows, sourceColumns' = sourceColumns,
           m_sourceColumns' = m_sourceColumns, m_resetting' = m_resetting, headerText' = headerText,
           rearranges' = rearranges, phase' = phase, extraVars' = extraVars, heldItem' = heldItem
    PROVE  ColTypes' /\ HeldInv'
<1>1. ColTypes'
  BY DEF ColTypes
<1>2. HeldInv'
  <2>1. /\ phase' \in Resetting => phase \in Resetting
        /\ phase \in Resetting => phase' \in Resetting
        /\ phase' \in Kept => phase \in Kept
        /\ phase = "relaid" => phase' = "relaid"
    OBVIOUS
  <2> QED
    BY <2>1, HeldFrame
<1> QED
  BY <1>1, <1>2

\* The headers that the source and the proxies have.
LEMMA HeadersType ==
    ASSUME ColTypes
    PROVE  Headers \in Seq(Texts) /\ Len(Headers) = Width + Len(m_extraHeaders)
BY HeadersAre DEF ColTypes, Headers, Width

LEMMA PlainHeaders ==
    ASSUME ColTypes, ~rearranges
    PROVE  /\ m_sourceColumns = Id(sourceColumns) /\ Headers = Plain(sourceColumns, headerText)
           /\ Width = Len(sourceColumns)
<1>1. m_sourceColumns = Id(sourceColumns) /\ sourceColumns \in Seq(ColumnIds) /\ headerText \in [ColumnIds -> Texts]
  BY DEF ColTypes, Id
<1>2. Len(Id(sourceColumns)) = Len(sourceColumns)
  BY <1>1, PlainIs
<1> QED
  BY <1>1, <1>2 DEF Headers, Plain, Width

\* What is drawn where nothing is rearranged; and all that there is to say where no header
\* is missed.
LEMMA HeardPlain ==
    ASSUME ColTypes, HeardInv, ~rearranges, phase = "idle"
    PROVE  /\ attached \in BOOLEAN /\ sortColumn \in Nat /\ sortOrder \in Orders /\ marksMoved \in BOOLEAN
           /\ drawn \in Seq(DrawnRows) /\ (~attached => drawn = <<>>)
           /\ (attached => Shown(drawn, Headers, sortColumn, sortOrder, marksMoved))
           /\ headersMissed = {}
<1>1. headersMissed = {} /\ StaleRows = {} /\ phase \notin Resetting /\ marksMoved \in BOOLEAN
  BY DEF HeardInv, StaleRows, Resetting
<1>2. PICK texts, stale : texts = Headers /\ stale = StaleRows
  OBVIOUS
<1>3. texts \in Seq(Texts)
  BY <1>2, HeadersType
<1>4. attached => Shown(drawn, texts, sortColumn, sortOrder, marksMoved)
  <2> SUFFICES ASSUME attached PROVE Shown(drawn, texts, sortColumn, sortOrder, marksMoved)
    OBVIOUS
  <2>1. ShownBut(drawn, texts, stale, sortColumn, sortOrder, marksMoved) /\ stale = {}
    BY <1>1, <1>2 DEF HeardInv
  <2> QED
    BY <1>1, <1>3, <2>1, NothingStale
<1> QED
  BY <1>1, <1>2, <1>4 DEF HeardInv

LEMMA HeardShown ==
    ASSUME attached' \in BOOLEAN, sortColumn' \in Nat, sortOrder' \in Orders, marksMoved' \in BOOLEAN,
           drawn' \in Seq(DrawnRows), ~attached' => drawn' = <<>>, headersMissed' = {},
           attached' => Shown(drawn', Headers', sortColumn', sortOrder', marksMoved')
    PROVE  HeardInv'
<1>1. PICK rows, texts, stale, column, order, moved :
          /\ rows = drawn' /\ texts = Headers' /\ stale = StaleRows' /\ column = sortColumn'
          /\ order = sortOrder' /\ moved = marksMoved'
  OBVIOUS
<1>2. attached' => ShownBut(rows, texts, stale, column, order, moved)
  BY <1>1, ShownIsShownBut
<1> QED
  BY <1>1, <1>2 DEF HeardInv
----------------------------------------------------------------------------
(* The steps that leave the columns alone.                                  *)

LEMMA HoldKeeps ==
    ASSUME ColInv, Hold
    PROVE  ColInv'
<1>1. /\ phase \in {"idle", "announced"} /\ held = NoIndex /\ client = "indexes"
      /\ UNCHANGED <<sourceRows, sourceColumns, m_sourceColumns, m_resetting, headerText, rearranges, phase, headerVars>>
      /\ ColTypes /\ HeldInv /\ HeardInv
  BY DEF Hold, ColInv, rearrangeVars, sourceVars, tableVars
<1>2. PICK i \in Places : held' = i /\ heldItem' = data(i)
  BY DEF Hold
<1>14. PICK q \in Rows : \E row \in DOMAIN sourceRows[q], column \in AllColumns : i = Index(row, column, q)
  BY <1>1, PlacesAre
<1>3. PICK row \in DOMAIN sourceRows[q], column \in AllColumns : i = Index(row, column, q)
  BY <1>14
<1>4. data(i) = Item(sourceRows[q][row], column)
  BY <1>1, <1>3, DataIs
<1>5. sourceRows[q] \in Seq(RowIds) /\ sourceRows[q][row] \in RowIds /\ Under[sourceRows[q][row]] = q
  BY <1>1, RowsHavePlaces DEF ColTypes
<1>6. PICK n \in RowIds : n = sourceRows[q][row] /\ Under[n] = q
  BY <1>5
<1>7. row \in Nat
  BY <1>5
<1>8. AllColumns' = AllColumns /\ Item(n, column)' = Item(n, column)
  BY <1>1, ItemFrame
<1>9. HeldAt(n, row, column)'
  BY <1>1, <1>2, <1>3, <1>4, <1>6, <1>8 DEF HeldAt, Kept
<1>10. HeldInv'
  <2>1. column \in AllColumns' /\ phase' \notin Kept
    BY <1>1, <1>8 DEF Kept
  <2> QED
    BY <1>7, <1>9, <2>1 DEF HeldInv
<1>11. ColTypes' /\ HeardInv'
  <2>1. phase' \in Phases /\ phase \notin Resetting
    BY <1>1 DEF Phases, Resetting
  <2> QED
    BY <1>1, <2>1, TypesFrame, HeardFrame
<1> QED
  BY <1>10, <1>11 DEF ColInv

LEMMA LayoutAboutToBeChangedKeeps ==
    ASSUME ColInv, LayoutAboutToBeChanged
    PROVE  ColInv'
<1>1. /\ phase = "idle" /\ phase' = "announced"
      /\ UNCHANGED <<sourceRows, sourceColumns, m_sourceColumns, m_resetting, headerText, rearranges, headerVars,
                     extraVars, heldItem>>
      /\ ColTypes /\ HeldInv /\ HeardInv
  BY DEF LayoutAboutToBeChanged, ColInv, rearrangeVars, sourceVars, tableVars
<1>2. phase' \in Phases /\ phase' \notin Resetting /\ phase \notin Resetting /\ phase' \notin Kept /\ phase # "relaid"
  BY <1>1 DEF Phases, Resetting, Kept
<1>3. HeldInv'
  BY <1>1, <1>2, HeldFrame
<1> QED
  BY <1>1, <1>2, <1>3, TypesFrame, HeardFrame DEF ColInv

LEMMA KeepIndexesKeeps ==
    ASSUME ColInv, KeepIndexes
    PROVE  ColInv'
<1>1. /\ phase = "announced" /\ phase' = "kept"
      /\ proxyIndexes' = held /\ held' = held
      /\ layoutChangePersistentIndexes' = IF held = NoIndex THEN NoIndex ELSE data(mapToSource(FollowedIndex(held)))
      /\ UNCHANGED <<sourceRows, sourceColumns, m_sourceColumns, m_resetting, headerText, rearranges, headerVars, heldItem>>
      /\ ColTypes /\ HeldInv /\ HeardInv
  BY DEF KeepIndexes, sourceLayoutAboutToBeChanged, ColInv, rearrangeVars, sourceVars, tableVars
<1>2. phase' \in Phases /\ phase' \notin Resetting /\ phase \notin Resetting
  BY <1>1 DEF Phases, Resetting
<1>3. ColTypes' /\ HeardInv'
  BY <1>1, <1>2, TypesFrame, HeardFrame
<1>4. held = NoIndex => HeldInv'
  BY <1>1 DEF HeldInv
<1>5. ASSUME held # NoIndex PROVE HeldInv'
  <2>1. PICK n \in RowIds, row \in Nat, column \in AllColumns : HeldAt(n, row, column)
    BY <1>1, <1>2, <1>5 DEF HeldInv
  <2>2. /\ held = Index(row, column, Under[n]) /\ heldItem = Item(n, column)
        /\ row \in DOMAIN sourceRows[Under[n]] /\ sourceRows[Under[n]][row] = n /\ Under[n] \in Rows
    BY <1>1, <2>1, UnderAssumption DEF HeldAt, Rows
  <2>3. layoutChangePersistentIndexes' = Item(n, Followed(column))
    BY <1>1, <1>5, <2>2, FollowedIs
  <2>4. AllColumns' = AllColumns /\ Followed(column)' = Followed(column)
    BY <1>1, ItemFrame
  <2>9. HeldAt(n, row, column)'
    BY <1>1, <2>2, <2>3, <2>4 DEF HeldAt, Kept, Item
  <2> QED
    BY <1>1, <1>5, <2>4, <2>9 DEF HeldInv
<1> QED
  BY <1>3, <1>4, <1>5 DEF ColInv

LEMMA RelayoutKeeps ==
    ASSUME ColInv, Relayout
    PROVE  ColInv'
<1>1. /\ phase = "kept" /\ phase' = "relaid" /\ sourceRows' \in Orderings
      /\ UNCHANGED <<held, proxyIndexes, layoutChangePersistentIndexes, heldItem>>
      /\ UNCHANGED <<sourceColumns, m_sourceColumns, m_resetting, headerText, rearranges, headerVars>>
      /\ ColTypes /\ HeldInv /\ HeardInv
  BY DEF Relayout, ColInv, rearrangeVars, extraVars
<1>2. phase' \in Phases /\ phase' \notin Resetting /\ phase \notin Resetting
  BY <1>1 DEF Phases, Resetting
<1>3. ColTypes'
  BY <1>1, <1>2 DEF ColTypes, Resetting
<1>4. HeardInv'
  BY <1>1, <1>2, HeardFrame
<1>5. /\ AllColumns' = AllColumns
      /\ \A n, column : Item(n, column)' = Item(n, column) /\ Followed(column)' = Followed(column)
  BY <1>1, ItemFrame
<1>6. ASSUME NEW n \in RowIds, NEW row \in Nat, NEW column \in AllColumns, HeldAt(n, row, column)
      PROVE  HeldAt(n, row, column)'
  BY <1>1, <1>5, <1>6 DEF HeldAt, Kept
<1>7. HeldInv'
  BY <1>1, <1>2, <1>5, <1>6 DEF HeldInv, Kept
<1> QED
  BY <1>3, <1>4, <1>7 DEF ColInv

LEMMA LayoutChangedKeeps ==
    ASSUME ColInv, LayoutChanged
    PROVE  ColInv'
<1>1. /\ phase = "relaid" /\ phase' = "idle"
      /\ held' = IF proxyIndexes = NoIndex THEN held
                 ELSE MovedIndex(proxyIndexes,
                                 IF proxyIndexes = NoIndex THEN NoIndex ELSE PlaceOf(layoutChangePersistentIndexes))
      /\ UNCHANGED <<sourceRows, sourceColumns, m_sourceColumns, m_resetting, headerText, rearranges, headerVars, heldItem>>
      /\ ColTypes /\ HeldInv /\ HeardInv
  BY DEF LayoutChanged, sourceLayoutChanged, ColInv, rearrangeVars, sourceVars, tableVars
<1>2. phase' \in Phases /\ phase' \notin Resetting /\ phase \notin Resetting /\ phase \in Kept /\ phase' \notin Kept
  BY <1>1 DEF Phases, Resetting, Kept
<1>3. ColTypes' /\ HeardInv'
  BY <1>1, <1>2, TypesFrame, HeardFrame
<1>4. CASE held = NoIndex
  <2>1. held' = NoIndex
    BY <1>1, <1>2, <1>4 DEF HeldInv
  <2> QED
    BY <1>2, <1>3, <2>1, HeldNothing DEF ColInv
<1>5. CASE held # NoIndex
  <2>1. PICK n \in RowIds, row \in Nat, column \in AllColumns : HeldAt(n, row, column)
    BY <1>1, <1>2, <1>5 DEF HeldInv
  <2>2. /\ held = Index(row, column, Under[n]) /\ heldItem = Item(n, column)
        /\ proxyIndexes = held /\ layoutChangePersistentIndexes = Item(n, Followed(column))
    BY <1>2, <2>1 DEF HeldAt
  <2>3. held' = MovedIndex(Index(row, column, Under[n]), PlaceOf(Item(n, Followed(column))))
    BY <1>1, <1>5, <2>2
  <2>4. PICK k \in DOMAIN sourceRows[Under[n]] :
            /\ sourceRows[Under[n]][k] = n
            /\ MovedIndex(Index(row, column, Under[n]), PlaceOf(Item(n, Followed(column)))) = Index(k, column, Under[n])
    BY <1>1, MovedIs
  <2>5. k \in Nat
    <3>1. Under[n] \in Rows
      BY UnderAssumption DEF Rows
    <3>2. sourceRows[Under[n]] \in Seq(RowIds)
      BY <1>1, <3>1, RowsHavePlaces DEF ColTypes
    <3> QED
      BY <3>2
  <2>6. AllColumns' = AllColumns /\ Item(n, column)' = Item(n, column)
    BY <1>1, ItemFrame
  <2>7. HeldAt(n, k, column)'
    BY <1>1, <1>2, <2>2, <2>3, <2>4, <2>6 DEF HeldAt
  <2>8. HeldInv'
    BY <1>2, <2>5, <2>6, <2>7 DEF HeldInv
  <2> QED
    BY <1>3, <2>8 DEF ColInv
<1> QED
  BY <1>4, <1>5
----------------------------------------------------------------------------
(* What a view has drawn, when rows come, go and are drawn anew.            *)

LEMMA RowDataIs ==
    ASSUME NEW texts \in Seq(Texts), NEW i \in DOMAIN texts, NEW column, NEW order \in Orders
    PROVE  RowData(texts, i, column, order) \in DrawnRows /\ RowData(texts, i, column, order).text = texts[i]
BY DEF RowData, DrawnRows

LEMMA RowsOfIs ==
    ASSUME NEW texts \in Seq(Texts), sortOrder \in Orders, NEW moved
    PROVE  RowsOf(texts) \in Seq(DrawnRows) /\ Shown(RowsOf(texts), texts, sortColumn, sortOrder, moved)
<1>1. DOMAIN texts = 1 .. Len(texts) /\ Len(texts) \in Nat
  OBVIOUS
<1>2. \A i \in DOMAIN texts : /\ RowData(texts, i, sortColumn, sortOrder) \in DrawnRows
                              /\ RowData(texts, i, sortColumn, sortOrder).text = texts[i]
  BY RowDataIs
<1> DEFINE rows == RowsOf(texts)
<1>3. /\ rows = [i \in 1 .. Len(texts) |-> RowData(texts, i, sortColumn, sortOrder)]
      /\ rows \in [1 .. Len(texts) -> DrawnRows]
  BY <1>1, <1>2 DEF RowsOf
<1> HIDE DEF rows
<1>4. rows \in Seq(DrawnRows) /\ Len(rows) = Len(texts)
  BY <1>1, <1>3
<1> QED
  BY <1>1, <1>2, <1>3, <1>4 DEF rows, Shown

\* The rows of the set are drawn anew; the others show what they showed.
Anew(rows, S, now, mark, kind) == [i \in DOMAIN rows |-> IF i \in S THEN RowData(now, i, mark, kind) ELSE rows[i]]

LEMMA Redrawn ==
    ASSUME NEW rows, NEW texts \in Seq(Texts), NEW stale, NEW column, NEW order, NEW moved,
           ShownBut(rows, texts, stale, column, order, moved),
           NEW now \in Seq(Texts), Len(now) = Len(texts), NEW staleNow, NEW mark, NEW kind \in Orders, NEW S,
           \A i \in 1 .. Len(texts) : i \notin S =>
              /\ i \in staleNow \/ (i \notin stale /\ now[i] = texts[i])
              /\ RowData(now, i, mark, kind).mark = RowData(texts, i, column, order).mark
    PROVE  /\ Anew(rows, S, now, mark, kind) \in Seq(DrawnRows)
           /\ ShownBut(Anew(rows, S, now, mark, kind), now, staleNow, mark, kind, moved)
<1> DEFINE anew == Anew(rows, S, now, mark, kind)
           n == Len(texts)
<1>1. /\ n \in Nat /\ rows \in Seq(DrawnRows) /\ DOMAIN rows = 1 .. n /\ DOMAIN now = 1 .. n
      /\ \A i \in 1 .. n : /\ rows[i] \in DrawnRows /\ (i \in stale \/ rows[i].text = texts[i])
                           /\ moved \/ rows[i].mark = RowData(texts, i, column, order).mark
  <2>1. Len(rows) = n /\ rows \in Seq(DrawnRows)
    BY DEF ShownBut
  <2>2. DOMAIN rows = 1 .. n /\ n \in Nat /\ \A i \in 1 .. n : rows[i] \in DrawnRows
    BY <2>1
  <2>3. DOMAIN now = 1 .. n
    OBVIOUS
  <2> QED
    BY <2>1, <2>2, <2>3 DEF ShownBut
<1>2. \A i \in 1 .. n : RowData(now, i, mark, kind) \in DrawnRows /\ RowData(now, i, mark, kind).text = now[i]
  BY <1>1, RowDataIs
<1>3. anew \in [1 .. n -> DrawnRows] /\ \A i \in 1 .. n : anew[i] = IF i \in S THEN RowData(now, i, mark, kind) ELSE rows[i]
  BY <1>1, <1>2 DEF Anew
<1> HIDE DEF anew
<1>4. anew \in Seq(DrawnRows) /\ Len(anew) = n
  <2> HIDE DEF n
  <2> QED
    BY <1>1, <1>3
<1>5. ASSUME NEW i \in 1 .. n
      PROVE  /\ i \in staleNow \/ anew[i].text = now[i]
             /\ moved \/ anew[i].mark = RowData(now, i, mark, kind).mark
  <2>1. CASE i \in S
    BY <1>2, <1>3, <2>1
  <2>2. CASE i \notin S
    <3>1. anew[i] = rows[i]
      BY <1>3, <2>2
    <3>2. /\ i \in staleNow \/ (i \notin stale /\ now[i] = texts[i])
          /\ RowData(now, i, mark, kind).mark = RowData(texts, i, column, order).mark
      BY <2>2
    <3> QED
      BY <1>1, <3>1, <3>2
  <2> QED
    BY <2>1, <2>2
<1>6. ShownBut(anew, now, staleNow, mark, kind, moved)
  BY <1>4, <1>5 DEF ShownBut
<1> QED
  BY <1>4, <1>6 DEF anew

LEMMA DrawnInserted ==
    ASSUME NEW rows, NEW texts \in Seq(Texts), NEW column \in Nat, NEW order \in Orders, NEW moved \in BOOLEAN,
           Shown(rows, texts, column, order, moved),
           NEW now \in Seq(Texts), Len(now) = Len(texts) + 1, NEW at \in Int, 1 <= at, at <= Len(texts) + 1,
           \A i \in 1 .. Len(texts) + 1 : (i < at => now[i] = texts[i]) /\ (i > at => now[i] = texts[i - 1])
    PROVE  Shown(Seqs!InsertAt(rows, at, RowData(now, at, column, order)), now, column, order, moved \/ column > 0)
<1> DEFINE n == Len(texts)
           new == RowData(now, at, column, order)
           all == Seqs!InsertAt(rows, at, new)
<1>1. /\ n \in Nat /\ rows \in Seq(DrawnRows) /\ Len(rows) = n
      /\ \A i \in 1 .. n : rows[i].text = texts[i] /\ (~moved => rows[i] = RowData(texts, i, column, order))
  BY DEF Shown
<1>2. new \in DrawnRows /\ new.text = now[at]
  <2>1. at \in DOMAIN now
    BY <1>1
  <2> QED
    BY <2>1, RowDataIs
<1> HIDE DEF new
<1>3. /\ all \in Seq(DrawnRows) /\ Len(all) = n + 1
      /\ \A k \in 1 .. n + 1 : all[k] = IF k < at THEN rows[k] ELSE IF k = at THEN new ELSE rows[k - 1]
  <2>1. at <= Len(rows) + 1
    BY <1>1
  <2> HIDE DEF all
  <2>2. /\ all \in Seq(DrawnRows) /\ Len(all) = Len(rows) + 1
        /\ \A k \in 1 .. Len(rows) + 1 : all[k] = IF k < at THEN rows[k] ELSE IF k = at THEN new ELSE rows[k - 1]
    BY <1>1, <1>2, <2>1, InsertAtIs DEF all
  <2> QED
    BY <1>1, <2>2
<1> HIDE DEF all
<1>4. ASSUME NEW i \in 1 .. n + 1
      PROVE  all[i].text = now[i] /\ (~(moved \/ column > 0) => all[i] = RowData(now, i, column, order))
  <2>1. CASE i < at
    <3>1. i \in 1 .. n /\ all[i] = rows[i] /\ now[i] = texts[i]
      BY <1>1, <1>3, <2>1
    <3>2. RowData(now, i, column, order) = RowData(texts, i, column, order)
      BY <3>1 DEF RowData
    <3> QED
      BY <1>1, <3>1, <3>2
  <2>2. CASE i = at
    BY <1>2, <1>3, <2>2 DEF new
  <2>3. CASE i > at
    <3>1. i - 1 \in 1 .. n /\ all[i] = rows[i - 1] /\ now[i] = texts[i - 1] /\ i \in Nat /\ i > 0
      BY <1>1, <1>3, <2>3
    <3>2. ~(column > 0) => RowData(now, i, column, order) = RowData(texts, i - 1, column, order)
      <4>1. ~(column > 0) => i # column /\ i - 1 # column
        BY <1>1, <3>1
      <4> QED
        BY <3>1, <4>1 DEF RowData
    <3> QED
      BY <1>1, <3>1, <3>2
  <2> QED
    BY <1>1, <2>1, <2>2, <2>3
<1> QED
  BY <1>3, <1>4 DEF all, new, Shown

\* Rows taken from where they were: columns removed or moved.
TakenFrom(texts, rows, now, all) ==
    \A i \in 1 .. Len(now) : \E j \in 1 .. Len(texts) : now[i] = texts[j] /\ all[i] = rows[j]

LEMMA DrawnTaken ==
    ASSUME NEW rows, NEW texts \in Seq(Texts), NEW column \in Nat, NEW order \in Orders, NEW moved \in BOOLEAN,
           Shown(rows, texts, column, order, moved),
           NEW now \in Seq(Texts), NEW all \in Seq(DrawnRows), Len(all) = Len(now),
           TakenFrom(texts, rows, now, all)
    PROVE  Shown(all, now, column, order, moved \/ column > 0)
<1>1. \A i \in 1 .. Len(texts) : rows[i].text = texts[i] /\ (~moved => rows[i] = RowData(texts, i, column, order))
  BY DEF Shown
<1>2. ASSUME NEW i \in 1 .. Len(now)
      PROVE  all[i].text = now[i] /\ (~(moved \/ column > 0) => all[i] = RowData(now, i, column, order))
  <2>1. PICK j \in 1 .. Len(texts) : now[i] = texts[j] /\ all[i] = rows[j]
    BY DEF TakenFrom
  <2>2. ~(column > 0) => RowData(now, i, column, order) = RowData(texts, j, column, order)
    <3>1. ~(column > 0) => i # column /\ j # column
      <4>1. i \in Nat /\ i >= 1 /\ j \in Nat /\ j >= 1
        OBVIOUS
      <4> QED
        BY <4>1
    <3> QED
      BY <2>1, <3>1 DEF RowData
  <2> QED
    BY <1>1, <2>1, <2>2
<1> QED
  BY <1>2 DEF Shown
----------------------------------------------------------------------------
(* The steps in which columns come, go and move.                            *)

\* A column of the source, or an extra one, is still what it was where it has gone to.
LEMMA ItemMoves ==
    ASSUME NEW s \in Seq(ColumnIds), NEW t \in Seq(ColumnIds), NEW n,
           NEW column \in 1 .. Len(s) + Len(m_extraHeaders), NEW c \in Int,
           column <= Len(s) => c \in 1 .. Len(t) /\ t[c] = s[column],
           column > Len(s) => c - Len(t) = column - Len(s)
    PROVE  ItemOf(t, Id(t), n, c) = ItemOf(s, Id(s), n, column) /\ c \in 1 .. Len(t) + Len(m_extraHeaders)
<1>1. /\ Len(s) \in Nat /\ Len(t) \in Nat /\ Len(m_extraHeaders) \in Nat
      /\ Len(Id(s)) = Len(s) /\ Len(Id(t)) = Len(t)
      /\ \A i \in 1 .. Len(s) : Id(s)[i] = i
      /\ \A i \in 1 .. Len(t) : Id(t)[i] = i
  <2>1. DOMAIN s = 1 .. Len(s) /\ DOMAIN t = 1 .. Len(t) /\ Len(s) \in Nat /\ Len(t) \in Nat
    OBVIOUS
  <2>2. Len(Id(s)) = Len(s) /\ \A i \in 1 .. Len(s) : Id(s)[i] = i
    <3>1. PICK texts : texts \in [ColumnIds -> Texts]
      <4>1. PICK e : e \in Texts
        BY ColumnsAssumption
      <4>2. [c1 \in ColumnIds |-> e] \in [ColumnIds -> Texts]
        BY <4>1
      <4> QED
        BY <4>2
    <3> QED
      BY <2>1, <3>1, PlainIs
  <2>3. Len(Id(t)) = Len(t) /\ \A i \in 1 .. Len(t) : Id(t)[i] = i
    <3>1. PICK texts : texts \in [ColumnIds -> Texts]
      <4>1. PICK e : e \in Texts
        BY ColumnsAssumption
      <4>2. [c1 \in ColumnIds |-> e] \in [ColumnIds -> Texts]
        BY <4>1
      <4> QED
        BY <4>2
    <3> QED
      BY <2>1, <3>1, PlainIs
  <2> QED
    BY <2>1, <2>2, <2>3, ColumnsAssumption
<1>2. CASE column <= Len(s)
  <2>1. column \in 1 .. Len(s) /\ c \in 1 .. Len(t) /\ t[c] = s[column]
    BY <1>1, <1>2
  <2> QED
    BY <1>1, <1>2, <2>1 DEF ItemOf
<1>3. CASE column > Len(s)
  <2>1. c - Len(t) = column - Len(s) /\ c > Len(t) /\ c \in 1 .. Len(t) + Len(m_extraHeaders)
    BY <1>1, <1>3
  <2> QED
    BY <1>1, <1>3, <2>1 DEF ItemOf
<1> QED
  BY <1>1, <1>2, <1>3

\* A persistent index that moves with its column.
LEMMA HeldShift ==
    ASSUME ColTypes, HeldInv, phase = "idle", NEW c, Shift(c),
           \A column \in AllColumns :
              held # NoIndex /\ held.column = column /\ c # 0 =>
                 /\ c \in 1 .. Len(m_sourceColumns') + Len(m_extraHeaders)
                 /\ \A n : ItemOf(sourceColumns', m_sourceColumns', n, c) = Item(n, column)
    PROVE  HeldInv'
<1>1. /\ held' = IF held = NoIndex \/ c = 0 THEN NoIndex ELSE [held EXCEPT !.column = c]
      /\ heldItem' = IF held' = NoIndex THEN NoIndex ELSE heldItem
      /\ phase' = "idle" /\ sourceRows' = sourceRows
  BY DEF Shift
<1>2. phase \notin Resetting /\ phase' \notin Kept /\ phase' # "relaid" /\ phase # "relaid"
  BY <1>1 DEF Resetting, Kept
<1>3. CASE held = NoIndex \/ c = 0
  BY <1>1, <1>2, <1>3, HeldNothing
<1>4. CASE held # NoIndex /\ c # 0
  <2>1. PICK n \in RowIds, row \in Nat, column \in AllColumns : HeldAt(n, row, column)
    BY <1>2, <1>4 DEF HeldInv
  <2>2. /\ held = Index(row, column, Under[n]) /\ heldItem = Item(n, column)
        /\ row \in DOMAIN sourceRows[Under[n]] /\ sourceRows[Under[n]][row] = n /\ Under[n] \in Rows
    BY <1>2, <2>1, UnderAssumption DEF HeldAt, Rows
  <2>3. held.column = column /\ [held EXCEPT !.column = c] = Index(row, c, Under[n])
    <3>1. /\ Index(row, column, Under[n]).column = column
          /\ [Index(row, column, Under[n]) EXCEPT !.column = c] = Index(row, c, Under[n])
      BY IndexFields
    <3> QED
      BY <2>2, <3>1
  <2>4. /\ c \in 1 .. Len(m_sourceColumns') + Len(m_extraHeaders)
        /\ ItemOf(sourceColumns', m_sourceColumns', n, c) = Item(n, column)
    BY <1>4, <2>3
  <2>5. held' = Index(row, c, Under[n]) /\ held' # NoIndex
    <3>1. Index(row, c, Under[n]) # NoIndex
      <4>1. c \in Nat
        <5>1. \A m : c \in 1 .. m => c \in Int /\ c >= 1
          OBVIOUS
        <5>2. c \in Int /\ c >= 1
          BY <2>4, <5>1
        <5> QED
          BY <5>2
      <4> QED
        BY <2>2, <4>1, IndexFields
    <3> QED
      BY <1>1, <1>4, <2>3, <3>1
  <2>6. heldItem' = Item(n, column)
    BY <1>1, <2>2, <2>5
  <2>7. HeldAt(n, row, c)'
    BY <1>1, <1>2, <2>2, <2>4, <2>5, <2>6 DEF HeldAt, Item
  <2>8. c \in AllColumns'
    BY <2>4 DEF AllColumns, Width
  <2> QED
    BY <1>2, <2>5, <2>7, <2>8 DEF HeldInv
<1> QED
  BY <1>3, <1>4

\* The columns that the source has then, which nothing rearranges.
LEMMA BecomeKeeps ==
    ASSUME ColTypes, NEW t \in Seq(ColumnIds), Seqs!IsInjective(t), t # <<>>, ColumnsBecome(t),
           UNCHANGED <<sourceRows, headerText, rearranges, phase>>
    PROVE  ColTypes' /\ m_sourceColumns' = Id(t) /\ sourceColumns' = t /\ ~rearranges /\ phase = "idle"
           /\ Headers' = Plain(t, headerText) /\ Len(m_sourceColumns') = Len(t)
<1>1. /\ sourceColumns' = t /\ m_sourceColumns' = Id(t) /\ ~rearranges /\ phase = "idle" /\ phase' = "idle"
      /\ m_resetting' = m_resetting /\ sourceRows' = sourceRows /\ headerText' = headerText /\ rearranges' = rearranges
  BY DEF ColumnsBecome, Id
<1>2. headerText \in [ColumnIds -> Texts]
  BY DEF ColTypes
<1>3. Id(t) \in Seq(DOMAIN t) /\ Seqs!IsInjective(Id(t)) /\ Id(t) # <<>> /\ Len(Id(t)) = Len(t)
  BY <1>2, PlainIs
<1>4. ColTypes'
  BY <1>1, <1>3 DEF ColTypes, Id
<1>5. Headers' = Plain(t, headerText)
  BY <1>1 DEF Headers, Plain, HeadersOf
<1> QED
  BY <1>1, <1>3, <1>4, <1>5

LEMMA InsertColumnKeeps ==
    ASSUME ColInv, InsertColumn
    PROVE  ColInv'
<1>1. PICK at \in 1 .. Len(sourceColumns) + 1, new \in ColumnIds \ Seqs!ToSet(sourceColumns) :
          /\ ColumnsBecome(Seqs!InsertAt(sourceColumns, at, new))
          /\ InsertHeader(at, HeadersOf(sourceColumns', m_sourceColumns', headerText))
          /\ Shift(IF HeldColumn >= at THEN HeldColumn + 1 ELSE HeldColumn)
  BY DEF InsertColumn
<1>2. PICK s, t, c : /\ s = sourceColumns /\ t = Seqs!InsertAt(sourceColumns, at, new)
                     /\ c = IF HeldColumn >= at THEN HeldColumn + 1 ELSE HeldColumn
  OBVIOUS
<1>3. /\ ColTypes /\ HeldInv /\ HeardInv /\ Shift(c) /\ ColumnsBecome(t)
      /\ UNCHANGED <<sourceRows, headerText, rearranges, phase>>
  BY <1>1, <1>2 DEF ColInv, Shift
<1>4. /\ s \in Seq(ColumnIds) /\ Seqs!IsInjective(s) /\ s # <<>> /\ headerText \in [ColumnIds -> Texts]
      /\ Len(s) \in Nat /\ Len(m_extraHeaders) \in Nat
      /\ new \in ColumnIds \ Seqs!ToSet(s) /\ at \in Int /\ 1 <= at /\ at <= Len(s) + 1
      /\ t = Seqs!InsertAt(s, at, new)
  BY <1>1, <1>2, <1>3, ColumnsAssumption DEF ColTypes
<1>5. PICK texts : texts = headerText
  OBVIOUS
<1>6. /\ t \in Seq(ColumnIds) /\ Seqs!IsInjective(t) /\ Len(t) = Len(s) + 1
      /\ \A i \in 1 .. Len(s) : t[IF i >= at THEN i + 1 ELSE i] = s[i]
      /\ \A i \in 1 .. Len(s) + 1 + Len(m_extraHeaders) :
            /\ i < at => Plain(t, texts)[i] = Plain(s, texts)[i]
            /\ i > at => Plain(t, texts)[i] = Plain(s, texts)[i - 1]
  <2>1. s \in Seq(ColumnIds) /\ Seqs!IsInjective(s) /\ at \in Int /\ 1 <= at /\ at <= Len(s) + 1
    BY <1>4
  <2>2. texts \in [ColumnIds -> Texts] /\ t = Seqs!InsertAt(s, at, new) /\ new \in ColumnIds \ Seqs!ToSet(s)
    BY <1>4, <1>5
  <2> QED
    BY <2>1, <2>2, InsertedColumn
<1>7. t # <<>>
  BY <1>4, <1>6
<1>8. /\ ColTypes' /\ m_sourceColumns' = Id(t) /\ sourceColumns' = t /\ ~rearranges /\ phase = "idle"
      /\ Headers' = Plain(t, texts) /\ Len(m_sourceColumns') = Len(t)
  BY <1>3, <1>5, <1>6, <1>7, BecomeKeeps
<1>9. m_sourceColumns = Id(s) /\ Headers = Plain(s, texts) /\ Width = Len(s)
  BY <1>2, <1>3, <1>5, <1>8, PlainHeaders
<1>10. HeldInv'
  <2>1. ASSUME NEW column \in AllColumns, held # NoIndex, held.column = column
        PROVE  /\ c \in 1 .. Len(m_sourceColumns') + Len(m_extraHeaders)
               /\ \A n : ItemOf(sourceColumns', m_sourceColumns', n, c) = Item(n, column)
    <3>1. column \in 1 .. Len(s) + Len(m_extraHeaders) /\ c = IF column >= at THEN column + 1 ELSE column
      BY <1>2, <1>9, <2>1 DEF AllColumns, HeldColumn
    <3>2. c \in Int /\ (column > Len(s) => c - Len(t) = column - Len(s))
      BY <1>4, <1>6, <3>1
    <3>3. column <= Len(s) => c \in 1 .. Len(t) /\ t[c] = s[column]
      BY <1>4, <1>6, <3>1
    <3>4. \A n : ItemOf(t, Id(t), n, c) = ItemOf(s, Id(s), n, column) /\ c \in 1 .. Len(t) + Len(m_extraHeaders)
      <4>1. s \in Seq(ColumnIds) /\ t \in Seq(ColumnIds) /\ column \in 1 .. Len(s) + Len(m_extraHeaders)
        BY <1>4, <1>6, <3>1
      <4> QED
        BY <3>2, <3>3, <4>1, ItemMoves
    <3> QED
      BY <1>2, <1>8, <1>9, <3>4 DEF Item
  <2> QED
    BY <1>3, <1>8, <2>1, HeldShift
<1>11. HeardInv'
  <2>1. /\ drawn' = IF attached THEN Seqs!InsertAt(drawn, at, RowData(Plain(t, texts), at, sortColumn, sortOrder)) ELSE drawn
        /\ marksMoved' = (marksMoved \/ sortColumn > 0)
        /\ attached' = attached /\ sortColumn' = sortColumn /\ sortOrder' = sortOrder
    BY <1>1, <1>5, <1>8 DEF InsertHeader, ColumnsChanged, Plain
  <2>2. /\ attached \in BOOLEAN /\ sortColumn \in Nat /\ sortOrder \in Orders /\ marksMoved \in BOOLEAN
        /\ drawn \in Seq(DrawnRows) /\ (~attached => drawn = <<>>)
        /\ (attached => Shown(drawn, Headers, sortColumn, sortOrder, marksMoved))
        /\ headersMissed = {}
    BY <1>3, <1>8, HeardPlain
  <2>3. PICK h, h2 : h = Plain(s, texts) /\ h2 = Plain(t, texts)
    OBVIOUS
  <2>4. /\ h \in Seq(Texts) /\ Len(h) = Len(s) + Len(m_extraHeaders)
        /\ h2 \in Seq(Texts) /\ Len(h2) = Len(t) + Len(m_extraHeaders)
    BY <1>4, <1>5, <1>6, <2>3, PlainIs
  <2>5. /\ Len(h2) = Len(h) + 1 /\ at <= Len(h) + 1
        /\ \A i \in 1 .. Len(h) + 1 : (i < at => h2[i] = h[i]) /\ (i > at => h2[i] = h[i - 1])
    BY <1>4, <1>6, <2>3, <2>4
  <2>6. ASSUME attached
        PROVE  Shown(drawn', h2, sortColumn, sortOrder, marksMoved \/ sortColumn > 0)
    <3>1. PICK d, column, order, moved : d = drawn /\ column = sortColumn /\ order = sortOrder /\ moved = marksMoved
      OBVIOUS
    <3>2. Shown(d, h, column, order, moved) /\ column \in Nat /\ order \in Orders /\ moved \in BOOLEAN
      BY <1>9, <2>2, <2>3, <2>6, <3>1
    <3>3. Shown(Seqs!InsertAt(d, at, RowData(h2, at, column, order)), h2, column, order, moved \/ column > 0)
      BY <1>4, <2>4, <2>5, <3>2, DrawnInserted
    <3> QED
      BY <2>1, <2>3, <2>6, <3>1, <3>3
  <2>7. attached => drawn' \in Seq(DrawnRows)
    BY <2>6 DEF Shown
  <2>8. attached' => Shown(drawn', Headers', sortColumn', sortOrder', marksMoved')
    <3>1. attached => Shown(drawn', Headers', sortColumn', sortOrder', marksMoved')
      BY <1>8, <2>1, <2>3, <2>6
    <3> QED
      BY <2>1, <3>1
  <2>9. headersMissed' = {} /\ marksMoved' \in BOOLEAN
    BY <1>1, <2>1, <2>2 DEF InsertHeader, RemoveHeader, MoveHeader, ColumnsChanged
  <2> QED
    BY <2>1, <2>2, <2>7, <2>8, <2>9, HeardShown
<1> QED
  BY <1>8, <1>10, <1>11 DEF ColInv

LEMMA RemoveColumnKeeps ==
    ASSUME ColInv, RemoveColumn
    PROVE  ColInv'
<1>1. PICK at \in DOMAIN sourceColumns :
          /\ Len(sourceColumns) > 1
          /\ ColumnsBecome(Seqs!RemoveAt(sourceColumns, at)) /\ RemoveHeader(at)
          /\ Shift(IF HeldColumn = at THEN 0 ELSE IF HeldColumn > at THEN HeldColumn - 1 ELSE HeldColumn)
  BY DEF RemoveColumn
<1>2. PICK s, t, c : /\ s = sourceColumns /\ t = Seqs!RemoveAt(sourceColumns, at)
                     /\ c = IF HeldColumn = at THEN 0 ELSE IF HeldColumn > at THEN HeldColumn - 1 ELSE HeldColumn
  OBVIOUS
<1>3. /\ ColTypes /\ HeldInv /\ HeardInv /\ Shift(c) /\ ColumnsBecome(t)
      /\ UNCHANGED <<sourceRows, headerText, rearranges, phase>>
  BY <1>1, <1>2 DEF ColInv, Shift
<1>4. /\ s \in Seq(ColumnIds) /\ Seqs!IsInjective(s) /\ headerText \in [ColumnIds -> Texts]
      /\ Len(s) \in Nat /\ Len(s) > 1 /\ Len(m_extraHeaders) \in Nat
      /\ at \in Int /\ 1 <= at /\ at <= Len(s) /\ t = Seqs!RemoveAt(s, at)
  BY <1>1, <1>2, <1>3, ColumnsAssumption DEF ColTypes
<1>5. PICK texts : texts = headerText
  OBVIOUS
<1>6. /\ t \in Seq(ColumnIds) /\ Seqs!IsInjective(t) /\ Len(t) = Len(s) - 1
      /\ \A i \in 1 .. Len(s) : i # at => t[IF i > at THEN i - 1 ELSE i] = s[i]
      /\ \A i \in 1 .. Len(s) - 1 + Len(m_extraHeaders) :
            Plain(t, texts)[i] = Plain(s, texts)[IF i < at THEN i ELSE i + 1]
  <2>1. s \in Seq(ColumnIds) /\ Seqs!IsInjective(s) /\ at \in Int /\ 1 <= at /\ at <= Len(s)
    BY <1>4
  <2>2. texts \in [ColumnIds -> Texts] /\ t = Seqs!RemoveAt(s, at)
    BY <1>4, <1>5
  <2> QED
    BY <2>1, <2>2, RemovedColumn
<1>7. t # <<>>
  BY <1>4, <1>6
<1>8. /\ ColTypes' /\ m_sourceColumns' = Id(t) /\ sourceColumns' = t /\ ~rearranges /\ phase = "idle"
      /\ Headers' = Plain(t, texts) /\ Len(m_sourceColumns') = Len(t)
  BY <1>3, <1>5, <1>6, <1>7, BecomeKeeps
<1>9. m_sourceColumns = Id(s) /\ Headers = Plain(s, texts) /\ Width = Len(s)
  BY <1>2, <1>3, <1>5, <1>8, PlainHeaders
<1>10. HeldInv'
  <2>1. ASSUME NEW column \in AllColumns, held # NoIndex, held.column = column, c # 0
        PROVE  /\ c \in 1 .. Len(m_sourceColumns') + Len(m_extraHeaders)
               /\ \A n : ItemOf(sourceColumns', m_sourceColumns', n, c) = Item(n, column)
    <3>1. /\ column \in 1 .. Len(s) + Len(m_extraHeaders) /\ column # at
          /\ c = IF column > at THEN column - 1 ELSE column
      BY <1>2, <1>9, <2>1 DEF AllColumns, HeldColumn
    <3>2. c \in Int /\ (column > Len(s) => c - Len(t) = column - Len(s))
      BY <1>4, <1>6, <3>1
    <3>3. column <= Len(s) => c \in 1 .. Len(t) /\ t[c] = s[column]
      BY <1>4, <1>6, <3>1
    <3>4. \A n : ItemOf(t, Id(t), n, c) = ItemOf(s, Id(s), n, column) /\ c \in 1 .. Len(t) + Len(m_extraHeaders)
      <4>1. s \in Seq(ColumnIds) /\ t \in Seq(ColumnIds) /\ column \in 1 .. Len(s) + Len(m_extraHeaders)
        BY <1>4, <1>6, <3>1
      <4> QED
        BY <3>2, <3>3, <4>1, ItemMoves
    <3> QED
      BY <1>2, <1>8, <1>9, <3>4 DEF Item
  <2> QED
    BY <1>3, <1>8, <2>1, HeldShift
<1>11. HeardInv'
  <2>1. /\ drawn' = IF attached THEN Seqs!RemoveAt(drawn, at) ELSE drawn
        /\ marksMoved' = (marksMoved \/ sortColumn > 0)
        /\ attached' = attached /\ sortColumn' = sortColumn /\ sortOrder' = sortOrder
    BY <1>1 DEF RemoveHeader, ColumnsChanged
  <2>2. /\ attached \in BOOLEAN /\ sortColumn \in Nat /\ sortOrder \in Orders /\ marksMoved \in BOOLEAN
        /\ drawn \in Seq(DrawnRows) /\ (~attached => drawn = <<>>)
        /\ (attached => Shown(drawn, Headers, sortColumn, sortOrder, marksMoved))
        /\ headersMissed = {}
    BY <1>3, <1>8, HeardPlain
  <2>3. PICK h, h2 : h = Plain(s, texts) /\ h2 = Plain(t, texts)
    OBVIOUS
  <2>4. /\ h \in Seq(Texts) /\ Len(h) = Len(s) + Len(m_extraHeaders)
        /\ h2 \in Seq(Texts) /\ Len(h2) = Len(t) + Len(m_extraHeaders)
    BY <1>4, <1>5, <1>6, <2>3, PlainIs
  <2>5. /\ Len(h2) = Len(h) - 1 /\ at <= Len(h)
        /\ \A i \in 1 .. Len(h) - 1 : h2[i] = h[IF i < at THEN i ELSE i + 1]
    BY <1>4, <1>6, <2>3, <2>4
  <2>6. ASSUME attached
        PROVE  Shown(drawn', h2, sortColumn, sortOrder, marksMoved \/ sortColumn > 0)
    <3>1. PICK d, column, order, moved : d = drawn /\ column = sortColumn /\ order = sortOrder /\ moved = marksMoved
      OBVIOUS
    <3>2. Shown(d, h, column, order, moved) /\ column \in Nat /\ order \in Orders /\ moved \in BOOLEAN
      BY <1>9, <2>2, <2>3, <2>6, <3>1
    <3>3. d \in Seq(DrawnRows) /\ Len(d) = Len(h)
      BY <3>2 DEF Shown
    <3>4. PICK d2 : d2 = Seqs!RemoveAt(d, at)
      OBVIOUS
    <3>5. at <= Len(d)
      BY <2>5, <3>3
    <3>6. /\ d2 \in Seq(DrawnRows) /\ Len(d2) = Len(d) - 1
          /\ \A k \in 1 .. Len(d) - 1 : d2[k] = IF k < at THEN d[k] ELSE d[k + 1]
      <4>1. at \in Int /\ 1 <= at
        BY <1>4
      <4> QED
        BY <3>3, <3>4, <3>5, <4>1, RemoveAtIs
    <3>7. ASSUME NEW i \in 1 .. Len(h2)
          PROVE  \E j \in 1 .. Len(h) : h2[i] = h[j] /\ d2[i] = d[j]
      <4>1. PICK j : j = IF i < at THEN i ELSE i + 1
        OBVIOUS
      <4>2. Len(h) \in Nat /\ i \in 1 .. Len(h) - 1 /\ j \in 1 .. Len(h)
        BY <1>4, <2>4, <2>5, <4>1
      <4>3. h2[i] = h[j] /\ d2[i] = d[j]
        BY <2>5, <3>3, <3>6, <4>1, <4>2
      <4> QED
        BY <4>2, <4>3
    <3>8. Len(d2) = Len(h2)
      BY <2>5, <3>3, <3>6
    <3>9. Shown(d2, h2, column, order, moved \/ column > 0)
      <4>1. h \in Seq(Texts) /\ h2 \in Seq(Texts) /\ d2 \in Seq(DrawnRows) /\ Len(d2) = Len(h2)
        BY <2>4, <3>6, <3>8
      <4>2. TakenFrom(h, d, h2, d2)
        BY <3>7 DEF TakenFrom
      <4> QED
        BY <3>2, <4>1, <4>2, DrawnTaken
    <3> QED
      BY <2>1, <2>6, <3>1, <3>4, <3>9
  <2>7. attached => drawn' \in Seq(DrawnRows)
    BY <2>6 DEF Shown
  <2>8. attached' => Shown(drawn', Headers', sortColumn', sortOrder', marksMoved')
    <3>1. attached => Shown(drawn', Headers', sortColumn', sortOrder', marksMoved')
      BY <1>8, <2>1, <2>3, <2>6
    <3> QED
      BY <2>1, <3>1
  <2>9. headersMissed' = {} /\ marksMoved' \in BOOLEAN
    BY <1>1, <2>1, <2>2 DEF InsertHeader, RemoveHeader, MoveHeader, ColumnsChanged
  <2> QED
    BY <2>1, <2>2, <2>7, <2>8, <2>9, HeardShown
<1> QED
  BY <1>8, <1>10, <1>11 DEF ColInv

LEMMA MoveColumnKeeps ==
    ASSUME ColInv, MoveColumn
    PROVE  ColInv'
<1>1. PICK from \in DOMAIN sourceColumns, to \in DOMAIN sourceColumns :
          /\ from # to
          /\ ColumnsBecome(Moved(sourceColumns, from, to)) /\ MoveHeader(from, to)
          /\ LET left == IF HeldColumn > from THEN HeldColumn - 1 ELSE HeldColumn
             IN  Shift(IF HeldColumn \in {0, from} THEN IF HeldColumn = 0 THEN 0 ELSE to
                       ELSE IF left >= to THEN left + 1 ELSE left)
  BY DEF MoveColumn, Moved
<1> DEFINE left == IF HeldColumn > from THEN HeldColumn - 1 ELSE HeldColumn
<1>2. PICK s, t, c : /\ s = sourceColumns /\ t = Moved(sourceColumns, from, to)
                     /\ c = IF HeldColumn \in {0, from} THEN IF HeldColumn = 0 THEN 0 ELSE to
                            ELSE IF left >= to THEN left + 1 ELSE left
  OBVIOUS
<1>3. /\ ColTypes /\ HeldInv /\ HeardInv /\ Shift(c) /\ ColumnsBecome(t)
      /\ UNCHANGED <<sourceRows, headerText, rearranges, phase>>
  <2>1. Shift(c) /\ ColumnsBecome(t)
    BY <1>1, <1>2
  <2> HIDE DEF left
  <2> QED
    BY <2>1 DEF ColInv, Shift
<1>4. /\ s \in Seq(ColumnIds) /\ Seqs!IsInjective(s) /\ s # <<>> /\ headerText \in [ColumnIds -> Texts]
      /\ Len(s) \in Nat /\ Len(m_extraHeaders) \in Nat
      /\ from \in DOMAIN s /\ to \in DOMAIN s /\ t = Moved(s, from, to)
      /\ from \in Int /\ 1 <= from /\ from <= Len(s) /\ to \in Int /\ 1 <= to /\ to <= Len(s)
  BY <1>1, <1>2, <1>3, ColumnsAssumption DEF ColTypes
<1>5. PICK texts : texts = headerText
  OBVIOUS
<1>6. /\ t \in Seq(ColumnIds) /\ Seqs!IsInjective(t) /\ Len(t) = Len(s)
      /\ \A i \in 1 .. Len(s) : MovedTo(from, to, i) \in 1 .. Len(s) /\ t[MovedTo(from, to, i)] = s[i]
      /\ \A i \in 1 .. Len(s) + Len(m_extraHeaders) : Plain(t, texts)[i] = Plain(s, texts)[MovedFrom(from, to, i)]
  <2>1. s \in Seq(ColumnIds) /\ Seqs!IsInjective(s) /\ from \in DOMAIN s /\ to \in DOMAIN s
    BY <1>4
  <2>2. texts \in [ColumnIds -> Texts] /\ t = Moved(s, from, to)
    BY <1>4, <1>5
  <2> QED
    BY <2>1, <2>2, MovedColumn
<1>7. t # <<>>
  BY <1>4, <1>6
<1>8. /\ ColTypes' /\ m_sourceColumns' = Id(t) /\ sourceColumns' = t /\ ~rearranges /\ phase = "idle"
      /\ Headers' = Plain(t, texts) /\ Len(m_sourceColumns') = Len(t)
  BY <1>3, <1>5, <1>6, <1>7, BecomeKeeps
<1>9. m_sourceColumns = Id(s) /\ Headers = Plain(s, texts) /\ Width = Len(s)
  BY <1>2, <1>3, <1>5, <1>8, PlainHeaders
<1>10. HeldInv'
  <2>1. ASSUME NEW column \in AllColumns, held # NoIndex, held.column = column, c # 0
        PROVE  /\ c \in 1 .. Len(m_sourceColumns') + Len(m_extraHeaders)
               /\ \A n : ItemOf(sourceColumns', m_sourceColumns', n, c) = Item(n, column)
    <3>1. column \in 1 .. Len(s) + Len(m_extraHeaders) /\ c = MovedTo(from, to, column)
      <4>1. column \in 1 .. Len(s) + Len(m_extraHeaders) /\ HeldColumn = column
        BY <1>9, <2>1 DEF AllColumns, HeldColumn
      <4>2. column # 0
        BY <4>1
      <4> QED
        BY <1>2, <4>1, <4>2 DEF MovedTo
    <3>2. c \in Int /\ (column > Len(s) => c - Len(t) = column - Len(s))
      BY <1>4, <1>6, <3>1 DEF MovedTo
    <3>3. column <= Len(s) => c \in 1 .. Len(t) /\ t[c] = s[column]
      <4>1. column <= Len(s) => column \in 1 .. Len(s)
        BY <1>4, <3>1
      <4> QED
        BY <1>6, <3>1, <4>1
    <3>4. \A n : ItemOf(t, Id(t), n, c) = ItemOf(s, Id(s), n, column) /\ c \in 1 .. Len(t) + Len(m_extraHeaders)
      <4>1. s \in Seq(ColumnIds) /\ t \in Seq(ColumnIds) /\ column \in 1 .. Len(s) + Len(m_extraHeaders)
        BY <1>4, <1>6, <3>1
      <4> QED
        BY <3>2, <3>3, <4>1, ItemMoves
    <3> QED
      BY <1>2, <1>8, <1>9, <3>4 DEF Item
  <2> QED
    BY <1>3, <1>8, <2>1, HeldShift
<1>11. HeardInv'
  <2>1. /\ drawn' = IF attached THEN Moved(drawn, from, to) ELSE drawn
        /\ marksMoved' = (marksMoved \/ sortColumn > 0)
        /\ attached' = attached /\ sortColumn' = sortColumn /\ sortOrder' = sortOrder
    BY <1>1 DEF MoveHeader, ColumnsChanged, Moved
  <2>2. /\ attached \in BOOLEAN /\ sortColumn \in Nat /\ sortOrder \in Orders /\ marksMoved \in BOOLEAN
        /\ drawn \in Seq(DrawnRows) /\ (~attached => drawn = <<>>)
        /\ (attached => Shown(drawn, Headers, sortColumn, sortOrder, marksMoved))
        /\ headersMissed = {}
    BY <1>3, <1>8, HeardPlain
  <2>3. PICK h, h2 : h = Plain(s, texts) /\ h2 = Plain(t, texts)
    OBVIOUS
  <2>4. /\ h \in Seq(Texts) /\ Len(h) = Len(s) + Len(m_extraHeaders)
        /\ h2 \in Seq(Texts) /\ Len(h2) = Len(t) + Len(m_extraHeaders)
    BY <1>4, <1>5, <1>6, <2>3, PlainIs
  <2>5. /\ Len(h2) = Len(h) /\ from <= Len(h) /\ to <= Len(h) /\ Len(h) \in Nat
        /\ \A i \in 1 .. Len(h) : h2[i] = h[MovedFrom(from, to, i)]
    BY <1>4, <1>6, <2>3, <2>4
  <2>6. ASSUME attached
        PROVE  Shown(drawn', h2, sortColumn, sortOrder, marksMoved \/ sortColumn > 0)
    <3>1. PICK d, column, order, moved : d = drawn /\ column = sortColumn /\ order = sortOrder /\ moved = marksMoved
      OBVIOUS
    <3>2. Shown(d, h, column, order, moved) /\ column \in Nat /\ order \in Orders /\ moved \in BOOLEAN
      BY <1>9, <2>2, <2>3, <2>6, <3>1
    <3>3. d \in Seq(DrawnRows) /\ Len(d) = Len(h)
      BY <3>2 DEF Shown
    <3>4. PICK d2 : d2 = Moved(d, from, to)
      OBVIOUS
    <3>5. from <= Len(d) /\ to <= Len(d)
      BY <2>5, <3>3
    <3>6. /\ d2 \in Seq(DrawnRows) /\ Len(d2) = Len(d)
          /\ \A k \in 1 .. Len(d) : d2[k] = d[MovedFrom(from, to, k)]
      <4>1. from \in Int /\ to \in Int /\ 1 <= from /\ 1 <= to
        BY <1>4
      <4> QED
        BY <3>3, <3>4, <3>5, <4>1, MovedList
    <3>7. ASSUME NEW i \in 1 .. Len(h2)
          PROVE  \E j \in 1 .. Len(h) : h2[i] = h[j] /\ d2[i] = d[j]
      <4>1. from \in 1 .. Len(h) /\ to \in 1 .. Len(h) /\ i \in 1 .. Len(h)
        BY <1>4, <2>5
      <4>2. MovedFrom(from, to, i) \in 1 .. Len(h)
        BY <2>5, <4>1, MovesBothWays
      <4> QED
        BY <2>5, <3>3, <3>6, <4>1, <4>2
    <3>8. Len(d2) = Len(h2)
      BY <2>5, <3>3, <3>6
    <3>9. Shown(d2, h2, column, order, moved \/ column > 0)
      <4>1. h \in Seq(Texts) /\ h2 \in Seq(Texts) /\ d2 \in Seq(DrawnRows) /\ Len(d2) = Len(h2)
        BY <2>4, <3>6, <3>8
      <4>2. TakenFrom(h, d, h2, d2)
        BY <3>7 DEF TakenFrom
      <4> QED
        BY <3>2, <4>1, <4>2, DrawnTaken
    <3> QED
      BY <2>1, <2>6, <3>1, <3>4, <3>9
  <2>7. attached => drawn' \in Seq(DrawnRows)
    BY <2>6 DEF Shown
  <2>8. attached' => Shown(drawn', Headers', sortColumn', sortOrder', marksMoved')
    <3>1. attached => Shown(drawn', Headers', sortColumn', sortOrder', marksMoved')
      BY <1>8, <2>1, <2>3, <2>6
    <3> QED
      BY <2>1, <3>1
  <2>9. headersMissed' = {} /\ marksMoved' \in BOOLEAN
    BY <1>1, <2>1, <2>2 DEF InsertHeader, RemoveHeader, MoveHeader, ColumnsChanged
  <2> QED
    BY <2>1, <2>2, <2>7, <2>8, <2>9, HeardShown
<1> QED
  BY <1>8, <1>10, <1>11 DEF ColInv
----------------------------------------------------------------------------
(* The steps that reset the headers or draw some of them anew.              *)

LEMMA HeadersReset ==
    ASSUME HeardInv, NEW texts \in Seq(Texts), ResetHeaders(texts), Headers' = texts
    PROVE  HeardInv'
<1>1. /\ attached \in BOOLEAN /\ sortColumn \in Nat /\ sortOrder \in Orders /\ marksMoved \in BOOLEAN
      /\ drawn \in Seq(DrawnRows) /\ (~attached => drawn = <<>>)
  BY DEF HeardInv
<1>2. /\ drawn' = IF attached THEN RowsOf(texts) ELSE drawn
      /\ marksMoved' = FALSE /\ attached' = attached /\ sortColumn' = sortColumn /\ sortOrder' = sortOrder
      /\ headersMissed' = {}
  BY DEF ResetHeaders
<1>3. RowsOf(texts) \in Seq(DrawnRows) /\ Shown(RowsOf(texts), texts, sortColumn, sortOrder, FALSE)
  BY <1>1, RowsOfIs
<1>4. attached' => Shown(drawn', Headers', sortColumn', sortOrder', marksMoved')
  BY <1>1, <1>2, <1>3
<1>5. drawn' \in Seq(DrawnRows) /\ (~attached' => drawn' = <<>>)
  BY <1>1, <1>2, <1>3
<1> QED
  BY <1>1, <1>2, <1>4, <1>5, HeardShown

LEMMA SetSourceColumnsKeeps ==
    ASSUME ColInv, SetSourceColumns
    PROVE  ColInv'
<1>1. /\ rearranges /\ phase \in {"idle", "resetting", "reset"}
      /\ IF m_resetting THEN UNCHANGED <<extraVars, heldItem, headerVars>>
         ELSE Drop /\ ResetHeaders(HeadersOf(sourceColumns, m_sourceColumns', headerText))
      /\ UNCHANGED <<sourceRows, sourceColumns, headerText, rearranges, client, phase, m_resetting>>
      /\ ColTypes /\ HeldInv /\ HeardInv
  BY DEF SetSourceColumns, setSourceColumns, sourceVars, tableVars, ColInv
<1>2. PICK columns \in Arrangements(sourceColumns) : m_sourceColumns' = columns
  BY DEF SetSourceColumns, setSourceColumns
<1>3. columns \in Seq(DOMAIN sourceColumns) /\ Seqs!IsInjective(columns) /\ columns # <<>>
  <2>1. PICK n \in 1 .. Len(sourceColumns) : columns \in [1 .. n -> DOMAIN sourceColumns] /\ Seqs!IsInjective(columns)
    BY <1>1, <1>2 DEF Arrangements
  <2>2. n \in Nat /\ n >= 1
    OBVIOUS
  <2>3. columns \in Seq(DOMAIN sourceColumns) /\ Len(columns) = n
    BY <2>1, <2>2
  <2> QED
    BY <2>1, <2>2, <2>3
<1>4. ColTypes'
  BY <1>1, <1>2, <1>3 DEF ColTypes
<1>5. CASE m_resetting
  <2>1. phase \in Resetting /\ phase' \in Resetting /\ UNCHANGED headerVars
    BY <1>1, <1>5 DEF ColTypes, Resetting
  <2>2. HeldInv'
    BY <2>1 DEF HeldInv
  <2>3. HeardInv'
    BY <1>1, <2>1, HeardInReset
  <2> QED
    BY <1>4, <2>2, <2>3 DEF ColInv
<1>6. CASE ~m_resetting
  <2>1. phase' \notin Kept /\ held' = NoIndex
    BY <1>1, <1>6 DEF Drop, Kept
  <2>2. HeldInv'
    BY <2>1, HeldNothing
  <2>3. PICK texts : texts = HeadersOf(sourceColumns, m_sourceColumns', headerText)
    OBVIOUS
  <2>4. Headers' = texts
    BY <1>1, <2>3 DEF Headers, HeadersOf
  <2>5. texts \in Seq(Texts)
    <3>1. PICK s, h : s = sourceColumns /\ h = headerText
      OBVIOUS
    <3>2. s \in Seq(ColumnIds) /\ h \in [ColumnIds -> Texts] /\ columns \in Seq(DOMAIN s)
      BY <1>1, <1>3, <3>1 DEF ColTypes
    <3>3. HeadersOf(s, columns, h) \in Seq(Texts)
      BY <3>2, HeadersAre
    <3> QED
      BY <1>2, <2>3, <3>1, <3>3
  <2>6. ResetHeaders(texts)
    BY <1>1, <1>6, <2>3
  <2>7. HeardInv'
    BY <1>1, <2>4, <2>5, <2>6, HeadersReset
  <2> QED
    BY <1>4, <2>2, <2>7 DEF ColInv
<1> QED
  BY <1>5, <1>6

LEMMA ResetBeginsKeeps ==
    ASSUME ColInv, ResetBegins
    PROVE  ColInv'
<1>1. /\ phase' = "resetting" /\ m_resetting' = TRUE
      /\ UNCHANGED <<sourceRows, sourceColumns, m_sourceColumns, headerText, rearranges, headerVars>>
      /\ ColTypes /\ HeardInv
  BY DEF ResetBegins, SourceAboutToBeReset, sourceVars, tableVars, ColInv
<1>2. ColTypes' /\ phase' \in Resetting
  BY <1>1 DEF ColTypes, Phases, Resetting
<1>3. HeldInv' /\ HeardInv'
  BY <1>1, <1>2, HeardFrame DEF HeldInv
<1> QED
  BY <1>2, <1>3 DEF ColInv

LEMMA SourceChangesKeeps ==
    ASSUME ColInv, SourceChanges
    PROVE  ColInv'
<1>1. /\ phase = "resetting" /\ phase' = "reset" /\ UNCHANGED <<m_resetting, headerVars, sourceRows, rearranges>>
      /\ m_sourceColumns' \in IF rearranges THEN {m_sourceColumns} ELSE {[i \in DOMAIN sourceColumns' |-> i]}
      /\ Seqs!ToSet(m_sourceColumns') \subseteq DOMAIN sourceColumns'
      /\ headerText' \in IF client = "headers" THEN [ColumnIds -> Texts] ELSE {headerText}
      /\ ColTypes /\ HeardInv
  BY DEF SourceChanges, ColInv
<1>2. PICK S \in SUBSET ColumnIds : S # {} /\ sourceColumns' \in Seqs!SetToSeqs(S)
  BY DEF SourceChanges
<1>3. PICK t : t = sourceColumns'
  OBVIOUS
<1>4. t \in Seq(ColumnIds) /\ Seqs!IsInjective(t) /\ t # <<>>
  <2>1. IsFiniteSet(S)
    BY ColumnsAssumption, FS_Subset
  <2>2. t \in Seq(S) /\ Seqs!IsInjective(t) /\ t # <<>>
    BY <1>2, <1>3, <2>1, ListsHaveAll
  <2> QED
    BY <1>2, <2>2
<1>5. headerText' \in [ColumnIds -> Texts]
  BY <1>1 DEF ColTypes
<1>6. /\ m_sourceColumns' \in Seq(DOMAIN t) /\ Seqs!IsInjective(m_sourceColumns') /\ m_sourceColumns' # <<>>
      /\ (~rearranges => m_sourceColumns' = [i \in DOMAIN t |-> i])
  <2>1. CASE rearranges
    <3>1. m_sourceColumns' = m_sourceColumns
      BY <1>1, <2>1
    <3>2. PICK m : m = m_sourceColumns
      OBVIOUS
    <3>3. m \in Seq(DOMAIN sourceColumns) /\ Seqs!IsInjective(m) /\ m # <<>>
      BY <1>1, <3>2 DEF ColTypes
    <3>4. \A i \in DOMAIN m : m[i] \in DOMAIN t
      BY <1>1, <1>3, <3>1, <3>2 DEF Seqs!ToSet
    <3>5. m \in Seq(DOMAIN t)
      <4>1. DOMAIN m = 1 .. Len(m) /\ Len(m) \in Nat /\ m = [i \in 1 .. Len(m) |-> m[i]]
        BY <3>3
      <4>2. PICK n \in Nat : n = Len(m)
        BY <4>1
      <4>3. m \in [1 .. n -> DOMAIN t]
        BY <3>4, <4>1, <4>2
      <4> QED
        BY <4>3
    <3> QED
      BY <2>1, <3>1, <3>2, <3>3, <3>5
  <2>2. CASE ~rearranges
    <3>1. m_sourceColumns' = Id(t)
      BY <1>1, <1>3, <2>2 DEF Id
    <3>2. PICK texts : texts = headerText'
      OBVIOUS
    <3>3. Id(t) \in Seq(DOMAIN t) /\ Seqs!IsInjective(Id(t)) /\ Id(t) # <<>>
      BY <1>4, <1>5, <3>2, PlainIs
    <3> QED
      BY <3>1, <3>3 DEF Id
  <2> QED
    BY <2>1, <2>2
<1>7. ColTypes'
  <2>1. sourceRows' \in Orderings /\ rearranges' = rearranges /\ rearranges \in BOOLEAN /\ m_resetting' = TRUE
    BY <1>1 DEF ColTypes
  <2> QED
    BY <1>1, <1>3, <1>4, <1>5, <1>6, <2>1 DEF ColTypes, Phases
<1>8. HeldInv' /\ HeardInv'
  <2>1. phase' \in Resetting
    BY <1>1 DEF Resetting
  <2> QED
    BY <1>1, <2>1, HeardInReset DEF HeldInv
<1> QED
  BY <1>7, <1>8 DEF ColInv

LEMMA ResetEndsKeeps ==
    ASSUME ColInv, ResetEnds
    PROVE  ColInv'
<1>1. /\ phase' = "idle" /\ m_resetting' = FALSE /\ held' = NoIndex /\ ResetHeaders(Headers)
      /\ UNCHANGED <<sourceRows, sourceColumns, m_sourceColumns, headerText, rearranges>>
      /\ ColTypes /\ HeardInv
  BY DEF ResetEnds, SourceReset, Drop, sourceVars, tableVars, ColInv
<1>2. ColTypes'
  <2>1. phase' \in Phases /\ phase' \notin {"resetting", "reset"}
    BY <1>1 DEF Phases
  <2>2. m_resetting' = (phase' \in {"resetting", "reset"})
    <3>1. (phase' \in {"resetting", "reset"}) = FALSE
      BY <2>1
    <3> QED
      BY <1>1, <3>1, Zenon
  <2> QED
    BY <1>1, <2>1, <2>2 DEF ColTypes
<1>3. HeldInv'
  BY <1>1, HeldNothing DEF Kept
<1>4. PICK texts : texts = Headers
  OBVIOUS
<1>5. texts \in Seq(Texts) /\ Headers' = texts
  <2>1. Headers' = Headers
    BY <1>1 DEF Headers, HeadersOf
  <2> QED
    BY <1>1, <1>4, <2>1, HeadersType
<1>6. HeardInv'
  BY <1>1, <1>4, <1>5, HeadersReset
<1> QED
  BY <1>2, <1>3, <1>6 DEF ColInv

\* Some rows drawn anew, while the columns are what they are.
LEMMA RedrawKeeps ==
    ASSUME HeardInv, phase \notin Resetting, NEW texts \in Seq(Texts), texts = Headers, NEW now \in Seq(Texts),
           Len(now) = Len(texts), NEW S, Redraw(S, now), Headers' = now,
           NEW stale, stale = StaleRows, NEW staleNow, staleNow = StaleRows', ~rearranges' => headersMissed' = {},
           sortColumn' \in Nat, sortOrder' \in Orders, attached' = attached, marksMoved' = marksMoved,
           \A i \in 1 .. Len(texts) : i \notin S =>
              /\ i \in staleNow \/ (i \notin stale /\ now[i] = texts[i])
              /\ RowData(now, i, sortColumn', sortOrder').mark = RowData(texts, i, sortColumn, sortOrder).mark
    PROVE  HeardInv'
<1>1. /\ attached \in BOOLEAN /\ marksMoved \in BOOLEAN /\ drawn \in Seq(DrawnRows) /\ (~attached => drawn = <<>>)
      /\ (attached => ShownBut(drawn, texts, stale, sortColumn, sortOrder, marksMoved))
  BY DEF HeardInv
<1>2. PICK rows, column, order, moved, mark, kind :
          /\ rows = drawn /\ column = sortColumn /\ order = sortOrder /\ moved = marksMoved
          /\ mark = sortColumn' /\ kind = sortOrder'
  OBVIOUS
<1> DEFINE anew == Anew(rows, S, now, mark, kind)
<1>3. drawn' = anew
  BY <1>2 DEF Redraw, Anew
<1>4. ASSUME attached PROVE anew \in Seq(DrawnRows) /\ ShownBut(anew, now, staleNow, mark, kind, moved)
  <2>1. ShownBut(rows, texts, stale, column, order, moved) /\ kind \in Orders
    BY <1>1, <1>2, <1>4
  <2>2. \A i \in 1 .. Len(texts) : i \notin S =>
           /\ i \in staleNow \/ (i \notin stale /\ now[i] = texts[i])
           /\ RowData(now, i, mark, kind).mark = RowData(texts, i, column, order).mark
    BY <1>2
  <2> QED
    BY <2>1, <2>2, Redrawn
<1>5. ASSUME ~attached PROVE anew = <<>>
  <2>1. rows = <<>>
    BY <1>1, <1>2, <1>5
  <2>2. DOMAIN rows = {}
    BY <2>1
  <2>3. anew \in [1 .. 0 -> DrawnRows]
    BY <2>2 DEF Anew
  <2> HIDE DEF anew
  <2> QED
    BY <2>3
<1> HIDE DEF anew
<1>6. drawn' \in Seq(DrawnRows) /\ (~attached' => drawn' = <<>>)
  <2>1. attached' = attached
    OBVIOUS
  <2>2. <<>> \in Seq(DrawnRows)
    OBVIOUS
  <2> QED
    BY <1>1, <1>3, <1>4, <1>5, <2>1, <2>2
<1>7. attached' => ShownBut(drawn', Headers', StaleRows', sortColumn', sortOrder', marksMoved')
  <2>1. attached => ShownBut(drawn', Headers', StaleRows', sortColumn', sortOrder', marksMoved')
    BY <1>2, <1>3, <1>4
  <2> QED
    BY <2>1
<1> QED
  BY <1>1, <1>6, <1>7 DEF HeardInv

LEMMA RenameColumnKeeps ==
    ASSUME ColInv, RenameColumn
    PROVE  ColInv'
<1>1. PICK at \in DOMAIN sourceColumns, text \in Texts :
          /\ phase = "idle" /\ headerText' = [headerText EXCEPT ![sourceColumns[at]] = text]
          /\ HeaderDataChanged(at, HeadersOf(sourceColumns, m_sourceColumns, headerText'),
                 (headersMissed \cup {sourceColumns[at]})
                     \ {sourceColumns[m_sourceColumns[i]] : i \in DOMAIN m_sourceColumns \cap {at}})
  BY DEF RenameColumn
<1>2. /\ UNCHANGED <<sourceRows, sourceColumns, m_sourceColumns, m_resetting, rearranges, phase, extraVars, heldItem>>
      /\ ColTypes /\ HeldInv /\ HeardInv
  BY DEF RenameColumn, rearrangeVars, ColInv
<1>3. PICK s, m, h, h2, now, texts :
          /\ s = sourceColumns /\ m = m_sourceColumns /\ h = headerText /\ h2 = headerText'
          /\ texts = HeadersOf(s, m, h) /\ now = HeadersOf(s, m, h2)
  OBVIOUS
<1>4. /\ s \in Seq(ColumnIds) /\ Seqs!IsInjective(s) /\ h \in [ColumnIds -> Texts] /\ h2 \in [ColumnIds -> Texts]
      /\ m \in Seq(DOMAIN s) /\ Seqs!IsInjective(m) /\ (~rearranges => m = Id(s))
      /\ at \in DOMAIN s /\ h2 = [h EXCEPT ![s[at]] = text]
  BY <1>1, <1>2, <1>3 DEF ColTypes, Id
<1>5. texts = Headers /\ now = Headers' /\ now = HeadersOf(sourceColumns, m_sourceColumns, headerText')
  BY <1>2, <1>3 DEF Headers, HeadersOf
<1>6. ColTypes'
  BY <1>2, <1>3, <1>4 DEF ColTypes
<1>7. HeldInv'
  <2>1. /\ extraVars' = extraVars /\ heldItem' = heldItem /\ sourceRows' = sourceRows
        /\ sourceColumns' = sourceColumns /\ m_sourceColumns' = m_sourceColumns
        /\ phase \notin Resetting /\ phase' \notin Resetting /\ phase' \notin Kept /\ phase # "relaid"
    BY <1>1, <1>2 DEF Resetting, Kept
  <2> QED
    BY <1>2, <2>1, HeldFrame
<1>8. phase \notin Resetting
  BY <1>1 DEF Resetting
<1>9. /\ Len(m) \in Nat /\ Len(m_extraHeaders) \in Nat /\ DOMAIN m = 1 .. Len(m)
      /\ texts \in Seq(Texts) /\ Len(texts) = Len(m) + Len(m_extraHeaders)
      /\ now \in Seq(Texts) /\ Len(now) = Len(m) + Len(m_extraHeaders)
      /\ \A i \in 1 .. Len(m) + Len(m_extraHeaders) :
            texts[i] = IF i <= Len(m) THEN h[s[m[i]]] ELSE m_extraHeaders[i - Len(m)]
      /\ \A i \in 1 .. Len(m) + Len(m_extraHeaders) :
            now[i] = IF i <= Len(m) THEN h2[s[m[i]]] ELSE m_extraHeaders[i - Len(m)]
  <2>1. Len(m) \in Nat /\ Len(m_extraHeaders) \in Nat /\ DOMAIN m = 1 .. Len(m)
    BY <1>4, ColumnsAssumption
  <2>2. /\ texts \in Seq(Texts) /\ Len(texts) = Len(m) + Len(m_extraHeaders)
        /\ \A i \in 1 .. Len(m) + Len(m_extraHeaders) :
              texts[i] = IF i <= Len(m) THEN h[s[m[i]]] ELSE m_extraHeaders[i - Len(m)]
    <3>1. s \in Seq(ColumnIds) /\ m \in Seq(DOMAIN s) /\ h \in [ColumnIds -> Texts] /\ texts = HeadersOf(s, m, h)
      BY <1>3, <1>4
    <3> QED
      BY <3>1, HeadersAre
  <2>3. /\ now \in Seq(Texts) /\ Len(now) = Len(m) + Len(m_extraHeaders)
        /\ \A i \in 1 .. Len(m) + Len(m_extraHeaders) :
              now[i] = IF i <= Len(m) THEN h2[s[m[i]]] ELSE m_extraHeaders[i - Len(m)]
    <3>1. s \in Seq(ColumnIds) /\ m \in Seq(DOMAIN s) /\ h2 \in [ColumnIds -> Texts] /\ now = HeadersOf(s, m, h2)
      BY <1>3, <1>4
    <3> QED
      BY <3>1, HeadersAre
  <2> QED
    BY <2>1, <2>2, <2>3
<1>10. PICK missed, missedNow : missed = headersMissed /\ missedNow = headersMissed'
  OBVIOUS
<1>11. /\ missedNow = (missed \cup {s[at]}) \ {s[m[i]] : i \in DOMAIN m \cap {at}}
       /\ UNCHANGED <<attached, sortColumn, sortOrder, marksMoved>>
  BY <1>1, <1>3, <1>10 DEF HeaderDataChanged
<1>12. PICK stale, staleNow : stale = StaleRows /\ staleNow = StaleRows'
  OBVIOUS
<1>13. /\ stale = {i \in DOMAIN m : s[m[i]] \in missed}
       /\ staleNow = {i \in DOMAIN m : s[m[i]] \in missedNow}
  BY <1>2, <1>3, <1>10, <1>12 DEF StaleRows
<1>14. ASSUME NEW i \in 1 .. Len(m) + Len(m_extraHeaders), i # at
       PROVE  i \in staleNow \/ (i \notin stale /\ now[i] = texts[i])
  <2>1. CASE i <= Len(m)
    <3>1. i \in DOMAIN m /\ m[i] \in DOMAIN s /\ s[m[i]] \in ColumnIds /\ s[at] \in ColumnIds
      BY <1>4, <1>9, <2>1
    <3>2. at \in DOMAIN m => s[m[at]] # s[m[i]]
      <4>1. at \in DOMAIN m => m[at] # m[i] /\ m[at] \in DOMAIN s
        BY <1>4, <1>14, <3>1 DEF Seqs!IsInjective
      <4> QED
        BY <1>4, <3>1, <4>1 DEF Seqs!IsInjective
    <3>3. s[m[i]] \in missed \/ s[m[i]] = s[at] => s[m[i]] \in missedNow
      BY <1>11, <3>1, <3>2
    <3>4. s[m[i]] # s[at] => now[i] = texts[i]
      BY <1>4, <1>9, <2>1, <3>1
    <3> QED
      BY <1>13, <3>1, <3>3, <3>4
  <2>2. CASE ~(i <= Len(m))
    <3>1. i \notin DOMAIN m
      BY <1>9, <2>2
    <3> QED
      BY <1>9, <1>13, <2>2, <3>1
  <2> QED
    BY <2>1, <2>2
<1>15. ~rearranges' => headersMissed' = {}
  <2> SUFFICES ASSUME ~rearranges PROVE missedNow = {}
    BY <1>2, <1>10
  <2>1. m = Id(s) /\ missed = {}
    BY <1>2, <1>4, <1>10 DEF HeardInv
  <2>2. at \in DOMAIN m /\ m[at] = at
    BY <1>4, <2>1, PlainIs DEF Id
  <2> QED
    BY <1>11, <2>1, <2>2
<1>16. HeardInv'
  <2>1. CASE attached
    <3>1. Redraw({at}, now)
      BY <1>1, <1>5, <2>1 DEF HeaderDataChanged
    <3>2. \A i \in 1 .. Len(texts) : i \notin {at} =>
             /\ i \in staleNow \/ (i \notin stale /\ now[i] = texts[i])
             /\ RowData(now, i, sortColumn', sortOrder').mark = RowData(texts, i, sortColumn, sortOrder).mark
      BY <1>9, <1>11, <1>14 DEF RowData
    <3>3. sortColumn' \in Nat /\ sortOrder' \in Orders
      BY <1>2, <1>11 DEF HeardInv
    <3> HIDE DEF Redraw
    <3> QED
      BY <1>2, <1>5, <1>8, <1>9, <1>11, <1>12, <1>15, <3>1, <3>2, <3>3, RedrawKeeps
  <2>2. CASE ~attached
    <3>1. drawn' = drawn
      BY <1>1, <2>2 DEF HeaderDataChanged
    <3> QED
      BY <1>2, <1>11, <1>15, <2>2, <3>1 DEF HeardInv
  <2> QED
    BY <2>1, <2>2
<1> QED
  BY <1>6, <1>7, <1>16 DEF ColInv

LEMMA MarkColumnKeeps ==
    ASSUME ColInv, MarkColumn
    PROVE  ColInv'
<1>1. PICK column \in 0 .. Width + Len(m_extraHeaders) :
          /\ sortColumn' = column /\ UNCHANGED <<attached, sortOrder, marksMoved, headersMissed>>
          /\ Redraw({sortColumn, column}, Headers)
  BY DEF MarkColumn, SetSortColumn
<1>2. /\ phase = "idle"
      /\ UNCHANGED <<sourceRows, sourceColumns, m_sourceColumns, m_resetting, headerText, rearranges, phase, extraVars, heldItem>>
      /\ ColTypes /\ HeldInv /\ HeardInv
  BY DEF MarkColumn, rearrangeVars, sourceVars, tableVars, ColInv
<1>3. PICK texts : texts = Headers
  OBVIOUS
<1>4. texts \in Seq(Texts) /\ Headers' = texts
  BY <1>2, <1>3, HeadersType DEF Headers, HeadersOf
<1>10. PICK stale : stale = StaleRows
  OBVIOUS
<1>11. stale = StaleRows' /\ (~rearranges' => headersMissed' = {})
  BY <1>1, <1>2, <1>10 DEF StaleRows, HeardInv
<1>5. \A i \in 1 .. Len(texts) : i \notin {sortColumn, column} =>
          /\ i \in stale \/ (i \notin stale /\ texts[i] = texts[i])
          /\ RowData(texts, i, sortColumn', sortOrder').mark = RowData(texts, i, sortColumn, sortOrder).mark
  BY <1>1 DEF RowData
<1>6. column \in Nat
  BY <1>2, Widths
<1>7. phase \notin Resetting /\ phase' \in Phases
  BY <1>2 DEF Resetting, Phases
<1>8. HeardInv'
  <2>1. sortColumn' \in Nat /\ sortOrder' \in Orders
    BY <1>1, <1>2, <1>6 DEF HeardInv
  <2>2. PICK S : S = {sortColumn, column}
    OBVIOUS
  <2>3. Redraw(S, texts)
    BY <1>1, <1>3, <2>2
  <2> QED
    BY <1>1, <1>2, <1>3, <1>4, <1>5, <1>7, <1>10, <1>11, <2>1, <2>2, <2>3, RedrawKeeps
<1>9. ColTypes' /\ HeldInv'
  BY <1>2, TableFrame
<1> QED
  BY <1>8, <1>9 DEF ColInv

LEMMA MarkOrderKeeps ==
    ASSUME ColInv, MarkOrder
    PROVE  ColInv'
<1>1. PICK order \in Orders :
          /\ sortOrder' = order /\ UNCHANGED <<attached, sortColumn, marksMoved, headersMissed>>
          /\ Redraw({sortColumn}, Headers)
  BY DEF MarkOrder, SetSortOrder
<1>2. /\ phase = "idle"
      /\ UNCHANGED <<sourceRows, sourceColumns, m_sourceColumns, m_resetting, headerText, rearranges, phase, extraVars, heldItem>>
      /\ ColTypes /\ HeldInv /\ HeardInv
  BY DEF MarkOrder, rearrangeVars, sourceVars, tableVars, ColInv
<1>3. PICK texts : texts = Headers
  OBVIOUS
<1>4. texts \in Seq(Texts) /\ Headers' = texts
  BY <1>2, <1>3, HeadersType DEF Headers, HeadersOf
<1>10. PICK stale : stale = StaleRows
  OBVIOUS
<1>11. stale = StaleRows' /\ (~rearranges' => headersMissed' = {})
  BY <1>1, <1>2, <1>10 DEF StaleRows, HeardInv
<1>5. \A i \in 1 .. Len(texts) : i \notin {sortColumn} =>
          /\ i \in stale \/ (i \notin stale /\ texts[i] = texts[i])
          /\ RowData(texts, i, sortColumn', sortOrder').mark = RowData(texts, i, sortColumn, sortOrder).mark
  BY <1>1 DEF RowData
<1>7. phase \notin Resetting /\ phase' \in Phases
  BY <1>2 DEF Resetting, Phases
<1>8. HeardInv'
  <2>1. sortColumn' \in Nat /\ sortOrder' \in Orders
    BY <1>1, <1>2 DEF HeardInv
  <2>2. PICK S : S = {sortColumn}
    OBVIOUS
  <2>3. Redraw(S, texts)
    BY <1>1, <1>3, <2>2
  <2> QED
    BY <1>1, <1>2, <1>3, <1>4, <1>5, <1>7, <1>10, <1>11, <2>1, <2>2, <2>3, RedrawKeeps
<1>9. ColTypes' /\ HeldInv'
  BY <1>2, TableFrame
<1> QED
  BY <1>8, <1>9 DEF ColInv

LEMMA AttachKeeps ==
    ASSUME ColInv, Attach
    PROVE  ColInv'
<1>1. /\ phase = "idle" /\ attached' = ~attached /\ drawn' = (IF attached THEN <<>> ELSE RowsOf(Headers))
      /\ marksMoved' = FALSE /\ headersMissed' = {} /\ UNCHANGED <<sortColumn, sortOrder>>
      /\ UNCHANGED <<sourceRows, sourceColumns, m_sourceColumns, m_resetting, headerText, rearranges, phase, extraVars, heldItem>>
      /\ ColTypes /\ HeldInv /\ HeardInv
  BY DEF Attach, SetSourceModel, rearrangeVars, sourceVars, tableVars, ColInv
<1>2. attached \in BOOLEAN /\ sortColumn \in Nat /\ sortOrder \in Orders
  BY <1>1 DEF HeardInv
<1>3. PICK texts : texts = Headers
  OBVIOUS
<1>4. texts \in Seq(Texts) /\ Headers' = texts
  BY <1>1, <1>3, HeadersType DEF Headers, HeadersOf
<1>5. RowsOf(texts) \in Seq(DrawnRows) /\ Shown(RowsOf(texts), texts, sortColumn, sortOrder, FALSE)
  BY <1>2, <1>4, RowsOfIs
<1>10. attached' \in BOOLEAN /\ sortColumn' \in Nat /\ sortOrder' \in Orders /\ marksMoved' \in BOOLEAN
  BY <1>1, <1>2
<1>6. ASSUME attached PROVE HeardInv'
  <2>1. drawn' = <<>>
    BY <1>1, <1>6, Zenon
  <2>2. ~attached'
    BY <1>1, <1>6, Zenon
  <2>3. <<>> \in Seq(DrawnRows)
    OBVIOUS
  <2>4. /\ ~attached' => drawn' = <<>>
        /\ attached' => Shown(drawn', Headers', sortColumn', sortOrder', marksMoved')
    BY <2>1, <2>2, Zenon
  <2>5. drawn' \in Seq(DrawnRows)
    BY <2>1, <2>3
  <2> QED
    BY <1>1, <1>10, <2>4, <2>5, HeardShown
<1>7. ASSUME ~attached PROVE HeardInv'
  <2>1. drawn' = RowsOf(texts) /\ attached' /\ marksMoved' = FALSE /\ sortColumn' = sortColumn /\ sortOrder' = sortOrder
    BY <1>1, <1>3, <1>7
  <2>2. Shown(drawn', Headers', sortColumn', sortOrder', marksMoved') /\ drawn' \in Seq(DrawnRows)
    BY <1>4, <1>5, <2>1
  <2>3. /\ ~attached' => drawn' = <<>>
        /\ attached' => Shown(drawn', Headers', sortColumn', sortOrder', marksMoved')
    BY <2>1, <2>2, Zenon
  <2> QED
    BY <1>1, <1>10, <2>2, <2>3, HeardShown
<1>8. phase \notin Resetting /\ phase' \in Phases
  BY <1>1 DEF Resetting, Phases
<1>9. ColTypes' /\ HeldInv'
  BY <1>1, TableFrame
<1> QED
  BY <1>6, <1>7, <1>9 DEF ColInv

----------------------------------------------------------------------------
\* There is an order for the rows of the source.
LEMMA OrderingExists == Orderings # {}
<1> DEFINE rows(q) == Seqs!SetToSeqs({n \in RowIds : Under[n] = q})
           f == [q \in Rows |-> CHOOSE s \in rows(q) : TRUE]
<1>1. ASSUME NEW q \in Rows PROVE \E s : s \in rows(q)
  <2> DEFINE S == {n \in RowIds : Under[n] = q}
             D == 1 .. Cardinality(S)
  <2>1. IsFiniteSet(S)
    BY ColumnsAssumption, FS_Subset
  <2>2. \E s : s \in Bijection(D, S)
    <3> HIDE DEF S
    <3>1. ExistsBijection(D, S)
      BY <2>1, FS_CardinalityType
    <3> QED
      BY <3>1 DEF ExistsBijection
  <2>3. PICK s : s \in Bijection(D, S)
    BY <2>2
  <2>4. s \in [D -> S] /\ \A i, j \in D : i # j => s[i] # s[j]
    BY <2>3 DEF Bijection, Injection, IsInjective
  <2>5. Seqs!Cardinality(S) = Cardinality(S)
    BY DEF Seqs!Cardinality, Cardinality
  <2>6. s \in Seqs!SetToSeqs(S)
    <3> HIDE DEF S
    <3> QED
      BY <2>4, <2>5 DEF Seqs!SetToSeqs
  <2> QED
    BY <2>6
<1>2. \A q \in Rows : f[q] \in rows(q)
  BY <1>1
<1>3. f \in [Rows -> UNION {rows(q) : q \in Rows}]
  BY <1>2
<1>4. DOMAIN f = Rows
  OBVIOUS
<1> HIDE DEF f
<1>5. f \in Orderings
  BY <1>2, <1>3, <1>4 DEF Orderings, Rows
<1> QED
  BY <1>5

LEMMA InitColInv ==
    ASSUME Init
    PROVE  ColInv
<1>1. sourceRows \in Orderings
  <2>1. (CHOOSE f \in Orderings : TRUE) \in Orderings
    BY OrderingExists
  <2> QED
    BY <2>1 DEF Init
<1>2. PICK S \in SUBSET ColumnIds : S # {} /\ sourceColumns \in Seqs!SetToSeqs(S)
  BY DEF Init
<1>3. PICK s : s = sourceColumns
  OBVIOUS
<1>4. s \in Seq(ColumnIds) /\ Seqs!IsInjective(s) /\ s # <<>>
  <2>1. IsFiniteSet(S)
    BY ColumnsAssumption, FS_Subset
  <2>2. s \in Seq(S) /\ Seqs!IsInjective(s) /\ s # <<>>
    BY <1>2, <1>3, <2>1, ListsHaveAll
  <2> QED
    BY <1>2, <2>2
<1>5. PICK h : h = headerText
  OBVIOUS
<1>6. h \in [ColumnIds -> Texts]
  <2>1. (CHOOSE t \in Texts : TRUE) \in Texts
    BY ColumnsAssumption
  <2> QED
    BY <1>5, <2>1 DEF Init
<1>7. m_sourceColumns \in Arrangements(s) /\ rearranges \in BOOLEAN /\ m_resetting = FALSE /\ phase = "idle" /\ held = NoIndex
  BY <1>3 DEF Init
<1>8. PICK m : m = m_sourceColumns
  OBVIOUS
<1>9. m \in Seq(DOMAIN s) /\ Seqs!IsInjective(m) /\ m # <<>> /\ (~rearranges => m = Id(s))
  <2>1. CASE rearranges
    <3>1. PICK n \in 1 .. Len(s) : m \in [1 .. n -> DOMAIN s] /\ Seqs!IsInjective(m)
      BY <1>7, <1>8, <2>1 DEF Arrangements
    <3>2. n \in Nat /\ n >= 1
      OBVIOUS
    <3>3. m \in Seq(DOMAIN s) /\ Len(m) = n
      BY <3>1, <3>2
    <3> QED
      BY <2>1, <3>1, <3>2, <3>3
  <2>2. CASE ~rearranges
    <3>1. m = Id(s)
      BY <1>7, <1>8, <2>2 DEF Arrangements, Id
    <3> QED
      BY <1>4, <1>6, <3>1, PlainIs
  <2> QED
    BY <2>1, <2>2
<1>10. ColTypes
  <2>1. phase \in Phases /\ phase \notin {"resetting", "reset"}
    BY <1>7 DEF Phases
  <2>2. m_resetting = (phase \in {"resetting", "reset"})
    <3>1. (phase \in {"resetting", "reset"}) = FALSE
      BY <2>1
    <3> QED
      BY <1>7, <3>1, Zenon
  <2> QED
    BY <1>1, <1>3, <1>4, <1>5, <1>6, <1>7, <1>8, <1>9, <2>1, <2>2 DEF ColTypes, Id
<1>11. HeldInv
  BY <1>7 DEF HeldInv, Kept
<1>12. HeardInv
  <2>1. attached = TRUE /\ sortColumn = 0 /\ sortOrder = (CHOOSE order \in Orders : TRUE) /\ marksMoved = FALSE
        /\ drawn = RowsOf(Headers) /\ headersMissed = {}
    BY DEF Init, HeadersInit
  <2>2. sortOrder \in Orders
    BY <2>1, OrdersAssumption
  <2>3. PICK texts : texts = Headers
    OBVIOUS
  <2>4. texts \in Seq(Texts)
    BY <1>10, <2>3, HeadersType
  <2>5. RowsOf(texts) \in Seq(DrawnRows) /\ Shown(RowsOf(texts), texts, sortColumn, sortOrder, FALSE)
    BY <2>2, <2>4, RowsOfIs
  <2>6. PICK rows, stale, column, order : rows = RowsOf(texts) /\ stale = StaleRows /\ column = sortColumn /\ order = sortOrder
    OBVIOUS
  <2>7. ShownBut(rows, texts, stale, column, order, FALSE)
    BY <2>5, <2>6, ShownIsShownBut
  <2> QED
    BY <2>1, <2>2, <2>3, <2>5, <2>6, <2>7 DEF HeardInv
<1> QED
  BY <1>10, <1>11, <1>12 DEF ColInv

\* The invariant, of which the theorems below take what they need: a persistent index of
\* the extra columns model is on the row and the column of the source that it was taken
\* on, or what the model keeps over a layout change leads there; and what a view has drawn
\* of the headers is what they are.
THEOREM ColInvAlways == Spec => []ColInv
<1>1. Init => ColInv
  BY InitColInv
<1>2. ColInv /\ [Next]_vars => ColInv'
  <2> SUFFICES ASSUME ColInv, [Next]_vars PROVE ColInv'
    OBVIOUS
  <2>1. CASE Next
    BY <2>1, HoldKeeps, LayoutAboutToBeChangedKeeps, KeepIndexesKeeps, RelayoutKeeps, LayoutChangedKeeps,
       InsertColumnKeeps, RemoveColumnKeeps, MoveColumnKeeps, RenameColumnKeeps, SetSourceColumnsKeeps,
       ResetBeginsKeeps, SourceChangesKeeps, ResetEndsKeeps, MarkColumnKeeps, MarkOrderKeeps, AttachKeeps DEF Next
  <2>2. CASE UNCHANGED vars
    <3>1. /\ sourceRows' = sourceRows /\ sourceColumns' = sourceColumns /\ m_sourceColumns' = m_sourceColumns
          /\ m_resetting' = m_resetting /\ headerText' = headerText /\ rearranges' = rearranges
          /\ phase' = phase /\ extraVars' = extraVars /\ heldItem' = heldItem
          /\ ColTypes /\ HeldInv /\ HeardInv
      BY <2>2 DEF vars, tableVars, rearrangeVars, extraVars, ColInv
    <3>2. ColTypes' /\ HeldInv'
      BY <3>1, TableFrame
    <3>3. UNCHANGED <<attached, sortColumn, sortOrder, drawn, marksMoved, headersMissed>>
      BY <2>2 DEF vars, headerVars
    <3>4. Headers' = Headers /\ StaleRows' = StaleRows
      BY <3>1, <3>3 DEF Headers, HeadersOf, StaleRows
    <3>5. HeardInv'
      BY <3>1, <3>3, <3>4 DEF HeardInv
    <3> QED
      BY <3>2, <3>5 DEF ColInv
  <2> QED
    BY <2>1, <2>2
<1> QED
  BY <1>1, <1>2, PTL DEF Spec

----------------------------------------------------------------------------
(* What follows from it.                                                    *)

\* A persistent index of the extra columns model stays on the row and the column it was
\* taken on, over layout changes and columns that come, go and move; and its parent(), of
\* which it is a child, leads back to it: PersistentIndexesFollow for every source.
THEOREM PersistentIndexesFollowAlways == Spec => []PersistentIndexesFollow
<1>1. ColInv => PersistentIndexesFollow
  <2> SUFFICES ASSUME ColInv, phase = "idle", held # NoIndex
               PROVE  /\ data(held) = heldItem
                      /\ index(held.row, held.column, parent(held)) = held
                      /\ hasChildren(parent(held)) /\ held.row <= rowCount(parent(held))
    BY DEF PersistentIndexesFollow
  <2>1. ColTypes /\ phase # "relaid" /\ phase \notin Resetting
    BY DEF ColInv, Resetting
  <2>2. PICK n \in RowIds, row \in Nat, column \in AllColumns : HeldAt(n, row, column)
    BY <2>1 DEF ColInv, HeldInv
  <2>3. PICK q \in Rows : q = Under[n]
    BY UnderAssumption DEF Rows
  <2>4. /\ held = Index(row, column, q) /\ heldItem = Item(n, column)
        /\ row \in DOMAIN sourceRows[q] /\ sourceRows[q][row] = n
    BY <2>1, <2>2, <2>3 DEF HeldAt
  <2>5. held.row = row /\ held.column = column
    BY <2>4, IndexFields
  <2>6. data(held) = heldItem
    BY <2>1, <2>4, DataIs
  <2>7. parent(held) = ParentOf(q) /\ index(row, column, ParentOf(q)) = held
    BY <2>1, <2>4, ParentIs, IndexIs
  <2>8. /\ sourceRowCount(ParentOf(q)) = Len(sourceRows[q]) /\ FirstColumn(ParentOf(q)) = ParentOf(q)
        /\ ~IsBeside(ParentOf(q)) /\ mapToSource(ParentOf(q)) = ParentOf(q)
        /\ ParentOf(q) # NoIndex => ParentOf(q).column = 1
    BY <2>1, ParentsAre
  <2>9. row >= 1 /\ row <= Len(sourceRows[q]) /\ Len(sourceRows[q]) \in Nat
    <3>1. sourceRows[q] \in Seq(RowIds)
      BY <2>1, RowsHavePlaces DEF ColTypes
    <3> QED
      BY <2>4, <3>1
  <2>10. hasChildren(ParentOf(q))
    <3>1. m_sourceColumns # <<>> /\ sourceRowCount(FirstColumn(ParentOf(q))) > 0
      BY <2>1, <2>8, <2>9 DEF ColTypes
    <3> QED
      BY <2>8, <3>1 DEF hasChildren, rearrangedHasChildren
  <2>11. rowCount(ParentOf(q)) = Len(sourceRows[q])
    BY <2>8 DEF rowCount, rearrangedRowCount
  <2> QED
    BY <2>5, <2>6, <2>7, <2>9, <2>10, <2>11
<1> QED
  BY <1>1, ColInvAlways, PTL

\* A view has drawn a row for every column, and its header unless a change of it was told of
\* under the number of another row, after columns of the source have come, gone and moved
\* (where nothing rearranges them), headers have changed, and columns were rearranged and
\* reset in any order: HeadersHeard for every source.
THEOREM HeadersHeardAlways == Spec => []HeadersHeard
<1>1. ColInv => HeadersHeard
  <2> SUFFICES ASSUME ColInv, phase = "idle" PROVE HeadersHeard
    BY DEF HeadersHeard
  <2>1. ColTypes /\ HeardInv /\ phase \notin Resetting
    BY DEF ColInv, Resetting
  <2>2. PICK texts : texts = Headers
    OBVIOUS
  <2>3. texts \in Seq(Texts) /\ sortOrder \in Orders
    BY <2>1, <2>2, HeadersType DEF HeardInv
  <2> DEFINE rows == IF attached THEN RowsOf(Headers) ELSE <<>>
  <2>4. ASSUME attached
        PROVE  /\ DOMAIN drawn = DOMAIN rows
               /\ \A i \in DOMAIN rows : /\ i \in StaleRows \/ drawn[i].text = rows[i].text
                                         /\ marksMoved \/ drawn[i].mark = rows[i].mark
    <3>1. ShownBut(drawn, texts, StaleRows, sortColumn, sortOrder, marksMoved)
      BY <2>1, <2>2, <2>4 DEF HeardInv
    <3>2. RowsOf(texts) \in Seq(DrawnRows) /\ Shown(RowsOf(texts), texts, sortColumn, sortOrder, FALSE)
      BY <2>3, RowsOfIs
    <3>3. rows = RowsOf(texts)
      BY <2>2, <2>4
    <3> HIDE DEF rows
    <3>4. DOMAIN drawn = 1 .. Len(texts) /\ DOMAIN rows = 1 .. Len(texts)
      BY <3>1, <3>2, <3>3 DEF Shown, ShownBut
    <3> QED
      BY <3>1, <3>2, <3>3, <3>4 DEF Shown, ShownBut
  <2>5. ASSUME ~attached
        PROVE  DOMAIN drawn = DOMAIN rows /\ DOMAIN rows = {}
    <3>1. drawn = <<>> /\ rows = <<>>
      BY <2>1, <2>5 DEF HeardInv
    <3> QED
      BY <3>1
  <2> QED
    BY <2>4, <2>5 DEF HeadersHeard
<1> QED
  BY <1>1, ColInvAlways, PTL

\* A sibling in a column that is there.
LEMMA SiblingIs ==
    ASSUME ColTypes, NEW q \in Rows, NEW row \in DOMAIN sourceRows[q], NEW column \in AllColumns, NEW c \in AllColumns
    PROVE  sibling(Index(row, column, q), c) = Index(row, c, q)
<1>1. row \in Nat
  <2>1. sourceRows[q] \in Seq(RowIds)
    BY RowsHavePlaces DEF ColTypes
  <2> QED
    BY <2>1
<1>2. parent(Index(row, column, q)) = ParentOf(q) /\ index(row, c, ParentOf(q)) = Index(row, c, q)
  BY <1>1, ParentIs, IndexIs
<1>3. Index(row, column, q).row = row /\ Index(row, column, q).column = column
  BY IndexFields
<1> QED
  BY <1>2, <1>3 DEF sibling

\* The cells from one index to another under the same row.
Block(q, r1, c1, r2, c2) == {Index(r, c, q) : r \in r1 .. r2, c \in c1 .. c2}

LEMMA CellsAre ==
    ASSUME NEW q \in Rows, NEW r1 \in Nat, NEW r2 \in Nat, NEW c1 \in Nat, NEW c2 \in Nat
    PROVE  Cells(Index(r1, c1, q), Index(r2, c2, q)) = Block(q, r1, c1, r2, c2)
<1>1. /\ Index(r1, c1, q) # NoIndex /\ Index(r1, c1, q).pointer = q
      /\ Index(r1, c1, q).row = r1 /\ Index(r1, c1, q).column = c1
  BY IndexFields
<1>2. /\ Index(r2, c2, q) # NoIndex /\ Index(r2, c2, q).pointer = q
      /\ Index(r2, c2, q).row = r2 /\ Index(r2, c2, q).column = c2
  BY IndexFields
<1> QED
  BY <1>1, <1>2 DEF Cells, Block

\* What a range of the extra columns model maps to: cells from row r1 and column c1 to row
\* r2 and column c2, mapped as far as column c3.
MapsTo(cells, mapped, q, r1, r2, c1, c2, c3) ==
    /\ cells = Block(q, r1, c1, r2, c2) /\ mapped = Block(q, r1, 1, r2, c3)
    /\ r1 <= r2 /\ 1 <= c1 /\ c1 <= c2 /\ 1 <= c3
    /\ c3 = IF c2 > Width THEN Width ELSE c2

LEMMA SourceCellsAre ==
    ASSUME ColTypes, NEW range \in Ranges
    PROVE  \E q \in Rows, r1 \in Nat, r2 \in Nat, c1 \in Nat, c2 \in Nat, c3 \in Nat :
              MapsTo(Cells(range.topLeft, range.bottomRight), mapSelectionToSource({range}), q, r1, r2, c1, c2, c3)
<1>1. range.topLeft \in Places /\ range.bottomRight \in Places /\ Cells(range.topLeft, range.bottomRight) # {}
  BY DEF Ranges
<1>2. PICK q1 \in Rows : \E row \in DOMAIN sourceRows[q1], column \in AllColumns : range.topLeft = Index(row, column, q1)
  BY <1>1, PlacesAre
<1>3. PICK r1 \in DOMAIN sourceRows[q1], c1 \in AllColumns : range.topLeft = Index(r1, c1, q1)
  BY <1>2
<1>4. PICK q \in Rows : \E row \in DOMAIN sourceRows[q], column \in AllColumns : range.bottomRight = Index(row, column, q)
  BY <1>1, PlacesAre
<1>5. PICK r2 \in DOMAIN sourceRows[q], c2 \in AllColumns : range.bottomRight = Index(r2, c2, q)
  BY <1>4
<1>6. q1 = q
  <2>1. Index(r1, c1, q1).pointer = q1 /\ Index(r2, c2, q).pointer = q
    BY IndexFields
  <2> QED
    BY <1>1, <1>3, <1>5, <2>1 DEF Cells
<1>7. r1 \in DOMAIN sourceRows[q] /\ r1 \in Nat /\ r2 \in Nat
  <2>1. sourceRows[q] \in Seq(RowIds)
    BY RowsHavePlaces DEF ColTypes
  <2> QED
    BY <1>6, <2>1
<1>8. /\ c1 \in Nat /\ c1 >= 1 /\ c2 \in Nat /\ c2 >= 1 /\ Width \in Nat /\ Width >= 1
      /\ 1 \in AllColumns /\ Width \in AllColumns /\ (IsExtra(c2) <=> c2 > Width)
  <2>1. Width \in Nat /\ Width >= 1 /\ Len(m_extraHeaders) \in Nat
    BY Widths
  <2> QED
    BY <2>1, ExtraIs DEF AllColumns
<1> DEFINE cells == Block(q, r1, c1, r2, c2)
           c3 == IF c2 > Width THEN Width ELSE c2
<1>9. Cells(range.topLeft, range.bottomRight) = cells
  BY <1>3, <1>5, <1>6, <1>7, <1>8, CellsAre
<1>10. r1 <= r2 /\ c1 <= c2
  <2>1. PICK r \in r1 .. r2, c \in c1 .. c2 : TRUE
    BY <1>1, <1>9 DEF Block
  <2> QED
    BY <1>7, <1>8, <2>1
<1>11. sibling(range.topLeft, 1) = Index(r1, 1, q)
  BY <1>3, <1>6, <1>7, <1>8, SiblingIs
<1>12. (IF IsExtra(range.bottomRight.column) THEN sibling(range.bottomRight, Width) ELSE range.bottomRight)
           = Index(r2, c3, q)
  <2>1. range.bottomRight.column = c2
    BY <1>5, IndexFields
  <2>2. sibling(range.bottomRight, Width) = Index(r2, Width, q)
    BY <1>5, <1>8, SiblingIs
  <2> QED
    BY <1>5, <1>8, <2>1, <2>2
<1>13. c3 \in Nat /\ c3 >= 1 /\ ~(c3 > Width)
  BY <1>8
<1> HIDE DEF c3
<1>14. mapToSource(Index(r1, 1, q)) = Index(r1, 1, q) /\ mapToSource(Index(r2, c3, q)) = Index(r2, c3, q)
  <2>1. Index(r1, 1, q).column = 1 /\ Index(r2, c3, q).column = c3
    BY IndexFields
  <2>2. ~IsExtra(1) /\ ~IsExtra(c3)
    BY <1>8, <1>13 DEF IsExtra, extraColumnForProxyColumn
  <2> QED
    BY <2>1, <2>2 DEF mapToSource
<1>15. SourceCells(range) = Cells(Index(r1, 1, q), Index(r2, c3, q))
  BY <1>11, <1>12, <1>14 DEF SourceCells
<1>16. SourceCells(range) = Block(q, r1, 1, r2, c3)
  BY <1>7, <1>13, <1>15, CellsAre
<1>17. mapSelectionToSource({range}) = SourceCells(range)
  BY DEF mapSelectionToSource
<1>18. c3 = IF c2 > Width THEN Width ELSE c2
  BY DEF c3
<1>19. MapsTo(Cells(range.topLeft, range.bottomRight), mapSelectionToSource({range}), q, r1, r2, c1, c2, c3)
  BY <1>8, <1>9, <1>10, <1>13, <1>16, <1>17, <1>18 DEF MapsTo
<1> QED
  BY <1>7, <1>8, <1>13, <1>19

\* What is selected in columns of the source is selected in the source, and in no other
\* rows; and a row that is selected in an extra column only as well: SelectionReachesSource
\* for every range of every source.
THEOREM SelectionReachesSourceAlways == Spec => []SelectionReachesSource
<1>1. ColInv => SelectionReachesSource
  <2> SUFFICES ASSUME ColInv, phase = "idle", NEW range \in Ranges
               PROVE  LET cells == Cells(range.topLeft, range.bottomRight)
                          mapped == mapSelectionToSource({range})
                          rows(S) == {<<i.row, i.pointer>> : i \in S}
                      IN  /\ {i \in cells : ~IsExtra(i.column)} \subseteq mapped
                          /\ rows(cells) = rows(mapped) /\ \A i \in mapped : ~IsExtra(i.column)
    BY DEF SelectionReachesSource
  <2> DEFINE cells == Cells(range.topLeft, range.bottomRight)
             mapped == mapSelectionToSource({range})
             rows(S) == {<<i.row, i.pointer>> : i \in S}
  <2>1. ColTypes
    BY DEF ColInv
  <2>9. PICK q \in Rows, r1 \in Nat, r2 \in Nat, c1 \in Nat, c2 \in Nat, c3 \in Nat :
            MapsTo(cells, mapped, q, r1, r2, c1, c2, c3)
    BY <2>1, SourceCellsAre
  <2> HIDE DEF cells, mapped
  <2>2. /\ cells = {Index(r, c, q) : r \in r1 .. r2, c \in c1 .. c2}
        /\ mapped = {Index(r, c, q) : r \in r1 .. r2, c \in 1 .. c3}
        /\ r1 <= r2 /\ 1 <= c1 /\ c1 <= c2 /\ 1 <= c3
        /\ c3 = IF c2 > Width THEN Width ELSE c2
    BY <2>9 DEF MapsTo, Block
  <2>3. Width \in Nat /\ \A c \in Int : IsExtra(c) <=> c > Width
    BY <2>1, Widths DEF IsExtra, extraColumnForProxyColumn
  <2>4. \A r, c : Index(r, c, q).row = r /\ Index(r, c, q).column = c /\ Index(r, c, q).pointer = q
    BY IndexFields
  <2>5. {i \in cells : ~IsExtra(i.column)} \subseteq mapped
    <3> SUFFICES ASSUME NEW i \in cells, ~IsExtra(i.column) PROVE i \in mapped
      OBVIOUS
    <3>1. PICK r \in r1 .. r2, c \in c1 .. c2 : i = Index(r, c, q)
      BY <2>2
    <3>2. c \in 1 .. c3
      BY <2>2, <2>3, <2>4, <3>1
    <3> QED
      BY <2>2, <3>1, <3>2
  <2>6. \A i \in mapped : ~IsExtra(i.column)
    <3> TAKE i \in mapped
    <3>1. PICK r \in r1 .. r2, c \in 1 .. c3 : i = Index(r, c, q)
      BY <2>2
    <3>2. c \in Int /\ ~(c > Width)
      BY <2>2, <2>3, <3>1
    <3> QED
      BY <2>3, <2>4, <3>1, <3>2
  <2>7. rows(cells) = {<<r, q>> : r \in r1 .. r2}
    <3>1. ASSUME NEW i \in cells PROVE \E r \in r1 .. r2 : <<i.row, i.pointer>> = <<r, q>>
      BY <2>2, <2>4
    <3>2. ASSUME NEW r \in r1 .. r2 PROVE \E i \in cells : <<i.row, i.pointer>> = <<r, q>>
      <4>1. c1 \in c1 .. c2
        BY <2>2
      <4>2. Index(r, c1, q) \in cells
        BY <2>2, <4>1
      <4> QED
        BY <2>4, <4>2
    <3> QED
      BY <3>1, <3>2
  <2>8. rows(mapped) = {<<r, q>> : r \in r1 .. r2}
    <3>1. ASSUME NEW i \in mapped PROVE \E r \in r1 .. r2 : <<i.row, i.pointer>> = <<r, q>>
      BY <2>2, <2>4
    <3>2. ASSUME NEW r \in r1 .. r2 PROVE \E i \in mapped : <<i.row, i.pointer>> = <<r, q>>
      <4>1. 1 \in 1 .. c3
        BY <2>2
      <4>2. Index(r, 1, q) \in mapped
        BY <2>2, <4>1
      <4> QED
        BY <2>4, <4>2
    <3> QED
      BY <3>1, <3>2
  <2> QED
    BY <2>5, <2>6, <2>7, <2>8 DEF cells, mapped
<1> QED
  BY <1>1, ColInvAlways, PTL
=============================================================================
