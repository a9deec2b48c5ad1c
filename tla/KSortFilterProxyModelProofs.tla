-------------------- MODULE KSortFilterProxyModelProofs --------------------
(* The role names and numbers of KSortFilterProxyModel agree, and the one set *)
(* last leads, for every set of roles, names and columns; and on numbers as   *)
(* its source the proxy shows those that its filters accept, for every        *)
(* minimum, maximum and step.                                                 *)
EXTENDS FilteredNumbers, FiniteSetTheorems, TLAPS

Texts == Names \cup {NoName}
Properties == [role : RoleIds, name : Texts, truth : {"id", "name"}]
NamesOfRoles == [RoleIds -> Texts]

TypeInv ==
    /\ hasSource \in BOOLEAN /\ m_componentCompleted \in BOOLEAN
    /\ sourceRoleNames \in NamesOfRoles /\ m_roleIds \in NamesOfRoles
    /\ property \in [Kinds -> Properties] /\ setLast \in [Kinds -> {"id", "name"}]
    /\ unheard \subseteq Kinds

\* Once names are read at all they are those of the source model that is there.
NamesRead == hasSource /\ m_componentCompleted => m_roleIds = sourceRoleNames

\* Do the role and the name of a property agree under some names?
Agrees(p, names) ==
    IF p.truth = "name" THEN p.role = RoleOf(names, p.name) ELSE p.name = names[p.role]

IInv == TypeInv /\ NamesRead /\ RolesAgree /\ SourceOfTruthKept

----------------------------------------------------------------------------
\* A name is resolved to some role, DisplayRole if to no other (roleNameToId).
LEMMA RoleOfIsRole == ASSUME NEW ids, NEW name PROVE RoleOf(ids, name) \in RoleIds
BY RolesAssumption DEF RoleOf

\* When the number leads, the name follows it (syncSortRoleProperties).
LEMMA ByRoleAgrees ==
    ASSUME NEW p \in Properties, NEW names \in NamesOfRoles
    PROVE  /\ ByRole(p, names) \in Properties
           /\ ByRole(p, names).truth = "id"
           /\ Agrees(ByRole(p, names), names)
<1>1. names[p.role] \in Texts BY DEF Properties, NamesOfRoles
<1>. QED BY <1>1 DEF ByRole, Properties, Agrees

\* Under the guard, synchronising a property whose name leads resolves the name, and
\* leaves it to lead.
LEMMA SyncByName ==
    ASSUME NEW p \in Properties, p.truth = "name", NEW ids, NEW names
    PROVE  syncRoleProperties(p, TRUE, ids, names) = [p EXCEPT !.role = RoleOf(ids, p.name)]
<1>1. CASE RoleOf(ids, p.name) = p.role
  <2>1. [p EXCEPT !.role = RoleOf(ids, p.name)] = p BY <1>1 DEF Properties
  <2>. QED BY <1>1, <2>1 DEF syncRoleProperties, Properties
<1>2. CASE RoleOf(ids, p.name) # p.role
  <2>1. [p EXCEPT !.role = RoleOf(ids, p.name)].role = RoleOf(ids, p.name) BY DEF Properties
  <2>. QED BY <1>2, <2>1 DEF syncRoleProperties, RoleChanged
<1>. QED BY <1>1, <1>2

\* What such a property is then.
LEMMA NamedAgrees ==
    ASSUME NEW p \in Properties, p.truth = "name", NEW ids
    PROVE  LET q == [p EXCEPT !.role = RoleOf(ids, p.name)]
           IN  q \in Properties /\ q.truth = "name" /\ q.name = p.name /\ Agrees(q, ids)
BY RoleOfIsRole DEF Properties, Agrees

\* Synchronising a property under the guard makes it agree with the names, and changes
\* neither what leads nor its type.
LEMMA SyncAgrees ==
    ASSUME NEW p \in Properties, NEW names \in NamesOfRoles
    PROVE  LET q == syncRoleProperties(p, TRUE, names, names)
           IN  q \in Properties /\ q.truth = p.truth /\ Agrees(q, names)
<1>1. CASE p.truth = "name"
  <2>1. syncRoleProperties(p, TRUE, names, names) = [p EXCEPT !.role = RoleOf(names, p.name)]
    BY <1>1, SyncByName
  <2>. QED BY <1>1, <2>1, NamedAgrees
<1>2. CASE p.truth # "name"
  <2>1. syncRoleProperties(p, TRUE, names, names) = ByRole(p, names) BY <1>2 DEF syncRoleProperties
  <2>2. p.truth = "id" BY <1>2 DEF Properties
  <2>. QED BY <2>1, <2>2, ByRoleAgrees
<1>. QED BY <1>1, <1>2

\* After syncRoleNames() the names are read and both properties agree with them.
LEMMA SyncRoleNamesAgrees ==
    ASSUME TypeInv, SourceOfTruthKept, NEW names \in NamesOfRoles, syncRoleNames(names), UNCHANGED <<setLast, unheard>>
    PROVE  /\ m_roleIds' = names /\ property' \in [Kinds -> Properties]
           /\ \A k \in Kinds : property'[k].truth = (IF k \in unheard' THEN "name" ELSE setLast'[k]) /\ Agrees(property'[k], names)
<1>1. m_roleIds' = names /\ property' = [k \in Kinds |-> syncRoleProperties(property[k], TRUE, names, names)]
  BY DEF syncRoleNames
<1>2. \A k \in Kinds : property[k] \in Properties BY DEF TypeInv
<1>3. \A k \in Kinds : LET q == property'[k] IN q \in Properties /\ q.truth = property[k].truth /\ Agrees(q, names)
  BY <1>1, <1>2, SyncAgrees
<1>. QED BY <1>1, <1>3 DEF SourceOfTruthKept

----------------------------------------------------------------------------
LEMMA InitIInv == ASSUME Init PROVE IInv
<1>1. RoleNames \subseteq NamesOfRoles BY DEF RoleNames, NamesOfRoles, Texts
<1>2. PICK display \in Names : property = [k \in Kinds |-> [role |-> DisplayRole, name |-> display, truth |-> "id"]]
  BY DEF Init
<1>3. property \in [Kinds -> Properties] BY <1>2, RolesAssumption DEF Properties, Texts
<1>4. TypeInv BY <1>1, <1>3 DEF Init, TypeInv, NamesOfRoles, Texts
<1>5. SourceOfTruthKept BY <1>2 DEF Init, SourceOfTruthKept
<1>6. NamesRead /\ RolesAgree BY DEF Init, NamesRead, RolesAgree
<1>. QED BY <1>4, <1>5, <1>6 DEF IInv

\* RolesAgree in terms of Agrees.
LEMMA AgreeIsRolesAgree ==
    RolesAgree <=> (hasSource /\ m_componentCompleted => \A k \in Kinds : Agrees(property[k], sourceRoleNames))
BY DEF RolesAgree, Agrees

\* A step that reads the names of the source model keeps the invariant.
LEMMA ReadingKeepsIInv ==
    ASSUME IInv, NEW names \in NamesOfRoles, syncRoleNames(names), sourceRoleNames' = names, UNCHANGED <<setLast, unheard>>,
           hasSource' \in BOOLEAN, m_componentCompleted' \in BOOLEAN
    PROVE  IInv'
<1>1. /\ m_roleIds' = names /\ property' \in [Kinds -> Properties]
      /\ \A k \in Kinds : property'[k].truth = (IF k \in unheard' THEN "name" ELSE setLast'[k]) /\ Agrees(property'[k], names)
  BY SyncRoleNamesAgrees DEF IInv
<1>2. TypeInv' BY <1>1 DEF IInv, TypeInv
<1>3. NamesRead' BY <1>1 DEF NamesRead
<1>4. RolesAgree' BY <1>1 DEF RolesAgree, Agrees
<1>5. SourceOfTruthKept' BY <1>1 DEF SourceOfTruthKept
<1>. QED BY <1>2, <1>3, <1>4, <1>5 DEF IInv

LEMMA SetRoleNameKeepsIInv == ASSUME IInv, SetRoleName PROVE IInv'
<1>1. PICK k \in Kinds, name \in Texts :
        LET named == [property[k] EXCEPT !.truth = "name", !.name = name]
        IN  /\ IF property[k].truth = "name" /\ property[k].name = name THEN UNCHANGED property
               ELSE property' = [property EXCEPT ![k] = IF hasSource
                        THEN syncRoleProperties(named, TRUE, m_roleIds, sourceRoleNames) ELSE named]
            /\ setLast' = [setLast EXCEPT ![k] = "name"] /\ unheard' = unheard \ {k}
            /\ UNCHANGED <<hasSource, sourceRoleNames, m_componentCompleted, m_roleIds>>
  BY DEF SetRoleName, Texts
<1>. DEFINE p == property[k]
            named == [p EXCEPT !.truth = "name", !.name = name]
            same == p.truth = "name" /\ p.name = name
            q == IF same THEN p
                 ELSE IF hasSource THEN [named EXCEPT !.role = RoleOf(m_roleIds, named.name)] ELSE named
<1>2. property \in [Kinds -> Properties] BY DEF IInv, TypeInv
<1>3. named \in Properties /\ named.truth = "name" BY <1>2 DEF Properties
<1>4. q \in Properties /\ q.truth = "name" /\ (hasSource /\ ~same => Agrees(q, m_roleIds)) /\ (same => q = property[k])
  BY <1>2, <1>3, NamedAgrees
<1>5. property' = [property EXCEPT ![k] = q]
  <2>1. CASE same BY <1>1, <1>2, <2>1
  <2>2. CASE ~same
    <3>1. property' = [property EXCEPT ![k] = IF hasSource
             THEN syncRoleProperties(named, TRUE, m_roleIds, sourceRoleNames) ELSE named]
      BY <1>1, <2>2
    <3>. QED BY <3>1, <2>2, <1>3, SyncByName
  <2>. QED BY <2>1, <2>2
<1>. HIDE DEF named, q, p, same
<1>6. TypeInv' BY <1>1, <1>2, <1>4, <1>5 DEF IInv, TypeInv
<1>7. NamesRead' BY <1>1 DEF IInv, NamesRead
<1>8. \A j \in Kinds : property'[j] = IF j = k THEN q ELSE property[j] BY <1>2, <1>5
<1>9. RolesAgree'
  <2>1. SUFFICES ASSUME hasSource, m_componentCompleted, NEW j \in Kinds
                 PROVE  Agrees(property'[j], sourceRoleNames)
    BY <1>1 DEF RolesAgree, Agrees
  <2>2. m_roleIds = sourceRoleNames BY <2>1 DEF IInv, NamesRead
  <2>3. Agrees(property[j], sourceRoleNames) BY <2>1, AgreeIsRolesAgree DEF IInv
  <2>. QED BY <2>1, <2>2, <2>3, <1>4, <1>8
<1>10. SourceOfTruthKept'
  <2>1. setLast \in [Kinds -> {"id", "name"}] BY DEF IInv, TypeInv
  <2>2. \A j \in Kinds : setLast'[j] = IF j = k THEN "name" ELSE setLast[j] BY <1>1, <2>1
  <2>3. k \notin unheard' /\ \A j \in Kinds : j # k => (j \in unheard' <=> j \in unheard) BY <1>1
  <2>. QED BY <1>4, <1>8, <2>2, <2>3 DEF IInv, SourceOfTruthKept
<1>. QED BY <1>6, <1>7, <1>9, <1>10 DEF IInv

\* A number leads as soon as the proxy hears of it, and the name is read from the source
\* model; one that is not heard of leaves a name in the lead.
LEMMA SetRoleKeepsIInv == ASSUME IInv, SetRole PROVE IInv'
<1>1. PICK k \in Kinds, r \in RoleIds :
        LET p == [property[k] EXCEPT !.role = r]
            heard == hasSource /\ r # property[k].role
        IN  /\ property' = [property EXCEPT ![k] = IF heard
                    THEN syncRoleProperties(p, FALSE, m_roleIds, sourceRoleNames) ELSE p]
            /\ setLast' = [setLast EXCEPT ![k] = "id"]
            /\ unheard' = IF ~heard /\ p.truth = "name" THEN unheard \cup {k} ELSE unheard \ {k}
            /\ UNCHANGED <<hasSource, sourceRoleNames, m_componentCompleted, m_roleIds>>
  BY DEF SetRole
<1>. DEFINE p == [property[k] EXCEPT !.role = r]
            heard == hasSource /\ r # property[k].role
            q == IF heard THEN ByRole(p, sourceRoleNames) ELSE p
<1>2. property \in [Kinds -> Properties] /\ setLast \in [Kinds -> {"id", "name"}]
      /\ sourceRoleNames \in NamesOfRoles /\ unheard \subseteq Kinds
  BY DEF IInv, TypeInv
<1>3. p \in Properties /\ p.truth = property[k].truth /\ p.truth \in {"id", "name"}
      /\ (r = property[k].role => p = property[k])
  BY <1>2 DEF Properties
<1>4. /\ q \in Properties /\ (heard => q.truth = "id" /\ Agrees(q, sourceRoleNames))
      /\ ~heard => q.truth = p.truth
      /\ ~heard /\ hasSource => q = property[k]
  BY <1>2, <1>3, ByRoleAgrees
<1>5. property' = [property EXCEPT ![k] = q] BY <1>1 DEF syncRoleProperties
<1>11. unheard' = IF ~heard /\ p.truth = "name" THEN unheard \cup {k} ELSE unheard \ {k} BY <1>1
<1>. HIDE DEF p, q, heard
<1>6. TypeInv' BY <1>1, <1>2, <1>4, <1>5, <1>11 DEF IInv, TypeInv
<1>7. NamesRead' BY <1>1 DEF IInv, NamesRead
<1>8. \A j \in Kinds : property'[j] = IF j = k THEN q ELSE property[j] BY <1>2, <1>5
<1>9. RolesAgree'
  <2>1. SUFFICES ASSUME hasSource, m_componentCompleted, NEW j \in Kinds
                 PROVE  Agrees(property'[j], sourceRoleNames)
    BY <1>1 DEF RolesAgree, Agrees
  <2>2. Agrees(property[j], sourceRoleNames) BY <2>1, AgreeIsRolesAgree DEF IInv
  <2>. QED BY <2>1, <2>2, <1>4, <1>8
<1>10. SourceOfTruthKept'
  <2>1. \A j \in Kinds : setLast'[j] = IF j = k THEN "id" ELSE setLast[j] BY <1>1, <1>2
  <2>2. \A j \in Kinds : j # k => (j \in unheard' <=> j \in unheard) BY <1>11
  <2>3. q.truth = IF k \in unheard' THEN "name" ELSE "id" BY <1>3, <1>4, <1>11
  <2>. QED BY <1>8, <2>1, <2>2, <2>3 DEF IInv, SourceOfTruthKept
<1>. QED BY <1>6, <1>7, <1>9, <1>10 DEF IInv

LEMMA NextKeepsIInv == ASSUME IInv, [Next]_vars PROVE IInv'
<1>1. RoleNames \subseteq NamesOfRoles BY DEF RoleNames, NamesOfRoles, Texts
<1>2. ASSUME UNCHANGED <<hasSource, sourceRoleNames, m_componentCompleted, m_roleIds, property, setLast, unheard>>
      PROVE  IInv'
  <2>1. TypeInv' /\ NamesRead' BY <1>2 DEF IInv, TypeInv, NamesRead
  <2>2. RolesAgree' BY <1>2 DEF IInv, RolesAgree
  <2>3. SourceOfTruthKept' BY <1>2 DEF IInv, SourceOfTruthKept
  <2>. QED BY <2>1, <2>2, <2>3 DEF IInv
<1>3. ASSUME NEW names \in RoleNames, ~(hasSource' /\ m_componentCompleted'), sourceRoleNames' = names,
             hasSource' \in BOOLEAN, m_componentCompleted' \in BOOLEAN, UNCHANGED <<m_roleIds, property, setLast, unheard>>
      PROVE  IInv'
  <2>1. TypeInv' /\ NamesRead' BY <1>1, <1>3 DEF IInv, TypeInv, NamesRead
  <2>2. RolesAgree' BY <1>3 DEF RolesAgree
  <2>3. SourceOfTruthKept' BY <1>3 DEF IInv, SourceOfTruthKept
  <2>. QED BY <2>1, <2>2, <2>3 DEF IInv
<1>4. hasSource \in BOOLEAN /\ m_componentCompleted \in BOOLEAN /\ sourceRoleNames \in NamesOfRoles
  BY DEF IInv, TypeInv
<1>14. ASSUME UNCHANGED <<sourceRoleNames, m_roleIds, property, setLast, unheard>>, ~hasSource',
              hasSource' \in BOOLEAN, m_componentCompleted' \in BOOLEAN
       PROVE  IInv'
  <2>1. TypeInv' /\ NamesRead' BY <1>14 DEF IInv, TypeInv, NamesRead
  <2>2. RolesAgree' BY <1>14 DEF RolesAgree
  <2>3. SourceOfTruthKept' BY <1>14 DEF IInv, SourceOfTruthKept
  <2>. QED BY <2>1, <2>2, <2>3 DEF IInv
<1>5. CASE SetSourceModel
  <2>1. PICK names \in RoleNames :
          /\ hasSource' = TRUE /\ sourceRoleNames' = names
          /\ IF m_componentCompleted THEN syncRoleNames(names) ELSE UNCHANGED <<m_roleIds, property, sortColumn>>
          /\ UNCHANGED <<m_componentCompleted, setLast, unheard>>
    BY <1>5 DEF SetSourceModel
  <2>2. CASE m_componentCompleted BY <2>1, <2>2, <1>1, ReadingKeepsIInv
  <2>3. CASE ~m_componentCompleted
    <3>1. ~(hasSource' /\ m_componentCompleted') /\ hasSource' \in BOOLEAN /\ m_componentCompleted' \in BOOLEAN
      BY <2>1, <2>3, <1>4
    <3>. QED BY <2>1, <2>3, <3>1, <1>3
  <2>. QED BY <2>2, <2>3
<1>6. CASE SourceChanged
  <2>1. PICK names \in RoleNames :
          /\ sourceRoleNames' = names /\ syncRoleNames(names)
          /\ UNCHANGED <<hasSource, m_componentCompleted, setLast, unheard>>
    BY <1>6 DEF SourceChanged
  <2>. QED BY <2>1, <1>1, <1>4, ReadingKeepsIInv
<1>7. CASE ComponentComplete
  <2>1. /\ m_componentCompleted' = TRUE /\ UNCHANGED <<hasSource, sourceRoleNames, setLast, unheard>>
        /\ IF hasSource THEN syncRoleNames(sourceRoleNames) ELSE UNCHANGED <<m_roleIds, property, sortColumn>>
    BY <1>7 DEF ComponentComplete
  <2>2. CASE hasSource BY <2>1, <2>2, <1>4, ReadingKeepsIInv
  <2>3. CASE ~hasSource BY <2>1, <2>3, <1>4, <1>14
  <2>. QED BY <2>2, <2>3
<1>8. CASE SetRoleName BY <1>8, SetRoleNameKeepsIInv
<1>9. CASE SetRole BY <1>9, SetRoleKeepsIInv
<1>10. CASE UnsetSourceModel BY <1>10, <1>4, <1>14 DEF UnsetSourceModel
<1>11. CASE SetSortColumn BY <1>11, <1>2 DEF SetSortColumn
<1>12. CASE SetSortOrder BY <1>12, <1>2 DEF SetSortOrder
<1>13. CASE UNCHANGED vars BY <1>13, <1>2 DEF vars
<1>. QED BY <1>5, <1>6, <1>7, <1>8, <1>9, <1>10, <1>11, <1>12, <1>13 DEF Next

LEMMA SpecKeepsIInv == Spec => []IInv
<1>1. Init => IInv BY InitIInv
<1>2. IInv /\ [Next]_vars => IInv' BY NextKeepsIInv
<1>. QED BY <1>1, <1>2, PTL DEF Spec

\* Once the component is complete, the role that is used and the role name that is shown
\* belong together in the source model as it is now (syncSortRoleProperties,
\* syncFilterRoleProperties).
THEOREM RolesAgreeAlways == Spec => []RolesAgree
<1>1. IInv => RolesAgree BY DEF IInv
<1>. QED BY <1>1, SpecKeepsIInv, PTL

\* Neither the source model nor what the name and the number do to each other takes the
\* lead away from the one that was set last (m_sortRoleSourceOfTruth), but for a number
\* that was set without the proxy being told.
THEOREM SourceOfTruthKeptAlways == Spec => []SourceOfTruthKept
<1>1. IInv => SourceOfTruthKept BY DEF IInv
<1>. QED BY <1>1, SpecKeepsIInv, PTL

----------------------------------------------------------------------------
(* The numbers that the proxy shows.                                       *)

\* The quotient rounded down (qFloor), also for a negative step.
LEMMA FloorIs ==
    ASSUME NEW a \in Int, NEW b \in Int, b # 0, NEW row \in Nat
    PROVE  /\ Floor(a, b) \in Int
           /\ b > 0 => (row <= Floor(a, b) <=> b * row <= a)
           /\ b < 0 => (row <= Floor(a, b) <=> b * row >= a)
<1>1. ASSUME NEW x \in Int, NEW y \in Int, y > 0
      PROVE  x \div y \in Int /\ (row <= x \div y <=> y * row <= x)
  <2>1. PICK q \in Int : q = x \div y
    BY <1>1
  <2>2. y * q <= x /\ x < y * (q + 1)
    BY <1>1, <2>1
  <2>3. row <= q => y * row <= y * q
    BY <1>1
  <2>4. ~(row <= q) => y * (q + 1) <= y * row
    BY <1>1
  <2> QED
    BY <1>1, <2>1, <2>2, <2>3, <2>4
<1>2. CASE b > 0
  BY <1>1, <1>2 DEF Floor
<1>3. CASE b < 0
  <2>1. -b > 0 /\ -b \in Int /\ -a \in Int /\ (-b) * row = -(b * row)
    BY <1>3
  <2>2. Floor(a, b) = (-a) \div (-b)
    BY <1>3 DEF Floor
  <2>3. Floor(a, b) \in Int /\ (row <= Floor(a, b) <=> (-b) * row <= -a)
    BY <1>1, <2>1, <2>2
  <2>4. b * row \in Int
    OBVIOUS
  <2> QED
    BY <1>3, <2>1, <2>3, <2>4
<1> QED
  BY <1>2, <1>3
\* The types of the numbers, which the setters keep.
NumberTypes == {minimumValue, maximumValue, stepSize} \subseteq Int /\ groups \in BOOLEAN

\* The rows of the numbers are those from the minimum to the maximum (rowCount).
LEMMA RowsAreNumbers ==
    ASSUME NumberTypes, NEW row \in Nat
    PROVE  row \in 0 .. NumberRows - 1 <=> IsNumber(row)
<1> DEFINE a == maximumValue - minimumValue
           f == Floor(a, stepSize)
<1>1. minimumValue \in Int /\ maximumValue \in Int /\ stepSize \in Int /\ a \in Int
  BY DEF NumberTypes
<1>2. CASE stepSize = 0
  BY <1>1, <1>2 DEF NumberRows, IsNumber
<1>3. CASE stepSize # 0
  <2>1. /\ f \in Int
        /\ stepSize > 0 => (row <= f <=> stepSize * row <= a)
        /\ stepSize < 0 => (row <= f <=> stepSize * row >= a)
    BY <1>1, <1>3, FloorIs
  <2>2. stepSize * row \in Int
    BY <1>1
  <2> HIDE DEF f
  <2>3. Sets!Max({0, f}) = IF f > 0 THEN f ELSE 0
    BY <2>1 DEF Sets!Max
  <2>4. NumberRows = 1 + Sets!Max({0, f})
    BY <1>3 DEF NumberRows, f
  <2>5. row \in 0 .. NumberRows - 1 <=> row = 0 \/ row <= f
    BY <2>1, <2>3, <2>4
  <2>6. IsNumber(row) <=> \/ row = 0
                          \/ stepSize > 0 /\ stepSize * row <= a
                          \/ stepSize < 0 /\ stepSize * row >= a
    BY <1>1, <2>2 DEF IsNumber, value
  <2> QED
    BY <1>1, <1>3, <2>1, <2>5, <2>6
<1> QED
  BY <1>2, <1>3
\* What is shown is what the filters accept now, unless texts have changed since
\* without the proxy being told (reformatted).
ShownInv ==
    /\ NumberTypes /\ numbers \in BOOLEAN /\ m_filterString \in BOOLEAN
    /\ m_filterCallback \in [{"row", "column"} -> Callbacks \cup {NoCallback}]
    /\ numbers /\ ~reformatted =>
          shown = AcceptedRows /\ columnShown = Accepts("column", 0, TRUE) /\ count = Cardinality(shown)

\* The filters accept the same rows while what they look at is the same.
LEMMA AcceptedKept ==
    ASSUME UNCHANGED <<hasSource, numbers, numberVars, filterVars>>,
           property'["filter"].role = property["filter"].role
    PROVE  AcceptedRows' = AcceptedRows /\ Accepts("column", 0, TRUE)' = Accepts("column", 0, TRUE)
<1>1. NumberRows' = NumberRows
  BY DEF NumberRows, numberVars
<1>2. \A row : MatchesText(row)' = MatchesText(row)
  BY DEF MatchesText, HasSeparator, value, numberVars, filterVars
<1>3. \A row : Accepts("row", row, MatchesText(row))' = Accepts("row", row, MatchesText(row))
  BY <1>2 DEF Accepts, filterVars
<1> QED
  BY <1>1, <1>3 DEF AcceptedRows, Accepts, filterVars
LEMMA FilteredInitInv == FilteredInit => IInv /\ ShownInv
<1> SUFFICES ASSUME FilteredInit PROVE IInv /\ ShownInv
  OBVIOUS
<1>1. IInv
  BY InitIInv DEF FilteredInit
<1>2. NumberTypes
  BY DEF FilteredInit, NumbersInit, NumberTypes
<1>3. AcceptedRows = {} /\ shown = {} /\ count = 0 /\ Cardinality({}) = 0
  BY FS_EmptySet DEF FilteredInit, Init, AcceptedRows
<1>4. Accepts("column", 0, TRUE) = TRUE /\ columnShown = TRUE
  BY DEF FilteredInit, Accepts
<1>5. /\ numbers \in BOOLEAN /\ m_filterString \in BOOLEAN
      /\ m_filterCallback \in [{"row", "column"} -> Callbacks \cup {NoCallback}]
  BY DEF FilteredInit
<1> QED
  BY <1>1, <1>2, <1>3, <1>4, <1>5 DEF ShownInv

\* Every step is one of the proxy's, or changes none of its roles.
LEMMA FilteredStepIsStep == [FilteredNext]_allVars => [Next]_vars
BY DEF FilteredNext, allVars, ChangeSourceModel, ChangeRoles, NumbersReset, NumbersReformatted,
       SetFilterCallback, SetFilterString, Next

LEMMA FilteredKeepsShown == ASSUME IInv, ShownInv, [FilteredNext]_allVars PROVE ShownInv'
<1> DEFINE Types == /\ NumberTypes /\ numbers \in BOOLEAN /\ m_filterString \in BOOLEAN
                    /\ m_filterCallback \in [{"row", "column"} -> Callbacks \cup {NoCallback}]
<1>1. Types
  BY DEF ShownInv
<1>2. ASSUME UNCHANGED <<numbers, numberVars, filterVars>> PROVE Types'
  BY <1>1, <1>2 DEF NumberTypes, numberVars, filterVars
<1>3. ASSUME Types', Filtered PROVE ShownInv'
  BY <1>3 DEF Filtered, ShownInv
<1>4. ASSUME UNCHANGED <<hasSource, numbers, numberVars, filterVars, rowVars>>,
             property'["filter"].role = property["filter"].role
      PROVE  ShownInv'
  <2>1. Types'
    BY <1>2, <1>4
  <2> QED
    BY <1>4, <2>1, AcceptedKept DEF ShownInv, rowVars
<1>5. CASE ChangeSourceModel
  BY <1>2, <1>3, <1>5 DEF ChangeSourceModel
<1>6. CASE ChangeRoles
  <2>1. UNCHANGED <<numbers, numberVars, filterVars>>
    BY <1>6 DEF ChangeRoles
  <2>2. CASE property["filter"].role = property'["filter"].role
    <3>1. UNCHANGED rowVars /\ (SourceChanged \/ ComponentComplete \/ SetRoleName \/ SetRole
                                 \/ SetSortColumn \/ SetSortOrder)
      BY <1>6, <2>2 DEF ChangeRoles
    <3>2. UNCHANGED hasSource
      BY <3>1 DEF SourceChanged, ComponentComplete, SetRoleName, SetRole, SetSortColumn, SetSortOrder
    <3> QED
      BY <1>4, <2>1, <2>2, <3>1, <3>2
  <2>3. CASE property["filter"].role # property'["filter"].role
    BY <1>2, <1>3, <1>6, <2>1, <2>3 DEF ChangeRoles
  <2> QED
    BY <2>2, <2>3
<1>7. CASE NumbersReset
  <2>1. UNCHANGED <<numbers, filterVars>>
    BY <1>7 DEF NumbersReset
  <2>2. NumberTypes'
    BY <1>1, <1>7, NumbersAssumption
    DEF NumbersReset, setMinimumValue, setMaximumValue, setStepSize, NumberTypes
  <2>3. Types'
    BY <1>1, <2>1, <2>2 DEF filterVars
  <2>4. CASE hasSource
    BY <1>3, <1>7, <2>3, <2>4 DEF NumbersReset
  <2>5. CASE ~hasSource
    <3>1. UNCHANGED <<hasSource, rowVars, filterVars>>
      BY <1>7, <2>5 DEF NumbersReset, vars
    <3>2. AcceptedRows = {} /\ AcceptedRows' = {}
      BY <2>5, <3>1 DEF AcceptedRows
    <3>3. Accepts("column", 0, TRUE)' = Accepts("column", 0, TRUE)
      BY <3>1 DEF Accepts, filterVars
    <3> QED
      BY <2>1, <2>3, <3>1, <3>2, <3>3 DEF ShownInv, rowVars
  <2> QED
    BY <2>4, <2>5
<1>8. CASE NumbersReformatted
  <2>1. /\ UNCHANGED <<hasSource, numbers, filterVars, shown, columnShown, count>>
        /\ reformatted' = (reformatted \/ hasSource)
    BY <1>8 DEF NumbersReformatted, vars
  <2>2. NumberTypes'
    BY <1>1, <1>8 DEF NumbersReformatted, setFormattingOptions, NumberTypes
  <2>3. Types'
    BY <1>1, <2>1, <2>2 DEF filterVars
  <2>4. ~hasSource => AcceptedRows = {} /\ AcceptedRows' = {}
    BY <2>1 DEF AcceptedRows
  <2>5. Accepts("column", 0, TRUE)' = Accepts("column", 0, TRUE)
    BY <2>1 DEF Accepts, filterVars
  <2> QED
    BY <2>1, <2>3, <2>4, <2>5 DEF ShownInv
<1>9. CASE SetFilterCallback
  <2>1. PICK k \in {"row", "column"}, c \in Callbacks \cup {NoCallback} :
          m_filterCallback' = [m_filterCallback EXCEPT ![k] = c]
    BY <1>9 DEF SetFilterCallback
  <2>2. UNCHANGED <<numberVars, numbers, m_filterString>> /\ Filtered
    BY <1>9 DEF SetFilterCallback
  <2>3. Types'
    BY <1>1, <2>1, <2>2 DEF NumberTypes, numberVars
  <2> QED
    BY <1>3, <2>2, <2>3
<1>10. CASE SetFilterString
  <2>1. /\ UNCHANGED <<numberVars, numbers, m_filterCallback>> /\ Filtered
        /\ m_filterString' = ~m_filterString
    BY <1>10 DEF SetFilterString
  <2>2. Types'
    BY <1>1, <2>1 DEF NumberTypes, numberVars
  <2> QED
    BY <1>3, <2>1, <2>2
<1>11. CASE UNCHANGED allVars
  BY <1>4, <1>11 DEF allVars, vars
<1> QED
  BY <1>5, <1>6, <1>7, <1>8, <1>9, <1>10, <1>11 DEF FilteredNext

LEMMA FilteredSpecKeeps == FilteredSpec => [](IInv /\ ShownInv)
<1>1. FilteredInit => IInv /\ ShownInv
  BY FilteredInitInv
<1>2. (IInv /\ ShownInv) /\ [FilteredNext]_allVars => (IInv /\ ShownInv)'
  BY FilteredStepIsStep, NextKeepsIInv, FilteredKeepsShown
<1> QED
  BY <1>1, <1>2, PTL DEF FilteredSpec

\* The rows accepted are the numbers from the minimum to the maximum that pass.
LEMMA ShownAre == ASSUME ShownInv PROVE FilteredNumbersShown
<1> SUFFICES ASSUME numbers, ~reformatted
             PROVE  /\ count = Cardinality(shown) /\ (columnShown <=> CallbackAccepts("column", 0))
                    /\ \A row \in RowNumbers :
                          row \in shown <=>
                              /\ hasSource /\ IsNumber(row) /\ CallbackAccepts("row", row)
                              /\ m_filterCallback["row"] = NoCallback /\ m_filterString =>
                                    property["filter"].role = DisplayRole /\ HasSeparator(row)
  BY DEF FilteredNumbersShown
<1>1. shown = AcceptedRows /\ columnShown = Accepts("column", 0, TRUE) /\ count = Cardinality(shown)
  BY DEF ShownInv
<1>2. \A k \in {"row", "column"}, row \in RowNumbers :
         m_filterCallback[k] # NoCallback =>
            /\ m_filterCallback[k][row] \in {"yes", "no", "error"}
            /\ m_filterCallback[k][row] # "no" <=> CallbackAccepts(k, row)
  BY FilterAssumption DEF ShownInv, CallbackAccepts
<1>3. columnShown <=> CallbackAccepts("column", 0)
  BY <1>1, <1>2, FilterAssumption DEF Accepts, CallbackAccepts
<1>4. ASSUME NEW row \in RowNumbers
      PROVE  row \in AcceptedRows <=>
                 /\ hasSource /\ IsNumber(row) /\ CallbackAccepts("row", row)
                 /\ m_filterCallback["row"] = NoCallback /\ m_filterString =>
                       property["filter"].role = DisplayRole /\ HasSeparator(row)
  <2>1. row \in 0 .. NumberRows - 1 <=> IsNumber(row)
    BY RowsAreNumbers, FilterAssumption DEF ShownInv
  <2>2. Accepts("row", row, MatchesText(row)) <=>
            /\ CallbackAccepts("row", row)
            /\ m_filterCallback["row"] = NoCallback => MatchesText(row)
    BY <1>2 DEF Accepts, CallbackAccepts
  <2> QED
    BY <2>1, <2>2 DEF AcceptedRows, MatchesText
<1> QED
  BY <1>1, <1>3, <1>4

\* The proxy shows the numbers from the minimum to the maximum that its callback, or else
\* its text, accepts as everything is now, and the binding to count has been told of how
\* many there are, whatever reset or set a filter last.
THEOREM FilteredNumbersShownAlways == FilteredSpec => []FilteredNumbersShown
<1>1. IInv /\ ShownInv => FilteredNumbersShown
  BY ShownAre
<1> QED
  BY <1>1, FilteredSpecKeeps, PTL

\* Roles and names agree, and what was set last leads, but for a number that the proxy was
\* not told of, on a source of numbers as well.
THEOREM RolesAgreeWithNumbers == FilteredSpec => [](RolesAgree /\ SourceOfTruthKept)
<1>1. IInv /\ ShownInv => RolesAgree /\ SourceOfTruthKept
  BY DEF IInv
<1> QED
  BY <1>1, FilteredSpecKeeps, PTL
============================================================================
