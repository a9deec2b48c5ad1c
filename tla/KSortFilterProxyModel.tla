----------------------- MODULE KSortFilterProxyModel -----------------------
(***************************************************************************)
(* The QML KSortFilterProxyModel (ksortfilterproxymodel.cpp): the role to  *)
(* sort by and the role to filter by can each be set by its number, a      *)
(* property of QSortFilterProxyModel, or by its name, and each follows the *)
(* other.  The one that was set last is the source of truth: it stays when *)
(* the source model, or the role names of the source model, change.        *)
(***************************************************************************)
EXTENDS Integers, FiniteSets

CONSTANTS
    RoleIds, Names,
    DisplayRole,        \* the role that stands in for an unknown name
    NoName,             \* the empty string
    Columns             \* values of sortColumn

ASSUME RolesAssumption == DisplayRole \in RoleIds /\ NoName \notin Names /\ -1 \in Columns /\ 0 \in Columns

VARIABLES
    hasSource,
    sourceRoleNames,        \* role -> name in the source model
    m_componentCompleted,
    m_roleIds,              \* the names as last read
    property,               \* "sort" and "filter" -> the role, its name, the source of truth
    sortColumn,
    setLast,                \* what the user set last of each, the number or the name
    unheard                 \* those of which it is the number, but no signal told the proxy:
                            \* while there was no source model, or the number there was

vars == <<hasSource, sourceRoleNames, m_componentCompleted, m_roleIds, property, sortColumn, setLast, unheard>>

Kinds == {"sort", "filter"}

\* A model has names for some of the roles, and no name twice.
RoleNames == {f \in [RoleIds -> Names \cup {NoName}] :
                 \A r, s \in RoleIds : f[r] = f[s] /\ f[r] # NoName => r = s}

\* roleNameToId, where the names were read as ids.
RoleOf(ids, name) ==
    IF name # NoName /\ \E r \in RoleIds : ids[r] = name THEN CHOOSE r \in RoleIds : ids[r] = name ELSE DisplayRole

\* The role number is the source of truth: the name follows it.
ByRole(p, names) == [role |-> p.role, name |-> names[p.role], truth |-> "id"]

\* sortRoleChanged() and filterRoleChanged(): the slot is syncSortRoleProperties() or
\* syncFilterRoleProperties() once more, and changes nothing under the guard.
RoleChanged(p, guard, names) == IF guard THEN p ELSE ByRole(p, names)

\* syncSortRoleProperties and syncFilterRoleProperties, with a source model.
syncRoleProperties(p, guard, ids, names) ==
    IF guard /\ p.truth = "name"
    THEN LET named == [p EXCEPT !.role = RoleOf(ids, p.name)]
         IN  IF named.role = p.role THEN p ELSE RoleChanged(named, guard, names)
    ELSE ByRole(p, names)

\* The column that syncSortRoleProperties sorts by, when p is the property of sorting.
SortedColumn(p) ==
    IF p.truth # "name" THEN sortColumn
    ELSE IF p.name = NoName THEN -1 ELSE IF sortColumn < 0 THEN 0 ELSE sortColumn

\* Mutant of syncRoleNames: the guards are missing.
syncRoleNamesUnguarded(names) ==
    /\ m_roleIds' = names
    /\ property' = [k \in Kinds |-> syncRoleProperties(property[k], FALSE, names, names)]
    /\ sortColumn' = SortedColumn(property.sort)

\* syncRoleNames, with a source model that has the names.
syncRoleNames(names) ==
    /\ m_roleIds' = names
    /\ property' = [k \in Kinds |-> syncRoleProperties(property[k], TRUE, names, names)]
    /\ sortColumn' = SortedColumn(property.sort)

----------------------------------------------------------------------------
Init ==
    /\ hasSource = FALSE /\ sourceRoleNames \in RoleNames /\ m_componentCompleted = FALSE
    /\ m_roleIds = [r \in RoleIds |-> NoName]
    /\ \E display \in Names : property = [k \in Kinds |-> [role |-> DisplayRole, name |-> display, truth |-> "id"]]
    /\ sortColumn = -1 /\ setLast = [k \in Kinds |-> "id"] /\ unheard = {}

\* Mutant of SetSourceModel: the names are read when a source signal tells of them.
SetSourceModelLater == \E names \in RoleNames :
    /\ hasSource' = TRUE /\ sourceRoleNames' = names
    /\ UNCHANGED <<m_roleIds, property, sortColumn, m_componentCompleted, setLast, unheard>>

\* setSourceModel, with another model.
SetSourceModel == \E names \in RoleNames :
    /\ hasSource' = TRUE /\ sourceRoleNames' = names
    /\ IF m_componentCompleted THEN syncRoleNames(names) ELSE UNCHANGED <<m_roleIds, property, sortColumn>>
    /\ UNCHANGED <<m_componentCompleted, setLast, unheard>>
UnsetSourceModel ==
    /\ hasSource /\ hasSource' = FALSE
    /\ UNCHANGED <<sourceRoleNames, m_componentCompleted, m_roleIds, property, sortColumn, setLast, unheard>>

\* modelReset(), rowsInserted() or rowsRemoved() of the source, which may come with other
\* role names.
SourceChanged == \E names \in RoleNames :
    /\ hasSource /\ sourceRoleNames' = names /\ syncRoleNames(names)
    /\ UNCHANGED <<hasSource, m_componentCompleted, setLast, unheard>>

ComponentComplete ==
    /\ ~m_componentCompleted /\ m_componentCompleted' = TRUE
    /\ IF hasSource THEN syncRoleNames(sourceRoleNames) ELSE UNCHANGED <<m_roleIds, property, sortColumn>>
    /\ UNCHANGED <<hasSource, sourceRoleNames, setLast, unheard>>

\* setSortRoleName and setFilterRoleName.
SetRoleName == \E k \in Kinds, name \in Names \cup {NoName} :
    LET p == property[k]
        named == [p EXCEPT !.truth = "name", !.name = name]
    IN  /\ IF p.truth = "name" /\ p.name = name THEN UNCHANGED <<property, sortColumn>>
           ELSE /\ property' = [property EXCEPT ![k] = IF hasSource
                                   THEN syncRoleProperties(named, TRUE, m_roleIds, sourceRoleNames) ELSE named]
                /\ sortColumn' = IF hasSource /\ k = "sort" THEN SortedColumn(named) ELSE sortColumn
        /\ setLast' = [setLast EXCEPT ![k] = "name"] /\ unheard' = unheard \ {k}
        /\ UNCHANGED <<hasSource, sourceRoleNames, m_componentCompleted, m_roleIds>>

\* QSortFilterProxyModel::setSortRole and setFilterRole, and the slot of their signal, which
\* returns at once without a source.
SetRole == \E k \in Kinds, r \in RoleIds :
    LET p == [property[k] EXCEPT !.role = r]
        heard == hasSource /\ r # property[k].role
    IN  /\ property' = [property EXCEPT ![k] = IF heard
                            THEN syncRoleProperties(p, FALSE, m_roleIds, sourceRoleNames) ELSE p]
        /\ setLast' = [setLast EXCEPT ![k] = "id"]
        /\ unheard' = IF ~heard /\ p.truth = "name" THEN unheard \cup {k} ELSE unheard \ {k}
        /\ UNCHANGED <<hasSource, sourceRoleNames, m_componentCompleted, m_roleIds, sortColumn>>

\* setSortColumn, and setSortOrder, which sorts by the first column when none was.
SetSortColumn == \E column \in Columns :
    /\ column # sortColumn /\ sortColumn' = column
    /\ UNCHANGED <<hasSource, sourceRoleNames, m_componentCompleted, m_roleIds, property, setLast, unheard>>
SetSortOrder ==
    /\ sortColumn < 0 /\ sortColumn' = 0
    /\ UNCHANGED <<hasSource, sourceRoleNames, m_componentCompleted, m_roleIds, property, setLast, unheard>>

Next ==
    \/ SetSourceModel \/ UnsetSourceModel \/ SourceChanged \/ ComponentComplete
    \/ SetRoleName \/ SetRole \/ SetSortColumn \/ SetSortOrder

Spec == Init /\ [][Next]_vars

----------------------------------------------------------------------------
\* Once the component is complete the role that is used is the one with the name that was
\* set, in the source model as it is now, or else the name is that of the role that was set.
RolesAgree ==
    hasSource /\ m_componentCompleted =>
        \A k \in Kinds :
            LET p == property[k]
            IN  IF p.truth = "name" THEN p.role = RoleOf(sourceRoleNames, p.name)
                ELSE p.name = sourceRoleNames[p.role]

\* What is set last stays the source of truth: no change of the source model, nor what one
\* property does to the other, makes it the other one.  One exception: a number that is set
\* after a name while there is no source model, or to what the name stands for already, is
\* unheard, and the name stays.
SourceOfTruthKept == \A k \in Kinds : property[k].truth = IF k \in unheard THEN "name" ELSE setLast[k]
============================================================================
