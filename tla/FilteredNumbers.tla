-------------------------- MODULE FilteredNumbers --------------------------
(***************************************************************************)
(* A KSortFilterProxyModel on a KNumberModel, filtered by a text and by    *)
(* callbacks, and a QML binding to its property count.  Its other source   *)
(* models are those of KSortFilterProxyModel, which have no rows here.     *)
(***************************************************************************)
EXTENDS KSortFilterProxyModel, KNumberModel

CONSTANTS
    Callbacks,          \* row or column -> "yes", "no", or "error" for an exception
    RowNumbers,         \* bound: rows the numbers may have
    NoCallback,         \* null
    NumberRoles         \* roleNames of the KNumberModel

ASSUME FilterAssumption ==
    /\ RowNumbers \subseteq Nat /\ 0 \in RowNumbers
    /\ Callbacks \subseteq [RowNumbers -> {"yes", "no", "error"}] /\ NoCallback \notin Callbacks
    /\ NumberRoles \in RoleNames

VARIABLES
    numbers,            \* bound: the source model, when there is one, is the KNumberModel
    m_filterCallback,   \* "row" and "column" -> the callback
    m_filterString,     \* it is the separator, or empty
    shown,              \* the rows of the source that the proxy shows
    columnShown,        \* it shows the only column
    count,              \* count as the binding has read it
    reformatted         \* the texts have changed since the rows were filtered

filterVars == <<m_filterCallback, m_filterString>>
rowVars == <<shown, columnShown, count, reformatted>>
allVars == <<vars, numberVars, numbers, filterVars, rowVars>>

\* QSortFilterProxyModel::filterAcceptsRow, by m_filterString in the text of the filter role.
MatchesText(row) == m_filterString => property["filter"].role = DisplayRole /\ HasSeparator(row)

\* filterAcceptsRow and filterAcceptsColumn: a callback that throws accepts.
Accepts(kind, i, otherwise) ==
    IF m_filterCallback[kind] = NoCallback THEN otherwise ELSE m_filterCallback[kind][i] # "no"

AcceptedRows ==
    IF ~hasSource \/ ~numbers THEN {} ELSE {row \in 0 .. NumberRows - 1 : Accepts("row", row, MatchesText(row))}

\* The proxy filters its source anew, and emits modelReset(), or rowsRemoved() and
\* rowsInserted() for the rows that go and come; each of them emits rowCountChanged().
Filtered ==
    /\ shown' = AcceptedRows' /\ columnShown' = Accepts("column", 0, TRUE)' /\ reformatted' = FALSE
    /\ count' = Cardinality(shown')

FilteredInit ==
    /\ Init /\ NumbersInit
    /\ numbers \in BOOLEAN /\ (numbers => sourceRoleNames = NumberRoles)
    /\ m_filterCallback = [k \in {"row", "column"} |-> NoCallback] /\ m_filterString = FALSE
    /\ shown = {} /\ columnShown = TRUE /\ count = 0 /\ reformatted = FALSE

----------------------------------------------------------------------------
\* Bound: with the numbers only the filter role is set.
SortsNothing == property'["sort"].truth = "id" /\ property'["sort"].role = DisplayRole /\ sortColumn' = -1

\* setSourceModel with the numbers, or with a model that has no rows.
ChangeSourceModel ==
    /\ SetSourceModel \/ UnsetSourceModel
    /\ numbers /\ hasSource' => ~hasSource /\ sourceRoleNames' = NumberRoles
    /\ UNCHANGED <<numberVars, numbers, filterVars>> /\ Filtered

\* What changes roles: QSortFilterProxyModel filters anew when the filter role is another.
ChangeRoles ==
    /\ SourceChanged \/ ComponentComplete \/ SetRoleName \/ SetRole \/ SetSortColumn \/ SetSortOrder
    /\ numbers => SortsNothing /\ sourceRoleNames' = sourceRoleNames
    /\ UNCHANGED <<numberVars, numbers, filterVars>>
    /\ IF property["filter"].role = property'["filter"].role THEN UNCHANGED rowVars ELSE Filtered

\* A setter of the numbers, whose modelReset() comes with the same role names.
NumbersReset ==
    /\ numbers /\ UNCHANGED numbers
    /\ (\E v \in Bounds : setMinimumValue(v) \/ setMaximumValue(v)) \/ \E v \in Steps : setStepSize(v)
    /\ IF hasSource THEN SourceChanged /\ sourceRoleNames' = NumberRoles /\ UNCHANGED filterVars /\ Filtered
       ELSE UNCHANGED <<vars, filterVars, rowVars>>

\* The proxy drops a dataChanged() that ends in an invalid index.
NumbersReformatted ==
    /\ numbers /\ setFormattingOptions
    /\ reformatted' = (reformatted \/ hasSource)
    /\ UNCHANGED <<vars, numbers, filterVars, shown, columnShown, count>>

\* Mutant of SetFilterCallback: invalidateFilter() is missing.
SetFilterCallbackOnly == \E k \in {"row", "column"}, c \in Callbacks \cup {NoCallback} :
    /\ numbers /\ c # m_filterCallback[k] /\ m_filterCallback' = [m_filterCallback EXCEPT ![k] = c]
    /\ UNCHANGED <<vars, numberVars, numbers, m_filterString, rowVars>>

\* setFilterRowCallback and setFilterColumnCallback, with null or a function.
SetFilterCallback == \E k \in {"row", "column"}, c \in Callbacks \cup {NoCallback} :
    /\ numbers /\ c # m_filterCallback[k] /\ m_filterCallback' = [m_filterCallback EXCEPT ![k] = c]
    /\ UNCHANGED <<vars, numberVars, numbers, m_filterString>> /\ Filtered

\* setFilterString, with another text.
SetFilterString ==
    /\ numbers /\ m_filterString' = ~m_filterString
    /\ UNCHANGED <<vars, numberVars, numbers, m_filterCallback>> /\ Filtered

FilteredNext ==
    \/ ChangeSourceModel \/ ChangeRoles \/ NumbersReset \/ NumbersReformatted \/ SetFilterCallback \/ SetFilterString

FilteredSpec == FilteredInit /\ [][FilteredNext]_allVars

----------------------------------------------------------------------------
\* A row from the minimum to the maximum at the step, whichever way that goes.
IsNumber(row) ==
    \/ row = 0
    \/ stepSize > 0 /\ value(row) <= maximumValue
    \/ stepSize < 0 /\ value(row) >= maximumValue
CallbackAccepts(kind, i) == m_filterCallback[kind] # NoCallback => m_filterCallback[kind][i] \in {"yes", "error"}

\* The numbers shown are those from the minimum to the maximum, at the step, that the
\* callback accepts, or else the text, as all of them are now, and count is how many; but
\* after the texts were formatted in another way only at the next change.
FilteredNumbersShown ==
    numbers /\ ~reformatted =>
        /\ count = Cardinality(shown) /\ (columnShown <=> CallbackAccepts("column", 0))
        /\ \A row \in RowNumbers :
              row \in shown <=>
                  /\ hasSource /\ IsNumber(row) /\ CallbackAccepts("row", row)
                  /\ m_filterCallback["row"] = NoCallback /\ m_filterString =>
                        property["filter"].role = DisplayRole /\ HasSeparator(row)
============================================================================
