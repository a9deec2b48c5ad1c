SPECIFICATION Spec
CHECK_DEADLOCK FALSE
CONSTANTS
    NoIndex = NoIndex
    Orders = {ascending, descending}
    r1 = r1
    r2 = r2
    r3 = r3
    RowIds = {r1, r2, r3}
    Top = Top
    Under <- MCUnder
    ColumnIds = {c1, c2, c3}
    x = x
    y = y
    Texts = {x, y}
    m_extraHeaders <- MCExtraHeaders
SYMMETRY MCSymmetry
INVARIANTS
    PersistentIndexesFollow
    HeadersHeard
    SelectionReachesSource
