CONSTANTS
    Indexes = {a, b, c}
    Rows = {0, 1, 2, 3, 4}
    DefaultLeft = NoIndex
    DefaultRight = 0
SPECIFICATION ShiftSpec
INVARIANTS EndsInShift StaysBijective
