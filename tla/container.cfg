CONSTANTS
    l1 = l1
    l2 = l2
    l3 = l3
    Left = {l1, l2, l3}
    Right = {0, 1, 2}
    DefaultLeft = NoIndex
    DefaultRight = 0
    CheckedKeys = TRUE
SPECIFICATION Spec
INVARIANTS TypeOK MutuallyInverse
PROPERTY ImplementsBiMap
