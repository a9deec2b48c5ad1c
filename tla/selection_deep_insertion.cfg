CONSTANTS
    n1 = n1
    n2 = n2
    n3 = n3
    n4 = n4
    Nodes = {n1, n2, n3}
    Root = Root
    Absent = Absent
    MaxForest = 3
    Operations = {"select", "insertDeep"}
    MaxPending = 1
SYMMETRY Symmetry
SPECIFICATION Spec
INVARIANT ShowsSelection
