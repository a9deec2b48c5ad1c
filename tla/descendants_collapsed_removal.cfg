CONSTANTS
    n1 = n1
    n2 = n2
    n3 = n3
    n4 = n4
    n5 = n5
    n6 = n6
    Nodes = {n1, n2, n3, n4}
    Root = Root
    Absent = Absent
    MaxForest = 2
    ExpandsByDefault = TRUE
    Operations = {"insert", "collapse", "remove", "removeCollapsed"}
    EagerListeners = FALSE
SYMMETRY Symmetry
VIEW View
SPECIFICATION Spec
INVARIANT ShowsVisibleTree
