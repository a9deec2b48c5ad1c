CONSTANTS
    n1 = n1
    n2 = n2
    n3 = n3
    n4 = n4
    n5 = n5
    n6 = n6
    Nodes = {n1, n2, n3, n4, n5, n6}
    Root = Root
    Absent = Absent
    MaxForest = 2
    ExpandsByDefault = TRUE
    Operations = {"insert", "remove", "move", "layout", "reset", "source", "expandsByDefault"}
    EagerListeners = FALSE
SYMMETRY Symmetry
VIEW View
SPECIFICATION Spec
INVARIANTS ShowsVisibleTree LastChildrenMapped ReadableMidway SignalsNest
    AnnouncesRealRows
