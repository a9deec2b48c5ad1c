CONSTANTS
    n1 = n1
    n2 = n2
    n3 = n3
    n4 = n4
    Nodes = {n1, n2, n3, n4}
    Root = Root
    Absent = Absent
    MaxForest = 2
    Operations = {"select", "insert", "remove", "layout", "move", "reset", "behavior",
                  "selectionModel", "selectInserting", "selectRemoving",
                  "clearRelayouting", "selectResetting"}
    MaxPending = 1
SYMMETRY Symmetry
SPECIFICATION Spec
INVARIANTS TypeOK ShowsSelection ReadableMidway MapsBackAndForth NoStaleParents SignalsNest
    RootsInOrder RootsHeard DataChangesReach SelectionsMapBack
