SPECIFICATION TopoSpec
CONSTANTS
    Node = {1, 2, 3, 4}
    MaxInputs = 2
    MaxList = 4
CHECK_DEADLOCK FALSE
INVARIANTS
    SortIsTopological
