SPECIFICATION Spec
CONSTANTS
    NodeLists <- MCNodeLists
    Keys = {k1}
    Threads = {t1, t2}
    Ops = {"put", "update", "get"}
    MaxRev = 4
SYMMETRY Symmetry
INVARIANT UpdateAssumesLatest
