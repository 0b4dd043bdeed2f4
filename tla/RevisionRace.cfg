SPECIFICATION Spec
CONSTANTS
    NodeLists <- MCNodeLists
    Keys = {k1, k2}
    Threads = {t1, t2}
    Ops = {"put", "get"}
    MaxRev = 4
SYMMETRY Symmetry
INVARIANT ChangesDiffer
