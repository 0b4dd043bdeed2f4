SPECIFICATION Spec
CONSTANTS
    NodeLists <- MCNodeLists
    Keys = {k1}
    Threads = {t1, t2, t3}
    Ops = {"put", "tombstone", "get"}
    MaxRev = 4
SYMMETRY Symmetry
INVARIANTS IndexTypeOK GenerationsSorted ModifiedIsNewest GetFindsNewest SinceComplete AppliedKept
PROPERTIES ImplementsMap
