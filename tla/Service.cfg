SPECIFICATION Spec
CONSTANTS
    NodeLists <- MCNodeLists
    NodesOf <- MCNodesOf
    Deployments <- Plain
    Keys = {k1}
    Threads = {t1, t2}
    Stores = {"s1", "s2"}
    Values = {v1}
    BucketSize = 2
    Verbs = {"create", "get", "range", "delete"}
    RevParams = {1, 3}
SYMMETRY Symmetry
INVARIANTS TypeOK ServedIsStored ErasedStaysErased ErasedNotServed
