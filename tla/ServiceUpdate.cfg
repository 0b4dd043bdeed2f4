SPECIFICATION Spec
CONSTANTS
    NodeLists <- MCNodeLists
    NodesOf <- MCNodesOf
    Deployments <- OneStore
    Keys = {k1}
    Threads = {t1, t2}
    Stores = {"s1"}
    Values = {v1}
    BucketSize = 2
    Verbs = {"create", "update", "get", "delete"}
    RevParams = {1, 3}
SYMMETRY Symmetry
INVARIANTS NeverEmpty 
