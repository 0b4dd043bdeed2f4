SPECIFICATION Spec
CONSTANTS
    NodeLists <- MCNodeLists
    NodesOf <- MCNodesOf
    Deployments <- Faults
    Keys = {k1}
    Threads = {t1, t2}
    Stores = {"s1", "s2", "s3"}
    Values = {v1, v2}
    BucketSize = 1
    Verbs = {"create", "get", "delete"}
    RevParams = {}
SYMMETRY Symmetry
INVARIANTS ServedIsStored 
