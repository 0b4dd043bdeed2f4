SPECIFICATION Spec
CONSTANTS
    NodeLists <- MCNodeLists
    NodesOf <- MCNodesOf
    Deployments <- RemoteOnly
    Keys = {k1}
    Threads = {t1, t2}
    Stores = {"s1"}
    Values = {v1}
    BucketSize = 2
    Verbs = {"create", "get"}
    RevParams = {}
SYMMETRY Symmetry
INVARIANT AsyncOnlyReadable
