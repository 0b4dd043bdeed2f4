SPECIFICATION ToolSpec
CONSTANTS
    NodeLists <- MCNodeLists
    NodesOf <- MCNodesOf
    Deployments <- ToolDeployments
    Keys = {k1}
    Threads = {t1, t2}
    Stores = {"s1", "s2"}
    Values = {v1, v2}
    BucketSize = 2
    Verbs = {"create", "get"}
    RevParams = {}
    MaxEvents = 2
CHECK_DEADLOCK FALSE
SYMMETRY Symmetry
INVARIANTS ReadsKnown LogLinearizable
