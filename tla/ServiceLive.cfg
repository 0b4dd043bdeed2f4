SPECIFICATION LiveSpec
CONSTANTS
    NodeLists <- MCNodeLists
    NodesOf <- MCNodesOf
    Deployments <- Replicating
    Keys = {k1}
    Threads = {t1, t2}
    Stores = {"s1", "s2"}
    Values = {v1}
    BucketSize = 2
    Verbs = {"create", "get", "delete"}
    RevParams = {}
PROPERTIES EveryRequestAnswered Replicated
