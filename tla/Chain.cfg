SPECIFICATION Spec
CONSTANTS
    Threads = {t1, t2}
    Names = {"a", "b", "c", "d"}
    Stores <- MCStores
    Values = {v1, v2}
    Deployments <- MCDeployments
    RedisRetryCount = 3
INVARIANTS ChainTypeOK AcknowledgedIsRead PrefixHolds DeletedGone ReadsOwnValue DialRetries
PROPERTIES ReplicasConverge 
