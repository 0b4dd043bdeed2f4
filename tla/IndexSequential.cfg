SPECIFICATION Spec
CONSTANTS
    NodeLists <- MCNodeLists
    Keys = {1, 2}
    Threads = {t1}
    Ops = {"put", "tombstone", "get", "since", "update"}
    MaxRev = 6
INVARIANTS SnapshotReads RangeSinceSorted  RestoredAnswersSame 
