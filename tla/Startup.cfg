SPECIFICATION Spec
CONSTANTS
    Configurations <- MCConfigurations
    Hashes <- MCHashes
    Buckets = {1}
    ProbeCount = 3
    Durations = {3, 4, 5}
    NsPerMs = 2
CHECK_DEADLOCK FALSE
INVARIANTS StartTypeOK ReplicasApart AllReplicasOrNone SameAfterEveryStart ReplicasOpen OwnerIsStable
PROPERTIES PlacedByLatency StartEnds
