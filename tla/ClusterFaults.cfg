SPECIFICATION Spec
CONSTANTS
    Broker <- Brokers
    Partition <- OnePartition
    Replicas <- RotatedReplicas
    SeedLeader <- RotatedLeaders
    Controller = 1
    HeartbeatTimeout = 1
    Timely = FALSE
    DiskFaults = TRUE
    Crashable = {1}
    MaxCrashes = 1
    Started = {1, 2, 3}
    MaxEpoch = 2
INVARIANT ActsOnStoredLeaders
