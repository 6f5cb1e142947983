SPECIFICATION Spec
CONSTANTS
    Broker <- Brokers
    Partition <- OnePartition
    Replicas <- RotatedReplicas
    SeedLeader <- RotatedLeaders
    Controller = 1
    HeartbeatTimeout = 1
    Timely = FALSE
    DiskFaults = FALSE
    Crashable = {1, 2}
    MaxCrashes = 1
    Started = {1, 2, 3}
    MaxEpoch = 3
INVARIANT TypeOK
INVARIANT EpochHasOneLeader
PROPERTY EpochsNeverRegress
PROPERTY ImplementsLeadership
