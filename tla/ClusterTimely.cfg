SPECIFICATION FairSpec
CONSTANTS
    Broker <- Brokers
    Partition <- OnePartition
    Replicas <- RotatedReplicas
    SeedLeader <- RotatedLeaders
    Controller = 1
    HeartbeatTimeout = 1
    Timely = TRUE
    DiskFaults = FALSE
    Crashable = {2}
    MaxCrashes = 1
    Started = {1, 2, 3}
    MaxEpoch = 6
INVARIANT OnlyFailedLeadersDeposed
PROPERTY LeadersRecover
