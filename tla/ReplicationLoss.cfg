SPECIFICATION Spec
CONSTANTS
    Broker <- Brokers
    ReplicaList <- InOrder
    Controller = 1
    Replica = {1, 2, 3}
    SeedLeader = 1
    CreatedOn = {1, 2, 3}
    MinInsync = 2
    MaxRequests = 2
    MaxElections = 2
    MaxCrashes = 0
INVARIANT InsyncRecordsSurvive
