SPECIFICATION FairSpec
CONSTANTS
    Broker <- Brokers
    ReplicaList <- InOrder
    Controller = 1
    Replica = {1, 2, 3}
    SeedLeader = 1
    CreatedOn = {1, 2, 3}
    MinInsync = 2
    MaxRequests = 2
    MaxElections = 2
    MaxCrashes = 2
INVARIANT TypeOK
INVARIANT RecordHasOneOffset
INVARIANT AnsweredIsKept
INVARIANT FollowersArePrefixes
INVARIANT AcksAreCopies
PROPERTY ProduceAnswered
