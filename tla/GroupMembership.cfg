SPECIFICATION FairSpec
CONSTANTS
    Client = {1, 2}
    Topic = {1}
    TopicOf <- OneTopic
    PartitionCount <- ThreePartitions
    SessionTimeout = 1
    Punctual = {1}
    Mortal = {2}
    MaxJoins = 4
    MaxRestarts = 1
INVARIANT TypeOK
INVARIANT EveryPartitionAssigned
INVARIANT OneClientPerMember
INVARIANT HeartbeatsKeepMembership
PROPERTY DeadMembersLeave
