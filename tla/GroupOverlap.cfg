SPECIFICATION Spec
CONSTANTS
    Client = {1, 2}
    Topic = {1}
    TopicOf <- OneTopic
    PartitionCount <- ThreePartitions
    SessionTimeout = 1
    Punctual = {1, 2}
    Mortal = {}
    MaxJoins = 2
    MaxRestarts = 0
INVARIANT PartitionHasOneOwner
