SPECIFICATION FairSpec
CONSTANTS
    Group = {g, h}
    Producer = {p}
    Consumer = {c, d}
    QUEUE_CAPACITY = 3
    MaxMessages = 3
    MaxPartitions = 2
    MaxFailures = 1
    MaxFaults = 1
INVARIANT TypeOK
INVARIANT QueueHasOneTask
INVARIANT TakenInOrder
INVARIANT AnsweredIsQueued
PROPERTY QueuedIsDelivered
CHECK_DEADLOCK FALSE
