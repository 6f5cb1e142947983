SPECIFICATION FairSpec
CONSTANTS
    Partition <- MCPartition
    Requested <- MCRequested
    Offset <- MCOffset
    Group = {g}
    Fetcher = {f}
    DefaultMaxRecords = 2
    MaxOffset = 2
    MaxWait = 1
    MaxFaults = 2
INVARIANT CreatedTopicSurvives
INVARIANT OffsetsNeverReissued
INVARIANT LagNeverUnderstated
INVARIANT FetchSeesRecords
PROPERTY FetchAnswered
CHECK_DEADLOCK FALSE
