SPECIFICATION Spec
CONSTANTS
    Partition <- MCPartition
    Requested <- MCRequested
    Offset <- MCOffset
    Group = {g}
    Fetcher = {f}
    DefaultMaxRecords = 2
    MaxOffset = 1
    MaxWait = 0
    MaxFaults = 1
INVARIANT CommitsSurvive
CHECK_DEADLOCK FALSE
