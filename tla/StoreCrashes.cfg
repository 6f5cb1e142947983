SPECIFICATION Spec
CONSTANTS
    Producer = {1, 2}
    MaxRecords = 2
    MidCrashes = TRUE
    MaxSequence = 2
    MaxAppends = 4
    MaxCrashes = 2
    MaxFailures = 1
INVARIANT TypeOK
INVARIANT LogIsContiguous
INVARIANT MemoryIsReloadable
INVARIANT AnswersAreFinal
INVARIANT SequencesInOrder
INVARIANT ReadsAreStable
PROPERTY FetchSkipsOnlyEvicted
CHECK_DEADLOCK FALSE
