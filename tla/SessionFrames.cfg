SPECIFICATION FairSpec
CONSTANTS
    Environments <- MCEnvironments
    Scripts <- MCScripts
    Data <- MCData
INVARIANT ArrivesAsSent
INVARIANT AnswersMatch
INVARIANT ClusterMetadataSurvives
INVARIANT RunsForItsPrincipal
PROPERTY EveryRequestSettled
CHECK_DEADLOCK FALSE
