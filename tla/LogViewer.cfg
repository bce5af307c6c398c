CONSTANTS
    Connections = {1, 2}
    Chunk = 2
    Amounts = {1, 4}
    ScrollBack <- MCScrollBack
    Scenarios <- MCScenarios
SPECIFICATION Spec
INVARIANTS
    TypeOK
    EntriesAreWhole
    FilterRespected
    FollowOnlyOnDemand
PROPERTY EveryTailEnds
CHECK_DEADLOCK FALSE
