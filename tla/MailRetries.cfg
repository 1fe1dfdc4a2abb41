SPECIFICATION FairSpec
CONSTANTS
    Tasks = {m1}
    Concurrency = 2
INVARIANTS
    TypeOK
    AttemptsBounded
    GivesUpOnlyAfterRetries
PROPERTY EveryTaskSettles
CHECK_DEADLOCK FALSE
