SPECIFICATION Spec
CONSTANTS
    Tasks = {m1}
    Concurrency = 2
INVARIANT ThreeRetriesAtMost
CHECK_DEADLOCK FALSE
