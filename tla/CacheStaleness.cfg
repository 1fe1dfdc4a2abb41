SPECIFICATION FairSpec
CONSTANTS
    Writers = {w1, w2}
    Threads = {r1, r2}
    Keys <- MCKeys
    NoReport = NoReport
INVARIANTS CacheTypeOK StaleHasACause
PROPERTY StaleFades
