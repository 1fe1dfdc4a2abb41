SPECIFICATION FairSpec
CONSTANTS
    Requests = {r1, r2}
    Accounts = {a1, s1}
    Superadmins = {s1}
    Short = 2
    MaxFailures = 3
INVARIANTS TypeOK GrantsAreEarned SuccessForgets
PROPERTY CounterFades
