SPECIFICATION Spec
CONSTANTS
    t1 = t1
    t2 = t2
    u1 = u1
    u2 = u2
    u3 = u3
    d1 = d1
    d2 = d2
    n1 = n1
    Root = Root
    None = None
    Keep = Keep
    Tenants = {t1, t2}
    Users = {u1, u2, u3}
    Requests = {r1, r2, r3}
    Domains = {d1, d2}
    Numbers = {n1}
    Plans = {"Standard", "Premium"}
    Emails <- MCEmails
    Lower <- MCLower
    Calls <- MCCalls
    OldTenants <- MCOldTenants
    OldUsers <- MCOldUsers
SYMMETRY Anyone
INVARIANTS
    TypeOK
    IdentifiersDiffer
    EmailsDiffer
    RegisteredHaveOwner
    AnswerIsTrue
PROPERTIES
    IdentifierLostByOverlap
    PlanIsChangedBySuperadmins
CHECK_DEADLOCK FALSE
