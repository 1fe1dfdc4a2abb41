SPECIFICATION Spec
CONSTANTS
    Requests = {r1, r2}
    Readers = {c1}
    Limit = 1
    Asked <- AskedChanges
    MaxEntries = 3
SYMMETRY Slots
INVARIANTS TypeOK TrailIsHistory SkipHasCause
