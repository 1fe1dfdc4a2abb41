SPECIFICATION FairSpec
CONSTANTS
    Requests = {r1, r2}
    Invoices = {i1, i2}
    Original = Original
INVARIANTS TypeOK AmountsHaveItems
PROPERTIES NoWayBack MailedIsStored ContractUnlessOutdated LateIsMarked EveryRequestEnds
