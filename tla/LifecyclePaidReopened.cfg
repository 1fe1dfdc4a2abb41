SPECIFICATION Spec
CONSTANTS
    Requests = {r1, r2}
    Invoices = {i1}
    Original = Original
SYMMETRY Interchange
PROPERTY PaidIsFinal
