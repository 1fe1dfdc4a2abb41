SPECIFICATION Spec
CONSTANTS
    Requests = {r1, r2}
    Extensions = {png, jpg, svg}
    None = None
SYMMETRY Interchange
INVARIANTS TypeOK MessHasCause TornHasCause
