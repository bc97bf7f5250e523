SPECIFICATION Spec
CONSTANTS
    Entries = {a, b}
    a = a
    b = b
    Shipped <- ShippedMatrix
    Requests = {q1, q2, q3}
    none = none
    torn = torn
SYMMETRY Symmetry
INVARIANTS SavedIsCurrent
PROPERTIES RestartRestores
CHECK_DEADLOCK FALSE
