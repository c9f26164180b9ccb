CONSTANTS
    Threads = {t1, t2}
    Machine = m1
    Slots = {s1, s2}
    AllocIds = {a1, a2}
    SetStates <- MCSetStates
    None = None
SPECIFICATION Spec
SYMMETRY Symmetry
INVARIANTS
    ConnTypeOK
    Exclusive
PROPERTIES
    RowsStay
