CONSTANTS
    Threads = {t1}
    Machine = m1
    Slots = {s1, s2}
    AllocIds = {a1, a2, a3}
    SetStates <- MCSetStates
    None = None
SPECIFICATION Spec
SYMMETRY Symmetry
INVARIANTS
    GrantsStored
PROPERTIES
    ImplementsRuntime
