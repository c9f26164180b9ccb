CONSTANTS
    Machines = {m1, m2}
    Slots = {s1}
    AllocIds = {a1, a2, a3}
    None = None
SPECIFICATION Spec
SYMMETRY Symmetry
INVARIANTS
    TypeOK
    OneActivePerDoor
PROPERTIES
    LeaseUndisturbed
    LockersIsolated
    ImplementsLease
