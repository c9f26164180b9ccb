CONSTANTS
    Orders = {o1, o2}
    Locker = locker
    Slots = {s1}
    Workers = {w1}
    None = None
SPECIFICATION Spec
INVARIANTS
    ReadyHolds
CONSTRAINT Contention
SYMMETRY Symmetry
CHECK_DEADLOCK FALSE
