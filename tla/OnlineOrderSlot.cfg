CONSTANTS
    Orders = {o1}
    Locker = locker
    Slots = {s1}
    Workers = {w1}
    None = None
SPECIFICATION Spec
INVARIANTS
    ReleasedIsFree
CHECK_DEADLOCK FALSE
