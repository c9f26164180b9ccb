CONSTANTS
    w1 = w1
    w2 = w2
    w3 = w3
    order = order
    pickup = pickup
    Workers = {w1, w2, w3}
    Deadlines = {order, pickup}
    Pickups = {pickup}
    Serves <- MCServes
    Clients = {c1}
    None = None
SPECIFICATION Spec
INVARIANTS
    TypeOK
    OneExecutor
    FiredIsTold
    RevokedStays
PROPERTIES
    DueIsSettled
\* With every deadline settled the service has nothing left to do.
CHECK_DEADLOCK FALSE
