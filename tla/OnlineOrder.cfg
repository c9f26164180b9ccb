CONSTANTS
    Orders = {o1}
    Locker = locker
    Slots = {s1}
    Workers = {w1}
    None = None
SPECIFICATION FairSpec
INVARIANTS
    TypeOK
    UnpaidIsWatched
    ReadyHolds
    NoLostRelease
PROPERTIES
    UnpaidIsClosed
\* With every order closed there is nothing left to do.
CHECK_DEADLOCK FALSE
