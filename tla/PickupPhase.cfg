CONSTANTS
    Online = {o1}
    Kiosk = {k1}
    Locker = locker
    Slots = {s1}
    Attempts = {1, 2}
    None = None
SPECIFICATION FairSpec
INVARIANTS
    TypeOK
    ActsOnOwnDrawer
    ExpiredIsFreed
PROPERTIES
    OverdueIsClosed
    KioskGivenBack
\* Cuts only steps without fairness: a booking, and first steps of redemptions and
\* cancellations.
CONSTRAINT Bounds
\* With every order closed there is nothing left to do.
CHECK_DEADLOCK FALSE
