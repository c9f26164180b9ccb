CONSTANTS
    Invoices = {i1}
    Workers = {w1, w2}
    MaxRetries = 2
    Buyers = {1, 2, 3}
    Credits = {c1}
    Handled = {1, 2}
    Disputed = {1}
    MaxPending = 2
    Reservations = {1, 2, 3}
    Runs = {j1, j2}
    OnHand = 2
    Senders = {s1, s2}
    MaxEvents = 1
    MaxLooking = 2
    MaxAttempts = 3
    None = None
SPECIFICATION FairSpec
INVARIANTS
    TypeOK
    OneIssuer
    FiledOnce
    SpentOnce
    UsedIsHeld
    NeverUnderReserved
PROPERTIES
    CancelledStays
    IssueSettles
    CancelSettles
    OutboxSettles
\* Once the credits are spent and the stock is counted there is nothing left to do.
CHECK_DEADLOCK FALSE
