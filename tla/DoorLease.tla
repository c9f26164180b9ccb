----------------------------- MODULE DoorLease -----------------------------
(***************************************************************************)
(* What the slot runtime promises its callers: a door is leased to at most *)
(* one allocation at a time, an allocation identifier leases a door during *)
(* one interval only, and only a lease that is still held can be confirmed *)
(* (paid).  SlotRuntime implements this specification.                     *)
(***************************************************************************)
CONSTANTS
    Doors,       \* every drawer of every locker
    AllocIds,    \* allocation identifiers
    Free         \* the holder of a door that nobody leases

VARIABLES
    holder,      \* holder[d]: the allocation that leases door d, or Free
    confirmed,   \* the leases that are paid for
    spent        \* the allocations that have ever held a lease

leaseVars == <<holder, confirmed, spent>>

LeaseInit ==
    /\ holder = [d \in Doors |-> Free]
    /\ confirmed = {}
    /\ spent = {}

Acquire(a, d) ==
    /\ holder[d] = Free
    /\ a \notin spent
    /\ holder' = [holder EXCEPT ![d] = a]
    /\ spent' = spent \cup {a}
    /\ UNCHANGED confirmed

Confirm(a) ==
    /\ \E d \in Doors : holder[d] = a
    /\ confirmed' = confirmed \cup {a}
    /\ UNCHANGED <<holder, spent>>

\* One call may drop several leases: expiry does.
Drop(D) ==
    /\ holder' = [d \in Doors |-> IF d \in D THEN Free ELSE holder[d]]
    /\ confirmed' = confirmed \ {holder[d] : d \in D}
    /\ UNCHANGED spent

LeaseNext ==
    \/ \E a \in AllocIds, d \in Doors : Acquire(a, d)
    \/ \E a \in AllocIds : Confirm(a)
    \/ \E D \in SUBSET Doors : Drop(D)

LeaseSpec == LeaseInit /\ [][LeaseNext]_leaseVars
=============================================================================
