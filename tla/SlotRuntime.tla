---------------------------- MODULE SlotRuntime ----------------------------
(***************************************************************************)
(* The locker runtime (backend/runtime): the tables door_state and         *)
(* allocations of its sqlite database and the HTTP handlers that write     *)
(* them.  Each handler is one atomic action here; RuntimeConnection takes  *)
(* the handlers apart into their SQL statements.                           *)
(*                                                                         *)
(* A call the code refuses (4xx) or rolls back (5xx) leaves both tables as *)
(* they were, so it is a stuttering step: only the accepted calls appear.  *)
(***************************************************************************)
EXTENDS FiniteSets

CONSTANTS
    Machines,    \* lockers (machine_id)
    Slots,       \* drawer numbers (door_id)
    AllocIds,    \* allocation identifiers, chosen by the caller or generated
    None         \* "no row"

VARIABLES
    door,        \* door_state.state by (machine_id, door_id), or None
    alloc,       \* allocations.state by allocation_id, or None
    at,          \* allocations.(machine_id, door_id), or None
    lapsed       \* the allocations whose expires_at is in the past

vars == <<door, alloc, at, lapsed>>

Doors == Machines \X Slots
SlotStates == {"AVAILABLE", "RESERVED", "PAID_PENDING_PICKUP",
               "OUT_OF_STOCK", "MAINTENANCE", "FAULT", "BLOCKED"}
AllocStates == {"RESERVED", "COMMITTED", "RELEASED"}
ActiveStates == {"RESERVED", "COMMITTED"}

ASSUME NoneAssumption == None \notin AllocIds \cup Doors \cup SlotStates \cup AllocStates

\* The allocations the partial unique index ux_alloc_active ranges over.
Active == {a \in AllocIds : alloc[a] \in ActiveStates}
ActiveOn(d) == {a \in Active : at[a] = d}

\* The doors of the allocations in A, and the allocations with A released.
DoorsOf(A) == {at[a] : a \in A}
Released(A) == [a \in AllocIds |-> IF a \in A THEN "RELEASED" ELSE alloc[a]]
Freed(D) == [d \in Doors |-> IF d \in D THEN "AVAILABLE" ELSE door[d]]

Init ==
    /\ door = [d \in Doors |-> None]
    /\ alloc = [a \in AllocIds |-> None]
    /\ at = [a \in AllocIds |-> None]
    /\ lapsed = {}

-----------------------------------------------------------------------------
\* Mutant: no ux_alloc_active index, so a door that set-state put back on sale
\* is allocated although it is leased.
AllocateUnguarded(m, s, a) ==
    /\ door[<<m, s>>] \in {None, "AVAILABLE"}
    /\ alloc[a] = None
    /\ door' = [door EXCEPT ![<<m, s>>] = "RESERVED"]
    /\ alloc' = [alloc EXCEPT ![a] = "RESERVED"]
    /\ at' = [at EXCEPT ![a] = <<m, s>>]
    /\ UNCHANGED lapsed

\* POST /allocate.  The door row is created AVAILABLE when missing; the
\* guarded UPDATE reserves it (no row updated: 409); the INSERT fails on the
\* primary key or on ux_alloc_active, and then everything is rolled back.
Allocate(m, s, a) ==
    LET d == <<m, s>> IN
    /\ door[d] \in {None, "AVAILABLE"}
    /\ alloc[a] = None
    /\ ActiveOn(d) = {}
    /\ door' = [door EXCEPT ![d] = "RESERVED"]
    /\ alloc' = [alloc EXCEPT ![a] = "RESERVED"]
    /\ at' = [at EXCEPT ![a] = d]
    /\ UNCHANGED lapsed

\* Mutant: the locker of the request is not compared with the allocation's.
BelongsAnywhere(a, m) == alloc[a] # None

\* A request sent to locker m names an allocation of that locker (else 409).
BelongsTo(a, m) == alloc[a] # None /\ at[a][1] = m

\* Mutant: anything but COMMITTED is written, a released allocation too.
CommitAnyState(m, a) ==
    /\ BelongsTo(a, m)
    /\ alloc[a] # "COMMITTED"
    /\ door' = [door EXCEPT ![at[a]] = "PAID_PENDING_PICKUP"]
    /\ alloc' = [alloc EXCEPT ![a] = "COMMITTED"]
    /\ UNCHANGED <<at, lapsed>>

\* POST /allocations/{id}/commit.  Neither expires_at nor the door's state is
\* looked at; a COMMITTED allocation is answered without a write.
Commit(m, a) ==
    /\ BelongsTo(a, m)
    /\ alloc[a] = "RESERVED"
    /\ door' = [door EXCEPT ![at[a]] = "PAID_PENDING_PICKUP"]
    /\ alloc' = [alloc EXCEPT ![a] = "COMMITTED"]
    /\ UNCHANGED <<at, lapsed>>

\* Mutant: a repeated release is not answered early and writes the door again.
ReleaseTwice(m, a) ==
    /\ BelongsTo(a, m)
    /\ door' = Freed({at[a]})
    /\ alloc' = Released({a})
    /\ UNCHANGED <<at, lapsed>>

\* Mutant: the door's row is dropped instead of made AVAILABLE.
ReleaseDropsDoor(m, a) ==
    /\ BelongsTo(a, m)
    /\ alloc[a] # "RELEASED"
    /\ door' = [door EXCEPT ![at[a]] = None]
    /\ alloc' = Released({a})
    /\ UNCHANGED <<at, lapsed>>

\* POST /allocations/{id}/release.  Paid allocations are released as well.
Release(m, a) ==
    /\ BelongsTo(a, m)
    /\ alloc[a] # "RELEASED"
    /\ door' = Freed({at[a]})
    /\ alloc' = Released({a})
    /\ UNCHANGED <<at, lapsed>>

\* POST /allocations/expire: every overdue RESERVED allocation of the locker.
Expire(m) ==
    LET overdue == {a \in lapsed : BelongsTo(a, m) /\ alloc[a] = "RESERVED"} IN
    /\ overdue # {}
    /\ door' = Freed(DoorsOf(overdue))
    /\ alloc' = Released(overdue)
    /\ UNCHANGED <<at, lapsed>>

\* POST /locker/slots/{slot}/set-state: any state, whatever is allocated.
SetSlotState(m, s, state) ==
    /\ door' = [door EXCEPT ![<<m, s>>] = state]
    /\ UNCHANGED <<alloc, at, lapsed>>

\* GET /locker/slots, GET /locker/slots/{slot} and the hardware commands
\* create the missing rows of the slots they are asked for.
BootstrapSlots(m, S) ==
    LET missing == {d \in {m} \X S : door[d] = None} IN
    /\ missing # {}
    /\ door' = Freed(missing)
    /\ UNCHANGED <<alloc, at, lapsed>>

\* The time-to-live of a reservation runs out.
Lapse(a) ==
    /\ alloc[a] # None
    /\ a \notin lapsed
    /\ lapsed' = lapsed \cup {a}
    /\ UNCHANGED <<door, alloc, at>>

\* Every request addressed to locker m.
Handle(m) ==
    \/ \E s \in Slots, a \in AllocIds : Allocate(m, s, a)
    \/ \E a \in AllocIds : Commit(m, a)
    \/ \E a \in AllocIds : Release(m, a)
    \/ Expire(m)
    \/ \E s \in Slots, state \in SlotStates : SetSlotState(m, s, state)
    \/ BootstrapSlots(m, Slots)
    \/ \E s \in Slots : BootstrapSlots(m, {s})

Next ==
    \/ \E m \in Machines : Handle(m)
    \/ \E a \in AllocIds : Lapse(a)

Spec == Init /\ [][Next]_vars

-----------------------------------------------------------------------------
\* Types, and: an allocation row always names a door that has its own row.
TypeOK ==
    /\ door \in [Doors -> SlotStates \cup {None}]
    /\ alloc \in [AllocIds -> AllocStates \cup {None}]
    /\ at \in [AllocIds -> Doors \cup {None}]
    /\ lapsed \subseteq AllocIds
    /\ \A a \in AllocIds : alloc[a] # None => at[a] \in Doors /\ door[at[a]] # None

\* A drawer is never promised to two customers: at most one allocation that is
\* RESERVED or COMMITTED per door, although set-state can put a door on sale
\* while it is leased.
OneActivePerDoor ==
    \A a, b \in Active : at[a] = at[b] => a = b

\* A release or an expiry handled by some locker.
Ending == \E m \in Machines : Expire(m) \/ \E a \in AllocIds : Release(m, a)

\* While a lease lasts, nothing but its own commit and an explicit set-state
\* changes its door: releasing or expiring other allocations, however late or
\* often, never gives the drawer away.
LeaseUndisturbed ==
    [][\A a \in Active :
          (a \in Active' /\ door'[at[a]] # door[at[a]]) =>
              /\ ~ Ending
              /\ \/ alloc[a] = "RESERVED" /\ alloc'[a] = "COMMITTED"
                 \/ \E s \in SlotStates : SetSlotState(at[a][1], at[a][2], s)]_vars

\* A request addressed to one locker leaves the doors and the allocations of
\* every other locker as they are.
LockersIsolated ==
    [][\A m \in Machines : Handle(m) =>
          /\ \A d \in Doors : d[1] # m => door'[d] = door[d]
          /\ \A a \in AllocIds :
                alloc[a] # None /\ at[a][1] # m => alloc'[a] = alloc[a]]_vars

\* The refinement mapping: a door is held by its active allocation.
HolderOf(d) ==
    IF ActiveOn(d) = {} THEN None ELSE CHOOSE a \in AllocIds : a \in ActiveOn(d)

Lease == INSTANCE DoorLease WITH
    Free <- None,
    holder <- [d \in Doors |-> HolderOf(d)],
    confirmed <- {a \in AllocIds : alloc[a] = "COMMITTED"},
    spent <- {a \in AllocIds : alloc[a] # None}

\* The runtime keeps the promise of DoorLease: exclusive leases, identifiers
\* that are never leased twice, and payment only for a lease still held.
ImplementsLease == Lease!LeaseSpec
=============================================================================
