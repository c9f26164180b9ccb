------------------------- MODULE SlotRuntime_proofs -------------------------
(***************************************************************************)
(* What holds of the slot runtime for every set of lockers, drawers and    *)
(* allocation identifiers.                                                 *)
(***************************************************************************)
EXTENDS SlotRuntime, TLAPS

LEMMA SetSlotStateType ==
    ASSUME TypeOK, NEW m \in Machines, NEW s \in Slots, NEW state \in SlotStates,
           SetSlotState(m, s, state)
    PROVE  TypeOK'
  <1>1. <<m, s>> \in Doors
    BY DEF Doors
  <1>2. QED
    BY <1>1, NoneAssumption
    DEF SetSlotState, TypeOK, Doors, SlotStates, AllocStates

LEMMA TypeStep ==
    ASSUME TypeOK, [Next]_vars
    PROVE  TypeOK'
  <1>1. ASSUME NEW m \in Machines, NEW s \in Slots, NEW a \in AllocIds,
               Allocate(m, s, a)
        PROVE  TypeOK'
    <2>1. <<m, s>> \in Doors
      BY DEF Doors
    <2>2. QED
      BY <1>1, <2>1, NoneAssumption
      DEF Allocate, TypeOK, Doors, SlotStates, AllocStates
  <1>2. ASSUME NEW m \in Machines, NEW a \in AllocIds, Commit(m, a)
        PROVE  TypeOK'
    BY <1>2, NoneAssumption
    DEF Commit, BelongsTo, TypeOK, SlotStates, AllocStates
  <1>3. ASSUME NEW m \in Machines, NEW a \in AllocIds, Release(m, a)
        PROVE  TypeOK'
    BY <1>3, NoneAssumption
    DEF Release, BelongsTo, Freed, Released, TypeOK, SlotStates, AllocStates
  <1>4. ASSUME NEW m \in Machines, Expire(m)
        PROVE  TypeOK'
    BY <1>4, NoneAssumption
    DEF Expire, BelongsTo, DoorsOf, Freed, Released, TypeOK, SlotStates, AllocStates
  <1>5. ASSUME NEW m \in Machines, NEW s \in Slots, NEW state \in SlotStates,
               SetSlotState(m, s, state)
        PROVE  TypeOK'
    BY <1>5, SetSlotStateType
  <1>6. ASSUME NEW m \in Machines, NEW S \in SUBSET Slots, BootstrapSlots(m, S)
        PROVE  TypeOK'
    BY <1>6, NoneAssumption
    DEF BootstrapSlots, Freed, TypeOK, SlotStates, AllocStates
  <1>7. ASSUME NEW a \in AllocIds, Lapse(a)
        PROVE  TypeOK'
    BY <1>7 DEF Lapse, TypeOK
  <1>8. CASE UNCHANGED vars
    BY <1>8 DEF vars, TypeOK
  <1>9. \A s \in Slots : {s} \in SUBSET Slots
    OBVIOUS
  <1>10. QED
    BY <1>1, <1>2, <1>3, <1>4, <1>5, <1>6, <1>7, <1>8, <1>9 DEF Next, Handle

\* Every row has the type of its table and names an existing door.
THEOREM TypeCorrect == Spec => []TypeOK
  <1>1. Init => TypeOK
    BY DEF Init, TypeOK
  <1>2. QED
    BY <1>1, TypeStep, PTL DEF Spec

-----------------------------------------------------------------------------
\* Ending allocations only shrinks the set of active ones and moves none.
LEMMA EndingKeepsExclusion ==
    ASSUME OneActivePerDoor, NEW A \in SUBSET AllocIds,
           alloc' = Released(A), at' = at
    PROVE  OneActivePerDoor'
  <1>1. Active' \subseteq Active
    BY DEF Released, Active, ActiveStates
  <1>2. QED
    BY <1>1 DEF OneActivePerDoor

LEMMA AllocateKeepsExclusion ==
    ASSUME TypeOK, OneActivePerDoor,
           NEW m \in Machines, NEW s \in Slots, NEW a \in AllocIds,
           Allocate(m, s, a)
    PROVE  OneActivePerDoor'
  <1>1. Active' = Active \cup {a}
    BY DEF Allocate, TypeOK, Active, ActiveStates
  <1>2. at'[a] = <<m, s>> /\ \A b \in AllocIds : b # a => at'[b] = at[b]
    BY DEF Allocate, TypeOK
  <1>3. \A b \in Active : at[b] # <<m, s>>
    BY DEF Allocate, ActiveOn
  <1>4. Active \subseteq AllocIds
    BY DEF Active
  <1>5. QED
    BY <1>1, <1>2, <1>3, <1>4 DEF OneActivePerDoor

LEMMA CommitKeepsExclusion ==
    ASSUME TypeOK, OneActivePerDoor, NEW m \in Machines, NEW a \in AllocIds,
           Commit(m, a)
    PROVE  OneActivePerDoor'
  <1>1. Active' = Active /\ at' = at
    BY DEF Commit, TypeOK, Active, ActiveStates
  <1>2. QED
    BY <1>1 DEF OneActivePerDoor

LEMMA ExclusionStep ==
    ASSUME TypeOK, OneActivePerDoor, [Next]_vars
    PROVE  OneActivePerDoor'
  <1>1. ASSUME NEW m \in Machines, NEW s \in Slots, NEW a \in AllocIds,
               Allocate(m, s, a)
        PROVE  OneActivePerDoor'
    BY <1>1, AllocateKeepsExclusion
  <1>2. ASSUME NEW m \in Machines, NEW a \in AllocIds, Commit(m, a)
        PROVE  OneActivePerDoor'
    BY <1>2, CommitKeepsExclusion
  <1>3. ASSUME NEW m \in Machines, NEW a \in AllocIds, Release(m, a)
        PROVE  OneActivePerDoor'
    BY <1>3, EndingKeepsExclusion DEF Release
  <1>4. ASSUME NEW m \in Machines, Expire(m)
        PROVE  OneActivePerDoor'
    <2> DEFINE overdue == {a \in lapsed : BelongsTo(a, m) /\ alloc[a] = "RESERVED"}
    <2>1. overdue \in SUBSET AllocIds
      BY DEF TypeOK
    <2>2. alloc' = Released(overdue) /\ at' = at
      BY <1>4 DEF Expire
    <2>3. QED
      BY <2>1, <2>2, EndingKeepsExclusion
  <1>5. CASE alloc' = alloc /\ at' = at
    BY <1>5 DEF OneActivePerDoor, Active
  <1>6. QED
    BY <1>1, <1>2, <1>3, <1>4, <1>5
    DEF Next, Handle, SetSlotState, BootstrapSlots, Lapse, vars

\* The unique index keeps leases exclusive although doors are put on sale
\* (set-state) without looking at the allocations.
THEOREM DoorExclusion == Spec => []OneActivePerDoor
  <1>1. Init => OneActivePerDoor
    BY NoneAssumption DEF Init, OneActivePerDoor, Active, ActiveStates, AllocStates
  <1>2. QED
    BY <1>1, ExclusionStep, TypeCorrect, PTL DEF Spec

-----------------------------------------------------------------------------
\* Ending the allocations in A, which are all active, and freeing doors of
\* theirs only, disturbs no lease that goes on.
LEMMA EndingDisturbsNoOther ==
    ASSUME TypeOK, OneActivePerDoor, NEW A \in SUBSET Active,
           NEW D \in SUBSET DoorsOf(A),
           door' = Freed(D), alloc' = Released(A),
           NEW a \in Active, a \in Active'
    PROVE  door'[at[a]] = door[at[a]]
  <1>1. a \notin A
    BY DEF Released, Active, ActiveStates
  <1>2. at[a] \notin DoorsOf(A)
    BY <1>1 DEF OneActivePerDoor, DoorsOf
  <1>3. at[a] \in Doors
    BY NoneAssumption DEF TypeOK, Active, ActiveStates, AllocStates
  <1>4. QED
    BY <1>2, <1>3 DEF Freed

\* While a lease lasts its door is changed by its own commit or by set-state.
THEOREM LeaseStability == Spec => LeaseUndisturbed
  <1> DEFINE Undisturbed ==
        \A a \in Active :
          (a \in Active' /\ door'[at[a]] # door[at[a]]) =>
              /\ ~ Ending
              /\ \/ alloc[a] = "RESERVED" /\ alloc'[a] = "COMMITTED"
                 \/ \E s \in SlotStates : SetSlotState(at[a][1], at[a][2], s)
  <1>1. TypeOK /\ OneActivePerDoor /\ [Next]_vars => [Undisturbed]_vars
    <2> SUFFICES ASSUME TypeOK, OneActivePerDoor, Next, NEW a \in Active,
                        a \in Active', door'[at[a]] # door[at[a]]
                 PROVE  /\ ~ Ending
                        /\ \/ alloc[a] = "RESERVED" /\ alloc'[a] = "COMMITTED"
                           \/ \E s \in SlotStates : SetSlotState(at[a][1], at[a][2], s)
      OBVIOUS
    <2>1. a \in AllocIds /\ at[a] \in Doors /\ door[at[a]] # None
      BY NoneAssumption DEF TypeOK, Active, ActiveStates, AllocStates
    <2>2. ASSUME NEW m \in Machines, NEW s \in Slots, NEW b \in AllocIds,
                 Allocate(m, s, b)
          PROVE  FALSE
      <3>1. at[a] # <<m, s>>
        BY <2>2 DEF Allocate, ActiveOn
      <3>2. QED
        BY <2>2, <2>1, <3>1 DEF Allocate, TypeOK
    <2>3. ASSUME NEW m \in Machines, NEW b \in AllocIds, Commit(m, b)
          PROVE  alloc[a] = "RESERVED" /\ alloc'[a] = "COMMITTED"
      <3>1. at[a] = at[b]
        BY <2>3, <2>1 DEF Commit, TypeOK
      <3>2. b \in Active
        BY <2>3 DEF Commit, Active, ActiveStates
      <3>3. a = b
        BY <3>1, <3>2 DEF OneActivePerDoor
      <3>4. QED
        BY <2>3, <3>3 DEF Commit, TypeOK
    <2>4. ASSUME NEW m \in Machines, NEW b \in AllocIds, Release(m, b)
          PROVE  FALSE
      <3>1. {b} \in SUBSET Active
        BY <2>4 DEF Release, BelongsTo, Active, ActiveStates, TypeOK, AllocStates
      <3>2. {at[b]} \in SUBSET DoorsOf({b})
        BY DEF DoorsOf
      <3>3. door' = Freed({at[b]}) /\ alloc' = Released({b})
        BY <2>4 DEF Release
      <3>4. QED
        BY <3>1, <3>2, <3>3, EndingDisturbsNoOther
    <2>5. ASSUME NEW m \in Machines, Expire(m)
          PROVE  FALSE
      <3> DEFINE overdue == {b \in lapsed : BelongsTo(b, m) /\ alloc[b] = "RESERVED"}
      <3>1. overdue \in SUBSET Active
        BY DEF TypeOK, Active, ActiveStates
      <3>2. door' = Freed(DoorsOf(overdue)) /\ alloc' = Released(overdue)
        BY <2>5 DEF Expire
      <3>3. QED
        BY <3>1, <3>2, EndingDisturbsNoOther
    <2>6. ASSUME NEW m \in Machines, NEW s \in Slots, NEW state \in SlotStates,
                 SetSlotState(m, s, state)
          PROVE  \E st \in SlotStates : SetSlotState(at[a][1], at[a][2], st)
      <3>1. at[a] = <<m, s>>
        BY <2>6, <2>1 DEF SetSlotState, TypeOK
      <3>2. QED
        BY <2>6, <3>1
    <2>7. ASSUME NEW m \in Machines, NEW S \in SUBSET Slots, BootstrapSlots(m, S)
          PROVE  FALSE
      BY <2>7, <2>1 DEF BootstrapSlots, Freed
    <2>8. ASSUME NEW b \in AllocIds, Lapse(b)
          PROVE  FALSE
      BY <2>8 DEF Lapse
    <2>9. \A s \in Slots : {s} \in SUBSET Slots
      OBVIOUS
    <2>10. ~ Ending
      BY <2>4, <2>5 DEF Ending
    <2>11. QED
      BY <2>2, <2>3, <2>4, <2>5, <2>6, <2>7, <2>8, <2>9, <2>10 DEF Next, Handle
  <1>2. QED
    BY <1>1, TypeCorrect, DoorExclusion, PTL DEF Spec, LeaseUndisturbed

-----------------------------------------------------------------------------
\* Under exclusion the refinement mapping is the set of active allocations,
\* read from the doors' side.
LEMMA HolderIsActive ==
    ASSUME OneActivePerDoor, NEW d \in Doors, NEW a \in AllocIds
    PROVE  HolderOf(d) = a <=> a \in ActiveOn(d)
  <1>1. ActiveOn(d) \subseteq AllocIds
    BY DEF ActiveOn, Active
  <1>2. ASSUME a \in ActiveOn(d)
        PROVE  HolderOf(d) = a
    <2>1. \A b \in ActiveOn(d) : b = a
      BY <1>2 DEF OneActivePerDoor, ActiveOn
    <2>2. HolderOf(d) \in ActiveOn(d)
      BY <1>1, <1>2 DEF HolderOf
    <2>3. QED
      BY <2>1, <2>2
  <1>3. ASSUME HolderOf(d) = a
        PROVE  a \in ActiveOn(d)
    <2>1. ActiveOn(d) # {}
      BY <1>3, NoneAssumption DEF HolderOf
    <2>2. QED
      BY <1>1, <1>3, <2>1 DEF HolderOf
  <1>4. QED
    BY <1>2, <1>3

LEMMA HolderIsNone ==
    ASSUME NEW d \in Doors
    PROVE  HolderOf(d) = None <=> ActiveOn(d) = {}
  <1>1. ActiveOn(d) \subseteq AllocIds
    BY DEF ActiveOn, Active
  <1>2. QED
    BY <1>1, NoneAssumption DEF HolderOf

\* A step that ends the active allocations in A drops the leases of their doors.
LEMMA EndingIsDrop ==
    ASSUME TypeOK, OneActivePerDoor, OneActivePerDoor',
           NEW A \in SUBSET Active, alloc' = Released(A), at' = at
    PROVE  Lease!Drop(DoorsOf(A))
  <1>1. A \subseteq AllocIds /\ \A a \in A : at[a] \in Doors
    BY NoneAssumption DEF Active, TypeOK, ActiveStates, AllocStates
  <1>2. Active' = Active \ A
    BY <1>1 DEF Active, Released, ActiveStates
  <1>3. ASSUME NEW d \in Doors
        PROVE  HolderOf(d)' = IF d \in DoorsOf(A) THEN None ELSE HolderOf(d)
    <2>1. CASE d \in DoorsOf(A)
      <3>1. ActiveOn(d)' = {}
        BY <2>1, <1>2 DEF ActiveOn, DoorsOf, OneActivePerDoor
      <3>2. QED
        BY <2>1, <3>1 DEF HolderOf
    <2>2. CASE d \notin DoorsOf(A)
      <3>1. ActiveOn(d)' = ActiveOn(d)
        BY <2>2, <1>2 DEF ActiveOn, DoorsOf
      <3>2. QED
        BY <2>2, <3>1 DEF HolderOf
    <2>3. QED
      BY <2>1, <2>2
  <1>4. {HolderOf(d) : d \in DoorsOf(A)} = A
    <2>1. \A a \in A : HolderOf(at[a]) = a
      BY <1>1, HolderIsActive DEF ActiveOn
    <2>2. QED
      BY <2>1 DEF DoorsOf
  <1>5. DoorsOf(A) \subseteq Doors
    BY <1>1 DEF DoorsOf
  <1>6. {a \in AllocIds : alloc'[a] = "COMMITTED"} =
        {a \in AllocIds : alloc[a] = "COMMITTED"} \ A
    BY <1>1 DEF Released
  <1>7. {a \in AllocIds : alloc'[a] # None} = {a \in AllocIds : alloc[a] # None}
    BY <1>1, NoneAssumption DEF Released, Active, ActiveStates, AllocStates
  <1>8. {[e \in Doors |-> HolderOf(e)][d] : d \in DoorsOf(A)} = A
    BY <1>4, <1>5
  <1>9. QED
    BY <1>3, <1>6, <1>7, <1>8 DEF Lease!Drop

\* A step that changes neither allocations nor their doors is a stutter.
LEMMA SameAllocationsIsStutter ==
    ASSUME alloc' = alloc, at' = at
    PROVE  UNCHANGED Lease!leaseVars
  <1>1. \A d \in Doors : HolderOf(d)' = HolderOf(d)
    BY DEF HolderOf, ActiveOn, Active
  <1>2. QED
    BY <1>1 DEF Lease!leaseVars

LEMMA AllocateIsAcquire ==
    ASSUME TypeOK, OneActivePerDoor, OneActivePerDoor',
           NEW m \in Machines, NEW s \in Slots, NEW a \in AllocIds,
           Allocate(m, s, a)
    PROVE  Lease!Acquire(a, <<m, s>>)
  <1> DEFINE e == <<m, s>>
  <1>1. e \in Doors
    BY DEF Doors
  <1>2. Active' = Active \cup {a}
    BY DEF Allocate, TypeOK, Active, ActiveStates
  <1>3. a \notin Active
    BY NoneAssumption DEF Allocate, Active, ActiveStates, AllocStates
  <1>4. at'[a] = e /\ \A b \in AllocIds : b # a => at'[b] = at[b]
    BY DEF Allocate, TypeOK
  <1>5. Active \subseteq AllocIds
    BY DEF Active
  <1>6. ASSUME NEW d \in Doors, d # e
        PROVE  HolderOf(d)' = HolderOf(d)
    <2>1. ActiveOn(d)' = ActiveOn(d)
      BY <1>2, <1>3, <1>4, <1>5, <1>6 DEF ActiveOn
    <2>2. QED
      BY <2>1 DEF HolderOf
  <1>7. HolderOf(e)' = a
    <2>1. ActiveOn(e)' = {a}
      BY <1>2, <1>3, <1>4, <1>5 DEF ActiveOn, Allocate
    <2>2. QED
      BY <2>1 DEF HolderOf
  <1>8. HolderOf(e) = None
    BY <1>1, HolderIsNone DEF Allocate
  <1>9. {b \in AllocIds : alloc'[b] # None} = {b \in AllocIds : alloc[b] # None} \cup {a}
    BY NoneAssumption DEF Allocate, TypeOK, AllocStates
  <1>10. {b \in AllocIds : alloc'[b] = "COMMITTED"} = {b \in AllocIds : alloc[b] = "COMMITTED"}
    BY NoneAssumption DEF Allocate, TypeOK, AllocStates
  <1>11. a \notin {b \in AllocIds : alloc[b] # None}
    BY DEF Allocate
  <1>12. QED
    BY <1>1, <1>6, <1>7, <1>8, <1>9, <1>10, <1>11 DEF Lease!Acquire

LEMMA CommitIsConfirm ==
    ASSUME TypeOK, OneActivePerDoor, NEW m \in Machines, NEW a \in AllocIds,
           Commit(m, a)
    PROVE  Lease!Confirm(a)
  <1>1. Active' = Active /\ at' = at
    BY DEF Commit, TypeOK, Active, ActiveStates
  <1>2. \A d \in Doors : HolderOf(d)' = HolderOf(d)
    BY <1>1 DEF HolderOf, ActiveOn
  <1>3. at[a] \in Doors /\ a \in ActiveOn(at[a])
    BY DEF Commit, BelongsTo, TypeOK, ActiveOn, Active, ActiveStates
  <1>4. HolderOf(at[a]) = a
    BY <1>3, HolderIsActive
  <1>5. {b \in AllocIds : alloc'[b] = "COMMITTED"} =
        {b \in AllocIds : alloc[b] = "COMMITTED"} \cup {a}
    BY DEF Commit, TypeOK
  <1>6. {b \in AllocIds : alloc'[b] # None} = {b \in AllocIds : alloc[b] # None}
    BY NoneAssumption DEF Commit, BelongsTo, TypeOK, AllocStates
  <1>7. QED
    BY <1>2, <1>3, <1>4, <1>5, <1>6 DEF Lease!Confirm

\* The slot runtime implements the door lease.
THEOREM RuntimeImplementsLease == Spec => ImplementsLease
  <1>1. Init => Lease!LeaseInit
    <2> SUFFICES ASSUME Init
                 PROVE  Lease!LeaseInit
      OBVIOUS
    <2>1. Active = {}
      BY NoneAssumption DEF Init, Active, ActiveStates, AllocStates
    <2>2. \A d \in Doors : HolderOf(d) = None
      BY <2>1 DEF HolderOf, ActiveOn
    <2>3. {a \in AllocIds : alloc[a] = "COMMITTED"} = {}
      BY NoneAssumption DEF Init, AllocStates
    <2>4. {a \in AllocIds : alloc[a] # None} = {}
      BY DEF Init
    <2>5. QED
      BY <2>2, <2>3, <2>4 DEF Lease!LeaseInit
  <1>2. TypeOK /\ OneActivePerDoor /\ OneActivePerDoor' /\ [Next]_vars
          => [Lease!LeaseNext]_(Lease!leaseVars)
    <2> SUFFICES ASSUME TypeOK, OneActivePerDoor, OneActivePerDoor', [Next]_vars
                 PROVE  Lease!LeaseNext \/ UNCHANGED Lease!leaseVars
      OBVIOUS
    <2>1. ASSUME NEW m \in Machines, NEW s \in Slots, NEW a \in AllocIds,
                 Allocate(m, s, a)
          PROVE  Lease!LeaseNext
      <3>1. <<m, s>> \in Doors
        BY DEF Doors
      <3>2. QED
        BY <2>1, <3>1, AllocateIsAcquire DEF Lease!LeaseNext
    <2>2. ASSUME NEW m \in Machines, NEW a \in AllocIds, Commit(m, a)
          PROVE  Lease!LeaseNext
      BY <2>2, CommitIsConfirm DEF Lease!LeaseNext
    <2>3. ASSUME NEW A \in SUBSET Active, alloc' = Released(A), at' = at
          PROVE  Lease!LeaseNext
      <3>1. DoorsOf(A) \in SUBSET Doors
        BY NoneAssumption DEF DoorsOf, Active, TypeOK, ActiveStates, AllocStates
      <3>2. Lease!Drop(DoorsOf(A))
        BY <2>3, EndingIsDrop
      <3>3. QED
        BY <3>1, <3>2 DEF Lease!LeaseNext, Lease!Drop
    <2>4. ASSUME NEW m \in Machines, NEW a \in AllocIds, Release(m, a)
          PROVE  Lease!LeaseNext
      <3> DEFINE A == {a}
      <3>1. A \in SUBSET Active
        BY <2>4 DEF Release, BelongsTo, Active, ActiveStates, TypeOK, AllocStates
      <3>2. alloc' = Released(A) /\ at' = at
        BY <2>4 DEF Release
      <3> HIDE DEF A
      <3>3. QED
        BY <2>3, <3>1, <3>2
    <2>5. ASSUME NEW m \in Machines, Expire(m)
          PROVE  Lease!LeaseNext
      <3> DEFINE overdue == {a \in lapsed : BelongsTo(a, m) /\ alloc[a] = "RESERVED"}
      <3>1. overdue \in SUBSET Active
        BY DEF TypeOK, Active, ActiveStates
      <3>2. alloc' = Released(overdue) /\ at' = at
        BY <2>5 DEF Expire
      <3>3. QED
        BY <2>3, <3>1, <3>2
    <2>6. CASE alloc' = alloc /\ at' = at
      BY <2>6, SameAllocationsIsStutter
    <2>7. QED
      BY <2>1, <2>2, <2>4, <2>5, <2>6
      DEF Next, Handle, SetSlotState, BootstrapSlots, Lapse, vars
  <1>3. QED
    BY <1>1, <1>2, DoorExclusion, TypeCorrect, PTL
    DEF Spec, ImplementsLease, Lease!LeaseSpec

-----------------------------------------------------------------------------
\* What a request addressed to locker m may touch.
Isolated(m) ==
    /\ \A d \in Doors : d[1] # m => door'[d] = door[d]
    /\ \A a \in AllocIds : alloc[a] # None /\ at[a][1] # m => alloc'[a] = alloc[a]

\* Ending allocations of locker m, and freeing its doors, stays in locker m.
LEMMA EndingIsLocal ==
    ASSUME NEW m \in Machines, NEW A \in SUBSET AllocIds,
           \A a \in A : at[a][1] = m,
           NEW D \in SUBSET Doors, \A d \in D : d[1] = m,
           door' = Freed(D), alloc' = Released(A)
    PROVE  Isolated(m)
  BY DEF Isolated, Freed, Released

\* Lockers share one database and nothing else: whatever is asked of one of them,
\* the drawers and allocations of the others stay as they are.
THEOREM LockerIsolation == Spec => LockersIsolated
  <1>1. TypeOK /\ [Next]_vars => [\A m \in Machines : Handle(m) => Isolated(m)]_vars
    <2> SUFFICES ASSUME TypeOK, NEW m \in Machines, Handle(m)
                 PROVE  Isolated(m)
      OBVIOUS
    <2>1. ASSUME NEW s \in Slots, NEW a \in AllocIds, Allocate(m, s, a)
          PROVE  Isolated(m)
      BY <2>1 DEF Allocate, TypeOK, Isolated
    <2>2. ASSUME NEW a \in AllocIds, Commit(m, a)
          PROVE  Isolated(m)
      BY <2>2 DEF Commit, BelongsTo, TypeOK, Isolated
    <2>3. ASSUME NEW a \in AllocIds, Release(m, a)
          PROVE  Isolated(m)
      BY <2>3 DEF Release, BelongsTo, Freed, Released, Isolated
    <2>4. CASE Expire(m)
      <3> DEFINE overdue == {a \in lapsed : BelongsTo(a, m) /\ alloc[a] = "RESERVED"}
      <3>1. overdue \subseteq AllocIds /\ \A a \in overdue : at[a][1] = m
        BY DEF TypeOK, BelongsTo
      <3>2. DoorsOf(overdue) \subseteq Doors /\ \A d \in DoorsOf(overdue) : d[1] = m
        BY <3>1 DEF DoorsOf, TypeOK, BelongsTo
      <3>3. door' = Freed(DoorsOf(overdue)) /\ alloc' = Released(overdue)
        BY <2>4 DEF Expire
      <3> HIDE DEF overdue
      <3>4. QED
        BY <3>1, <3>2, <3>3, EndingIsLocal
    <2>5. ASSUME NEW s \in Slots, NEW state \in SlotStates, SetSlotState(m, s, state)
          PROVE  Isolated(m)
      BY <2>5 DEF SetSlotState, TypeOK, Isolated
    <2>6. ASSUME NEW S, BootstrapSlots(m, S)
          PROVE  Isolated(m)
      BY <2>6 DEF BootstrapSlots, Freed, Isolated
    <2>7. QED
      BY <2>1, <2>2, <2>3, <2>4, <2>5, <2>6 DEF Handle
  <1>2. QED
    BY <1>1, TypeCorrect, PTL DEF Spec, LockersIsolated, Isolated
=============================================================================
