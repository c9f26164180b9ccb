------------------------- MODULE OnlineOrder_proofs -------------------------
(***************************************************************************)
(* What holds of an online order and its drawer until the order is paid,   *)
(* cancelled or timed out, for every set of orders, drawers and workers.   *)
(*                                                                         *)
(* R and L are the locker runtime and the lifecycle service together with  *)
(* what SlotRuntime_proofs and Deadlines_proofs show of them: every step   *)
(* of OnlineOrder is a step of each of them or leaves it alone.            *)
(***************************************************************************)
EXTENDS OnlineOrder, TLAPS

R == INSTANCE SlotRuntime_proofs WITH Machines <- {Locker}, AllocIds <- Orders

L == INSTANCE Deadlines_proofs WITH
    Deadlines <- Orders, Pickups <- {}, Clients <- Orders,
    Serves <- [w \in Workers |-> Orders]

LEMMA RuntimeNone == R!NoneAssumption
  BY NoneAssumption
  DEF R!NoneAssumption, R!Doors, R!SlotStates, R!AllocStates,
      Runtime!Doors, Runtime!SlotStates, Runtime!AllocStates

LEMMA LifecycleNone == L!DeadlinesAssumption
  BY NoneAssumption
  DEF L!DeadlinesAssumption, L!Statuses, L!EventStatuses,
      Lifecycle!Statuses, Lifecycle!EventStatuses

LEMMA SameRuntime ==
    /\ Runtime!TypeOK = R!TypeOK
    /\ Runtime!TypeOK' = R!TypeOK'
    /\ Runtime!OneActivePerDoor = R!OneActivePerDoor
    /\ Runtime!OneActivePerDoor' = R!OneActivePerDoor'
    /\ Runtime!Init = R!Init
  BY DEF Runtime!TypeOK, R!TypeOK, Runtime!Init, R!Init, Runtime!Doors, R!Doors,
         Runtime!SlotStates, R!SlotStates, Runtime!AllocStates, R!AllocStates,
         Runtime!OneActivePerDoor, R!OneActivePerDoor, Runtime!Active, R!Active,
         Runtime!ActiveStates, R!ActiveStates

LEMMA SameLifecycle ==
    /\ Lifecycle!TypeOK = L!TypeOK
    /\ Lifecycle!TypeOK' = L!TypeOK'
    /\ Lifecycle!Init = L!Init
  BY DEF Lifecycle!TypeOK, L!TypeOK, Lifecycle!Init, L!Init, Lifecycle!Statuses,
         L!Statuses, Lifecycle!EventStatuses, L!EventStatuses

\* What the calls do to the allocations.
LEMMA AllocateCall ==
    ASSUME NEW s \in Slots, NEW o \in Orders, Runtime!Allocate(Locker, s, o)
    PROVE  /\ R!Allocate(Locker, s, o)
           /\ alloc[o] = None
           /\ alloc' = [alloc EXCEPT ![o] = "RESERVED"]
           /\ at' = [at EXCEPT ![o] = <<Locker, s>>]
           /\ door' = [door EXCEPT ![<<Locker, s>>] = "RESERVED"]
           /\ \A a \in Orders : alloc[a] = "COMMITTED" => at[a] # <<Locker, s>>
  BY DEF Runtime!Allocate, R!Allocate, Runtime!ActiveOn, R!ActiveOn, Runtime!Active,
         R!Active, Runtime!ActiveStates, R!ActiveStates

LEMMA CommitCall ==
    ASSUME NEW o \in Orders, Runtime!Commit(Locker, o)
    PROVE  /\ R!Commit(Locker, o)
           /\ alloc[o] = "RESERVED"
           /\ alloc' = [alloc EXCEPT ![o] = "COMMITTED"]
           /\ door' = [door EXCEPT ![at[o]] = "PAID_PENDING_PICKUP"]
           /\ at' = at
  BY DEF Runtime!Commit, R!Commit, Runtime!BelongsTo, R!BelongsTo

LEMMA ReleaseCall ==
    ASSUME NEW o \in Orders, Runtime!Release(Locker, o)
    PROVE  /\ R!Release(Locker, o)
           /\ alloc[o] \notin {None, "RELEASED"}
           /\ alloc' = [a \in Orders |-> IF a = o THEN "RELEASED" ELSE alloc[a]]
           /\ door' = [d \in Runtime!Doors |-> IF d = at[o] THEN "AVAILABLE" ELSE door[d]]
           /\ at' = at
  BY DEF Runtime!Release, R!Release, Runtime!BelongsTo, R!BelongsTo, Runtime!Freed,
         R!Freed, Runtime!Released, R!Released, Runtime!Doors, R!Doors

-----------------------------------------------------------------------------
\* The inductive invariant.  A committed allocation's door is paid for, and no
\* door is held twice ...
DoorInv ==
    /\ Runtime!OneActivePerDoor
    /\ \A o \in Orders : alloc[o] = "COMMITTED" => door[at[o]] = "PAID_PENDING_PICKUP"

\* ... only an order whose creation is over is paid, made ready or cancelled on
\* request ...
CreatedInv ==
    \A o \in Orders :
        paying[o] # "idle" \/ o \in ready \cup asked => Created(o)

\* ... nothing is compensated, and the retry job has nothing to do, without the
\* customer having asked for it ...
AskedInv ==
    \A o \in Orders :
        /\ recon[o] # None => o \in asked
        /\ \A w \in Compensators : comp[<<w, o>>] # NotCompensating => o \in asked

\* ... until then an order whose pickup is ready, or about to be, is paid in the
\* runtime ...
PaidInv ==
    \A o \in Orders \ asked :
        o \in ready \/ paying[o] = "finish" => alloc[o] = "COMMITTED"

\* ... and who saw a release succeed can rely on it, the retry job's DONE included.
ReleasedInv ==
    \A o \in Orders :
        /\ recon[o] = "DONE" => alloc[o] = "RELEASED"
        /\ \A w \in Compensators : comp[<<w, o>>].released => alloc[o] = "RELEASED"

\* ... and an order whose creation was answered has a deadline.
AnsweredInv == \A o \in Orders : creating[o] = "answered" => status[o] # None

Inv == /\ TypeOK /\ DoorInv /\ CreatedInv /\ AskedInv /\ PaidInv /\ ReleasedInv
       /\ AnsweredInv /\ NoLostRelease
-----------------------------------------------------------------------------
\* The runtime and the lifecycle service under the steps of the order service.
Releasing(o) ==
    \/ creating[o] \in {"giveback", "compensate"}
    \/ \E w \in Compensators : comp[<<w, o>>].step = "release"

RuntimeCall ==
    \/ UNCHANGED runtimeVars
    \/ \E o \in Orders, s \in Slots : Runtime!Allocate(Locker, s, o)
    \/ \E o \in Orders : Runtime!Commit(Locker, o)
    \/ \E o \in Orders : Runtime!Release(Locker, o) /\ Releasing(o)

LifecycleCall ==
    \/ UNCHANGED deadlineVars
    \/ \E o \in Orders : Lifecycle!CreateDeadline(o) \/ Lifecycle!BecomeDue(o)
                         \/ Lifecycle!Pay(o) \/ Lifecycle!Ack(o)
    \/ \E o \in Orders : Lifecycle!CancelRead(o, o) \/ Lifecycle!CancelWrite(o)
    \/ Lifecycle!ListPending
    \/ \E w \in Workers : Lifecycle!RunOnce(w) \/ Lifecycle!Crash(w)

LEMMA Handled ==
    ASSUME TypeOK
    PROVE  handling.order # None => handling.order \in Orders
  BY DEF TypeOK

LEMMA StepsCall ==
    ASSUME TypeOK, [Next]_vars
    PROVE  RuntimeCall /\ LifecycleCall
  <1>1. ASSUME NEW o \in Orders, Create(o)
        PROVE  RuntimeCall /\ LifecycleCall
    <2>1. CASE Reserve(o) \/ Persist(o) \/ PersistFails(o) \/ GiveBack(o) \/ Compensate(o)
      BY <2>1 DEF Reserve, Persist, PersistFails, GiveBack, Compensate, ReleaseFailed,
                  RuntimeCall, LifecycleCall, Releasing
    <2>2. CASE Register(o) \/ RegisterFails(o) \/ DeleteOrder(o) \/ CreateDies(o)
      BY <2>2 DEF Register, RegisterFails, DeleteOrder, CreateDies, RuntimeCall,
                  LifecycleCall
    <2>3. QED
      BY <1>1, <2>1, <2>2 DEF Create
  <1>2. ASSUME NEW o \in Orders, PayApply(o)
        PROVE  RuntimeCall /\ LifecycleCall
    <2>1. CASE o \in paid
      <3>1. paid' = paid
        BY <1>2, <2>1 DEF PayApply, TypeOK
      <3>2. QED
        BY <1>2, <3>1 DEF PayApply, RuntimeCall, LifecycleCall, deadlineVars
    <2>2. CASE o \notin paid
      <3>1. Lifecycle!Pay(o)
        BY <1>2, <2>2 DEF PayApply, Lifecycle!Pay, Lifecycle!tableVars,
                          Lifecycle!workerVars, Lifecycle!historyVars
      <3>2. QED
        BY <1>2, <3>1 DEF PayApply, RuntimeCall, LifecycleCall
    <2>3. QED
      BY <2>1, <2>2
  <1>3. ASSUME NEW o \in Orders,
               \/ PayRead(o) \/ PayCancelRead(o) \/ PayCancelled(o)
               \/ PayCommit(o) \/ PayFinish(o) \/ PayFails(o)
        PROVE  RuntimeCall /\ LifecycleCall
    BY <1>3 DEF PayRead, PayCancelRead, PayCancelled, PayCommit, PayFinish, PayFails,
                Committed, RuntimeCall, LifecycleCall
  <1>4. ASSUME NEW o \in Orders, NEW w \in Compensators, CompRelease(w, o)
        PROVE  RuntimeCall /\ LifecycleCall
    BY <1>4 DEF CompRelease, Released, ReleaseFailed, RuntimeCall, LifecycleCall, Releasing
  <1>5. ASSUME NEW o \in Orders,
               \/ CancelOrder(o) \/ CancelSave(o) \/ RetryOrder(o) \/ RetrySave(o)
               \/ \E w \in Compensators : CompDies(w, o)
        PROVE  RuntimeCall /\ LifecycleCall
    BY <1>5 DEF CancelOrder, CancelSave, RetryOrder, RetrySave, CompDies, RuntimeCall,
                LifecycleCall
  <1>6. CASE Consume \/ ConsumerFails
    BY <1>6, Handled DEF Consume, Poll, HandleRead, HandleWrite, HandleAck, ConsumerFails,
                RuntimeCall, LifecycleCall
  <1>7. CASE (\E w \in Workers : Work(w)) \/ Disturb
    BY <1>7 DEF Work, Disturb, RuntimeCall, LifecycleCall
  <1>8. CASE UNCHANGED vars
    BY <1>8 DEF vars, RuntimeCall, LifecycleCall
  <1>9. QED
    BY <1>1, <1>2, <1>3, <1>4, <1>5, <1>6, <1>7, <1>8 DEF Next, Payment, Compensation

\* The runtime takes one step of its own, or none.
LEMMA RuntimeStep ==
    ASSUME RuntimeCall
    PROVE  [R!Next]_(R!vars)
  <1>1. CASE UNCHANGED runtimeVars
    BY <1>1 DEF runtimeVars, R!vars
  <1>2. ASSUME NEW o \in Orders, NEW s \in Slots, Runtime!Allocate(Locker, s, o)
        PROVE  [R!Next]_(R!vars)
    BY <1>2, AllocateCall DEF R!Next, R!Handle
  <1>3. ASSUME NEW o \in Orders, Runtime!Commit(Locker, o)
        PROVE  [R!Next]_(R!vars)
    BY <1>3, CommitCall DEF R!Next, R!Handle
  <1>4. ASSUME NEW o \in Orders, Runtime!Release(Locker, o)
        PROVE  [R!Next]_(R!vars)
    BY <1>4, ReleaseCall DEF R!Next, R!Handle
  <1>5. QED
    BY <1>1, <1>2, <1>3, <1>4 DEF RuntimeCall

\* No release, and no allocation, touches the door of a committed allocation of
\* another order: it would be the same door.
LEMMA DoorStep ==
    ASSUME Runtime!TypeOK, DoorInv, RuntimeCall
    PROVE  Runtime!TypeOK' /\ DoorInv'
  <1>1. Runtime!TypeOK' /\ Runtime!OneActivePerDoor'
    BY RuntimeStep, SameRuntime, RuntimeNone, R!TypeStep, R!ExclusionStep DEF DoorInv
  <1> SUFFICES ASSUME NEW a \in Orders, alloc'[a] = "COMMITTED"
               PROVE  door'[at'[a]] = "PAID_PENDING_PICKUP"
    BY <1>1 DEF DoorInv
  <1> USE DEF DoorInv, Runtime!TypeOK
  <1>2. CASE UNCHANGED runtimeVars
    BY <1>2 DEF runtimeVars
  <1>3. ASSUME NEW o \in Orders, NEW s \in Slots, Runtime!Allocate(Locker, s, o)
        PROVE  door'[at'[a]] = "PAID_PENDING_PICKUP"
    <2>1. /\ alloc' = [alloc EXCEPT ![o] = "RESERVED"]
          /\ at' = [at EXCEPT ![o] = <<Locker, s>>]
          /\ door' = [door EXCEPT ![<<Locker, s>>] = "RESERVED"]
          /\ alloc[a] = "COMMITTED" => at[a] # <<Locker, s>>
      BY <1>3, AllocateCall
    <2>2. a # o /\ alloc[a] = "COMMITTED"
      BY <2>1
    <2>3. QED
      BY <2>1, <2>2, NoneAssumption DEF Runtime!AllocStates
  <1>4. ASSUME NEW o \in Orders, Runtime!Commit(Locker, o)
        PROVE  door'[at'[a]] = "PAID_PENDING_PICKUP"
    <2>1. /\ alloc[o] = "RESERVED"
          /\ alloc' = [alloc EXCEPT ![o] = "COMMITTED"]
          /\ door' = [door EXCEPT ![at[o]] = "PAID_PENDING_PICKUP"]
          /\ at' = at
      BY <1>4, CommitCall
    <2>2. at[o] \in Runtime!Doors
      BY <2>1, NoneAssumption DEF Runtime!AllocStates
    <2>3. QED
      BY <2>1, <2>2
  <1>5. ASSUME NEW o \in Orders, Runtime!Release(Locker, o)
        PROVE  door'[at'[a]] = "PAID_PENDING_PICKUP"
    <2>1. /\ alloc[o] \notin {None, "RELEASED"}
          /\ alloc' = [b \in Orders |-> IF b = o THEN "RELEASED" ELSE alloc[b]]
          /\ door' = [d \in Runtime!Doors |-> IF d = at[o] THEN "AVAILABLE" ELSE door[d]]
          /\ at' = at
      BY <1>5, ReleaseCall
    <2>2. a # o /\ alloc[a] = "COMMITTED"
      BY <2>1
    <2>3. at[a] \in Runtime!Doors /\ at[a] # at[o]
      BY <2>1, <2>2, NoneAssumption
      DEF Runtime!OneActivePerDoor, Runtime!Active, Runtime!ActiveStates,
          Runtime!AllocStates
    <2>4. QED
      BY <2>1, <2>2, <2>3
  <1>6. QED
    BY <1>2, <1>3, <1>4, <1>5 DEF RuntimeCall

\* What a call leaves of an allocation: a release that has happened stays, and a
\* committed allocation stays unless somebody is releasing it.
LEMMA AllocStep ==
    ASSUME Runtime!TypeOK, RuntimeCall, NEW o \in Orders
    PROVE  /\ alloc[o] = "RELEASED" => alloc'[o] = "RELEASED"
           /\ alloc[o] = "COMMITTED" /\ ~Releasing(o) => alloc'[o] = "COMMITTED"
  <1> USE DEF Runtime!TypeOK
  <1>1. CASE UNCHANGED runtimeVars
    BY <1>1 DEF runtimeVars
  <1>2. ASSUME NEW a \in Orders, NEW s \in Slots, Runtime!Allocate(Locker, s, a)
        PROVE  alloc[o] \in {"RELEASED", "COMMITTED"} => alloc'[o] = alloc[o]
    BY <1>2, AllocateCall, NoneAssumption DEF Runtime!AllocStates
  <1>3. ASSUME NEW a \in Orders, Runtime!Commit(Locker, a)
        PROVE  alloc[o] \in {"RELEASED", "COMMITTED"} => alloc'[o] = alloc[o]
    BY <1>3, CommitCall
  <1>4. ASSUME NEW a \in Orders, Runtime!Release(Locker, a), Releasing(a)
        PROVE  /\ alloc[o] = "RELEASED" => alloc'[o] = "RELEASED"
               /\ alloc[o] = "COMMITTED" /\ ~Releasing(o) => alloc'[o] = "COMMITTED"
    BY <1>4, ReleaseCall
  <1>5. QED
    BY <1>1, <1>2, <1>3, <1>4 DEF RuntimeCall

LEMMA RequestAnswers ==
    ASSUME Runtime!TypeOK, NEW o \in Orders
    PROVE  /\ Released(o) => alloc'[o] = "RELEASED"
           /\ Committed(o) => alloc'[o] = "COMMITTED"
  <1>1. ASSUME Released(o)
        PROVE  alloc'[o] = "RELEASED"
    BY <1>1, ReleaseCall DEF Released, runtimeVars
  <1>2. ASSUME Committed(o)
        PROVE  alloc'[o] = "COMMITTED"
    BY <1>2, CommitCall DEF Committed, runtimeVars, Runtime!TypeOK
  <1>3. QED
    BY <1>1, <1>2

\* A worker's step is a step of L's worker.
LEMMA SameWork ==
    ASSUME NEW w \in Workers, Lifecycle!RunOnce(w) \/ Lifecycle!Crash(w)
    PROVE  L!RunOnce(w) \/ L!Crash(w)
  <1> USE DEF Lifecycle!tableVars, L!tableVars, Lifecycle!historyVars, L!historyVars,
              Lifecycle!Finish, L!Finish, Lifecycle!Published, L!Published
  <1>1. CASE Lifecycle!Claim(w)
    BY <1>1 DEF Lifecycle!Claim, L!Claim, Lifecycle!Claimable, L!Claimable, L!RunOnce
  <1>2. ASSUME NEW k \in Orders, Lifecycle!Skip(w, k)
        PROVE  L!RunOnce(w)
    BY <1>2 DEF Lifecycle!Skip, L!Skip, L!RunOnce
  <1>3. ASSUME NEW k \in Orders, Lifecycle!Load(w, k)
        PROVE  L!RunOnce(w)
    BY <1>3 DEF Lifecycle!Load, L!Load, Lifecycle!Pending, L!Pending, L!RunOnce
  <1>4. CASE Lifecycle!CommitCancel(w)
    BY <1>4 DEF Lifecycle!CommitCancel, L!CommitCancel, L!RunOnce
  <1>5. CASE Lifecycle!CommitFire(w)
    BY <1>5 DEF Lifecycle!CommitFire, L!CommitFire, L!RunOnce
  <1>6. CASE Lifecycle!Raise(w)
    BY <1>6 DEF Lifecycle!Raise, L!Raise, L!RunOnce
  <1>7. CASE Lifecycle!FailRead(w)
    BY <1>7 DEF Lifecycle!FailRead, L!FailRead, L!RunOnce
  <1>8. CASE Lifecycle!FailWrite(w)
    BY <1>8 DEF Lifecycle!FailWrite, L!FailWrite, L!RunOnce
  <1>9. CASE Lifecycle!Crash(w)
    BY <1>9 DEF Lifecycle!Crash, L!Crash
  <1>10. QED
    BY <1>1, <1>2, <1>3, <1>4, <1>5, <1>6, <1>7, <1>8, <1>9 DEF Lifecycle!RunOnce

\* A call of the order service, or of the clock, is one of L's.
ApiCall ==
    \/ \E o \in Orders : \/ Lifecycle!CreateDeadline(o) \/ Lifecycle!BecomeDue(o)
                        \/ Lifecycle!Pay(o) \/ Lifecycle!Ack(o)
                        \/ Lifecycle!CancelRead(o, o) \/ Lifecycle!CancelWrite(o)
    \/ Lifecycle!ListPending

LEMMA SameApi ==
    ASSUME ApiCall
    PROVE  L!Api
  BY DEF ApiCall, L!Api, Lifecycle!CreateDeadline, L!CreateDeadline, Lifecycle!BecomeDue,
         L!BecomeDue, Lifecycle!Pay, L!Pay, Lifecycle!Ack, L!Ack, Lifecycle!CancelRead,
         L!CancelRead, Lifecycle!CancelWrite, L!CancelWrite, Lifecycle!ListPending,
         L!ListPending, Lifecycle!Pending, L!Pending, Lifecycle!tableVars,
         L!tableVars, Lifecycle!workerVars, L!workerVars, Lifecycle!historyVars,
         L!historyVars

\* Whatever the lifecycle service does, a deadline that is registered has a status.
LEMMA LifecycleStep ==
    ASSUME Lifecycle!TypeOK, LifecycleCall
    PROVE  /\ Lifecycle!TypeOK'
           /\ \A o \in Orders : status[o] # None => status'[o] # None
  <1>1. CASE UNCHANGED deadlineVars
    BY <1>1 DEF deadlineVars, Lifecycle!TypeOK
  <1>2. ASSUME NEW w \in Workers, Lifecycle!RunOnce(w) \/ Lifecycle!Crash(w)
        PROVE  /\ Lifecycle!TypeOK'
               /\ \A o \in Orders : status[o] # None => status'[o] # None
    <2>1. L!RunOnce(w) \/ L!Crash(w)
      BY <1>2, SameWork
    <2>2. L!TypeOK'
      BY <2>1, L!WorkerTyped, LifecycleNone, SameLifecycle
    <2>3. ASSUME NEW o \in Orders, status[o] # None
          PROVE  status'[o] # None
      BY <1>2, <2>3, NoneAssumption
      DEF Lifecycle!TypeOK, Lifecycle!Statuses, Lifecycle!RunOnce, Lifecycle!Crash,
          Lifecycle!Claim, Lifecycle!Skip, Lifecycle!Load, Lifecycle!CommitCancel,
          Lifecycle!CommitFire, Lifecycle!Raise, Lifecycle!FailRead,
          Lifecycle!FailWrite, Lifecycle!tableVars
    <2>4. QED
      BY <2>2, <2>3, SameLifecycle
  <1>3. ASSUME ApiCall
        PROVE  /\ Lifecycle!TypeOK'
               /\ \A o \in Orders : status[o] # None => status'[o] # None
    <2>1. L!Api
      BY <1>3, SameApi
    <2>2. L!TypeOK'
      BY <2>1, L!ApiTyped, LifecycleNone, SameLifecycle
    <2>3. ASSUME NEW o \in Orders, status[o] # None
          PROVE  status'[o] # None
      BY <1>3, <2>3, NoneAssumption
      DEF ApiCall, Lifecycle!TypeOK, Lifecycle!Statuses, Lifecycle!CreateDeadline,
          Lifecycle!BecomeDue, Lifecycle!Pay, Lifecycle!Ack, Lifecycle!CancelRead,
          Lifecycle!CancelWrite, Lifecycle!ListPending, Lifecycle!tableVars
    <2>4. QED
      BY <2>2, <2>3, SameLifecycle
  <1>4. QED
    BY <1>1, <1>2, <1>3 DEF LifecycleCall, ApiCall

-----------------------------------------------------------------------------
\* What the order service itself stores.
CompRecords ==
    [step : {"idle", "release", "save"}, order : OrderStates \cup {None},
     local : LocalStates \cup {None}, pickup : BOOLEAN, released : BOOLEAN]

OwnTypes ==
    /\ order \in [Orders -> OrderStates \cup {None}]
    /\ local \in [Orders -> LocalStates \cup {None}]
    /\ creating \in [Orders -> CreateSteps]
    /\ paying \in [Orders -> PaySteps]
    /\ comp \in [Compensators \X Orders -> CompRecords]
    /\ handling \in [order : Orders \cup {None}, expires : BOOLEAN]
    /\ recon \in [Orders -> ReconStates \cup {None}]
    /\ ready \cup batch \cup confirmed \cup acked \cup asked \cup voided \subseteq Orders

LEMMA Types == TypeOK <=> Runtime!TypeOK /\ Lifecycle!TypeOK /\ OwnTypes
  BY DEF TypeOK, OwnTypes, CompRecords

LEMMA TypesNext == TypeOK' <=> Runtime!TypeOK' /\ Lifecycle!TypeOK' /\ OwnTypes'
  BY DEF TypeOK, OwnTypes, CompRecords

LEMMA CompTyped ==
    ASSUME OwnTypes, NEW o \in Orders, NEW w \in Compensators
    PROVE  /\ NotCompensating \in CompRecords
           /\ Found(o) \in CompRecords
           /\ [comp[<<w, o>>] EXCEPT !.step = "save"] \in CompRecords
           /\ [comp[<<w, o>>] EXCEPT !.step = "save", !.released = TRUE] \in CompRecords
           /\ \A r \in CompRecords :
                 [comp EXCEPT ![<<w, o>>] = r] \in [Compensators \X Orders -> CompRecords]
  <1>1. comp[<<w, o>>] \in CompRecords
    BY DEF OwnTypes
  <1>2. NotCompensating \in CompRecords
    BY DEF NotCompensating, CompRecords
  <1>3. Found(o) \in CompRecords
    BY DEF Found, CompRecords, OwnTypes
  <1>4. /\ [comp[<<w, o>>] EXCEPT !.step = "save"] \in CompRecords
        /\ [comp[<<w, o>>] EXCEPT !.step = "save", !.released = TRUE] \in CompRecords
    BY <1>1 DEF CompRecords
  <1>5. \A r \in CompRecords :
           [comp EXCEPT ![<<w, o>>] = r] \in [Compensators \X Orders -> CompRecords]
    BY DEF OwnTypes
  <1>6. QED
    BY <1>2, <1>3, <1>4, <1>5

LEMMA CreateTyped ==
    ASSUME OwnTypes, NEW o \in Orders, Create(o)
    PROVE  OwnTypes'
  <1> USE DEF OwnTypes, CreateSteps, OrderStates, LocalStates, orderVars, consumerVars,
              otherVars, historyVars, Goto
  <1>1. CASE Reserve(o) \/ GiveBack(o) \/ Compensate(o) \/ CreateDies(o)
    BY <1>1 DEF Reserve, GiveBack, Compensate, CreateDies
  <1>2. CASE Persist(o) \/ PersistFails(o)
    BY <1>2 DEF Persist, PersistFails, Store
  <1>3. CASE Register(o) \/ RegisterFails(o) \/ DeleteOrder(o)
    BY <1>3 DEF Register, RegisterFails, DeleteOrder
  <1>4. QED
    BY <1>1, <1>2, <1>3 DEF Create

LEMMA PaymentTyped ==
    ASSUME OwnTypes, NEW o \in Orders, Payment(o)
    PROVE  OwnTypes'
  <1> USE DEF OwnTypes, PaySteps, OrderStates, LocalStates, orderVars, consumerVars,
              otherVars, historyVars, handlerVars, PayGoto
  <1>1. CASE PayRead(o) \/ PayApply(o)
    BY <1>1 DEF PayRead, PayApply
  <1>2. CASE PayCancelRead(o) \/ PayCommit(o) \/ PayFinish(o) \/ PayFails(o)
    BY <1>2 DEF PayCancelRead, PayCommit, PayFinish, PayFails
  <1>3. CASE PayCancelled(o)
    BY <1>3 DEF PayCancelled
  <1>4. QED
    BY <1>1, <1>2, <1>3 DEF Payment

LEMMA CompensationTyped ==
    ASSUME OwnTypes, NEW o \in Orders, Compensation(o)
    PROVE  OwnTypes'
  <1> USE DEF orderVars, consumerVars, otherVars, historyVars, CompGoto, Compensators
  <1>1. CASE CancelOrder(o)
    BY <1>1, CompTyped DEF CancelOrder, OwnTypes
  <1>2. CASE RetryOrder(o)
    BY <1>2, CompTyped DEF RetryOrder, OwnTypes, ReconStates
  <1>3. ASSUME NEW w \in Compensators, CompRelease(w, o)
        PROVE  OwnTypes'
    <2> DEFINE saved == [comp[<<w, o>>] EXCEPT !.step = "save"]
               done == [comp[<<w, o>>] EXCEPT !.step = "save", !.released = TRUE]
    <2>1. saved \in CompRecords /\ done \in CompRecords
      BY CompTyped
    <2>2. comp' = [comp EXCEPT ![<<w, o>>] = saved] \/ comp' = [comp EXCEPT ![<<w, o>>] = done]
      BY <1>3 DEF CompRelease
    <2>3. comp' \in [Compensators \X Orders -> CompRecords]
      <3>1. \A r \in CompRecords :
               [comp EXCEPT ![<<w, o>>] = r] \in [Compensators \X Orders -> CompRecords]
        BY CompTyped
      <3> HIDE DEF saved, done
      <3>2. QED
        BY <2>1, <2>2, <3>1
    <2>4. QED
      BY <1>3, <2>3 DEF CompRelease, OwnTypes
  <1>4. CASE CancelSave(o)
    <2>1. comp' \in [Compensators \X Orders -> CompRecords]
      BY <1>4, CompTyped DEF CancelSave
    <2>2. QED
      BY <1>4, <2>1 DEF CancelSave, SaveRows, OwnTypes, ReconStates, LocalStates,
                        OrderStates
  <1>5. CASE RetrySave(o)
    <2>1. comp' \in [Compensators \X Orders -> CompRecords]
      BY <1>5, CompTyped DEF RetrySave
    <2>2. \E r \in ReconStates : recon' = [recon EXCEPT ![o] = r]
      BY <1>5 DEF RetrySave, ReconStates
    <2>3. QED
      BY <1>5, <2>1, <2>2 DEF RetrySave, SaveRows, OwnTypes, LocalStates
  <1>6. ASSUME NEW w \in Compensators, CompDies(w, o)
        PROVE  OwnTypes'
    <2>1. comp' \in [Compensators \X Orders -> CompRecords]
      BY <1>6, CompTyped DEF CompDies
    <2>2. QED
      BY <1>6, <2>1 DEF CompDies, OwnTypes
  <1>7. QED
    BY <1>1, <1>2, <1>3, <1>4, <1>5, <1>6 DEF Compensation

LEMMA ConsumerTyped ==
    ASSUME OwnTypes, Consume \/ ConsumerFails
    PROVE  OwnTypes'
  <1> USE DEF OwnTypes, orderVars, handlerVars, otherVars, historyVars, NotHandling
  <1>1. CASE Poll
    BY <1>1 DEF Poll, Lifecycle!Pending
  <1>2. ASSUME NEW o \in Orders, HandleRead(o)
        PROVE  OwnTypes'
    BY <1>2 DEF HandleRead
  <1>3. CASE HandleWrite
    BY <1>3 DEF HandleWrite, OrderStates, LocalStates
  <1>4. CASE HandleAck
    BY <1>4 DEF HandleAck
  <1>5. CASE ConsumerFails
    BY <1>5 DEF ConsumerFails
  <1>6. QED
    BY <1>1, <1>2, <1>3, <1>4, <1>5 DEF Consume

LEMMA TypeStep ==
    ASSUME TypeOK, DoorInv, [Next]_vars
    PROVE  TypeOK'
  <1>1. Runtime!TypeOK' /\ Lifecycle!TypeOK'
    BY StepsCall, DoorStep, LifecycleStep, Types
  <1>2. OwnTypes
    BY Types
  <1>3. ASSUME (\E w \in Workers : Work(w)) \/ Disturb
        PROVE  OwnTypes'
    BY <1>2, <1>3 DEF Work, Disturb, OwnTypes, orderVars, handlerVars, consumerVars,
                      otherVars, historyVars
  <1>4. ASSUME UNCHANGED vars
        PROVE  OwnTypes'
    BY <1>2, <1>4 DEF vars, OwnTypes, orderVars, handlerVars, consumerVars, otherVars,
                      historyVars
  <1>5. OwnTypes'
    BY <1>2, <1>3, <1>4, CreateTyped, PaymentTyped, CompensationTyped, ConsumerTyped
    DEF Next
  <1>6. QED
    BY <1>1, <1>5, TypesNext

-----------------------------------------------------------------------------
\* What a step may do to order o: how its creation and its payment go on ...
OrderEffect(o) ==
    /\ Created(o) => creating'[o] = creating[o]
    /\ creating'[o] = "answered" => creating[o] = "answered" \/ Lifecycle!CreateDeadline(o)
    /\ paying'[o] # "idle" => paying[o] # "idle" \/ Created(o)
    /\ paying'[o] = "finish" => paying[o] = "finish" \/ Committed(o)
    /\ o \in ready' => o \in ready \/ paying[o] = "finish"

\* ... and its compensations.
CompEffect(o) ==
    /\ o \in asked => o \in asked'
    /\ o \in asked' => o \in asked \/ Created(o)
    /\ recon[o] # None => recon'[o] # None
    /\ recon'[o] # None =>
          recon[o] # None \/ \E w \in Compensators : comp[<<w, o>>] # NotCompensating
    /\ recon'[o] = "DONE" => recon[o] = "DONE" \/ comp[<<"retry", o>>].released
    /\ \A w \in Compensators :
          /\ comp'[<<w, o>>] # NotCompensating =>
                comp[<<w, o>>] # NotCompensating \/ o \in asked' \/ recon[o] # None
          /\ comp'[<<w, o>>].released => comp[<<w, o>>].released \/ Released(o)
    /\ o \in voided' => o \in voided \/ comp[<<"customer", o>>].released \/ recon'[o] # None

LEMMA SameOrder ==
    ASSUME UNCHANGED <<creating, paying, ready>>, NEW o \in Orders
    PROVE  OrderEffect(o)
  BY DEF OrderEffect

LEMMA SameComp ==
    ASSUME UNCHANGED <<comp, recon, asked, voided>>, NEW o \in Orders
    PROVE  CompEffect(o)
  BY DEF CompEffect

LEMMA CreateOrderEffect ==
    ASSUME OwnTypes, NEW p \in Orders, Create(p), NEW o \in Orders
    PROVE  OrderEffect(o)
  <1> USE DEF orderVars, Goto, OwnTypes, OrderEffect, Created
  <1>1. CASE Reserve(p) \/ GiveBack(p) \/ Compensate(p) \/ CreateDies(p)
    BY <1>1 DEF Reserve, GiveBack, Compensate, CreateDies
  <1>2. CASE Persist(p) \/ PersistFails(p)
    BY <1>2 DEF Persist, PersistFails, Store
  <1>3. CASE Register(p)
    BY <1>3 DEF Register
  <1>4. CASE RegisterFails(p) \/ DeleteOrder(p)
    BY <1>4 DEF RegisterFails, DeleteOrder
  <1>5. QED
    BY <1>1, <1>2, <1>3, <1>4 DEF Create

LEMMA PaymentOrderEffect ==
    ASSUME OwnTypes, NEW p \in Orders, Payment(p), NEW o \in Orders
    PROVE  OrderEffect(o)
  <1> USE DEF orderVars, handlerVars, PayGoto, OwnTypes, OrderEffect
  <1>1. CASE PayRead(p) \/ PayApply(p) \/ PayCancelRead(p) \/ PayFails(p)
    BY <1>1 DEF PayRead, PayApply, PayCancelRead, PayFails
  <1>2. CASE PayCancelled(p) \/ PayFinish(p)
    BY <1>2 DEF PayCancelled, PayFinish
  <1>3. CASE PayCommit(p)
    BY <1>3 DEF PayCommit
  <1>4. QED
    BY <1>1, <1>2, <1>3 DEF Payment

LEMMA CompensationOrderEffect ==
    ASSUME OwnTypes, NEW p \in Orders, Compensation(p), NEW o \in Orders
    PROVE  OrderEffect(o)
  <1>1. UNCHANGED <<creating, paying>>
    BY DEF Compensation, CancelOrder, CancelSave, RetryOrder, RetrySave, CompRelease,
           CompDies
  <1>2. ready' \subseteq ready
    BY DEF Compensation, CancelOrder, CancelSave, RetryOrder, RetrySave, CompRelease,
           CompDies, SaveRows, orderVars
  <1>3. QED
    BY <1>1, <1>2 DEF OrderEffect

LEMMA CancelEffect ==
    ASSUME OwnTypes, NEW p \in Orders, CancelOrder(p) \/ CancelSave(p), NEW o \in Orders
    PROVE  CompEffect(o)
  <1> USE DEF CompGoto, OwnTypes, CompEffect, Compensators
  <1>1. CASE CancelOrder(p)
    BY <1>1 DEF CancelOrder, Found
  <1>2. CASE CancelSave(p)
    BY <1>2, NoneAssumption DEF CancelSave, NotCompensating, ReconStates
  <1>3. QED
    BY <1>1, <1>2

LEMMA RetryEffect ==
    ASSUME OwnTypes, NEW p \in Orders, RetryOrder(p) \/ RetrySave(p), NEW o \in Orders
    PROVE  CompEffect(o)
  <1> USE DEF CompGoto, OwnTypes, CompEffect, Compensators, historyVars
  <1>1. CASE RetryOrder(p)
    BY <1>1, NoneAssumption DEF RetryOrder, Found, ReconStates
  <1>2. CASE RetrySave(p)
    BY <1>2, NoneAssumption DEF RetrySave, NotCompensating, ReconStates
  <1>3. QED
    BY <1>1, <1>2

LEMMA ReleaseEffect ==
    ASSUME OwnTypes, NEW p \in Orders, NEW v \in Compensators,
           CompRelease(v, p) \/ CompDies(v, p), NEW o \in Orders
    PROVE  CompEffect(o)
  <1> USE DEF CompGoto, OwnTypes, CompEffect, otherVars, historyVars
  <1>1. CASE CompRelease(v, p)
    <2> DEFINE c == comp[<<v, p>>]
               saved == [c EXCEPT !.step = "save"]
               done == [c EXCEPT !.step = "save", !.released = TRUE]
    <2>1. c # NotCompensating
      BY <1>1 DEF CompRelease, NotCompensating
    <2>2. saved.released = c.released
      BY DEF CompRecords
    <2>3. \/ comp' = [comp EXCEPT ![<<v, p>>] = saved]
          \/ comp' = [comp EXCEPT ![<<v, p>>] = done] /\ Released(p)
      BY <1>1 DEF CompRelease
    <2> HIDE DEF saved, done, c
    <2>4. \A w \in Compensators, q \in Orders :
             <<w, q>> # <<v, p>> => comp'[<<w, q>>] = comp[<<w, q>>]
      BY <2>3
    <2>5. comp'[<<v, p>>].released => comp[<<v, p>>].released \/ Released(p)
      BY <2>2, <2>3 DEF c
    <2>6. UNCHANGED <<recon, asked, voided>>
      BY <1>1 DEF CompRelease
    <2>7. QED
      BY <2>1, <2>4, <2>5, <2>6 DEF c
  <1>2. CASE CompDies(v, p)
    BY <1>2 DEF CompDies, NotCompensating
  <1>3. QED
    BY <1>1, <1>2

LEMMA StepEffect ==
    ASSUME OwnTypes, [Next]_vars, NEW o \in Orders
    PROVE  OrderEffect(o) /\ CompEffect(o)
  <1>1. ASSUME NEW p \in Orders, Create(p)
        PROVE  OrderEffect(o) /\ CompEffect(o)
    <2>1. UNCHANGED <<comp, recon, asked, voided>>
      BY <1>1 DEF Create, Reserve, Persist, PersistFails, GiveBack, Register,
                  RegisterFails, Compensate, DeleteOrder, CreateDies, otherVars,
                  historyVars
    <2>2. QED
      BY <1>1, <2>1, CreateOrderEffect, SameComp
  <1>2. ASSUME NEW p \in Orders, Payment(p)
        PROVE  OrderEffect(o) /\ CompEffect(o)
    <2>1. UNCHANGED <<comp, recon, asked, voided>>
      BY <1>2 DEF Payment, PayRead, PayApply, PayCancelRead, PayCancelled, PayCommit,
                  PayFinish, PayFails, otherVars, historyVars, handlerVars
    <2>2. QED
      BY <1>2, <2>1, PaymentOrderEffect, SameComp
  <1>3. ASSUME NEW p \in Orders, Compensation(p)
        PROVE  OrderEffect(o) /\ CompEffect(o)
    BY <1>3, CompensationOrderEffect, CancelEffect, RetryEffect, ReleaseEffect
    DEF Compensation
  <1>4. CASE \/ Consume \/ ConsumerFails
             \/ (\E w \in Workers : Work(w)) \/ Disturb \/ UNCHANGED vars
    <2>1. UNCHANGED <<creating, paying, ready, comp, recon, asked, voided>>
      BY <1>4 DEF Consume, Poll, HandleRead, HandleWrite, HandleAck, ConsumerFails, Work,
                  Disturb, vars, orderVars, handlerVars, otherVars, historyVars
    <2>2. QED
      BY <2>1, SameOrder, SameComp
  <1>5. QED
    BY <1>1, <1>2, <1>3, <1>4 DEF Next

-----------------------------------------------------------------------------
LEMMA InvStep ==
    ASSUME Inv, [Next]_vars
    PROVE  Inv'
  <1>1. TypeOK' /\ DoorInv'
    BY TypeStep, StepsCall, DoorStep, Types DEF Inv
  <1>2. RuntimeCall /\ LifecycleCall /\ OwnTypes /\ OwnTypes'
    BY <1>1, StepsCall, Types, TypesNext DEF Inv
  <1>3. Runtime!TypeOK /\ Lifecycle!TypeOK
    BY Types DEF Inv
  <1>4. ASSUME NEW o \in Orders
        PROVE  /\ OrderEffect(o) /\ CompEffect(o)
               /\ alloc[o] = "RELEASED" => alloc'[o] = "RELEASED"
               /\ alloc[o] = "COMMITTED" /\ ~Releasing(o) => alloc'[o] = "COMMITTED"
               /\ Released(o) => alloc'[o] = "RELEASED"
               /\ Committed(o) => alloc'[o] = "COMMITTED"
               /\ status[o] # None => status'[o] # None
    BY <1>2, <1>3, StepEffect, AllocStep, RequestAnswers, LifecycleStep
  <1>5. AnsweredInv'
    <2> SUFFICES ASSUME NEW o \in Orders, creating'[o] = "answered"
                 PROVE  status'[o] # None
      BY DEF AnsweredInv
    <2>1. CASE creating[o] = "answered"
      BY <1>4, <2>1 DEF Inv, AnsweredInv
    <2>2. CASE Lifecycle!CreateDeadline(o)
      BY <1>3, <2>2, NoneAssumption
      DEF Lifecycle!CreateDeadline, Lifecycle!TypeOK, Lifecycle!Statuses
    <2>3. QED
      BY <1>4, <2>1, <2>2 DEF OrderEffect
  <1>6. CreatedInv'
    BY <1>4 DEF Inv, CreatedInv, Created, OrderEffect, CompEffect
  <1>7. AskedInv'
    BY <1>4 DEF Inv, AskedInv, CompEffect
  <1>8. PaidInv'
    <2> SUFFICES ASSUME NEW o \in Orders, o \notin asked',
                        o \in ready' \/ paying'[o] = "finish"
                 PROVE  alloc'[o] = "COMMITTED"
      BY DEF PaidInv
    <2>1. o \notin asked
      BY <1>4 DEF CompEffect
    <2>2. CASE o \in ready \/ paying[o] = "finish"
      <3>1. alloc[o] = "COMMITTED" /\ Created(o)
        BY <2>1, <2>2 DEF Inv, PaidInv, CreatedInv
      <3>2. ~Releasing(o)
        <4>1. \A w \in Compensators : comp[<<w, o>>] = NotCompensating
          BY <2>1 DEF Inv, AskedInv
        <4>2. NotCompensating.step = "idle"
          BY DEF NotCompensating
        <4>3. QED
          BY <3>1, <4>1, <4>2 DEF Releasing, Created
      <3>3. QED
        BY <1>4, <3>1, <3>2
    <2>3. CASE ~ (o \in ready \/ paying[o] = "finish")
      BY <1>4, <2>3 DEF OrderEffect
    <2>4. QED
      BY <2>2, <2>3
  <1>9. ReleasedInv'
    BY <1>4 DEF Inv, ReleasedInv, CompEffect, Compensators
  <1>10. NoLostRelease'
    <2> SUFFICES ASSUME NEW o \in Orders, o \in voided', alloc'[o] # "RELEASED"
                 PROVE  recon'[o] \in {"PENDING", "PROCESSING", "FAILED_FINAL"}
      BY <1>2 DEF NoLostRelease, OwnTypes
    <2>1. alloc[o] # "RELEASED"
      BY <1>4
    <2>2. recon'[o] # None
      <3>1. CASE o \in voided
        BY <1>4, <2>1, <3>1, NoneAssumption
        DEF Inv, NoLostRelease, CompEffect, ReconStates
      <3>2. CASE o \notin voided
        BY <1>4, <2>1, <3>2 DEF Inv, ReleasedInv, CompEffect, Compensators
      <3>3. QED
        BY <3>1, <3>2
    <2>3. recon'[o] # "DONE"
      BY <1>9 DEF ReleasedInv
    <2>4. QED
      BY <1>2, <2>2, <2>3 DEF OwnTypes, ReconStates
  <1>11. QED
    BY <1>1, <1>5, <1>6, <1>7, <1>8, <1>9, <1>10 DEF Inv

LEMMA InvInit == Init => Inv
  <1> SUFFICES ASSUME Init
               PROVE  Inv
    OBVIOUS
  <1>1. Runtime!TypeOK
    BY DEF Init, Runtime!Init, Runtime!TypeOK
  <1>2. Lifecycle!TypeOK
    BY DEF Init, Lifecycle!Init, Lifecycle!TypeOK
  <1>3. OwnTypes
    BY DEF Init, OwnTypes, CompRecords, NotCompensating, NotHandling, CreateSteps, PaySteps
  <1>4. DoorInv
    BY NoneAssumption
    DEF Init, Runtime!Init, DoorInv, Runtime!OneActivePerDoor, Runtime!Active,
        Runtime!ActiveStates, Runtime!AllocStates
  <1>5. CreatedInv /\ PaidInv /\ AnsweredInv /\ NoLostRelease
    BY DEF Init, CreatedInv, PaidInv, AnsweredInv, NoLostRelease
  <1>6. AskedInv /\ ReleasedInv
    BY NoneAssumption DEF Init, AskedInv, ReleasedInv, NotCompensating, ReconStates
  <1>7. QED
    BY <1>1, <1>2, <1>3, <1>4, <1>5, <1>6, Types DEF Inv

LEMMA InvHolds == Spec => []Inv
  BY InvInit, InvStep, PTL DEF Spec

-----------------------------------------------------------------------------
\* The lifecycle service among the others does what it does alone.
LEMMA LifecycleRuns == Spec => L!Init /\ [][L!Next]_(L!vars)
  <1>1. Init => L!Init
    BY DEF Init, Lifecycle!Init, L!Init
  <1>2. Inv /\ [Next]_vars => [L!Next]_(L!vars)
    <2> SUFFICES ASSUME Inv, [Next]_vars
                 PROVE  [L!Next]_(L!vars)
      OBVIOUS
    <2>1. LifecycleCall
      BY StepsCall DEF Inv
    <2>2. CASE UNCHANGED deadlineVars
      BY <2>2 DEF deadlineVars, L!vars, L!tableVars, L!workerVars, L!historyVars
    <2>3. CASE ApiCall
      BY <2>3, SameApi DEF L!Next
    <2>4. CASE \E w \in Workers : Lifecycle!RunOnce(w) \/ Lifecycle!Crash(w)
      BY <2>4, SameWork DEF L!Next
    <2>5. QED
      BY <2>1, <2>2, <2>3, <2>4 DEF LifecycleCall, ApiCall
  <1>3. QED
    BY <1>1, <1>2, InvHolds, PTL DEF Spec

LEMMA LifecycleKept == Spec => []L!IInv
  <1>1. L!Init => L!IInv
    BY LifecycleNone, L!InitKeeps
  <1>2. L!IInv /\ [L!Next]_(L!vars) => L!IInv'
    BY LifecycleNone, L!StepKeeps
  <1>3. QED
    BY <1>1, <1>2, LifecycleRuns, PTL

-----------------------------------------------------------------------------
\* An order that is not committed yet has neither deadline nor payment, and what the
\* consumer has listed, or has in hand, has a deadline.
WatchInv ==
    \A o \in Orders :
        /\ creating[o] \in {"reserve", "persist"} => status[o] = None /\ o \notin paid
        /\ o \in batch \cup acked \/ handling.order = o => status[o] # None

\* A deadline is cancelled for an order that is paid, by whoever has seen the payment
\* committed, and its event is acknowledged for an order that is not open any more.
ClosedInv ==
    /\ \A o \in Orders :
          /\ paying[o] \in {"cancel1", "commit", "finish", "cancel2"} => o \in paid
          /\ ccall[o] # None => ccall[o] = o /\ o \in paid
          /\ status[o] = "CANCELLED" => o \in paid
          /\ o \in paid \cup acked => order[o] # "PAYMENT_PENDING"
          /\ handling.order = o /\ ~handling.expires => order[o] # "PAYMENT_PENDING"
    /\ \A w \in Workers : cancels[w] => cur[w] \in paid

\* An event that is stored has a deadline.
LEMMA EventHasDeadline ==
    ASSUME L!IInv, NEW o \in Orders, event[o] # None
    PROVE  status[o] # None
  BY DEF L!IInv, L!EventsGrow

LEMMA WatchedCreate ==
    ASSUME OwnTypes, Lifecycle!TypeOK, WatchInv, ClosedInv, NEW o \in Orders, Create(o)
    PROVE  WatchInv' /\ ClosedInv'
  <1> USE NoneAssumption
      DEF OwnTypes, WatchInv, ClosedInv, Goto, orderVars, consumerVars, deadlineVars,
          otherVars, historyVars
  <1>1. CASE Reserve(o) \/ GiveBack(o) \/ Compensate(o) \/ CreateDies(o) \/ DeleteOrder(o)
    <2>1. UNCHANGED <<deadlineVars, paying, batch, handling, acked>>
      BY <1>1 DEF Reserve, GiveBack, Compensate, CreateDies, DeleteOrder
    <2>2. order' = order \/ order' = [order EXCEPT ![o] = None]
      BY <1>1 DEF Reserve, GiveBack, Compensate, CreateDies, DeleteOrder
    <2>3. \E step \in {"persist", "gone", "delete"} :
             /\ creating' = [creating EXCEPT ![o] = step]
             /\ step = "persist" => creating[o] = "reserve"
      BY <1>1 DEF Reserve, GiveBack, Compensate, CreateDies, DeleteOrder
    <2>4. WatchInv'
      BY <2>1, <2>3
    <2>5. ClosedInv'
      BY <2>1, <2>2 DEF OrderStates
    <2>6. QED
      BY <2>4, <2>5
  <1>2. CASE Persist(o) \/ PersistFails(o)
    BY <1>2 DEF Persist, PersistFails, Store
  <1>3. CASE Register(o) \/ RegisterFails(o)
    BY <1>3
    DEF Register, RegisterFails, Lifecycle!CreateDeadline, Lifecycle!TypeOK,
        Lifecycle!Statuses, Lifecycle!workerVars, Lifecycle!historyVars
  <1>4. QED
    BY <1>1, <1>2, <1>3 DEF Create

LEMMA WatchedPayment ==
    ASSUME OwnTypes, Lifecycle!TypeOK, CreatedInv, WatchInv, ClosedInv,
           NEW o \in Orders, Payment(o)
    PROVE  WatchInv' /\ ClosedInv'
  <1> USE NoneAssumption
      DEF OwnTypes, CreatedInv, Created, WatchInv, ClosedInv, PayGoto, orderVars,
          handlerVars, consumerVars, deadlineVars, otherVars, historyVars
  <1>1. CASE PayRead(o) \/ PayCommit(o) \/ PayFinish(o) \/ PayFails(o)
    BY <1>1 DEF PayRead, PayCommit, PayFinish, PayFails
  <1>2. CASE PayApply(o)
    BY <1>2 DEF PayApply, Lifecycle!TypeOK
  <1>3. CASE PayCancelRead(o)
    BY <1>3
    DEF PayCancelRead, Lifecycle!CancelRead, Lifecycle!TypeOK, Lifecycle!tableVars,
        Lifecycle!workerVars, Lifecycle!historyVars
  <1>4. CASE PayCancelled(o)
    <2>1. /\ UNCHANGED <<order, creating, batch, handling, acked, paid, cancels, cur>>
          /\ paying' = [paying EXCEPT ![o] = IF paying[o] = "cancel1" THEN "commit" ELSE "idle"]
          /\ paying[o] \in {"cancel1", "cancel2"}
      BY <1>4 DEF PayCancelled, Lifecycle!CancelWrite, Lifecycle!workerVars
    <2>2. \/ UNCHANGED <<status, ccall>>
          \/ /\ ccall[o] # None
             /\ status' = [status EXCEPT ![ccall[o]] = "CANCELLED"]
             /\ ccall' = [ccall EXCEPT ![o] = None]
      BY <1>4 DEF PayCancelled, Lifecycle!CancelWrite
    <2>3. o \in paid
      BY <2>1
    <2>4. CASE UNCHANGED <<status, ccall>>
      BY <2>1, <2>3, <2>4
    <2>5. CASE /\ ccall[o] # None
               /\ status' = [status EXCEPT ![ccall[o]] = "CANCELLED"]
               /\ ccall' = [ccall EXCEPT ![o] = None]
      <3>1. status' = [status EXCEPT ![o] = "CANCELLED"] /\ o \in paid
        BY <2>5
      <3>2. WatchInv'
        BY <2>1, <3>1 DEF Lifecycle!TypeOK, Lifecycle!Statuses
      <3>3. ClosedInv'
        BY <2>1, <2>5, <3>1 DEF Lifecycle!TypeOK
      <3>4. QED
        BY <3>2, <3>3
    <2>6. QED
      BY <2>2, <2>4, <2>5
  <1>5. QED
    BY <1>1, <1>2, <1>3, <1>4 DEF Payment

\* A compensation closes the order or leaves it alone.
LEMMA WatchedCompensation ==
    ASSUME OwnTypes, WatchInv, ClosedInv, NEW o \in Orders, Compensation(o)
    PROVE  WatchInv' /\ ClosedInv'
  <1>1. UNCHANGED <<deadlineVars, creating, paying, batch, handling, acked>>
    BY DEF Compensation, CancelOrder, CancelSave, RetryOrder, RetrySave, CompRelease,
           CompDies, consumerVars, otherVars, historyVars
  <1>2. order' = order \/ order' = [order EXCEPT ![o] = "CANCELLED"]
    BY DEF Compensation, CancelOrder, CancelSave, RetryOrder, RetrySave, CompRelease,
           CompDies, orderVars
  <1>3. QED
    BY <1>1, <1>2 DEF OwnTypes, WatchInv, ClosedInv, deadlineVars

LEMMA WatchedConsumer ==
    ASSUME OwnTypes, Lifecycle!TypeOK, L!IInv, WatchInv, ClosedInv, Consume \/ ConsumerFails
    PROVE  WatchInv' /\ ClosedInv'
  <1> USE NoneAssumption
      DEF OwnTypes, WatchInv, ClosedInv, NotHandling, orderVars, handlerVars, deadlineVars,
          otherVars, historyVars
  <1>1. CASE Poll
    BY <1>1, EventHasDeadline
    DEF Poll, Lifecycle!ListPending, Lifecycle!Pending, Lifecycle!EventStatuses,
        Lifecycle!tableVars, Lifecycle!workerVars
  <1>2. ASSUME NEW o \in Orders, HandleRead(o)
        PROVE  WatchInv' /\ ClosedInv'
    BY <1>2 DEF HandleRead
  <1>3. CASE HandleWrite
    BY <1>3 DEF HandleWrite
  <1>4. CASE HandleAck
    BY <1>4
    DEF HandleAck, Lifecycle!Ack, Lifecycle!workerVars, Lifecycle!historyVars
  <1>5. CASE ConsumerFails
    BY <1>5 DEF ConsumerFails
  <1>6. QED
    BY <1>1, <1>2, <1>3, <1>4, <1>5 DEF Consume

\* A worker cancels a deadline only if it has seen the order paid.
LEMMA WatchedWork ==
    ASSUME Lifecycle!TypeOK, WatchInv, ClosedInv,
           L!IInv, UNCHANGED <<order, creating, paying, batch, handling, acked>>,
           \/ \E w \in Workers : Lifecycle!RunOnce(w) \/ Lifecycle!Crash(w)
           \/ \E o \in Orders : Lifecycle!BecomeDue(o)
    PROVE  WatchInv' /\ ClosedInv'
  <1> USE NoneAssumption
      DEF WatchInv, ClosedInv, Lifecycle!TypeOK, Lifecycle!tableVars,
          Lifecycle!workerVars, Lifecycle!historyVars, Lifecycle!Finish, Lifecycle!Statuses
  <1>1. ASSUME NEW o \in Orders, Lifecycle!BecomeDue(o)
        PROVE  WatchInv' /\ ClosedInv'
    BY <1>1 DEF Lifecycle!BecomeDue
  <1>2. ASSUME NEW w \in Workers, Lifecycle!Claim(w)
        PROVE  WatchInv' /\ ClosedInv'
    BY <1>2 DEF Lifecycle!Claim, Lifecycle!Claimable
  <1>3. ASSUME NEW w \in Workers, NEW k \in Orders, Lifecycle!Skip(w, k) \/ Lifecycle!Load(w, k)
        PROVE  WatchInv' /\ ClosedInv'
    <2>1. CASE Lifecycle!Skip(w, k)
      BY <2>1 DEF Lifecycle!Skip
    <2>2. CASE Lifecycle!Load(w, k)
      BY <2>2 DEF Lifecycle!Load
    <2>3. QED
      BY <1>3, <2>1, <2>2
  <1>4. ASSUME NEW w \in Workers, Lifecycle!CommitCancel(w)
        PROVE  WatchInv' /\ ClosedInv'
    <2>1. cur[w] \in Orders /\ status[cur[w]] # None
      BY <1>4 DEF Lifecycle!CommitCancel, L!IInv, L!Held, L!Executing
    <2>2. QED
      BY <1>4, <2>1 DEF Lifecycle!CommitCancel
  <1>5. ASSUME NEW w \in Workers, Lifecycle!CommitFire(w) \/ Lifecycle!FailWrite(w)
        PROVE  WatchInv' /\ ClosedInv'
    <2>1. cur[w] \in Orders /\ status[cur[w]] # None
      BY <1>5 DEF Lifecycle!CommitFire, Lifecycle!FailWrite, L!IInv, L!Held, L!Executing
    <2>2. QED
      BY <1>5, <2>1 DEF Lifecycle!CommitFire, Lifecycle!FailWrite
  <1>6. ASSUME NEW w \in Workers, Lifecycle!Raise(w) \/ Lifecycle!FailRead(w)
        PROVE  WatchInv' /\ ClosedInv'
    BY <1>6 DEF Lifecycle!Raise, Lifecycle!FailRead
  <1>7. ASSUME NEW w \in Workers, Lifecycle!Crash(w)
        PROVE  WatchInv' /\ ClosedInv'
    BY <1>7 DEF Lifecycle!Crash
  <1>8. QED
    BY <1>1, <1>2, <1>3, <1>4, <1>5, <1>6, <1>7 DEF Lifecycle!RunOnce

LEMMA WatchHolds == Spec => [](WatchInv /\ ClosedInv)
  <1>1. Init => WatchInv /\ ClosedInv
    <2> SUFFICES ASSUME Init
                 PROVE  WatchInv /\ ClosedInv
      OBVIOUS
    <2>1. /\ \A o \in Orders : /\ status[o] = None /\ ccall[o] = None /\ order[o] = None
                              /\ paying[o] = "idle"
          /\ \A w \in Workers : ~cancels[w]
          /\ paid = {} /\ acked = {} /\ batch = {} /\ handling.order = None
      BY DEF Init, Lifecycle!Init, NotHandling
    <2>2. "CANCELLED" # None /\ "PAYMENT_PENDING" # None
      BY NoneAssumption DEF Lifecycle!Statuses, OrderStates
    <2>3. WatchInv
      BY <2>1, NoneAssumption DEF WatchInv
    <2>4. ClosedInv
      BY <2>1, <2>2, NoneAssumption DEF ClosedInv
    <2>5. QED
      BY <2>3, <2>4
  <1>2. Inv /\ L!IInv /\ WatchInv /\ ClosedInv /\ [Next]_vars => WatchInv' /\ ClosedInv'
    <2> SUFFICES ASSUME Inv, L!IInv, WatchInv, ClosedInv, [Next]_vars
                 PROVE  WatchInv' /\ ClosedInv'
      OBVIOUS
    <2>1. OwnTypes /\ Lifecycle!TypeOK /\ CreatedInv
      BY Types DEF Inv
    <2>2. ASSUME NEW o \in Orders, Create(o) \/ Payment(o) \/ Compensation(o)
          PROVE  WatchInv' /\ ClosedInv'
      BY <2>1, <2>2, WatchedCreate, WatchedPayment, WatchedCompensation
    <2>3. CASE Consume \/ ConsumerFails
      BY <2>1, <2>3, WatchedConsumer
    <2>4. CASE (\E w \in Workers : Work(w)) \/ Disturb
      BY <2>1, <2>4, WatchedWork
      DEF Work, Disturb, orderVars, handlerVars, consumerVars, otherVars, historyVars
    <2>5. CASE UNCHANGED vars
      BY <2>5
      DEF vars, deadlineVars, orderVars, handlerVars, consumerVars, otherVars, historyVars,
          WatchInv, ClosedInv
    <2>6. QED
      BY <2>2, <2>3, <2>4, <2>5 DEF Next
  <1>3. QED
    BY <1>1, <1>2, InvHolds, LifecycleKept, PTL DEF Spec

-----------------------------------------------------------------------------
\* The order service, the runtime and the lifecycle service keep their types
\* while they act on each other's rows.
THEOREM OrderTypeCorrect == Spec => []TypeOK
  <1>1. Inv => TypeOK
    BY DEF Inv
  <1>2. QED
    BY <1>1, InvHolds, PTL

\* An unpaid order does not lose its timeout: no deadline is cancelled before the
\* payment is committed, no event acknowledged before the order is closed, whatever
\* interleaves or fails.  Only a creation that was never answered may leave an unpaid
\* order without deadline.
THEOREM UnpaidWatched == Spec => []UnpaidIsWatched
  <1>1. Inv /\ WatchInv /\ ClosedInv => UnpaidIsWatched
    BY Types
    DEF Inv, AnsweredInv, WatchInv, ClosedInv, UnpaidIsWatched, Lifecycle!TypeOK,
        Lifecycle!Statuses
  <1>2. QED
    BY <1>1, InvHolds, WatchHolds, PTL

\* A pickup that is ready holds its drawer, paid in the runtime as well, unless
\* the customer asked to cancel: neither another order nor the timeout and its
\* consumer can take it.
THEOREM ReadyKept == Spec => []ReadyHolds
  <1>1. Inv => ReadyHolds
    <2> SUFFICES ASSUME Inv, NEW o \in ready \ asked
                 PROVE  alloc[o] = "COMMITTED" /\ door[at[o]] = "PAID_PENDING_PICKUP"
      BY DEF ReadyHolds
    <2>1. o \in Orders
      BY DEF Inv, TypeOK
    <2>2. QED
      BY <2>1 DEF Inv, PaidInv, DoorInv
  <1>2. QED
    BY <1>1, InvHolds, PTL

\* A cancellation that was answered ok has given the drawer back, or has left it
\* to the retry job, which counts it as done only when it is.
THEOREM ReleaseNotLost == Spec => []NoLostRelease
  <1>1. Inv => NoLostRelease
    BY DEF Inv
  <1>2. QED
    BY <1>1, InvHolds, PTL

\* Whatever the order service does, and whenever it fails, the runtime only takes
\* steps of its own, so the drawers stay exclusive leases (DoorLease): composed
\* with its callers it keeps the promise it makes alone.
THEOREM LeasesKept == Spec => R!Spec /\ R!ImplementsLease
  <1>1. Init => R!Init
    BY SameRuntime DEF Init
  <1>2. Inv /\ [Next]_vars => [R!Next]_(R!vars)
    BY StepsCall, RuntimeStep DEF Inv
  <1>3. Spec => R!Spec
    BY <1>1, <1>2, InvHolds, PTL DEF Spec, R!Spec
  <1>4. R!Spec => R!ImplementsLease
    BY RuntimeNone, R!RuntimeImplementsLease, PTL
  <1>5. QED
    BY <1>3, <1>4, PTL

\* The lifecycle service under the order service's calls and failures only takes steps
\* of its own, so what it promises alone holds of the composition: a deadline has one
\* executor, a timeout that took effect has left its event, and a cancellation that
\* came before the claim is final.
THEOREM DeadlinesKept ==
    /\ Spec => L!Init /\ [][L!Next]_(L!vars)
    /\ Spec => [](Lifecycle!OneExecutor /\ Lifecycle!FiredIsTold /\ Lifecycle!RevokedStays)
  <1>1. L!IInv => Lifecycle!OneExecutor /\ Lifecycle!FiredIsTold /\ Lifecycle!RevokedStays
    BY LifecycleNone, L!StaysRevoked
    DEF L!IInv, L!OneExecutor, Lifecycle!OneExecutor, L!FiredIsTold,
        Lifecycle!FiredIsTold, L!RevokedStays, Lifecycle!RevokedStays
  <1>2. QED
    BY <1>1, LifecycleRuns, LifecycleKept, PTL
=============================================================================
