------------------------- MODULE PickupPhase_proofs -------------------------
(***************************************************************************)
(* What holds of a paid order until its drawer is given back, for every    *)
(* set of orders, drawers and redemption attempts.                         *)
(*                                                                         *)
(* R is the runtime together with what SlotRuntime_proofs shows of it: a   *)
(* step of PickupPhase is a step of the runtime or leaves it alone.        *)
(***************************************************************************)
EXTENDS PickupPhase, SequenceTheorems, TLAPS

R == INSTANCE SlotRuntime_proofs WITH Machines <- {Locker}, AllocIds <- Orders

LEMMA RuntimeNone == R!NoneAssumption
  BY NoneAssumption
  DEF R!NoneAssumption, R!Doors, R!SlotStates, R!AllocStates,
      Runtime!Doors, Runtime!SlotStates, Runtime!AllocStates

LEMMA SameRuntime ==
    /\ Runtime!TypeOK = R!TypeOK
    /\ Runtime!TypeOK' = R!TypeOK'
    /\ Runtime!OneActivePerDoor = R!OneActivePerDoor
    /\ Runtime!OneActivePerDoor' = R!OneActivePerDoor'
    /\ Runtime!Init = R!Init
  BY DEF Runtime!TypeOK, R!TypeOK, Runtime!Init, R!Init, Runtime!Doors, R!Doors,
         Runtime!SlotStates, R!SlotStates, Runtime!AllocStates, R!AllocStates,
         Runtime!OneActivePerDoor, R!OneActivePerDoor, Runtime!Active, R!Active,
         Runtime!ActiveStates, R!ActiveStates

\* What the calls do to the allocations.
LEMMA AllocateCall ==
    ASSUME NEW s \in Slots, NEW o \in Orders, Runtime!Allocate(Locker, s, o)
    PROVE  /\ R!Allocate(Locker, s, o)
           /\ alloc[o] = None
           /\ alloc' = [alloc EXCEPT ![o] = "RESERVED"]
           /\ at' = [at EXCEPT ![o] = <<Locker, s>>]
           /\ door' = [door EXCEPT ![<<Locker, s>>] = "RESERVED"]
  BY DEF Runtime!Allocate, R!Allocate, Runtime!ActiveOn, R!ActiveOn, Runtime!Active,
         R!Active, Runtime!ActiveStates, R!ActiveStates

LEMMA CommitCall ==
    ASSUME NEW o \in Orders, Runtime!Commit(Locker, o)
    PROVE  /\ R!Commit(Locker, o)
           /\ alloc[o] = "RESERVED"
           /\ alloc' = [alloc EXCEPT ![o] = "COMMITTED"]
           /\ door' = [door EXCEPT ![at[o]] = "PAID_PENDING_PICKUP"]
           /\ at' = at
  BY DEF Runtime!Commit, R!Commit, Runtime!BelongsTo, R!BelongsTo

LEMMA ReleaseCall ==
    ASSUME NEW o \in Orders, Runtime!Release(Locker, o)
    PROVE  /\ R!Release(Locker, o)
           /\ alloc' = [a \in Orders |-> IF a = o THEN "RELEASED" ELSE alloc[a]]
           /\ door' = [d \in Runtime!Doors |-> IF d = at[o] THEN "AVAILABLE" ELSE door[d]]
           /\ at' = at
  BY DEF Runtime!Release, R!Release, Runtime!BelongsTo, R!BelongsTo, Runtime!Freed,
         R!Freed, Runtime!Released, R!Released, Runtime!Doors, R!Doors

-----------------------------------------------------------------------------
\* The inductive invariant.  The order has been paid, or sold ...
Closed(o) == order[o] \notin {None, "PAYMENT_PENDING"}

\* ... a drawer that shows RESERVED is reserved, and no drawer is held twice ...
DoorInv ==
    /\ Runtime!OneActivePerDoor
    /\ \A d \in Runtime!Doors :
          door[d] = "RESERVED" => \E a \in Orders : alloc[a] = "RESERVED" /\ at[a] = d

\* ... a paid order keeps its drawer until the window has ended, even when the
\* redemptions under way have ended by then, and after that until it is cancelled ...
OnlineInv ==
    \A o \in Online :
       /\ Closed(o) => o \in overdue \/ alloc[o] = "COMMITTED"
       /\ order[o] = "PAID_PENDING_PICKUP" => alloc[o] = "COMMITTED" \/ o \in withdrawn
       /\ \A r \in Attempts : redeeming[<<o, r>>] # "idle" => Closed(o)

\* ... what is cancelled, and what is expired, is overdue, and no order is cancelled
\* before the runtime is called for it ...
CancelInv ==
    \A o \in Online :
       /\ order[o] = "EXPIRED" \/ o \in withdrawn => o \in overdue /\ Closed(o)
       /\ <<o, "release">> \in cancelling => o \in overdue /\ Closed(o)
       /\ \/ <<o, "save">> \in cancelling \/ <<o, "repeat">> \in cancelling
          \/ order[o] = "CANCELLED"
          => o \in withdrawn

\* ... the job reads orders only when it has no drawer to free, and what it has read
\* or has to free is overdue and holds its drawer, if it is not cancelled as well ...
JobInv ==
    /\ jobRead # None => jobAt = "expire"
    /\ jobFree # None => jobAt = "free"
    /\ \A o \in Online :
          /\ o \in jobDone \/ jobRead = o \/ jobFree = o => o \in overdue /\ Closed(o)
          /\ o \in jobDone \/ jobRead = o => alloc[o] = "COMMITTED" \/ o \in withdrawn
          /\ o \in jobDone \/ jobFree = o => order[o] # "PAID_PENDING_PICKUP"
          /\ o \in jobDone => jobRead # o /\ jobFree # o

\* ... a sale goes on only with a committed allocation, which no sale repeated after
\* the deadline was registered has, and the deadline's event comes after every sale ...
KioskInv ==
    \A k \in Kiosk :
       /\ selling[k] = "commit" /\ timer[k] # None => alloc[k] = "RELEASED"
       /\ selling[k] \notin {"idle", "commit"} => alloc[k] = "COMMITTED"
       /\ timer[k] # None => alloc[k] \in {"COMMITTED", "RELEASED"}
       /\ timer[k] = "PENDING" => alloc[k] = "COMMITTED"
       /\ timer[k] \in {"EXECUTING", "EXECUTED"} => selling[k] \in {"idle", "commit"}

\* ... the stored events are those of closed online orders and of executed kiosk
\* deadlines ...
StoredInv ==
    \A e \in stored :
       /\ e.order \in Online => Closed(e.order)
       /\ e.name = "expired" => e.order \in Kiosk /\ timer[e.order] = "EXECUTED"

\* ... each is listed at most once, and the one that is handled no more ...
ListInv ==
    /\ IsInjective(feed) /\ IsInjective(batch)
    /\ ToSet(feed) \cup ToSet(batch) \subseteq stored
    /\ handling.step # "idle" => handling.event \in stored \ ToSet(batch)
    /\ handling.step = "idle" => handling = NotHandling
    /\ handling.step \in {"set", "release"} => handling.event.name = "expired"

\* ... and an expiry event that is still to be handled is that of a held drawer, if
\* its handling was not broken off before.
ToHandle(e) ==
    \/ e \in ToSet(batch)
    \/ e \in ToSet(feed) /\ handling.event # e
    \/ handling.step = "set" /\ handling.event = e
HeldInv ==
    \A k \in Kiosk :
       ToHandle(Event("expired", k)) => alloc[k] = "COMMITTED" \/ k \in early

Inv == /\ TypeOK /\ DoorInv /\ OnlineInv /\ CancelInv /\ JobInv /\ KioskInv
       /\ StoredInv /\ ListInv /\ HeldInv /\ ExpiredIsFreed

-----------------------------------------------------------------------------
\* The runtime under the steps of the order service.
RuntimeCall ==
    \/ UNCHANGED runtimeVars
    \/ \E o \in Orders, s \in Slots : Runtime!Allocate(Locker, s, o)
    \/ \E o \in Orders : Runtime!Commit(Locker, o)
    \/ \E o \in Orders : Runtime!Release(Locker, o)
    \/ \E o \in Orders, state \in {"AVAILABLE", "OUT_OF_STOCK"} : SetDrawer(o, state)

\* Whatever is being handled or freed is an order.
LEMMA Handled ==
    ASSUME TypeOK, ListInv
    PROVE  /\ handling.step # "idle" => handling.event \in Events
           /\ handling.event \in Events => handling.event.order \in Orders
           /\ jobFree # None => jobFree \in Online
           /\ jobRead # None => jobRead \in Online
  BY DEF TypeOK, ListInv, Events

LEMMA StepsCall ==
    ASSUME TypeOK, ListInv, [Next]_vars
    PROVE  RuntimeCall
  <1>1. ASSUME NEW o \in Orders, Book(o)
        PROVE  RuntimeCall
    BY <1>1 DEF Book, RuntimeCall
  <1>2. ASSUME NEW o \in Orders, Pay(o) \/ WindowEnds(o)
        PROVE  RuntimeCall
    BY <1>2 DEF Pay, WindowEnds, RuntimeCall
  <1>3. ASSUME NEW o \in Online, NEW r \in Attempts, Redeem(o, r)
        PROVE  RuntimeCall
    BY <1>3 DEF Redeem, RedeemRead, RedeemOpen, RedeemPublish, RedeemSave, RedeemFails,
                RuntimeCall, Orders
  <1>4. ASSUME NEW k \in Kiosk, Sell(k)
        PROVE  RuntimeCall
    BY <1>4 DEF Sell, SellCheck, SellLost, SellCommit, SellRegister, SellPublish,
                SellOpen, SellSave, SellFails, ReleaseFailed, RuntimeCall, Orders
  <1>5. ASSUME NEW k \in Kiosk, ExpireSold(k) \/ ExpireOpen(k) \/ ExpireCommit(k)
        PROVE  RuntimeCall
    BY <1>5 DEF ExpireSold, ExpireOpen, ExpireCommit, Released, ReleaseFailed,
                RuntimeCall, Orders
  <1>6. CASE HandleSet \/ HandleRelease
    BY <1>6, Handled DEF HandleSet, HandleRelease, Released, ReleaseFailed,
                         SetDrawerFailed, RuntimeCall
  <1>7. CASE Poll \/ HandleDoor \/ HandleExpired \/ HandleAck \/ ConsumerFails
    BY <1>7 DEF Poll, HandleDoor, HandleExpired, HandleAck, ConsumerFails, RuntimeCall
  <1>8. ASSUME NEW o \in Online, JobRead(o) \/ JobSet(o)
        PROVE  RuntimeCall
    BY <1>8 DEF JobRead, JobSet, SetDrawerFailed, RuntimeCall, Orders
  <1>9. CASE JobRelease
    BY <1>9, Handled DEF JobRelease, Released, ReleaseFailed, RuntimeCall, Orders
  <1>10. CASE JobCommit \/ JobFails \/ JobDies
    BY <1>10 DEF JobCommit, JobFails, JobDies, RuntimeCall
  <1>11. ASSUME NEW o \in Online, Cancel(o)
         PROVE  RuntimeCall
    BY <1>11 DEF Cancel, CancelRead, CancelRelease, CancelSave, CancelRepeat, CancelFails,
                 Released, ReleaseFailed, RuntimeCall, Orders
  <1>12. CASE UNCHANGED vars
    BY <1>12 DEF vars, RuntimeCall
  <1>13. QED
    BY <1>1, <1>2, <1>3, <1>4, <1>5, <1>6, <1>7, <1>8, <1>9, <1>10, <1>11, <1>12
    DEF Next, Consume, Job, Orders

\* The runtime takes one step of its own, or none.
LEMMA RuntimeStep ==
    ASSUME Runtime!TypeOK, RuntimeCall
    PROVE  [R!Next]_(R!vars)
  <1>1. CASE UNCHANGED runtimeVars
    BY <1>1 DEF runtimeVars, R!vars
  <1>2. ASSUME NEW o \in Orders, NEW s \in Slots, Runtime!Allocate(Locker, s, o)
        PROVE  [R!Next]_(R!vars)
    BY <1>2, AllocateCall DEF R!Next, R!Handle
  <1>3. ASSUME NEW o \in Orders, Runtime!Commit(Locker, o)
        PROVE  [R!Next]_(R!vars)
    BY <1>3, CommitCall DEF R!Next, R!Handle
  <1>4. ASSUME NEW o \in Orders, Runtime!Release(Locker, o)
        PROVE  [R!Next]_(R!vars)
    BY <1>4, ReleaseCall DEF R!Next, R!Handle
  <1>5. ASSUME NEW o \in Orders, NEW state \in {"AVAILABLE", "OUT_OF_STOCK"},
               SetDrawer(o, state)
        PROVE  [R!Next]_(R!vars)
    <2> DEFINE s == at[o][2]
    <2>1. R!SetSlotState(Locker, s, state)
      BY <1>5 DEF SetDrawer, Runtime!SetSlotState, R!SetSlotState
    <2>2. CASE s \in Slots
      BY <2>1, <2>2 DEF R!Next, R!Handle, R!SlotStates
    <2>3. CASE s \notin Slots
      <3>1. <<Locker, s>> \notin Runtime!Doors
        BY <2>3 DEF Runtime!Doors
      <3>2. door' = door
        BY <2>1, <3>1 DEF R!SetSlotState, Runtime!TypeOK
      <3>3. QED
        BY <2>1, <3>2 DEF R!SetSlotState, R!vars
    <2>4. QED
      BY <2>2, <2>3
  <1>6. QED
    BY <1>1, <1>2, <1>3, <1>4, <1>5 DEF RuntimeCall

LEMMA DoorStep ==
    ASSUME Runtime!TypeOK, DoorInv, RuntimeCall
    PROVE  Runtime!TypeOK' /\ DoorInv'
  <1>1. Runtime!TypeOK' /\ Runtime!OneActivePerDoor'
    BY RuntimeStep, SameRuntime, RuntimeNone, R!TypeStep, R!ExclusionStep DEF DoorInv
  <1> DEFINE Backed(d) == \E a \in Orders : alloc[a] = "RESERVED" /\ at[a] = d
  <1> SUFFICES ASSUME NEW d \in Runtime!Doors, door'[d] = "RESERVED"
               PROVE  \E a \in Orders : alloc'[a] = "RESERVED" /\ at'[a] = d
    BY <1>1 DEF DoorInv
  <1> USE DEF DoorInv, Runtime!TypeOK
  <1>2. CASE UNCHANGED runtimeVars
    BY <1>2 DEF runtimeVars
  <1>3. ASSUME NEW o \in Orders, NEW s \in Slots, Runtime!Allocate(Locker, s, o)
        PROVE  Backed(d)'
    <2>1. <<Locker, s>> \in Runtime!Doors
      BY DEF Runtime!Doors
    <2>2. /\ alloc[o] = None
          /\ alloc' = [alloc EXCEPT ![o] = "RESERVED"]
          /\ at' = [at EXCEPT ![o] = <<Locker, s>>]
          /\ door' = [door EXCEPT ![<<Locker, s>>] = "RESERVED"]
      BY <1>3, AllocateCall
    <2>3. CASE d = <<Locker, s>>
      BY <2>2, <2>3
    <2>4. CASE d # <<Locker, s>>
      <3>1. door[d] = "RESERVED"
        BY <2>1, <2>2, <2>4
      <3>2. PICK b \in Orders : alloc[b] = "RESERVED" /\ at[b] = d
        BY <3>1
      <3>3. b # o
        BY <2>2, <3>2, NoneAssumption DEF Runtime!AllocStates
      <3>4. QED
        BY <2>2, <3>2, <3>3
    <2>5. QED
      BY <2>3, <2>4
  <1>4. ASSUME NEW o \in Orders, Runtime!Commit(Locker, o)
        PROVE  Backed(d)'
    BY <1>4, CommitCall, NoneAssumption DEF Runtime!AllocStates
  <1>5. ASSUME NEW o \in Orders, Runtime!Release(Locker, o)
        PROVE  Backed(d)'
    BY <1>5, ReleaseCall
  <1>6. ASSUME NEW o \in Orders, NEW state \in {"AVAILABLE", "OUT_OF_STOCK"},
               SetDrawer(o, state)
        PROVE  Backed(d)'
    BY <1>6 DEF SetDrawer, Runtime!SetSlotState
  <1>7. QED
    BY <1>2, <1>3, <1>4, <1>5, <1>6 DEF RuntimeCall

\* Whatever a release answers, only its own allocation may end.
LEMMA ReleaseAnswers ==
    ASSUME NEW o \in Orders, Released(o) \/ ReleaseFailed(o)
    PROVE  /\ \A a \in Orders \ {o} : alloc'[a] = alloc[a]
           /\ alloc'[o] \in {alloc[o], "RELEASED"}
           /\ Released(o) => alloc'[o] = "RELEASED"
  <1>1. CASE Runtime!Release(Locker, o)
    BY <1>1, ReleaseCall
  <1>2. CASE UNCHANGED runtimeVars
    BY <1>2 DEF runtimeVars, Released, Runtime!Release, Runtime!Released
  <1>3. QED
    BY <1>1, <1>2 DEF Released, ReleaseFailed

-----------------------------------------------------------------------------
\* Sequences without repetition, of which the feed and a batch are.
LEMMA TailLists ==
    ASSUME NEW S, NEW s \in Seq(S), s # <<>>, IsInjective(s)
    PROVE  /\ Head(s) \in S /\ Head(s) \in ToSet(s)
           /\ Tail(s) \in Seq(S) /\ IsInjective(Tail(s))
           /\ ToSet(Tail(s)) \subseteq ToSet(s) \ {Head(s)}
  <1>1. /\ Head(s) \in S /\ Tail(s) \in Seq(S) /\ Len(Tail(s)) = Len(s) - 1
        /\ \A i \in 1..Len(Tail(s)) : Tail(s)[i] = s[i + 1]
    BY HeadTailProperties
  <1>2. /\ DOMAIN s = 1..Len(s) /\ DOMAIN Tail(s) = 1..(Len(s) - 1)
        /\ Len(s) \in Nat \ {0} /\ Head(s) = s[1]
    BY <1>1
  <1>3. QED
    BY <1>1, <1>2 DEF IsInjective, ToSet

LEMMA AppendLists ==
    ASSUME NEW S, NEW s \in Seq(S), NEW e \in S \ ToSet(s), IsInjective(s)
    PROVE  /\ Append(s, e) \in Seq(S) /\ IsInjective(Append(s, e))
           /\ ToSet(Append(s, e)) = ToSet(s) \cup {e}
  <1>1. /\ Append(s, e) \in Seq(S) /\ Len(Append(s, e)) = Len(s) + 1
        /\ \A i \in 1..Len(s) : Append(s, e)[i] = s[i]
        /\ Append(s, e)[Len(s) + 1] = e
    BY AppendProperties
  <1>2. DOMAIN s = 1..Len(s) /\ DOMAIN Append(s, e) = 1..(Len(s) + 1) /\ Len(s) \in Nat
    BY <1>1
  <1>3. QED
    BY <1>1, <1>2 DEF IsInjective, ToSet

LEMMA RemoveLists ==
    ASSUME NEW S, NEW s \in Seq(S), NEW i \in DOMAIN s, IsInjective(s)
    PROVE  /\ RemoveAt(s, i) \in Seq(S) /\ IsInjective(RemoveAt(s, i))
           /\ ToSet(RemoveAt(s, i)) \subseteq ToSet(s) \ {s[i]}
  <1> DEFINE p == SubSeq(s, 1, i - 1)
             q == SubSeq(s, i + 1, Len(s))
  <1>1. /\ DOMAIN s = 1..Len(s) /\ Len(s) \in Nat /\ i \in 1..Len(s)
        /\ \A j \in 1..Len(s) : s[j] \in S
    OBVIOUS
  <1>2. /\ p \in Seq(S) /\ Len(p) = i - 1
        /\ \A j \in 1..(i - 1) : p[j] = s[j]
    BY <1>1, SubSeqProperties
  <1>3. /\ q \in Seq(S) /\ Len(q) = Len(s) - i
        /\ \A j \in 1..(Len(s) - i) : q[j] = s[i + j]
    <2>1. /\ q \in Seq(S)
          /\ Len(q) = IF i + 1 <= Len(s) THEN Len(s) - (i + 1) + 1 ELSE 0
          /\ \A j \in 1..(Len(s) - (i + 1) + 1) : q[j] = s[(i + 1) + j - 1]
      BY <1>1, SubSeqProperties
    <2>2. Len(s) - (i + 1) + 1 = Len(s) - i
      BY <1>1
    <2>3. Len(q) = Len(s) - i
      BY <1>1, <2>1
    <2>4. \A j \in 1..(Len(s) - i) : (i + 1) + j - 1 = i + j
      BY <1>1
    <2> HIDE DEF q
    <2>5. QED
      BY <2>1, <2>2, <2>3, <2>4
  <1> HIDE DEF p, q
  <1>4. /\ p \o q \in Seq(S) /\ Len(p \o q) = Len(s) - 1
        /\ \A j \in 1..(Len(s) - 1) : (p \o q)[j] = IF j < i THEN s[j] ELSE s[j + 1]
    <2>1. /\ p \o q \in Seq(S) /\ Len(p \o q) = Len(p) + Len(q)
          /\ \A j \in 1..(Len(p) + Len(q)) :
                (p \o q)[j] = IF j <= Len(p) THEN p[j] ELSE q[j - Len(p)]
      BY <1>2, <1>3, ConcatProperties
    <2>2. Len(p) + Len(q) = Len(s) - 1
      BY <1>1, <1>2, <1>3
    <2>3. ASSUME NEW j \in 1..(Len(s) - 1)
          PROVE  (p \o q)[j] = IF j < i THEN s[j] ELSE s[j + 1]
      <3>1. CASE j < i
        BY <1>1, <1>2, <2>1, <2>2, <3>1
      <3>2. CASE ~ (j < i)
        <4>1. j - (i - 1) \in 1..(Len(s) - i) /\ i + (j - (i - 1)) = j + 1
          BY <1>1, <3>2
        <4>2. (p \o q)[j] = q[j - (i - 1)]
          BY <1>1, <1>2, <2>1, <2>2, <3>2
        <4>3. QED
          BY <1>3, <3>2, <4>1, <4>2
      <3>3. QED
        BY <3>1, <3>2
    <2>4. QED
      BY <2>1, <2>2, <2>3
  <1> DEFINE r == p \o q
             from(j) == IF j < i THEN j ELSE j + 1
  <1>5. /\ DOMAIN r = 1..(Len(s) - 1)
        /\ \A j \in DOMAIN r : r[j] = s[from(j)]
    <2>1. DOMAIN r = 1..(Len(s) - 1)
      BY <1>4
    <2>2. ASSUME NEW j \in 1..(Len(s) - 1)
          PROVE  r[j] = s[from(j)]
      BY <1>4
    <2>3. QED
      BY <2>1, <2>2
  <1> HIDE DEF r
  <1>6. IsInjective(r) /\ ToSet(r) \subseteq ToSet(s) \ {s[i]}
    <2>1. \A j \in DOMAIN r : from(j) \in DOMAIN s \ {i}
      BY <1>1, <1>5
    <2>2. \A j, k \in DOMAIN r : from(j) = from(k) => j = k
      BY <1>1, <1>5
    <2>3. \A j, k \in DOMAIN s : s[j] = s[k] => j = k
      BY DEF IsInjective
    <2> HIDE DEF from
    <2>4. IsInjective(r)
      BY <1>5, <2>1, <2>2, <2>3 DEF IsInjective
    <2>5. QED
      BY <1>5, <2>1, <2>3, <2>4 DEF ToSet
  <1>7. QED
    BY <1>4, <1>6 DEF RemoveAt, p, q, r

-----------------------------------------------------------------------------
\* An event is stored once.
LEMMA Published ==
    ASSUME NEW name \in {"door_opened", "door_closed", "expired"}, NEW o \in Orders,
           feed \in Seq(Events), IsInjective(feed), ToSet(feed) \subseteq stored,
           Publish(name, o)
    PROVE  /\ Event(name, o) \in Events
           /\ feed' \in Seq(Events) /\ IsInjective(feed')
           /\ ToSet(feed') \subseteq ToSet(feed) \cup {Event(name, o)}
           /\ ToSet(feed') \subseteq stored'
           /\ stored' = stored \cup {Event(name, o)}
           /\ dropped' = dropped
  <1>1. Event(name, o) \in Events
    BY DEF Event, Events
  <1>2. CASE Event(name, o) \in stored
    BY <1>1, <1>2 DEF Publish
  <1>3. CASE Event(name, o) \notin stored
    <2>1. Event(name, o) \in Events \ ToSet(feed) /\ feed' = Append(feed, Event(name, o))
      BY <1>1, <1>3 DEF Publish
    <2>2. QED
      BY <1>1, <2>1, AppendLists DEF Publish
  <1>4. QED
    BY <1>2, <1>3

LEMMA ExpiryStored ==
    ASSUME NEW k \in Orders, Expired(k)
    PROVE  /\ Event("expired", k) \in Events
           /\ feed' \in Seq(Events) /\ IsInjective(feed')
           /\ ToSet(feed') = {Event("expired", k)}
           /\ stored' = stored \cup {Event("expired", k)}
           /\ dropped' \subseteq dropped \cup ToSet(feed)
           /\ timer' = [timer EXCEPT ![k] = "EXECUTED"]
  <1>1. Event("expired", k) \in Events
    BY DEF Event, Events
  <1>2. feed' = <<Event("expired", k)>>
    BY DEF Expired
  <1>3. QED
    BY <1>1, <1>2 DEF Expired, IsInjective, ToSet

LEMMA RestTyped ==
    ASSUME TypeOK, ListInv, StoredInv, Runtime!TypeOK', [Next]_vars
    PROVE  TypeOK'
  <1> USE NoneAssumption
      DEF TypeOK, RedeemSteps, SellSteps, TimerStates, OnlineStates, KioskStates, OpenStates,
          orderVars, kioskVars, eventVars, consumerVars, jobVars, cancelVars
  <1>0. /\ Online \subseteq Orders /\ Kiosk \subseteq Orders
        /\ IsInjective(feed) /\ ToSet(feed) \subseteq stored
    BY DEF Orders, ListInv
  <1>1. ASSUME NEW o \in Orders, Book(o)
        PROVE  TypeOK'
    <2>1. order' = order \/ order' = [order EXCEPT ![o] = "PAYMENT_PENDING"]
      BY <1>1 DEF Book
    <2>2. order' \in [Orders -> OnlineStates \cup {None}]
      BY <2>1
    <2>3. \A k \in Kiosk : order'[k] \in KioskStates \cup {None}
      <3>1. \A k \in Kiosk : order'[k] \in {order[k], "PAYMENT_PENDING"}
        BY <1>0, <2>1
      <3>2. QED
        BY <3>1
    <2>4. QED
      BY <1>1, <2>2, <2>3 DEF Book
  <1>2. ASSUME NEW o \in Orders, Pay(o)
        PROVE  TypeOK'
    BY <1>2, <1>0 DEF Pay
  <1>3. ASSUME NEW o \in Online, NEW r \in Attempts,
               RedeemRead(o, r) \/ RedeemOpen(o, r) \/ RedeemFails(o, r)
        PROVE  TypeOK'
    <2>1. <<o, r>> \in Online \X Attempts
      OBVIOUS
    <2>2. PICK step \in RedeemSteps : redeeming' = [redeeming EXCEPT ![<<o, r>>] = step]
      BY <1>3 DEF RedeemRead, RedeemOpen, RedeemFails, RedeemGoto
    <2>3. redeeming' \in [Online \X Attempts -> RedeemSteps]
      BY <2>1, <2>2
    <2>4. QED
      BY <1>3, <2>3 DEF RedeemRead, RedeemOpen, RedeemFails
  <1>4. ASSUME NEW o \in Online, NEW r \in Attempts, RedeemPublish(o, r)
        PROVE  TypeOK'
    <2>1. PICK name \in {"door_opened", "door_closed"} : Publish(name, o)
      BY <1>4 DEF RedeemPublish
    <2>2. feed' \in Seq(Events) /\ stored' \subseteq Events /\ dropped' = dropped
      BY <1>0, <2>1, Published
    <2>3. QED
      BY <1>4, <2>2 DEF RedeemPublish, RedeemGoto
  <1>5. ASSUME NEW o \in Online, NEW r \in Attempts, RedeemSave(o, r)
        PROVE  TypeOK'
    BY <1>5, <1>0, OrdersAssumption DEF RedeemSave, RedeemGoto
  <1>6. ASSUME NEW k \in Kiosk,
               \/ SellCheck(k) \/ SellLost(k) \/ SellCommit(k) \/ SellRegister(k)
               \/ SellOpen(k) \/ SellSave(k) \/ SellFails(k)
        PROVE  TypeOK'
    <2>1. CASE SellCheck(k) \/ SellLost(k) \/ SellCommit(k)
      BY <2>1 DEF SellCheck, SellLost, SellCommit, SellGoto
    <2>2. CASE SellRegister(k)
      BY <2>2 DEF SellRegister, SellGoto
    <2>3. CASE SellSave(k)
      BY <1>0, <2>3 DEF SellSave, SellGoto
    <2>4. CASE SellOpen(k) \/ SellFails(k)
      BY <2>4 DEF SellOpen, SellFails, SellGoto
    <2>5. QED
      BY <1>6, <2>1, <2>2, <2>3, <2>4
  <1>7. ASSUME NEW k \in Kiosk, SellPublish(k)
        PROVE  TypeOK'
    <2>1. feed' \in Seq(Events) /\ stored' \subseteq Events /\ dropped' = dropped
      BY <1>0, <1>7, Published DEF SellPublish
    <2>2. QED
      BY <1>7, <2>1 DEF SellPublish, SellGoto
  <1>8. ASSUME NEW k \in Kiosk, ExpireSold(k) \/ ExpireCommit(k)
        PROVE  TypeOK'
    <2>1. /\ feed' \in Seq(Events) /\ stored' \subseteq Events /\ dropped' \subseteq Events
          /\ timer' = [timer EXCEPT ![k] = "EXECUTED"]
      BY <1>0, <1>8, ExpiryStored DEF ExpireSold, ExpireCommit
    <2>2. CASE ExpireSold(k)
      BY <2>1, <2>2 DEF ExpireSold
    <2>3. CASE ExpireCommit(k)
      BY <1>0, <2>1, <2>3 DEF ExpireCommit
    <2>4. QED
      BY <1>8, <2>2, <2>3
  <1>9. ASSUME NEW k \in Kiosk, ExpireOpen(k)
        PROVE  TypeOK'
    BY <1>9 DEF ExpireOpen
  <1>10. CASE Poll
    BY <1>10 DEF Poll
  <1>11. CASE HandleDoor \/ HandleExpired
    <2>1. batch # <<>> /\ batch' = Tail(batch)
      BY <1>11 DEF HandleDoor, HandleExpired
    <2>2. Head(batch) \in Events /\ batch' \in Seq(Events)
      BY <2>1, HeadTailProperties
    <2>3. Head(batch).order \in Orders
      BY <2>2 DEF Events
    <2>4. CASE HandleDoor
      BY <2>2, <2>3, <2>4 DEF HandleDoor
    <2>5. CASE HandleExpired
      BY <2>2, <2>3, <2>5 DEF HandleExpired
    <2>6. QED
      BY <1>11, <2>4, <2>5
  <1>12. CASE HandleSet \/ HandleRelease
    <2>1. handling.event.order \in Orders
      BY <1>12, Handled DEF HandleSet, HandleRelease
    <2>2. CASE HandleSet
      BY <2>2 DEF HandleSet
    <2>3. CASE HandleRelease
      BY <2>1, <2>3 DEF HandleRelease
    <2>4. QED
      BY <1>12, <2>2, <2>3
  <1>13. CASE HandleAck
    <2>1. feed' \in Seq(Events)
      BY <1>0, <1>13, RemoveLists DEF HandleAck
    <2>2. QED
      BY <1>13, <2>1 DEF HandleAck, NotHandling
  <1>14. CASE ConsumerFails
    <2>1. handling.event.name = "expired" => handling.event.order \in Kiosk
      BY <1>14 DEF ConsumerFails, ListInv, StoredInv
    <2>2. early' \subseteq Kiosk
      BY <1>14, <2>1 DEF ConsumerFails
    <2>3. batch' \in Seq(Events)
      <3>1. batch' = batch \/ batch' = <<>>
        BY <1>14 DEF ConsumerFails
      <3>2. <<>> \in Seq(Events)
        OBVIOUS
      <3>3. batch \in Seq(Events)
        OBVIOUS
      <3> QED
        BY <3>1, <3>2, <3>3, Zenon
    <2>4. QED
      BY <1>14, <2>2, <2>3 DEF ConsumerFails, NotHandling
  <1>15. ASSUME NEW o \in Online, JobRead(o) \/ JobSet(o)
         PROVE  TypeOK'
    BY <1>15 DEF JobRead, JobSet
  <1>16. CASE JobCommit
    BY <1>0, <1>16, OrdersAssumption, Handled DEF JobCommit
  <1>17. CASE JobRelease \/ JobFails \/ JobDies
    BY <1>0, <1>17 DEF JobRelease, JobFails, JobDies
  <1>18. ASSUME NEW o \in Online,
                WindowEnds(o) \/ CancelRead(o) \/ CancelRelease(o) \/ CancelRepeat(o)
                \/ CancelFails(o)
         PROVE  TypeOK'
    <2>1. cancelling' \subseteq Online \X CancelSteps
      BY <1>18 DEF WindowEnds, CancelRead, CancelRelease, CancelRepeat, CancelFails,
                   CancelGoto, CancelSteps
    <2>2. CASE WindowEnds(o)
      BY <2>1, <2>2 DEF WindowEnds
    <2>3. CASE CancelRelease(o)
      BY <2>1, <2>3 DEF CancelRelease
    <2>4. CASE CancelRead(o) \/ CancelRepeat(o) \/ CancelFails(o)
      BY <2>1, <2>4 DEF CancelRead, CancelRepeat, CancelFails
    <2>5. QED
      BY <1>18, <2>2, <2>3, <2>4
  <1>19. ASSUME NEW o \in Online, CancelSave(o)
         PROVE  TypeOK'
    <2>1. cancelling' \subseteq Online \X CancelSteps
      BY <1>19 DEF CancelSave, CancelGoto, CancelSteps
    <2>2. QED
      BY <1>0, <1>19, <2>1, OrdersAssumption DEF CancelSave
  <1>20. CASE UNCHANGED vars
    BY <1>20 DEF vars
  <1>21. QED
    BY <1>1, <1>2, <1>3, <1>4, <1>5, <1>6, <1>7, <1>8, <1>9, <1>10, <1>11, <1>12, <1>13,
       <1>14, <1>15, <1>16, <1>17, <1>18, <1>19, <1>20
    DEF Next, Redeem, Sell, Cancel, Consume, Job

-----------------------------------------------------------------------------

\* What can become of an online order in a step: it stays closed, only the job gives
\* its drawer back or writes it EXPIRED, and else its customer cancels it.
Fate(o) ==
    /\ o \in overdue => o \in overdue'
    /\ Closed(o) => Closed(o)'
    /\ Closed(o) /\ order[o] # "PAID_PENDING_PICKUP" => order'[o] # "PAID_PENDING_PICKUP"
    /\ o \in withdrawn => o \in withdrawn'
    /\ alloc[o] = "COMMITTED" =>
          alloc'[o] = "COMMITTED" \/ (JobRelease /\ jobFree = o) \/ o \in withdrawn'
    /\ alloc[o] = "RELEASED" => alloc'[o] = "RELEASED"
    /\ order'[o] = "EXPIRED" => order[o] = "EXPIRED" \/ (JobCommit /\ jobRead = o)
    /\ Closed(o)' => Closed(o) \/ alloc'[o] = "COMMITTED"
    /\ order'[o] = "PAID_PENDING_PICKUP" =>
          order[o] = "PAID_PENDING_PICKUP" \/ alloc'[o] = "COMMITTED"
    /\ \A r \in Attempts : redeeming'[<<o, r>>] # "idle" =>
          redeeming[<<o, r>>] # "idle" \/ Closed(o)

LEMMA OnlineFate ==
    ASSUME Inv, TypeOK', [Next]_vars, NEW o \in Online
    PROVE  Fate(o)
  <1> USE NoneAssumption
      DEF Fate, Closed, orderVars, kioskVars, eventVars, consumerVars, jobVars, cancelVars,
          runtimeVars, OnlineStates
  <1>0. /\ o \in Orders /\ Online \subseteq Orders /\ Kiosk \subseteq Orders
        /\ order \in [Orders -> OnlineStates \cup {None}]
        /\ alloc \in [Orders -> Runtime!AllocStates \cup {None}]
        /\ redeeming \in [Online \X Attempts -> RedeemSteps]
    BY DEF Inv, TypeOK, Runtime!TypeOK, Orders
  <1>1. CASE UNCHANGED <<order, overdue, alloc, redeeming, withdrawn>>
    BY <1>1
  <1>2. ASSUME UNCHANGED <<overdue, redeeming, withdrawn>>, alloc'[o] = alloc[o] /\ order'[o] = order[o]
        PROVE  Fate(o)
    BY <1>2
  <1>3. ASSUME NEW a \in Orders, Book(a)
        PROVE  Fate(o)
    <2>1. /\ order[a] = None /\ alloc[a] = None
          /\ order' = order \/ order' = [order EXCEPT ![a] = "PAYMENT_PENDING"]
          /\ alloc' = [alloc EXCEPT ![a] = "RESERVED"]
          /\ UNCHANGED <<overdue, redeeming, withdrawn>>
      BY <1>3, AllocateCall DEF Book
    <2>2. None # "COMMITTED" /\ None # "RELEASED"
      BY DEF Runtime!AllocStates
    <2>3. QED
      BY <1>0, <2>1, <2>2
  <1>4. ASSUME NEW a \in Orders, Pay(a)
        PROVE  Fate(o)
    <2>1. /\ order[a] = "PAYMENT_PENDING"
          /\ \/ alloc[a] = "RESERVED" /\ alloc' = [alloc EXCEPT ![a] = "COMMITTED"]
             \/ a \in Kiosk /\ alloc' = alloc
          /\ order' = [order EXCEPT ![a] = "PAID_PENDING_PICKUP"]
          /\ UNCHANGED <<overdue, redeeming, withdrawn>>
      BY <1>0, <1>4, CommitCall DEF Pay
    <2>2. CASE a = o
      BY <1>0, <2>1, <2>2, OrdersAssumption
    <2>3. CASE a # o
      BY <1>0, <1>2, <2>1, <2>3
    <2>4. QED
      BY <2>2, <2>3
  <1>5. ASSUME NEW a \in Online, WindowEnds(a)
        PROVE  Fate(o)
    BY <1>5 DEF WindowEnds
  <1>6. ASSUME NEW a \in Online, NEW r \in Attempts, Redeem(a, r)
        PROVE  Fate(o)
    <2>1. alloc' = alloc /\ overdue' = overdue /\ withdrawn' = withdrawn
      BY <1>6 DEF Redeem, RedeemRead, RedeemOpen, RedeemPublish, RedeemSave, RedeemFails,
                  SetDrawer, Runtime!SetSlotState
    <2>2. /\ order' = order \/ order' = [order EXCEPT ![a] = "PICKED_UP"]
          /\ redeeming[<<a, r>>] = "idle" => Closed(a) /\ order' = order
          /\ \E step : redeeming' = [redeeming EXCEPT ![<<a, r>>] = step]
      BY <1>6 DEF Redeem, RedeemRead, RedeemOpen, RedeemPublish, RedeemSave, RedeemFails,
                  RedeemGoto
    <2>3. redeeming[<<a, r>>] # "idle" => Closed(a)
      BY DEF Inv, OnlineInv
    <2>4. \A t \in Attempts : redeeming'[<<o, t>>] # "idle" =>
             redeeming[<<o, t>>] # "idle" \/ Closed(o)
      BY <1>0, <2>2, <2>3
    <2>5. QED
      BY <1>0, <2>1, <2>2, <2>3, <2>4
  <1>7. ASSUME NEW k \in Kiosk, Sell(k)
        PROVE  Fate(o)
    <2>1. o # k
      BY OrdersAssumption
    <2>2. alloc'[o] = alloc[o]
      BY <1>0, <1>7, <2>1, ReleaseAnswers, CommitCall
      DEF Sell, SellCheck, SellLost, SellCommit, SellRegister, SellPublish, SellOpen,
          SellSave, SellFails, SetDrawer, Runtime!SetSlotState
    <2>3. order'[o] = order[o] /\ UNCHANGED <<overdue, redeeming, withdrawn>>
      BY <1>0, <1>7, <2>1
      DEF Sell, SellCheck, SellLost, SellCommit, SellRegister, SellPublish, SellOpen,
          SellSave, SellFails
    <2>4. QED
      BY <1>2, <2>2, <2>3
  <1>8. ASSUME NEW k \in Kiosk, ExpireSold(k) \/ ExpireOpen(k) \/ ExpireCommit(k)
        PROVE  Fate(o)
    <2>1. o # k
      BY OrdersAssumption
    <2>2. alloc'[o] = alloc[o]
      BY <1>0, <1>8, <2>1, ReleaseAnswers
      DEF ExpireSold, ExpireOpen, ExpireCommit, SetDrawer, Runtime!SetSlotState
    <2>3. order'[o] = order[o] /\ UNCHANGED <<overdue, redeeming, withdrawn>>
      BY <1>0, <1>8, <2>1 DEF ExpireSold, ExpireOpen, ExpireCommit
    <2>4. QED
      BY <1>2, <2>2, <2>3
  <1>9. CASE HandleDoor
    <2>1. /\ order' = order \/ order' = [order EXCEPT ![Head(batch).order] = "DISPENSED"]
          /\ UNCHANGED <<alloc, overdue, redeeming, withdrawn>>
      BY <1>9 DEF HandleDoor
    <2>2. Head(batch) \in stored
      BY <1>9, TailLists DEF HandleDoor, Inv, TypeOK, ListInv
    <2>3. Head(batch).order \in Online => Closed(Head(batch).order)
      BY <2>2 DEF Inv, StoredInv
    <2>4. QED
      BY <1>0, <2>1, <2>3
  <1>10. CASE HandleRelease
    <2>1. handling.event.order \in Kiosk
      BY <1>10 DEF HandleRelease, Inv, ListInv, StoredInv
    <2>2. alloc'[o] = alloc[o]
      BY <1>0, <1>10, <2>1, ReleaseAnswers, OrdersAssumption DEF HandleRelease
    <2>3. QED
      BY <1>2, <1>10, <2>2 DEF HandleRelease
  <1>11. CASE JobCommit
    <2>1. jobRead \in Online /\ Closed(jobRead)
      BY <1>11, Handled DEF JobCommit, Inv, JobInv
    <2>2. QED
      BY <1>0, <1>11, <2>1 DEF JobCommit
  <1>12. CASE JobRelease
    <2>1. jobFree \in Online
      BY <1>12, Handled DEF JobRelease, Inv
    <2>2. \/ alloc'[o] = alloc[o]
          \/ alloc'[o] = "RELEASED" /\ jobFree = o
      BY <1>0, <1>12, <2>1, ReleaseAnswers DEF JobRelease
    <2>3. UNCHANGED <<order, overdue, redeeming, withdrawn>>
      BY <1>12 DEF JobRelease
    <2>4. QED
      BY <1>12, <2>2, <2>3
  <1>13. \/ Poll \/ HandleExpired \/ HandleSet \/ HandleAck \/ ConsumerFails \/ JobFails
         \/ JobDies \/ (\E a \in Online : JobRead(a) \/ JobSet(a)) \/ UNCHANGED vars
         => UNCHANGED <<order, overdue, alloc, redeeming, withdrawn>>
    BY DEF Poll, HandleExpired, HandleSet, HandleAck, ConsumerFails, JobFails, JobDies,
           JobRead, JobSet, SetDrawerFailed, SetDrawer, Runtime!SetSlotState, vars
  <1>14. ASSUME NEW a \in Online, Cancel(a)
         PROVE  Fate(o)
    <2>1. a \in Orders /\ UNCHANGED <<overdue, redeeming>>
      BY <1>0, <1>14
      DEF Cancel, CancelRead, CancelRelease, CancelSave, CancelRepeat, CancelFails
    <2>2. CASE CancelRelease(a) \/ CancelRepeat(a)
      <3>1. /\ order' = order /\ withdrawn \subseteq withdrawn' /\ a \in withdrawn'
            /\ Released(a) \/ ReleaseFailed(a)
        BY <2>2
        DEF CancelRelease, CancelRepeat, CancelGoto, Inv, CancelInv, CancelSteps
      <3>2. \/ alloc'[o] = alloc[o]
            \/ alloc'[o] = "RELEASED" /\ a = o
        BY <1>0, <2>1, <3>1, ReleaseAnswers
      <3>3. QED
        BY <2>1, <3>1, <3>2
    <2>3. CASE CancelSave(a)
      <3>1. /\ order' = [order EXCEPT ![a] = "CANCELLED"]
            /\ UNCHANGED <<alloc, withdrawn>> /\ <<a, "save">> \in cancelling
        BY <2>3 DEF CancelSave, CancelGoto
      <3>2. Closed(a)
        BY <3>1 DEF Inv, CancelInv
      <3>3. QED
        BY <1>0, <2>1, <3>1, <3>2
    <2>4. CASE CancelRead(a) \/ CancelFails(a)
      BY <1>1, <2>4 DEF CancelRead, CancelFails
    <2>5. QED
      BY <1>14, <2>2, <2>3, <2>4 DEF Cancel
  <1>15. QED
    BY <1>1, <1>3, <1>4, <1>5, <1>6, <1>7, <1>8, <1>9, <1>10, <1>11, <1>12, <1>13, <1>14
    DEF Next, Consume, Job, Orders

\* Only what is overdue is cancelled, once the runtime has been called.
LEMMA CancelStep ==
    ASSUME Inv, TypeOK', [Next]_vars
    PROVE  CancelInv'
  <1> USE NoneAssumption DEF OnlineStates, cancelVars
  <1>0. /\ Online \subseteq Orders /\ Kiosk \subseteq Orders /\ CancelInv
        /\ order \in [Orders -> OnlineStates \cup {None}]
    BY DEF Inv, TypeOK, Orders
  <1>1. ASSUME UNCHANGED cancelVars,
               \A o \in Online : order'[o] = "CANCELLED" => order[o] = "CANCELLED"
        PROVE  CancelInv'
    <2>1. ASSUME NEW o \in Online, JobCommit, jobRead = o
          PROVE  o \in overdue /\ Closed(o)
      BY <2>1, Handled DEF JobCommit, Inv, JobInv, Orders
    <2>2. QED
      BY <1>0, <1>1, <2>1, OnlineFate DEF CancelInv, Fate
  <1>2. ASSUME NEW a \in Online, CancelRead(a)
        PROVE  CancelInv'
    <2>1. /\ UNCHANGED <<order, overdue, withdrawn>>
          /\ \/ /\ a \in overdue /\ Closed(a)
                /\ cancelling' = cancelling \cup {<<a, "release">>}
             \/ a \in withdrawn /\ cancelling' = cancelling \cup {<<a, "repeat">>}
      BY <1>0, <1>2 DEF CancelRead, CancelInv, Closed, orderVars
    <2>2. CASE a \in overdue /\ Closed(a) /\ cancelling' = cancelling \cup {<<a, "release">>}
      BY <1>0, <2>1, <2>2 DEF CancelInv, Closed
    <2>3. CASE a \in withdrawn /\ cancelling' = cancelling \cup {<<a, "repeat">>}
      BY <1>0, <2>1, <2>3 DEF CancelInv, Closed
    <2>4. QED
      BY <2>1, <2>2, <2>3
  <1>3. ASSUME NEW a \in Online, CancelRelease(a)
        PROVE  CancelInv'
    <2>1. /\ UNCHANGED <<order, overdue>> /\ withdrawn' = withdrawn \cup {a}
          /\ <<a, "release">> \in cancelling
          /\ cancelling' \subseteq cancelling \cup {<<a, "save">>}
      BY <1>3 DEF CancelRelease, CancelGoto, orderVars
    <2>2. QED
      BY <1>0, <2>1 DEF CancelInv, Closed
  <1>4. ASSUME NEW a \in Online, CancelSave(a)
        PROVE  CancelInv'
    <2>1. /\ UNCHANGED <<overdue, withdrawn>> /\ order' = [order EXCEPT ![a] = "CANCELLED"]
          /\ <<a, "save">> \in cancelling
          /\ cancelling' \subseteq cancelling \cup {<<a, "repeat">>}
      BY <1>4 DEF CancelSave, CancelGoto
    <2>2. QED
      BY <1>0, <2>1 DEF CancelInv, Closed
  <1>5. ASSUME NEW a \in Online, CancelRepeat(a) \/ CancelFails(a)
        PROVE  CancelInv'
    <2>1. UNCHANGED <<order, overdue, withdrawn>> /\ cancelling' \subseteq cancelling
      BY <1>5 DEF CancelRepeat, CancelFails, CancelGoto, orderVars
    <2>2. QED
      BY <1>0, <2>1 DEF CancelInv, Closed
  <1>6. CASE HandleDoor \/ JobCommit
    BY <1>0, <1>1, <1>6 DEF HandleDoor, JobCommit
  <1>7. ASSUME NEW a \in Orders, Book(a) \/ Pay(a)
        PROVE  CancelInv'
    BY <1>0, <1>1, <1>7 DEF Book, Pay
  <1>8. ASSUME NEW a \in Online, NEW r \in Attempts, Redeem(a, r)
        PROVE  CancelInv'
    BY <1>0, <1>1, <1>8
    DEF Redeem, RedeemRead, RedeemOpen, RedeemPublish, RedeemSave, RedeemFails, orderVars
  <1>9. ASSUME NEW k \in Kiosk, Sell(k) \/ ExpireSold(k) \/ ExpireOpen(k) \/ ExpireCommit(k)
        PROVE  CancelInv'
    BY <1>0, <1>1, <1>9
    DEF Sell, SellCheck, SellLost, SellCommit, SellRegister, SellPublish, SellOpen,
        SellSave, SellFails, ExpireSold, ExpireOpen, ExpireCommit, orderVars
  <1>10. \/ Poll \/ HandleExpired \/ HandleSet \/ HandleRelease \/ HandleAck
         \/ ConsumerFails \/ JobRelease \/ JobFails \/ JobDies \/ UNCHANGED vars
         \/ \E a \in Online : WindowEnds(a) \/ JobRead(a) \/ JobSet(a)
         => UNCHANGED cancelVars /\ order' = order
    BY DEF Poll, HandleExpired, HandleSet, HandleRelease, HandleAck, ConsumerFails,
           JobRelease, JobFails, JobDies, WindowEnds, JobRead, JobSet, orderVars, vars
  <1>11. QED
    BY <1>1, <1>2, <1>3, <1>4, <1>5, <1>6, <1>7, <1>8, <1>9, <1>10
    DEF Next, Consume, Job, Cancel

\* A paid online order keeps its drawer.
LEMMA OnlineStep ==
    ASSUME Inv, TypeOK', [Next]_vars
    PROVE  OnlineInv'
  <1> SUFFICES ASSUME NEW o \in Online
               PROVE  /\ Closed(o)' => o \in overdue' \/ alloc'[o] = "COMMITTED"
                      /\ order'[o] = "PAID_PENDING_PICKUP" =>
                            alloc'[o] = "COMMITTED" \/ o \in withdrawn'
                      /\ \A r \in Attempts :
                            redeeming'[<<o, r>>] # "idle" => Closed(o)'
    BY DEF OnlineInv
  <1>1. /\ Closed(o) => o \in overdue \/ alloc[o] = "COMMITTED"
        /\ order[o] = "PAID_PENDING_PICKUP" =>
              Closed(o) /\ (alloc[o] = "COMMITTED" \/ o \in withdrawn)
        /\ \A r \in Attempts : redeeming[<<o, r>>] # "idle" => Closed(o)
    BY NoneAssumption DEF Inv, OnlineInv, Closed, OnlineStates
  <1>2. JobRelease /\ jobFree = o =>
           /\ o \in overdue' /\ order'[o] # "PAID_PENDING_PICKUP"
    BY NoneAssumption, Handled, OnlineFate DEF Inv, JobInv, JobRelease, Fate
  <1>3. o \in withdrawn' => o \in overdue'
    BY CancelStep DEF CancelInv
  <1>4. QED
    BY <1>1, <1>2, <1>3, OnlineFate DEF Fate

\* The job frees the drawers of the orders it has expired, while they hold them.
LEMMA JobStep ==
    ASSUME Inv, TypeOK', [Next]_vars
    PROVE  JobInv'
  <1> USE NoneAssumption DEF JobInv, jobVars, cancelVars, Fate
  <1>0. /\ JobInv /\ None \notin Online
        /\ jobRead \in Online \cup {None} /\ jobFree \in Online \cup {None}
    BY DEF Inv, TypeOK, Orders
  <1>1. CASE UNCHANGED jobVars
    <2>1. ~ JobRelease
      BY <1>1 DEF JobRelease
    <2>2. QED
      BY <1>0, <1>1, <2>1, OnlineFate
  <1>2. ASSUME NEW o \in Online, JobRead(o)
        PROVE  JobInv'
    <2>1. order[o] = "PAID_PENDING_PICKUP" /\ o \in overdue /\ jobRead' = o
      BY <1>2 DEF JobRead
    <2>2. Closed(o) /\ (alloc[o] = "COMMITTED" \/ o \in withdrawn)
      BY <2>1 DEF Inv, OnlineInv, Closed, OnlineStates
    <2>3. UNCHANGED <<order, overdue, alloc, withdrawn, jobAt, jobDone, jobFree>>
          /\ jobAt = "expire" /\ jobRead = None
      BY <1>2 DEF JobRead, runtimeVars, orderVars
    <2>4. QED
      BY <1>0, <2>1, <2>2, <2>3 DEF Closed
  <1>3. CASE JobCommit
    <2>1. jobRead \in Online /\ order'[jobRead] = "EXPIRED"
      BY <1>3, <1>0 DEF JobCommit, Inv, TypeOK, Orders
    <2>2. UNCHANGED <<overdue, alloc, withdrawn, jobAt, jobFree>>
          /\ jobDone' = jobDone \cup {jobRead} /\ jobRead' = None
      BY <1>3 DEF JobCommit, runtimeVars
    <2>3. jobFree = None
      BY <1>0, <2>1
    <2>4. QED
      BY <1>0, <2>1, <2>2, <2>3, OnlineFate
  <1>4. CASE JobFails
    BY <1>0, <1>4, OnlineFate DEF JobFails, JobRelease
  <1>5. ASSUME NEW o \in Online, JobSet(o)
        PROVE  JobInv'
    BY <1>0, <1>5, OnlineFate DEF JobSet, JobRelease
  <1>6. CASE JobRelease
    <2>1. /\ jobFree # None /\ jobFree' = None /\ jobRead = None
          /\ UNCHANGED <<jobRead, jobDone>>
      BY <1>0, <1>6 DEF JobRelease
    <2>2. \A o \in jobDone : o # jobFree
      BY <1>0 DEF Inv, TypeOK
    <2>3. QED
      BY <1>0, <2>1, <2>2, OnlineFate
  <1>7. CASE JobDies
    BY <1>0, <1>7 DEF JobDies
  <1>8. \/ \E o \in Orders : Book(o) \/ Pay(o)
        \/ \E o \in Online :
              WindowEnds(o) \/ Cancel(o) \/ \E r \in Attempts : Redeem(o, r)
        \/ \E k \in Kiosk : Sell(k) \/ ExpireSold(k) \/ ExpireOpen(k) \/ ExpireCommit(k)
        \/ Consume \/ ConsumerFails \/ UNCHANGED vars
        => UNCHANGED jobVars
    BY DEF Book, Pay, WindowEnds, Redeem, RedeemRead, RedeemOpen, RedeemPublish, RedeemSave,
           RedeemFails, Sell, SellCheck, SellLost, SellCommit, SellRegister, SellPublish,
           SellOpen, SellSave, SellFails, ExpireSold, ExpireOpen, ExpireCommit, Consume,
           Poll, HandleDoor, HandleExpired, HandleSet, HandleRelease, HandleAck,
           ConsumerFails, Cancel, CancelRead, CancelRelease, CancelSave, CancelRepeat,
           CancelFails, vars
  <1>9. QED
    BY <1>1, <1>2, <1>3, <1>4, <1>5, <1>6, <1>7, <1>8 DEF Next, Job

\* An expired order stays the job's, or the log's, until its drawer is free.
LEMMA ExpiredStep ==
    ASSUME Inv, TypeOK', [Next]_vars
    PROVE  ExpiredIsFreed'
  <1> SUFFICES ASSUME NEW o \in Online, order'[o] = "EXPIRED"
               PROVE  alloc'[o] = "RELEASED" \/ o \in (jobDone \cup {jobFree} \cup failed)'
    BY DEF ExpiredIsFreed
  <1> USE NoneAssumption DEF jobVars, Fate
  <1>0. o # None
    BY DEF Orders
  <1>1. CASE JobCommit
    BY <1>1, OnlineFate DEF JobCommit, Inv, ExpiredIsFreed
  <1> SUFFICES ASSUME ~ JobCommit
               PROVE  alloc'[o] = "RELEASED" \/ o \in (jobDone \cup {jobFree} \cup failed)'
    BY <1>1
  <1>2. alloc'[o] = "RELEASED" \/ o \in jobDone \cup {jobFree} \cup failed
    BY OnlineFate DEF Inv, ExpiredIsFreed
  <1>3. CASE UNCHANGED <<jobDone, jobFree>> /\ failed \subseteq failed'
    BY <1>2, <1>3
  <1>4. ASSUME NEW a \in Online, JobSet(a)
        PROVE  o \in jobDone \cup {jobFree} \cup failed =>
                  o \in (jobDone \cup {jobFree} \cup failed)'
    BY <1>0, <1>4 DEF JobSet
  <1>5. CASE JobRelease
    <2>1. o = jobFree => alloc'[o] = "RELEASED" \/ o \in failed'
      BY <1>5, ReleaseAnswers DEF JobRelease, Orders
    <2>2. UNCHANGED jobDone /\ failed \subseteq failed'
      BY <1>5 DEF JobRelease
    <2>3. QED
      BY <1>2, <2>1, <2>2
  <1>6. CASE JobDies
    BY <1>0, <1>2, <1>6 DEF JobDies
  <1>7. \/ \E a \in Orders : Book(a) \/ Pay(a)
        \/ \E a \in Online : \/ WindowEnds(a) \/ Cancel(a) \/ JobRead(a)
                           \/ \E r \in Attempts : Redeem(a, r)
        \/ \E k \in Kiosk : Sell(k) \/ ExpireSold(k) \/ ExpireOpen(k) \/ ExpireCommit(k)
        \/ Consume \/ ConsumerFails \/ JobFails \/ UNCHANGED vars
        => UNCHANGED <<jobDone, jobFree>> /\ failed \subseteq failed'
    BY DEF Book, Pay, WindowEnds, Redeem, RedeemRead, RedeemOpen, RedeemPublish, RedeemSave,
           RedeemFails, Sell, SellCheck, SellLost, SellCommit, SellRegister, SellPublish,
           SellOpen, SellSave, SellFails, ExpireSold, ExpireOpen, ExpireCommit, Consume,
           Poll, HandleDoor, HandleExpired, HandleSet, HandleRelease, HandleAck,
           ConsumerFails, JobRead, JobFails, Cancel, CancelRead, CancelRelease, CancelSave,
           CancelRepeat, CancelFails, vars
  <1>8. QED
    BY <1>2, <1>3, <1>4, <1>5, <1>6, <1>7 DEF Next, Job

-----------------------------------------------------------------------------
\* The steps that concern kiosk order k.
OwnStep(k) == \/ Book(k) \/ Pay(k) \/ Sell(k) \/ ExpireSold(k) \/ ExpireOpen(k) \/ ExpireCommit(k)
              \/ HandleRelease /\ handling.event.order = k

LEMMA OtherSteps ==
    ASSUME Inv, [Next]_vars, NEW k \in Kiosk, ~ OwnStep(k)
    PROVE  alloc'[k] = alloc[k] /\ selling'[k] = selling[k] /\ timer'[k] = timer[k]
  <1> USE DEF orderVars, kioskVars, eventVars, consumerVars, jobVars, runtimeVars
  <1>0. /\ k \in Orders /\ Online \subseteq Orders /\ Kiosk \subseteq Orders
        /\ \A o \in Online : o # k
        /\ alloc \in [Orders -> Runtime!AllocStates \cup {None}]
        /\ selling \in [Kiosk -> SellSteps]
        /\ timer \in [Kiosk -> TimerStates \cup {None}]
    BY OrdersAssumption DEF Inv, TypeOK, Runtime!TypeOK, Orders
  <1>1. ASSUME NEW o \in Orders, Book(o)
        PROVE  alloc'[k] = alloc[k] /\ selling' = selling /\ timer' = timer
    BY <1>0, <1>1, AllocateCall DEF Book, OwnStep
  <1>2. ASSUME NEW o \in Orders, Pay(o)
        PROVE  alloc'[k] = alloc[k] /\ selling' = selling /\ timer' = timer
    BY <1>0, <1>2, CommitCall DEF Pay, OwnStep
  <1>3. ASSUME NEW o \in Online, NEW r \in Attempts, Redeem(o, r)
        PROVE  UNCHANGED <<alloc, selling, timer>>
    BY <1>3 DEF Redeem, RedeemRead, RedeemOpen, RedeemPublish, RedeemSave, RedeemFails,
                SetDrawer, Runtime!SetSlotState
  <1>4. ASSUME NEW j \in Kiosk, Sell(j)
        PROVE  alloc'[k] = alloc[k] /\ selling'[k] = selling[k] /\ timer'[k] = timer[k]
    <2>1. j # k
      BY <1>4 DEF OwnStep
    <2>2. alloc'[k] = alloc[k]
      BY <1>0, <1>4, <2>1, ReleaseAnswers, CommitCall
      DEF Sell, SellCheck, SellLost, SellCommit, SellRegister, SellPublish, SellOpen,
          SellSave, SellFails, SetDrawer, Runtime!SetSlotState
    <2>3. selling'[k] = selling[k] /\ timer'[k] = timer[k]
      BY <1>0, <1>4, <2>1
      DEF Sell, SellCheck, SellLost, SellCommit, SellRegister, SellPublish, SellOpen,
          SellSave, SellFails, SellGoto
    <2>4. QED
      BY <2>2, <2>3
  <1>5. ASSUME NEW j \in Kiosk, ExpireSold(j) \/ ExpireOpen(j) \/ ExpireCommit(j)
        PROVE  alloc'[k] = alloc[k] /\ selling'[k] = selling[k] /\ timer'[k] = timer[k]
    <2>1. j # k
      BY <1>5 DEF OwnStep
    <2>2. alloc'[k] = alloc[k]
      BY <1>0, <1>5, <2>1, ReleaseAnswers
      DEF ExpireSold, ExpireOpen, ExpireCommit, SetDrawer, Runtime!SetSlotState
    <2>3. selling' = selling /\ timer'[k] = timer[k]
      BY <1>0, <1>5, <2>1 DEF ExpireSold, ExpireOpen, ExpireCommit, Expired
    <2>4. QED
      BY <2>2, <2>3
  <1>6. CASE HandleRelease
    <2>1. handling.event.order \in Orders \ {k}
      BY <1>0, <1>6, Handled DEF OwnStep, HandleRelease, Inv
    <2>2. alloc'[k] = alloc[k]
      BY <1>0, <1>6, <2>1, ReleaseAnswers DEF HandleRelease
    <2>3. QED
      BY <1>6, <2>2 DEF HandleRelease
  <1>7. CASE JobRelease
    <2>1. jobFree \in Orders \ {k}
      BY <1>0, <1>7, Handled DEF JobRelease, Inv
    <2>2. alloc'[k] = alloc[k]
      BY <1>0, <1>7, <2>1, ReleaseAnswers DEF JobRelease
    <2>3. QED
      BY <1>7, <2>2 DEF JobRelease
  <1>8. \/ \E o \in Online : WindowEnds(o) \/ JobRead(o) \/ JobSet(o)
        \/ Poll \/ HandleDoor \/ HandleExpired \/ HandleSet \/ HandleAck \/ ConsumerFails
        \/ JobCommit \/ JobFails \/ JobDies \/ UNCHANGED vars
        => UNCHANGED <<alloc, selling, timer>>
    BY DEF WindowEnds, JobRead, JobSet, Poll, HandleDoor, HandleExpired, HandleSet,
           HandleAck, ConsumerFails, JobCommit, JobFails, JobDies, SetDrawerFailed,
           SetDrawer, Runtime!SetSlotState, vars
  <1>9. ASSUME NEW o \in Online, Cancel(o)
        PROVE  alloc'[k] = alloc[k] /\ selling' = selling /\ timer' = timer
    <2>1. o \in Orders \ {k}
      BY <1>0
    <2>2. Released(o) \/ ReleaseFailed(o) \/ alloc' = alloc
      BY <1>9 DEF Cancel, CancelRead, CancelRelease, CancelSave, CancelRepeat, CancelFails
    <2>3. alloc'[k] = alloc[k]
      BY <1>0, <2>1, <2>2, ReleaseAnswers
    <2>4. QED
      BY <1>9, <2>3
      DEF Cancel, CancelRead, CancelRelease, CancelSave, CancelRepeat, CancelFails
  <1>10. QED
    BY <1>1, <1>2, <1>3, <1>4, <1>5, <1>6, <1>7, <1>8, <1>9 DEF Next, Consume, Job

LEMMA KioskStep ==
    ASSUME Inv, TypeOK', [Next]_vars
    PROVE  KioskInv'
  <1> DEFINE Good(k) ==
        /\ selling[k] = "commit" /\ timer[k] # None => alloc[k] = "RELEASED"
        /\ selling[k] \notin {"idle", "commit"} => alloc[k] = "COMMITTED"
        /\ timer[k] # None => alloc[k] \in {"COMMITTED", "RELEASED"}
        /\ timer[k] = "PENDING" => alloc[k] = "COMMITTED"
        /\ timer[k] \in {"EXECUTING", "EXECUTED"} => selling[k] \in {"idle", "commit"}
  <1> SUFFICES ASSUME NEW k \in Kiosk
               PROVE  Good(k)'
    BY DEF KioskInv
  <1> USE NoneAssumption DEF Runtime!AllocStates, TimerStates
  <1>0. /\ Good(k) /\ k \in Orders
        /\ alloc \in [Orders -> Runtime!AllocStates \cup {None}]
        /\ selling \in [Kiosk -> SellSteps]
        /\ timer \in [Kiosk -> TimerStates \cup {None}]
    BY DEF Inv, KioskInv, TypeOK, Runtime!TypeOK, Orders
  <1>1. CASE ~ OwnStep(k)
    BY <1>0, <1>1, OtherSteps
  <1>2. CASE Book(k)
    BY <1>0, <1>2, AllocateCall DEF Book, kioskVars
  <1>3. CASE SellCheck(k)
    <2>1. /\ door[at[k]] = "RESERVED" /\ selling' = [selling EXCEPT ![k] = "commit"]
          /\ UNCHANGED <<alloc, timer>> /\ selling[k] = "idle"
      BY <1>3 DEF SellCheck, SellGoto, runtimeVars
    <2>2. alloc[k] # "COMMITTED"
      <3> SUFFICES ASSUME alloc[k] = "COMMITTED"
                   PROVE  FALSE
        OBVIOUS
      <3>1. at[k] \in Runtime!Doors
        BY <1>0 DEF Inv, TypeOK, Runtime!TypeOK
      <3>2. PICK a \in Orders : alloc[a] = "RESERVED" /\ at[a] = at[k]
        BY <2>1, <3>1 DEF Inv, DoorInv
      <3>3. a = k
        BY <1>0, <3>2
        DEF Inv, DoorInv, Runtime!OneActivePerDoor, Runtime!Active, Runtime!ActiveStates
      <3>4. QED
        BY <3>2, <3>3
    <2>3. QED
      BY <1>0, <2>1, <2>2
  <1>4. CASE SellLost(k)
    BY <1>0, <1>4, ReleaseAnswers DEF SellLost, SellGoto
  <1>5. CASE SellCommit(k)
    <2>1. /\ selling' = [selling EXCEPT ![k] = "register"] /\ timer' = timer
          /\ selling[k] = "commit"
      BY <1>0, <1>5 DEF SellCommit, SellGoto
    <2>2. /\ alloc[k] \in {"RESERVED", "COMMITTED"}
          /\ alloc' = [alloc EXCEPT ![k] = "COMMITTED"]
      BY <1>0, <1>5, CommitCall DEF SellCommit, runtimeVars
    <2>3. QED
      BY <1>0, <2>1, <2>2
  <1>6. CASE SellRegister(k)
    BY <1>0, <1>6 DEF SellRegister, SellGoto, runtimeVars
  <1>7. CASE SellPublish(k) \/ SellOpen(k) \/ SellSave(k) \/ SellFails(k)
    <2>1. /\ alloc' = alloc /\ timer' = timer /\ selling[k] # "idle"
          /\ \/ selling[k] # "commit" /\ selling' = [selling EXCEPT ![k] = "open"]
             \/ selling[k] # "commit" /\ selling' = [selling EXCEPT ![k] = "save"]
             \/ selling' = [selling EXCEPT ![k] = "idle"]
      BY <1>7 DEF SellPublish, SellOpen, SellSave, SellFails, SellGoto, runtimeVars,
                  SetDrawer, Runtime!SetSlotState
    <2>2. QED
      BY <1>0, <2>1
  <1>8. CASE ExpireSold(k)
    BY <1>0, <1>8 DEF ExpireSold, Expired, runtimeVars
  <1>9. CASE ExpireOpen(k)
    <2>1. /\ timer[k] = "PENDING" /\ selling[k] = "idle" /\ selling' = selling
          /\ \/ timer' = [timer EXCEPT ![k] = "EXECUTING"]
             \/ timer' = [timer EXCEPT ![k] = "FAILED"]
      BY <1>9 DEF ExpireOpen
    <2>2. alloc'[k] \in {alloc[k], "RELEASED"}
      BY <1>0, <1>9, ReleaseAnswers DEF ExpireOpen, SetDrawer, Runtime!SetSlotState
    <2>3. QED
      BY <1>0, <2>1, <2>2
  <1>10. CASE ExpireCommit(k)
    BY <1>0, <1>10 DEF ExpireCommit, Expired, runtimeVars
  <1>11. CASE HandleRelease /\ handling.event.order = k
    <2>1. timer[k] = "EXECUTED"
      BY <1>11 DEF HandleRelease, Inv, ListInv, StoredInv
    <2>2. alloc'[k] \in {alloc[k], "RELEASED"} /\ UNCHANGED <<selling, timer>>
      BY <1>0, <1>11, ReleaseAnswers DEF HandleRelease, kioskVars
    <2>3. QED
      BY <1>0, <2>1, <2>2
  <1>12. CASE Pay(k)
    <2>1. /\ UNCHANGED <<selling, timer>>
          /\ \/ alloc[k] = "RESERVED" /\ alloc' = [alloc EXCEPT ![k] = "COMMITTED"]
             \/ alloc' = alloc
      BY <1>0, <1>12, CommitCall DEF Pay, kioskVars, runtimeVars
    <2>2. QED
      BY <1>0, <2>1
  <1>13. QED
    BY <1>1, <1>2, <1>3, <1>4, <1>5, <1>6, <1>7, <1>8, <1>9, <1>10, <1>11, <1>12
    DEF OwnStep, Sell

-----------------------------------------------------------------------------
\* The steps that store an event, and what the others leave as it is.
LEMMA StoringSteps ==
    ASSUME Inv, [Next]_vars
    PROVE  \/ UNCHANGED <<stored, feed>>
           \/ \E o \in Online, r \in Attempts : RedeemPublish(o, r)
           \/ \E k \in Kiosk : SellPublish(k) \/ ExpireSold(k) \/ ExpireCommit(k)
           \/ HandleAck
  BY DEF Next, Consume, Job, Redeem, Sell, Book, Pay, WindowEnds, RedeemRead, RedeemOpen,
         RedeemSave, RedeemFails, SellCheck, SellLost, SellCommit, SellRegister, SellOpen,
         SellSave, SellFails, ExpireOpen, Poll, HandleDoor, HandleExpired, HandleSet,
         HandleRelease, ConsumerFails, JobRead, JobSet, JobCommit, JobFails, JobRelease,
         JobDies, Cancel, CancelRead, CancelRelease, CancelSave, CancelRepeat, CancelFails,
         eventVars, vars

LEMMA ListingSteps ==
    ASSUME Inv, [Next]_vars
    PROVE  \/ UNCHANGED <<batch, handling, early>>
           \/ \E k \in Kiosk : ExpireCommit(k)
           \/ Poll \/ HandleDoor \/ HandleExpired \/ HandleSet \/ HandleRelease \/ HandleAck
           \/ ConsumerFails
  BY DEF Next, Consume, Job, Redeem, Sell, Book, Pay, WindowEnds, RedeemRead, RedeemOpen,
         RedeemPublish, RedeemSave, RedeemFails, SellCheck, SellLost, SellCommit,
         SellRegister, SellPublish, SellOpen, SellSave, SellFails, ExpireSold,
         ExpireOpen, JobRead, JobSet, JobCommit, JobFails, JobRelease, JobDies, Cancel,
         CancelRead, CancelRelease, CancelSave, CancelRepeat, CancelFails, consumerVars,
         vars

\* What is stored, by whom.
LEMMA StoredStep ==
    ASSUME Inv, TypeOK', [Next]_vars
    PROVE  StoredInv' /\ stored \subseteq stored'
  <1> DEFINE Backed(e) == /\ e.order \in Online => Closed(e.order)
                          /\ e.name = "expired" =>
                                e.order \in Kiosk /\ timer[e.order] = "EXECUTED"
  <1>0. /\ Online \subseteq Orders /\ Kiosk \subseteq Orders
        /\ feed \in Seq(Events) /\ IsInjective(feed) /\ ToSet(feed) \subseteq stored
        /\ timer \in [Kiosk -> TimerStates \cup {None}]
    BY DEF Orders, Inv, TypeOK, ListInv
  <1>1. \A k \in Kiosk : timer[k] = "EXECUTED" => timer'[k] = "EXECUTED"
    <2> SUFFICES ASSUME NEW k \in Kiosk, timer[k] = "EXECUTED"
                 PROVE  timer'[k] = "EXECUTED"
      OBVIOUS
    <2>1. CASE OwnStep(k)
      <3>1. Expired(k) => timer'[k] = "EXECUTED"
        BY <1>0 DEF Expired
      <3>2. \/ SellRegister(k) \/ Expired(k) \/ timer' = timer
        BY <2>1 DEF OwnStep, Book, Pay, Sell, SellCheck, SellLost, SellCommit, SellPublish,
                    SellOpen, SellSave, SellFails, ExpireSold, ExpireOpen, ExpireCommit,
                    HandleRelease, kioskVars
      <3>3. QED
        BY <1>0, <3>1, <3>2, NoneAssumption DEF SellRegister, TimerStates
    <2>2. QED
      BY <2>1, OtherSteps
  <1>2. \A e \in stored : Backed(e)'
    BY <1>1, OnlineFate DEF Inv, StoredInv, Fate
  <1>3. ASSUME NEW o \in Online, NEW r \in Attempts, RedeemPublish(o, r)
        PROVE  stored \subseteq stored' /\ \A e \in stored' \ stored : Backed(e)'
    <2>1. PICK name \in {"door_opened", "door_closed"} : Publish(name, o)
      BY <1>3 DEF RedeemPublish
    <2>2. stored' = stored \cup {Event(name, o)}
      BY <1>0, <2>1, Published
    <2>3. Closed(o)
      BY <1>3 DEF RedeemPublish, Inv, OnlineInv
    <2>4. Closed(o)'
      BY <2>3, OnlineFate DEF Fate
    <2>5. QED
      BY <2>2, <2>4 DEF Event
  <1>4. ASSUME NEW k \in Kiosk, SellPublish(k)
        PROVE  stored \subseteq stored' /\ \A e \in stored' \ stored : Backed(e)'
    <2>1. stored' = stored \cup {Event("door_opened", k)}
      BY <1>0, <1>4, Published DEF SellPublish
    <2>2. QED
      BY <2>1, OrdersAssumption DEF Event
  <1>5. ASSUME NEW k \in Kiosk, ExpireSold(k) \/ ExpireCommit(k)
        PROVE  stored \subseteq stored' /\ \A e \in stored' \ stored : Backed(e)'
    <2>1. Expired(k)
      BY <1>5 DEF ExpireSold, ExpireCommit
    <2>2. /\ stored' = stored \cup {Event("expired", k)}
          /\ timer' = [timer EXCEPT ![k] = "EXECUTED"]
      BY <1>0, <2>1, ExpiryStored
    <2>3. QED
      BY <1>0, <2>2, OrdersAssumption DEF Event
  <1>6. HandleAck => stored' = stored
    BY DEF HandleAck
  <1>7. stored \subseteq stored' /\ \A e \in stored' \ stored : Backed(e)'
    BY <1>3, <1>4, <1>5, <1>6, StoringSteps
  <1>8. QED
    BY <1>2, <1>7 DEF StoredInv

\* The feed and the batch list stored events, each once.
LEMMA ListStep ==
    ASSUME Inv, TypeOK', [Next]_vars
    PROVE  ListInv'
  <1>0. /\ Online \subseteq Orders /\ Kiosk \subseteq Orders
        /\ feed \in Seq(Events) /\ batch \in Seq(Events) /\ ListInv
        /\ IsInjective(feed) /\ IsInjective(batch)
        /\ ToSet(feed) \subseteq stored /\ ToSet(batch) \subseteq stored
    BY DEF Orders, Inv, TypeOK, ListInv
  <1>1. stored \subseteq stored'
    BY StoredStep
  <1>2. IsInjective(feed') /\ ToSet(feed') \subseteq stored'
    <2>1. ASSUME NEW o \in Online, NEW r \in Attempts, RedeemPublish(o, r)
          PROVE  IsInjective(feed') /\ ToSet(feed') \subseteq stored'
      <3>1. PICK name \in {"door_opened", "door_closed"} : Publish(name, o)
        BY <2>1 DEF RedeemPublish
      <3>2. QED
        BY <1>0, <3>1, Published
    <2>2. ASSUME NEW k \in Kiosk, SellPublish(k)
          PROVE  IsInjective(feed') /\ ToSet(feed') \subseteq stored'
      BY <1>0, <2>2, Published DEF SellPublish
    <2>3. ASSUME NEW k \in Kiosk, ExpireSold(k) \/ ExpireCommit(k)
          PROVE  IsInjective(feed') /\ ToSet(feed') \subseteq stored'
      <3>1. Expired(k)
        BY <2>3 DEF ExpireSold, ExpireCommit
      <3>2. QED
        BY <1>0, <3>1, ExpiryStored
    <2>4. CASE HandleAck
      BY <1>0, <1>1, <2>4, RemoveLists DEF HandleAck
    <2>5. QED
      BY <1>0, <2>1, <2>2, <2>3, <2>4, StoringSteps
  <1> DEFINE Listed == /\ IsInjective(batch) /\ ToSet(batch) \subseteq stored
                       /\ handling.step # "idle" => handling.event \in stored \ ToSet(batch)
                       /\ handling.step = "idle" => handling = NotHandling
                       /\ handling.step \in {"set", "release"} =>
                             handling.event.name = "expired"
  <1>3. Listed'
    <2>1. CASE UNCHANGED <<batch, handling>>
      BY <1>0, <1>1, <2>1 DEF ListInv
    <2>2. CASE Poll
      <3>1. batch' = feed /\ handling' = handling /\ handling = NotHandling
        BY <2>2 DEF Poll
      <3>2. QED
        BY <1>0, <1>1, <3>1 DEF NotHandling
    <2>3. CASE HandleDoor \/ HandleExpired
      <3> DEFINE e == Head(batch)
      <3>1. /\ batch # <<>> /\ batch' = Tail(batch)
            /\ \/ handling' = [event |-> e, step |-> "ack"]
               \/ handling' = [event |-> e, step |-> "set"] /\ e.name = "expired"
        BY <2>3 DEF HandleDoor, HandleExpired
      <3>2. /\ e \in ToSet(batch) /\ IsInjective(batch')
            /\ ToSet(batch') \subseteq ToSet(batch) \ {e}
        BY <1>0, <3>1, TailLists
      <3> HIDE DEF e
      <3>3. QED
        BY <1>0, <1>1, <3>1, <3>2
    <2>4. CASE HandleSet \/ HandleRelease
      <3>1. /\ batch' = batch /\ handling.step \in {"set", "release"}
            /\ \/ handling' = [handling EXCEPT !.step = "release"]
               \/ handling' = [handling EXCEPT !.step = "ack"]
        BY <2>4 DEF HandleSet, HandleRelease
      <3>2. handling'.event = handling.event /\ handling'.step \in {"release", "ack"}
        BY <3>1 DEF Inv, TypeOK
      <3>3. QED
        BY <1>0, <1>1, <3>1, <3>2 DEF ListInv
    <2>5. CASE HandleAck
      BY <1>0, <1>1, <2>5 DEF HandleAck, NotHandling
    <2>6. CASE ConsumerFails
      <3>1. /\ batch' = batch \/ batch' = <<>>
            /\ handling' = NotHandling
        BY <2>6 DEF ConsumerFails
      <3>2. IsInjective(<<>>) /\ ToSet(<<>>) = {}
        BY DEF IsInjective, ToSet
      <3>3. QED
        BY <1>0, <1>1, <3>1, <3>2 DEF NotHandling
    <2>7. ASSUME NEW k \in Kiosk, ExpireCommit(k)
          PROVE  UNCHANGED <<batch, handling>>
      BY <2>7 DEF ExpireCommit
    <2>8. QED
      BY <2>1, <2>2, <2>3, <2>4, <2>5, <2>6, <2>7, ListingSteps
  <1>4. QED
    BY <1>2, <1>3 DEF ListInv

\* An expiry event that is to be handled was so before, unless its deadline is
\* executed in this step.
LEMMA NewToHandle ==
    ASSUME Inv, TypeOK', [Next]_vars, NEW k \in Kiosk, ToHandle(Event("expired", k))'
    PROVE  ToHandle(Event("expired", k)) \/ ExpireSold(k) \/ k \in early'
  <1> DEFINE e == Event("expired", k)
  <1>0. /\ Online \subseteq Orders /\ Kiosk \subseteq Orders
        /\ feed \in Seq(Events) /\ batch \in Seq(Events)
        /\ IsInjective(feed) /\ IsInjective(batch) /\ ToSet(feed) \subseteq stored
        /\ e.name = "expired" /\ e.order = k /\ e \in Events
    BY DEF Orders, Inv, TypeOK, ListInv, Event, Events
  <1>1. ASSUME e \in ToSet(feed')
        PROVE  e \in ToSet(feed) \/ ExpireSold(k) \/ k \in early'
    <2>1. ASSUME NEW o \in Online, NEW r \in Attempts, RedeemPublish(o, r)
          PROVE  e \in ToSet(feed)
      <3>1. PICK name \in {"door_opened", "door_closed"} : Publish(name, o)
        BY <2>1 DEF RedeemPublish
      <3>2. e # Event(name, o)
        BY <3>1 DEF Event
      <3>3. QED
        BY <1>0, <1>1, <3>1, <3>2, Published
    <2>2. ASSUME NEW j \in Kiosk, SellPublish(j)
          PROVE  e \in ToSet(feed)
      <3>1. e # Event("door_opened", j)
        BY DEF Event
      <3>2. QED
        BY <1>0, <1>1, <2>2, <3>1, Published DEF SellPublish
    <2>3. ASSUME NEW j \in Kiosk, ExpireSold(j) \/ ExpireCommit(j)
          PROVE  ExpireSold(k) \/ k \in early'
      <3>1. Expired(j)
        BY <2>3 DEF ExpireSold, ExpireCommit
      <3>2. e = Event("expired", j)
        BY <1>0, <1>1, <3>1, ExpiryStored
      <3>3. j = k
        BY <3>2 DEF Event
      <3>4. QED
        BY <2>3, <3>3 DEF ExpireCommit
    <2>4. CASE HandleAck
      BY <1>0, <1>1, <2>4, RemoveLists DEF HandleAck
    <2>5. QED
      BY <1>1, <2>1, <2>2, <2>3, <2>4, StoringSteps
  <1> HIDE DEF e
  <1>2. CASE UNCHANGED <<batch, handling>>
    BY <1>1, <1>2 DEF ToHandle, e
  <1>3. CASE Poll
    <2>1. batch' = feed /\ UNCHANGED <<feed, handling>> /\ handling = NotHandling
      BY <1>3 DEF Poll, eventVars
    <2>2. handling.event # e /\ handling.step # "set"
      BY <1>0, <2>1, NoneAssumption DEF NotHandling
    <2>3. QED
      BY <2>1, <2>2 DEF ToHandle, e
  <1>4. CASE HandleDoor \/ HandleExpired
    <2>1. /\ batch # <<>> /\ batch' = Tail(batch) /\ handling = NotHandling /\ feed' = feed
          /\ \/ handling' = [event |-> Head(batch), step |-> "ack"]
             \/ handling' = [event |-> Head(batch), step |-> "set"]
      BY <1>4 DEF HandleDoor, HandleExpired, eventVars
    <2>2. Head(batch) \in ToSet(batch) /\ ToSet(batch') \subseteq ToSet(batch)
      BY <1>0, <2>1, TailLists
    <2>3. handling.event # e
      BY <1>0, <2>1, NoneAssumption DEF NotHandling
    <2>4. QED
      BY <2>1, <2>2, <2>3 DEF ToHandle, e
  <1>5. CASE HandleSet \/ HandleRelease
    <2>1. /\ batch' = batch /\ feed' = feed
          /\ \/ handling' = [handling EXCEPT !.step = "release"]
             \/ handling' = [handling EXCEPT !.step = "ack"]
      BY <1>5 DEF HandleSet, HandleRelease, eventVars
    <2>2. handling'.event = handling.event /\ handling'.step # "set"
      BY <2>1 DEF Inv, TypeOK
    <2>3. QED
      BY <2>1, <2>2 DEF ToHandle, e
  <1>6. CASE HandleAck
    <2>1. batch' = batch /\ handling' = NotHandling
      BY <1>6 DEF HandleAck
    <2>2. ToSet(feed') \subseteq ToSet(feed) \ {handling.event}
      BY <1>0, <1>6, RemoveLists DEF HandleAck
    <2>3. QED
      BY <2>1, <2>2 DEF ToHandle, NotHandling, e
  <1>7. CASE ConsumerFails
    <2>1. /\ batch' = batch \/ batch' = <<>>
          /\ handling' = NotHandling /\ feed' = feed
          /\ handling.event = e => k \in early'
      BY <1>0, <1>7 DEF ConsumerFails, eventVars
    <2>2. ToSet(<<>>) = {}
      BY DEF ToSet
    <2>3. QED
      BY <2>1, <2>2 DEF ToHandle, NotHandling, e
  <1>8. ASSUME NEW j \in Kiosk, ExpireCommit(j)
        PROVE  UNCHANGED <<batch, handling>>
    BY <1>8 DEF ExpireCommit
  <1>9. QED
    BY <1>2, <1>3, <1>4, <1>5, <1>6, <1>7, <1>8, ListingSteps

\* Until then its drawer is held, or has been given back early.
LEMMA HeldStep ==
    ASSUME Inv, TypeOK', [Next]_vars
    PROVE  HeldInv'
  <1> SUFFICES ASSUME NEW k \in Kiosk, ToHandle(Event("expired", k))', k \notin early'
               PROVE  alloc'[k] = "COMMITTED"
    BY DEF HeldInv
  <1>0. /\ k \in Orders
        /\ Event("expired", k).name = "expired" /\ Event("expired", k).order = k
        /\ alloc \in [Orders -> Runtime!AllocStates \cup {None}]
    BY DEF Orders, Event, Inv, TypeOK, Runtime!TypeOK
  <1>1. early \subseteq early'
    <2>1. \A j \in Kiosk : ExpireCommit(j) => early \subseteq early'
      BY DEF ExpireCommit
    <2>2. Poll \/ HandleDoor \/ HandleExpired \/ HandleSet \/ HandleRelease \/ HandleAck
          \/ ConsumerFails => early \subseteq early'
      BY DEF Poll, HandleDoor, HandleExpired, HandleSet, HandleRelease, HandleAck,
             ConsumerFails
    <2>3. QED
      BY <2>1, <2>2, ListingSteps
  <1>2. CASE ExpireSold(k)
    BY <1>0, <1>2 DEF ExpireSold, Inv, KioskInv, runtimeVars
  <1>3. CASE ToHandle(Event("expired", k))
    <2>1. alloc[k] = "COMMITTED" /\ timer[k] = "EXECUTED"
      <3>1. Event("expired", k) \in stored
        BY <1>3 DEF ToHandle, Inv, ListInv
      <3>2. QED
        BY <1>0, <1>1, <1>3, <3>1 DEF Inv, HeldInv, StoredInv
    <2>2. CASE ~ OwnStep(k)
      BY <2>1, <2>2, OtherSteps
    <2>3. CASE Book(k)
      BY <1>0, <2>1, <2>3, AllocateCall, NoneAssumption DEF Book, Runtime!AllocStates
    <2>4. CASE Sell(k) \/ Pay(k)
      <3>1. selling[k] # "commit"
        BY <2>1, NoneAssumption DEF Inv, KioskInv, TimerStates
      <3>2. QED
        BY <1>0, <2>1, <2>4, <3>1, CommitCall
        DEF Sell, SellCheck, SellLost, SellCommit, SellRegister, SellPublish, SellOpen,
            SellSave, SellFails, SetDrawer, Runtime!SetSlotState, runtimeVars, Pay
    <2>5. CASE ExpireSold(k) \/ ExpireOpen(k) \/ ExpireCommit(k)
      BY <2>1, <2>5 DEF ExpireSold, ExpireOpen, ExpireCommit
    <2>6. CASE HandleRelease /\ handling.event.order = k
      <3>1. /\ handling.event = Event("expired", k) /\ handling.step = "release"
            /\ Event("expired", k) \notin ToSet(batch)
        BY <1>0, <2>6, Handled DEF HandleRelease, Inv, ListInv, Events, Event
      <3>2. QED
        BY <1>3, <3>1 DEF ToHandle
    <2>7. QED
      BY <2>2, <2>3, <2>4, <2>5, <2>6 DEF OwnStep
  <1>4. QED
    BY <1>2, <1>3, NewToHandle

-----------------------------------------------------------------------------
LEMMA Inductive == Spec => []Inv
  <1>1. Init => Inv
    <2> USE NoneAssumption
        DEF Init, TypeOK, OnlineStates, KioskStates, OpenStates, TimerStates, RedeemSteps,
            SellSteps
    <2>1. ASSUME Init
          PROVE  TypeOK
      <3>1. Runtime!TypeOK
        BY <2>1 DEF Runtime!Init, Runtime!TypeOK
      <3>2. QED
        BY <2>1, <3>1 DEF Orders, NotHandling
    <2>2. ASSUME Init
          PROVE  DoorInv
      BY <2>2 DEF DoorInv, Runtime!Init, Runtime!OneActivePerDoor, Runtime!Active,
                  Runtime!ActiveStates, Runtime!AllocStates, Runtime!SlotStates
    <2>3. ASSUME Init
          PROVE  OnlineInv /\ CancelInv /\ JobInv /\ ExpiredIsFreed
      BY <2>3 DEF OnlineInv, CancelInv, Closed, JobInv, ExpiredIsFreed, Orders
    <2>4. ASSUME Init
          PROVE  KioskInv
      BY <2>4 DEF KioskInv, Runtime!Init
    <2>5. ASSUME Init
          PROVE  StoredInv /\ ListInv /\ HeldInv
      BY <2>5 DEF StoredInv, ListInv, HeldInv, ToHandle, NotHandling, IsInjective, ToSet
    <2>6. QED
      BY <2>1, <2>2, <2>3, <2>4, <2>5 DEF Inv
  <1>2. Inv /\ [Next]_vars => Inv'
    <2> SUFFICES ASSUME Inv, [Next]_vars
                 PROVE  Inv'
      OBVIOUS
    <2>1. Runtime!TypeOK' /\ DoorInv'
      BY StepsCall, DoorStep DEF Inv, TypeOK
    <2>2. TypeOK'
      BY <2>1, RestTyped DEF Inv
    <2>3. QED
      BY <2>1, <2>2, OnlineStep, CancelStep, JobStep, ExpiredStep, KioskStep, StoredStep, ListStep,
         HeldStep
      DEF Inv
  <1>3. QED
    BY <1>1, <1>2, PTL DEF Spec

\* Orders, handlers, deadlines, events and the job have their types: however the sale,
\* the payment and the worker overwrite each other, a kiosk order is never picked up by
\* token nor cancelled, and the job frees online orders' drawers only.
THEOREM PickupTypeCorrect == Spec => []TypeOK
  BY Inductive, PTL DEF Inv

\* Whoever is about to open a drawer or to set its state, by its number, acts for the
\* order that holds it, but for the three exceptions ActsOnOwnDrawer names.
THEOREM OwnDrawerOnly == Spec => []ActsOnOwnDrawer
  <1>1. Inv => ActsOnOwnDrawer
    <2> SUFFICES ASSUME Inv
                 PROVE  ActsOnOwnDrawer
      OBVIOUS
    <2>1. \A o \in Online, r \in Attempts :
             redeeming[<<o, r>>] = "open" => alloc[o] = "COMMITTED" \/ o \in overdue
      BY DEF Inv, OnlineInv
    <2>2. \A k \in Kiosk :
             selling[k] = "open" \/ (timer[k] = "PENDING" /\ order[k] \in OpenStates)
                => alloc[k] = "COMMITTED"
      BY DEF Inv, KioskInv
    <2>3. \A o \in jobDone \ withdrawn : alloc[o] = "COMMITTED"
      BY DEF Inv, JobInv, TypeOK
    <2>4. ASSUME handling.step = "set"
          PROVE  LET k == handling.event.order IN alloc[k] = "COMMITTED" \/ k \in early
      <3> DEFINE k == handling.event.order
      <3>1. handling.event \in stored /\ handling.event.name = "expired"
        BY <2>4 DEF Inv, ListInv
      <3>2. k \in Kiosk /\ handling.event \in Events
        BY <2>4, <3>1, Handled DEF Inv, StoredInv
      <3>3. handling.event = Event("expired", k)
        BY <3>1, <3>2 DEF Events, Event
      <3>4. QED
        BY <2>4, <3>2, <3>3 DEF Inv, HeldInv, ToHandle
    <2>5. QED
      BY <2>1, <2>2, <2>3, <2>4 DEF ActsOnOwnDrawer
  <1>2. QED
    BY <1>1, Inductive, PTL

\* An expired order's drawer is free, or the job has to free it, or it is one of those
\* it failed to free.
THEOREM ExpiredFreed == Spec => []ExpiredIsFreed
  BY Inductive, PTL DEF Inv

\* Redemption, expiry, sale and the consumer only take the runtime through steps
\* of its own, set-state among them: the drawers stay exclusive leases.
THEOREM PickupLeasesKept == Spec => R!Spec /\ R!ImplementsLease
  <1>1. Init => R!Init
    BY SameRuntime DEF Init
  <1>2. Inv /\ [Next]_vars => [R!Next]_(R!vars)
    BY StepsCall, RuntimeStep DEF Inv, TypeOK
  <1>3. Spec => R!Spec
    BY <1>1, <1>2, Inductive, PTL DEF Spec, R!Spec
  <1>4. R!Spec => R!ImplementsLease
    BY RuntimeNone, R!RuntimeImplementsLease, PTL
  <1>5. QED
    BY <1>3, <1>4, PTL
=============================================================================
