------------------------ MODULE WalletCredits_proofs ------------------------
(***************************************************************************)
(* What holds of the customers' credits for every set of credits and of    *)
(* orders that ask for them.                                               *)
(***************************************************************************)
EXTENDS BackOffice, TLAPS

\* The stages of an order that has been created and has not been deleted.
Placed == {"open", "paid", "collected", "cancelled", "expired"}

\* What the stage of an order says of the other tables: it names a credit once it has
\* asked for one, and nobody deals with an order, or has closed it, that is not
\* committed.
StageInv ==
    \A o \in Buyers :
        /\ stage[o] # "new" => named[o] \in Credits
        /\ o \in reopened \cup kept \/ (\E p \in W!Pending : <<o, p>> \in pending) =>
              stage[o] \notin {"new", "applying"}

WalletInv == W!TypeOK /\ StageInv

\* Work on an order that is committed, now or before, leaves them in step.
LEMMA StaysInStep ==
    ASSUME WalletInv, NEW o \in Buyers, NEW q \in W!Pending,
           stage[o] # "new", stage'[o] \notin {"new", "applying"},
           \A p \in Buyers \ {o} : stage'[p] = stage[p],
           named' = named, pending' \subseteq pending \cup {<<o, q>>},
           reopened' \subseteq reopened \cup {o}, kept' \subseteq kept \cup {o}
    PROVE  StageInv' /\ pending' \subseteq Buyers \X W!Pending
  <1>1. pending' \subseteq Buyers \X W!Pending
    BY DEF WalletInv, W!TypeOK
  <1>2. ASSUME NEW p \in Buyers
        PROVE  /\ stage'[p] # "new" => named'[p] \in Credits
               /\ p \in reopened' \cup kept' \/ (\E f \in W!Pending : <<p, f>> \in pending') =>
                     stage'[p] \notin {"new", "applying"}
    BY DEF WalletInv, StageInv
  <1>3. QED
    BY <1>1, <1>2 DEF StageInv

\* Who commits work on an order finds it placed.
LEMMA DoneIsPlaced ==
    ASSUME WalletInv, NEW o \in Buyers,
           \/ W!Compensate(o) \/ W!Pay(o) \/ W!Collect(o) \/ W!PaymentTimeout(o)
           \/ W!Cancel(o) \/ W!Retry(o) \/ W!Expire(o)
    PROVE  stage[o] \in Placed
  <1>1. \E p \in W!Pending : <<o, p>> \in pending /\ stage[o] # "deleted"
    BY DEF W!Compensate, W!Pay, W!Collect, W!PaymentTimeout, W!Cancel, W!Retry, W!Expire,
           W!Done, W!Pending, W!Found
  <1>2. QED
    BY <1>1 DEF WalletInv, StageInv, W!TypeOK, W!Stages, Placed

\* Every row and history has its type and is in step with its order's stage.
LEMMA WalletType == W!Spec => []WalletInv
  <1>1. W!Init => WalletInv
    BY DEF W!Init, WalletInv, W!TypeOK, StageInv, W!Stages
  <1>2. WalletInv /\ [W!Next]_(W!creditVars) => WalletInv'
    <2> SUFFICES ASSUME WalletInv, [W!Next]_(W!creditVars)
                 PROVE  WalletInv'
      OBVIOUS
    <2> USE DEF W!TypeOK, W!Stages, W!GoTo
    <2>1. ASSUME NEW o \in Buyers, NEW c \in Credits, W!Apply(o, c)
          PROVE  WalletInv'
      BY <2>1 DEF W!Apply, WalletInv, StageInv
    <2>2. ASSUME NEW o \in Buyers, W!Create(o)
          PROVE  WalletInv'
      <3>1. stage[o] = "applying" /\ named[o] \in Credits
        BY <2>2 DEF W!Create, WalletInv, StageInv
      <3>2. pending' \subseteq pending \cup {<<o, "creation">>}
        BY <2>2 DEF W!Create, W!MayLeave
      <3>3. StageInv' /\ pending' \subseteq Buyers \X W!Pending
        BY <2>2, <3>1, <3>2, StaysInStep DEF W!Create, W!Pending, WalletInv
      <3>4. QED
        BY <2>2, <3>1, <3>3 DEF W!Create, WalletInv
    <2>3. ASSUME NEW o \in Buyers, W!Read(o) \/ W!Ends(o)
          PROVE  WalletInv'
      <3>1. CASE W!Read(o)
        <4>1. stage[o] \in W!Pending /\ stage[o] \notin {"new", "applying"}
          BY <3>1 DEF W!Read, W!Pending, W!Found
        <4>2. pending' \subseteq pending \cup {<<o, stage[o]>>}
          BY <3>1 DEF W!Read, W!MayLeave
        <4>3. StageInv' /\ pending' \subseteq Buyers \X W!Pending
          BY <3>1, <4>1, <4>2, StaysInStep DEF W!Read
        <4>4. QED
          BY <3>1, <4>3 DEF W!Read, WalletInv
      <3>2. CASE W!Ends(o)
        BY <3>2 DEF W!Ends, WalletInv, StageInv
      <3>3. QED
        BY <2>3, <3>1, <3>2
    <2>4. ASSUME NEW o \in Buyers,
                 \/ W!Compensate(o) \/ W!Pay(o) \/ W!Collect(o) \/ W!PaymentTimeout(o)
                 \/ W!Cancel(o) \/ W!Retry(o) \/ W!Expire(o)
          PROVE  WalletInv'
      <3>1. /\ stage[o] \in Placed /\ named' = named
            /\ \/ stage' = stage
               \/ \E s \in Placed \cup {"deleted"} : stage' = [stage EXCEPT ![o] = s]
        BY <2>4, DoneIsPlaced
        DEF W!Compensate, W!Pay, W!Collect, W!PaymentTimeout, W!Cancel, W!Retry, W!Expire,
            Placed
      <3>2. pending' \subseteq pending \cup {<<o, "queued">>}
        BY <2>4
        DEF W!Compensate, W!Pay, W!Collect, W!PaymentTimeout, W!Cancel, W!Retry, W!Expire,
            W!Done, W!MayLeave
      <3>3. named[o] \in Credits
        BY <3>1 DEF Placed, WalletInv, StageInv
      <3>4. /\ credit' \in [Credits -> {"AVAILABLE", "USED"}]
            /\ kept' \subseteq kept \cup {o} /\ reopened' \subseteq reopened \cup {o}
            /\ again' \subseteq Credits
        BY <2>4, <3>3
        DEF W!Compensate, W!Pay, W!Collect, W!PaymentTimeout, W!Cancel, W!Retry, W!Expire,
            W!Reopen, W!Keep, WalletInv
      <3>5. StageInv' /\ pending' \subseteq Buyers \X W!Pending
        BY <3>1, <3>2, <3>4, StaysInStep DEF Placed, W!Pending, WalletInv
      <3>6. QED
        BY <3>1, <3>4, <3>5 DEF Placed, WalletInv
    <2>5. CASE UNCHANGED W!creditVars
      BY <2>5 DEF W!creditVars, WalletInv, StageInv
    <2>6. QED
      BY <2>1, <2>2, <2>3, <2>4, <2>5 DEF W!Next
  <1>3. QED
    BY <1>1, <1>2, PTL DEF W!Spec

-----------------------------------------------------------------------------
\* A credit that an order is about to take is free and nobody else's: the lock of the
\* SELECT lasts until the order's commit.
LockedInv ==
    \A o \in Buyers :
        stage[o] = "applying" =>
            /\ credit[named[o]] = "AVAILABLE"
            /\ \A p \in Buyers \ {o} : stage[p] = "applying" => named[p] # named[o]

\* The order that owns a credit: it has taken it, and has not been undone.
Owns(o, c) == named[o] = c /\ stage[o] \in Placed /\ o \notin reopened

\* A credit that no order was undone twice for is used while it has an owner, and has
\* one owner.
OwnerInv ==
    \A c \in Credits \ again, o \in Buyers :
        Owns(o, c) => credit[c] = "USED" /\ \A p \in Buyers : Owns(p, c) => p = o

\* Undoing an order leaves its credit without an owner, or marks the credit.
LEMMA ReopenKeepsOwners ==
    ASSUME WalletInv, OwnerInv, NEW o \in Buyers, stage[o] \in Placed,
           W!Reopen(o), named' = named,
           \A p \in Buyers : stage'[p] = stage[p] \/ p = o
    PROVE  OwnerInv'
  BY DEF WalletInv, W!TypeOK, StageInv, OwnerInv, Owns, Placed, W!Reopen

LEMMA CreditOwners == W!Spec => [](LockedInv /\ OwnerInv)
  <1>1. W!Init => LockedInv /\ OwnerInv
    BY DEF W!Init, LockedInv, OwnerInv, Owns, Placed
  <1>2. WalletInv /\ LockedInv /\ OwnerInv /\ [W!Next]_(W!creditVars)
          => LockedInv' /\ OwnerInv'
    <2> SUFFICES ASSUME WalletInv, LockedInv, OwnerInv, [W!Next]_(W!creditVars)
                 PROVE  LockedInv' /\ OwnerInv'
      OBVIOUS
    <2> USE DEF W!GoTo
    <2>1. ASSUME NEW o \in Buyers, NEW c \in Credits, W!Apply(o, c)
          PROVE  LockedInv' /\ OwnerInv'
      BY <2>1
      DEF W!Apply, WalletInv, W!TypeOK, StageInv, LockedInv, OwnerInv, Owns, Placed
    <2>2. ASSUME NEW o \in Buyers, W!Create(o)
          PROVE  LockedInv' /\ OwnerInv'
      BY <2>2
      DEF W!Create, WalletInv, W!TypeOK, StageInv, LockedInv, OwnerInv, Owns, Placed
    <2>3. ASSUME NEW o \in Buyers, W!Read(o) \/ W!Ends(o)
          PROVE  LockedInv' /\ OwnerInv'
      BY <2>3 DEF W!Read, W!Ends, LockedInv, OwnerInv, Owns
    <2>4. ASSUME NEW o \in Buyers, stage[o] \in Placed,
                 stage' = stage \/ \E s \in Placed : stage' = [stage EXCEPT ![o] = s],
                 UNCHANGED <<credit, named, reopened, again>>
          PROVE  LockedInv' /\ OwnerInv'
      BY <2>4 DEF WalletInv, W!TypeOK, LockedInv, OwnerInv, Owns, Placed
    <2>5. ASSUME NEW o \in Buyers, stage[o] \in Placed, W!Reopen(o), named' = named,
                 \/ stage' = stage
                 \/ \E s \in Placed \cup {"deleted"} : stage' = [stage EXCEPT ![o] = s]
          PROVE  LockedInv' /\ OwnerInv'
      <3>1. /\ stage[o] \notin {"new", "applying"} /\ stage'[o] \notin {"new", "applying"}
            /\ \A p \in Buyers : stage'[p] = stage[p] \/ p = o
        BY <2>5 DEF WalletInv, W!TypeOK, Placed
      <3>2. OwnerInv'
        BY <2>5, <3>1, ReopenKeepsOwners
      <3>3. LockedInv'
        BY <2>5, <3>1 DEF WalletInv, W!TypeOK, StageInv, LockedInv, W!Reopen
      <3>4. QED
        BY <3>2, <3>3
    <2>6. ASSUME NEW o \in Buyers, W!Pay(o) \/ W!Collect(o) \/ W!PaymentTimeout(o)
          PROVE  LockedInv' /\ OwnerInv'
      BY <2>4, <2>6, DoneIsPlaced DEF W!Pay, W!Collect, W!PaymentTimeout, W!Keep, Placed
    <2>7. ASSUME NEW o \in Buyers, W!Compensate(o) \/ W!Expire(o)
          PROVE  LockedInv' /\ OwnerInv'
      BY <2>5, <2>7, DoneIsPlaced DEF W!Compensate, W!Expire, Placed
    <2>8. ASSUME NEW o \in Buyers, W!Cancel(o) \/ W!Retry(o)
          PROVE  LockedInv' /\ OwnerInv'
      <3>1. /\ stage[o] \in Placed /\ named' = named
            /\ stage' = stage \/ stage' = [stage EXCEPT ![o] = "cancelled"]
            /\ W!Reopen(o) \/ UNCHANGED <<credit, reopened, again>>
        BY <2>8, DoneIsPlaced DEF W!Cancel, W!Retry, W!Keep
      <3>2. QED
        BY <2>4, <2>5, <3>1 DEF Placed
    <2>9. CASE UNCHANGED W!creditVars
      BY <2>9 DEF W!creditVars, LockedInv, OwnerInv, Owns
    <2>10. QED
      BY <2>1, <2>2, <2>3, <2>6, <2>7, <2>8, <2>9 DEF W!Next
  <1>3. QED
    BY <1>1, <1>2, WalletType, PTL DEF W!Spec

\* A used credit is never left without an order: whatever undoes an order reopens its
\* credit in the same transaction, but for the payment timeout and the cancellation that
\* fails to, which are on record.
LEMMA UsedCreditsHeld == W!Spec => []W!UsedIsHeld
  <1>1. W!Init => W!UsedIsHeld
    BY DEF W!Init, W!UsedIsHeld
  <1>2. WalletInv /\ W!UsedIsHeld /\ [W!Next]_(W!creditVars) => W!UsedIsHeld'
    <2> SUFFICES ASSUME WalletInv, W!UsedIsHeld, [W!Next]_(W!creditVars)
                 PROVE  W!UsedIsHeld'
      OBVIOUS
    <2> USE DEF WalletInv, W!TypeOK, StageInv, W!UsedIsHeld, W!Live, W!GoTo
    <2>1. ASSUME NEW o \in Buyers, NEW c \in Credits, W!Apply(o, c)
          PROVE  W!UsedIsHeld'
      BY <2>1 DEF W!Apply
    <2>2. ASSUME NEW o \in Buyers, W!Create(o)
          PROVE  W!UsedIsHeld'
      BY <2>2 DEF W!Create
    <2>3. ASSUME NEW o \in Buyers, W!Compensate(o) \/ W!Expire(o)
          PROVE  W!UsedIsHeld'
      BY <2>3, DoneIsPlaced DEF W!Compensate, W!Expire, W!Reopen, Placed
    <2>4. ASSUME NEW o \in Buyers, W!Cancel(o) \/ W!Retry(o)
          PROVE  W!UsedIsHeld'
      <3>1. /\ stage[o] \in Placed /\ named' = named
            /\ \A p \in Buyers : stage'[p] = stage[p] \/ p = o
        BY <2>4, DoneIsPlaced DEF W!Cancel, W!Retry
      <3>2. CASE W!Reopen(o)
        BY <3>1, <3>2 DEF W!Reopen, Placed
      <3>3. CASE W!Keep(o)
        BY <3>1, <3>3 DEF W!Keep
      <3>4. CASE UNCHANGED <<credit, stage, kept>>
        BY <3>1, <3>4
      <3>5. QED
        BY <2>4, <3>2, <3>3, <3>4 DEF W!Cancel, W!Retry
    <2>5. ASSUME NEW o \in Buyers, W!Pay(o) \/ W!Collect(o) \/ W!PaymentTimeout(o)
          PROVE  W!UsedIsHeld'
      BY <2>5 DEF W!Pay, W!Collect, W!PaymentTimeout, W!Keep
    <2>6. ASSUME NEW o \in Buyers, W!Read(o) \/ W!Ends(o)
          PROVE  W!UsedIsHeld'
      BY <2>6 DEF W!Read, W!Ends
    <2>7. CASE UNCHANGED W!creditVars
      BY <2>7 DEF W!creditVars
    <2>8. QED
      BY <2>1, <2>2, <2>3, <2>4, <2>5, <2>6, <2>7 DEF W!Next
  <1>3. QED
    BY <1>1, <1>2, WalletType, PTL DEF W!Spec

-----------------------------------------------------------------------------
\* The credits among the other parts do what they do alone.
LEMMA WalletRuns == Spec => W!Spec
  <1>1. Init => W!Init
    BY DEF Init
  <1>2. [Next]_vars => [W!Next]_(W!creditVars)
    BY DEF Next, vars, Billing, Wallet, Stock, Outbox, walletVars, W!creditVars
  <1>3. QED
    BY <1>1, <1>2, PTL DEF Spec, W!Spec

\* A credit pays for one order at a time, however the checkouts, the payments, the
\* compensations and the expiries of any number of orders interleave, unless an order
\* that named it was undone twice.  What a late payment revives after it was undone has
\* lost its credit and is not counted.
THEOREM CreditSpentOnce == Spec => []SpentOnce
  <1>1. WalletInv /\ OwnerInv => SpentOnce
    <2> SUFFICES ASSUME WalletInv, OwnerInv, NEW c \in Credits \ again
                 PROVE  \A o, p \in Buyers \ reopened :
                          /\ named[o] = c /\ named[p] = c
                          /\ {stage[o], stage[p]} \subseteq W!Live
                          => o = p
      BY DEF SpentOnce, W!SpentOnce
    <2>1. \A o \in Buyers \ reopened : named[o] = c /\ stage[o] \in W!Live => Owns(o, c)
      BY DEF WalletInv, StageInv, W!Live, Owns, Placed
    <2>2. QED
      BY <2>1 DEF OwnerInv
  <1>2. QED
    BY <1>1, WalletRuns, WalletType, CreditOwners, PTL

\* No credit is lost, but to the payment timeout and to a cancellation that could not
\* reopen it.
THEOREM NoCreditLost == Spec => []UsedIsHeld
  <1>1. W!UsedIsHeld => UsedIsHeld
    BY DEF UsedIsHeld
  <1>2. QED
    BY <1>1, WalletRuns, UsedCreditsHeld, PTL
=============================================================================
