------------------------- MODULE BackOffice_proofs -------------------------
(***************************************************************************)
(* What holds of the stock that reservations hold and of the events for a  *)
(* partner, for every number of them, and the types of all four parts.     *)
(***************************************************************************)
EXTENDS Invoices_proofs, WalletCredits_proofs, FiniteSetTheorems

LEMMA SameCardinality == \A T : S!Cardinality(T) = Cardinality(T)
  BY DEF Cardinality, S!Cardinality

\* The pieces in a set of reservations.
LEMMA PiecesCounted ==
    ASSUME NEW T \in SUBSET Reservations
    PROVE  /\ IsFiniteSet(T)
           /\ S!Cardinality(T) \in 0..Cardinality(Reservations)
           /\ S!Cardinality(T) \in Nat
  <1>1. IsFiniteSet(T) /\ Cardinality(T) <= Cardinality(Reservations)
    BY StockAssumption, FS_Subset
  <1>2. Cardinality(T) \in Nat /\ Cardinality(Reservations) \in Nat
    BY <1>1, StockAssumption, FS_CardinalityType
  <1>3. QED
    BY <1>1, <1>2, SameCardinality

-----------------------------------------------------------------------------
\* A reservation has expired with its movement, is due while it is ACTIVE, is picked no
\* sooner than it is made and given back twice no sooner than it expires; the counter is
\* a number the table's checks allow.
StockInv ==
    /\ S!TypeOK
    /\ \A r \in Reservations :
          /\ held[r] = "EXPIRED" <=> r \in movements
          /\ r \in due => held[r] = "ACTIVE"
          /\ held[r] = "none" => \A j \in Runs : r \notin picked[j]
          /\ r \in twice => r \in movements

\* What a run expires, all of its movements being new, is still ACTIVE or was released
\* or consumed meanwhile, and has not been given back by a run before.
LEMMA PickedIsMade ==
    ASSUME StockInv, NEW j \in Runs, picked[j] \cap movements = {}
    PROVE  /\ \A r \in picked[j] : held[r] \in {"ACTIVE", "RELEASED"}
           /\ picked[j] \cap twice = {}
  BY DEF StockInv, S!TypeOK

LEMMA StockType == S!Spec => []StockInv
  <1>1. S!Init => StockInv
    BY StockAssumption DEF S!Init, StockInv, S!TypeOK
  <1>2. StockInv /\ [S!Next]_(S!stockVars) => StockInv'
    <2> SUFFICES ASSUME StockInv, [S!Next]_(S!stockVars)
                 PROVE  StockInv'
      OBVIOUS
    <2> USE DEF StockInv, S!TypeOK
    <2>1. ASSUME NEW r \in Reservations, S!Reserve(r) \/ S!FallsDue(r) \/ S!Close(r)
          PROVE  StockInv'
      BY <2>1, StockAssumption DEF S!Reserve, S!FallsDue, S!Close, S!AtLeastZero
    <2>2. ASSUME NEW j \in Runs, S!Pick(j)
          PROVE  StockInv'
      BY <2>2 DEF S!Pick, S!Active
    <2>3. ASSUME NEW j \in Runs, S!Conflict(j) \/ S!RunDies(j)
          PROVE  StockInv'
      BY <2>3 DEF S!Conflict, S!RunDies
    <2>4. ASSUME NEW j \in Runs, S!ExpireBatch(j)
          PROVE  StockInv'
      <3>1. S!Cardinality(picked[j]) \in Nat
        BY PiecesCounted
      <3>2. reserved' \in 0..OnHand
        BY <2>4, <3>1, StockAssumption DEF S!ExpireBatch, S!Expired, S!AtLeastZero
      <3>3. QED
        BY <2>4, <3>2 DEF S!ExpireBatch, S!Expired
    <2>5. CASE S!Count
      <3>1. S!Cardinality(S!Active) \in 0..Cardinality(Reservations)
        BY PiecesCounted DEF S!Active
      <3>2. S!Cardinality(S!Active) \in 0..S!Cardinality(Reservations)
        BY <3>1, SameCardinality
      <3>3. QED
        BY <2>5, <3>2 DEF S!Count
    <2>6. CASE S!Correct \/ S!CorrectRefused
      <3>1. S!Cardinality(Reservations) \in Nat
        BY PiecesCounted
      <3>2. counted # None => counted \in Nat
        BY <3>1
      <3>3. CASE S!Correct
        BY <3>2, <3>3, StockAssumption DEF S!Correct
      <3>4. CASE S!CorrectRefused
        BY <3>4 DEF S!CorrectRefused
      <3>5. QED
        BY <2>6, <3>3, <3>4
    <2>7. CASE UNCHANGED S!stockVars
      BY <2>7 DEF S!stockVars
    <2>8. QED
      BY <2>1, <2>2, <2>3, <2>4, <2>5, <2>6, <2>7 DEF S!Next
  <1>3. QED
    BY <1>1, <1>2, PTL DEF S!Spec

\* A run gives a piece back once, with its movement, and twice only if it was released
\* or consumed meanwhile.
LEMMA ReservedCovers == S!Spec => []S!NeverUnderReserved
  <1>1. S!Init => S!NeverUnderReserved
    <2> SUFFICES ASSUME S!Init
                 PROVE  S!NeverUnderReserved
      OBVIOUS
    <2>1. S!Active = {} /\ twice = {}
      BY DEF S!Init, S!Active
    <2>2. S!Cardinality(S!Active) = 0 /\ S!Cardinality(twice) = 0
      BY <2>1, SameCardinality, FS_EmptySet
    <2>3. QED
      BY <2>2, StockAssumption DEF S!Init, S!NeverUnderReserved
  <1>2. StockInv /\ S!NeverUnderReserved /\ [S!Next]_(S!stockVars) => S!NeverUnderReserved'
    <2> SUFFICES ASSUME StockInv, S!NeverUnderReserved, [S!Next]_(S!stockVars)
                 PROVE  S!NeverUnderReserved'
      OBVIOUS
    <2> DEFINE n == Cardinality(S!Active)
               m == Cardinality(twice)
    <2>1. /\ n \in Nat /\ IsFiniteSet(S!Active)
          /\ m \in Nat /\ IsFiniteSet(twice)
          /\ reserved \in Nat
      BY PiecesCounted, SameCardinality, StockAssumption DEF S!Active, StockInv, S!TypeOK
    <2>2. reserved >= n - m \/ stale
      BY SameCardinality DEF S!NeverUnderReserved
    <2>3. SUFFICES reserved' >= n' - m' \/ stale'
      BY SameCardinality DEF S!NeverUnderReserved
    <2>4. ASSUME NEW r \in Reservations, S!Reserve(r)
          PROVE  reserved' >= n' - m' \/ stale'
      <3>1. S!Active' = S!Active \cup {r} /\ r \notin S!Active
        BY <2>4 DEF S!Reserve, S!Active, StockInv, S!TypeOK
      <3>2. n' = n + 1
        BY <2>1, <3>1, FS_AddElement
      <3>3. m' = m /\ reserved' = reserved + 1 /\ stale' = stale
        BY <2>4 DEF S!Reserve
      <3> HIDE DEF n, m
      <3>4. QED
        BY <2>1, <2>2, <3>2, <3>3
    <2>5. ASSUME NEW r \in Reservations, S!Close(r)
          PROVE  reserved' >= n' - m' \/ stale'
      <3>1. S!Active' = S!Active \ {r} /\ r \in S!Active
        BY <2>5 DEF S!Close, S!Active, StockInv, S!TypeOK
      <3>2. n' = n - 1
        BY <2>1, <3>1, FS_RemoveElement
      <3>3. m' = m /\ reserved' >= reserved - 1 /\ stale' = stale
        BY <2>1, <2>5 DEF S!Close, S!AtLeastZero
      <3>4. reserved' \in Int
        BY <2>1, <2>5 DEF S!Close, S!AtLeastZero
      <3> HIDE DEF n, m
      <3>5. QED
        BY <2>1, <2>2, <3>2, <3>3, <3>4
    <2>6. ASSUME NEW j \in Runs, S!ExpireBatch(j)
          PROVE  reserved' >= n' - m' \/ stale'
      <3> DEFINE P == picked[j]
                 open == S!Active \cap P
                 closed == P \ S!Active
      <3>1. P \in SUBSET Reservations /\ P \cap twice = {}
        BY <2>6, PickedIsMade DEF S!ExpireBatch, StockInv, S!TypeOK
      <3>2. S!Active' = S!Active \ P /\ twice' = twice \cup closed
        BY <2>6, PickedIsMade
        DEF S!ExpireBatch, S!Expired, S!Active, StockInv, S!TypeOK
      <3>3. IsFiniteSet(P) /\ Cardinality(P) \in Nat
        BY <3>1, PiecesCounted, SameCardinality
      <3>4. IsFiniteSet(open) /\ Cardinality(open) \in Nat
        BY <3>1, PiecesCounted, SameCardinality DEF S!Active
      <3>5. IsFiniteSet(closed) /\ Cardinality(closed) \in Nat
        BY <3>1, PiecesCounted, SameCardinality
      <3>6. n' = n - Cardinality(open)
        BY <2>1, <3>2, FS_Difference
      <3>7. m' = m + Cardinality(closed)
        <4>1. twice \cap closed = {}
          BY <3>1
        <4>2. Cardinality(twice \cup closed)
                = Cardinality(twice) + Cardinality(closed) - Cardinality(twice \cap closed)
          BY <2>1, <3>5, FS_Union
        <4>3. Cardinality(twice \cap closed) = 0
          BY <4>1, FS_EmptySet
        <4>4. QED
          BY <2>1, <3>2, <3>5, <4>2, <4>3
      <3>8. Cardinality(P) = Cardinality(open) + Cardinality(closed)
        <4>1. Cardinality(P \ S!Active) = Cardinality(P) - Cardinality(P \cap S!Active)
          BY <3>3, FS_Difference
        <4>2. P \cap S!Active = open /\ P \ S!Active = closed
          OBVIOUS
        <4>3. Cardinality(closed) = Cardinality(P) - Cardinality(open)
          BY <4>1, <4>2, Zenon
        <4> HIDE DEF P, open, closed
        <4>4. QED
          BY <3>3, <3>4, <3>5, <4>3
      <3>9. /\ reserved' = S!AtLeastZero(reserved - Cardinality(P))
            /\ stale' = stale
        BY <2>6, SameCardinality DEF S!ExpireBatch, S!Expired
      <3>10. reserved' \in Int /\ reserved' >= reserved - Cardinality(P)
        BY <2>1, <3>3, <3>9 DEF S!AtLeastZero
      <3> HIDE DEF n, m, P, open, closed
      <3>11. QED
        BY <2>1, <2>2, <3>3, <3>4, <3>5, <3>6, <3>7, <3>8, <3>9, <3>10
    <2>7. CASE S!Correct
      <3>1. n' = n
        BY <2>7 DEF S!Correct, S!Active
      <3>2. m' = 0
        BY <2>7, FS_EmptySet DEF S!Correct
      <3>3. CASE counted = n
        BY <2>1, <2>7, <3>1, <3>2, <3>3 DEF S!Correct
      <3>4. CASE counted # n
        BY <2>7, <3>4, SameCardinality DEF S!Correct
      <3>5. QED
        BY <3>3, <3>4
    <2>8. CASE UNCHANGED <<held, reserved, stale, twice>>
      BY <2>2, <2>8 DEF S!Active
    <2>9. QED
      BY <2>4, <2>5, <2>6, <2>7, <2>8
      DEF S!Next, S!FallsDue, S!Pick, S!Conflict, S!RunDies, S!Count, S!CorrectRefused,
          S!stockVars
  <1>3. QED
    BY <1>1, <1>2, StockType, PTL DEF S!Spec

-----------------------------------------------------------------------------
\* An event that is due, or that a run has read and not yet committed, has an attempt
\* left; one that is to be tried again will have one.
OutboxInv ==
    /\ O!TypeOK
    /\ \A e \in O!Events :
          /\ event[e] \in {None, "PENDING", "FAILED"} => tries[e] < MaxAttempts
          /\ \A s \in Senders :
                /\ e \in batch[s].todo \/ batch[s].wrote[e] # None =>
                      batch[s].seen[e] < MaxAttempts
                /\ batch[s].wrote[e] # "PENDING"
                /\ batch[s].wrote[e] = "FAILED" => batch[s].seen[e] + 1 < MaxAttempts

LEMMA OutboxType == O!Spec => []OutboxInv
  <1>1. O!Init => OutboxInv
    BY AttemptsAssumption, BoundsAssumption, NoneAssumption
    DEF O!Init, OutboxInv, O!TypeOK, O!Nothing, O!Statuses
  <1>2. OutboxInv /\ [O!Next]_(O!outboxVars) => OutboxInv'
    <2> SUFFICES ASSUME OutboxInv, [O!Next]_(O!outboxVars)
                 PROVE  OutboxInv'
      OBVIOUS
    <2> USE AttemptsAssumption, NoneAssumption DEF OutboxInv, O!TypeOK, O!Statuses
    <2>1. CASE O!Look \/ O!Enqueue
      BY <2>1, BoundsAssumption DEF O!Look, O!Enqueue
    <2>2. ASSUME NEW s \in Senders, O!Select(s)
          PROVE  OutboxInv'
      <3> DEFINE seen == [e \in O!Events |-> IF e \in O!Due THEN tries[e] ELSE 0]
      <3>1. O!Due \subseteq O!Events /\ \A e \in O!Due : tries[e] < MaxAttempts
        BY DEF O!Due
      <3>2. batch' = [batch EXCEPT ![s] = [todo |-> O!Due, seen |-> seen,
                                           wrote |-> batch[s].wrote]]
        BY <2>2 DEF O!Select
      <3>3. seen \in [O!Events -> 0..MaxAttempts]
        OBVIOUS
      <3>4. \A e \in O!Events : batch[s].wrote[e] = None
        BY <2>2 DEF O!Select, O!Nothing
      <3>5. UNCHANGED <<event, tries, backoff, looking, replayed>>
        BY <2>2 DEF O!Select
      <3> HIDE DEF seen
      <3>6. batch' \in [Senders -> [todo : SUBSET O!Events,
                                    seen : [O!Events -> 0..MaxAttempts],
                                    wrote : [O!Events -> O!Statuses \cup {None}]]]
        BY <3>1, <3>2, <3>3
      <3>7. \A e \in O!Due : seen[e] < MaxAttempts
        BY <3>1 DEF seen
      <3>8. QED
        BY <3>1, <3>2, <3>4, <3>5, <3>6, <3>7
    <2>3. ASSUME NEW s \in Senders, O!Deliver(s)
          PROVE  OutboxInv'
      <3> DEFINE After(e, o) == [todo |-> batch[s].todo \ {e}, seen |-> batch[s].seen,
                                 wrote |-> [batch[s].wrote EXCEPT ![e] = o]]
      <3>0. PICK e \in batch[s].todo :
               \E o \in O!Outcomes(batch[s].seen[e] + 1) :
                  batch' = [batch EXCEPT ![s] = After(e, o)]
        BY <2>3 DEF O!Deliver
      <3>1. PICK o \in O!Outcomes(batch[s].seen[e] + 1) :
               batch' = [batch EXCEPT ![s] = After(e, o)]
        BY <3>0
      <3>2. e \in O!Events /\ batch[s].seen[e] < MaxAttempts
        OBVIOUS
      <3>3. /\ o \in O!Statuses \ {"PENDING"}
            /\ o = "FAILED" => batch[s].seen[e] + 1 < MaxAttempts
        BY <3>2 DEF O!Outcomes
      <3>4. After(e, o) \in [todo : SUBSET O!Events, seen : [O!Events -> 0..MaxAttempts],
                            wrote : [O!Events -> O!Statuses \cup {None}]]
        BY <3>2, <3>3
      <3>5. UNCHANGED <<event, tries, backoff, looking, replayed>>
        BY <2>3 DEF O!Deliver
      <3>6. QED
        BY <3>1, <3>2, <3>3, <3>4, <3>5
    <2>4. ASSUME NEW s \in Senders, O!Commit(s)
          PROVE  OutboxInv'
      BY <2>4 DEF O!Commit, O!Written, O!Nothing
    <2>5. ASSUME NEW s \in Senders, O!Fails(s)
          PROVE  OutboxInv'
      BY <2>5 DEF O!Fails, O!Nothing
    <2>6. ASSUME NEW e \in O!Events, O!BackoffOver(e) \/ O!Replay(e)
          PROVE  OutboxInv'
      BY <2>6 DEF O!BackoffOver, O!Replay
    <2>7. CASE UNCHANGED O!outboxVars
      BY <2>7 DEF O!outboxVars
    <2>8. QED
      BY <2>1, <2>2, <2>3, <2>4, <2>5, <2>6, <2>7 DEF O!Next
  <1>3. QED
    BY <1>1, <1>2, PTL DEF O!Spec

-----------------------------------------------------------------------------
\* The stock and the events among the other parts do what they do alone.
LEMMA StockRuns == Spec => S!Spec
  <1>1. Init => S!Init
    BY DEF Init
  <1>2. [Next]_vars => [S!Next]_(S!stockVars)
    BY DEF Next, vars, Billing, Wallet, Stock, Outbox, stockVars, S!stockVars
  <1>3. QED
    BY <1>1, <1>2, PTL DEF Spec, S!Spec

LEMMA OutboxRuns == Spec => O!Spec
  <1>1. Init => O!Init
    BY DEF Init
  <1>2. [Next]_vars => [O!Next]_(O!outboxVars)
    BY DEF Next, vars, Billing, Wallet, Stock, Outbox, outboxVars, O!outboxVars
  <1>3. QED
    BY <1>1, <1>2, PTL DEF Spec, O!Spec

\* The rows, claims, batches and counters of all four parts have their types: the stock
\* counter stays within the table's checks, and no event has more attempts than allowed.
THEOREM BackOfficeTypeCorrect == Spec => []TypeOK
  <1>1. TypeInv /\ WalletInv /\ StockInv /\ OutboxInv => TypeOK
    BY DEF TypeInv, WalletInv, StockInv, OutboxInv, TypeOK
  <1>2. QED
    BY <1>1, BillingRuns, TypeInvariant, WalletRuns, WalletType, StockRuns, StockType,
       OutboxRuns, OutboxType, PTL

\* No piece that is reserved counts as available, whichever runs of the expiry job
\* overlap, but for one piece per reservation that was released or consumed under a run
\* that had selected it, and unless a correction wrote a sum that was not the sum any
\* more.
THEOREM ReservedNotSold == Spec => []NeverUnderReserved
  <1>1. S!NeverUnderReserved => NeverUnderReserved
    BY DEF NeverUnderReserved
  <1>2. QED
    BY <1>1, StockRuns, ReservedCovers, PTL
=============================================================================
