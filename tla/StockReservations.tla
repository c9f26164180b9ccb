------------------------- MODULE StockReservations -------------------------
(***************************************************************************)
(* The stock of a product that reservations hold                           *)
(* (order_pickup_service/app/jobs): product_inventory.quantity_reserved    *)
(* and the inventory_reservations it counts, each of one piece.  The       *)
(* reservations are made, released and consumed elsewhere; one job expires *)
(* them, in batches with one commit, and another sets the counter to what  *)
(* is ACTIVE.  Each replica of the service runs both.                      *)
(***************************************************************************)
EXTENDS Integers, FiniteSets

CONSTANTS Reservations,
          Runs,        \* runs of the expiry job that may overlap
          OnHand,      \* quantity_on_hand
          None

VARIABLES reserved,    \* quantity_reserved
          held,        \* held[r]: inventory_reservations.status, or "none"
          due,         \* ACTIVE reservations whose expires_at has passed
          movements,   \* reservations with an EXPIRED movement: im_<id> is its key
          picked,      \* picked[j]: the batch run j has selected, or {}
          counted,     \* what the reconciliation has read: the ACTIVE sum, or None
          stale,       \* it wrote a sum that was not the sum any more
          twice        \* reservations given back twice since: by their release or
                       \* consumption and by a run that had selected them before

stockVars == <<reserved, held, due, movements, picked, counted, stale, twice>>

Active == {r \in Reservations : held[r] = "ACTIVE"}

\* The counter may be too high from the start.
Init ==
    /\ reserved \in 0..OnHand
    /\ held = [r \in Reservations |-> "none"]
    /\ due = {} /\ movements = {}
    /\ picked = [j \in Runs |-> {}]
    /\ counted = None /\ stale = FALSE /\ twice = {}

Reserve(r) ==
    /\ held[r] = "none" /\ reserved < OnHand
    /\ reserved' = reserved + 1
    /\ held' = [held EXCEPT ![r] = "ACTIVE"]
    /\ UNCHANGED <<due, movements, picked, counted, stale, twice>>

AtLeastZero(n) == IF n < 0 THEN 0 ELSE n

\* A release gives the piece back, a consumption takes it from the shelf: either way it
\* is reserved no more.  (RELEASED stands for CONSUMED too; what is on hand is constant
\* here.)
Close(r) ==
    /\ held[r] = "ACTIVE"
    /\ held' = [held EXCEPT ![r] = "RELEASED"]
    /\ reserved' = AtLeastZero(reserved - 1)
    /\ due' = due \ {r}
    /\ UNCHANGED <<movements, picked, counted, stale, twice>>

FallsDue(r) ==
    /\ held[r] = "ACTIVE" /\ r \notin due
    /\ due' = due \cup {r}
    /\ UNCHANGED <<reserved, held, movements, picked, counted, stale, twice>>

\* run_inventory_reservations_expiry_once selects the overdue ones, without a lock.
Pick(j) ==
    /\ picked[j] = {}
    /\ picked' = [picked EXCEPT ![j] = due]
    /\ picked' # picked
    /\ UNCHANGED <<reserved, held, due, movements, counted, stale, twice>>

\* The batch is done over: its first movement's key exists.
Conflict(j) ==
    /\ picked[j] \cap movements # {}
    /\ picked' = [picked EXCEPT ![j] = {}]
    /\ UNCHANGED <<reserved, held, due, movements, counted, stale, twice>>

\* The UPDATEs look at no status: what has left ACTIVE meanwhile is given back again.
Expired(j, n) ==
    /\ reserved' = n
    /\ held' = [r \in Reservations |-> IF r \in picked[j] THEN "EXPIRED" ELSE held[r]]
    /\ movements' = movements \cup picked[j]
    /\ twice' = twice \cup {r \in picked[j] : held[r] = "RELEASED"}
    /\ picked' = [picked EXCEPT ![j] = {}]
    /\ due' = due \ picked[j]
    /\ UNCHANGED <<counted, stale>>

\* Mutant: a movement that exists is passed over.
ExpireTwice(j) ==
    /\ picked[j] # {}
    /\ Expired(j, AtLeastZero(reserved - Cardinality(picked[j])))

\* Mutant: without GREATEST(..., 0).
ExpireUnbounded(j) ==
    /\ picked[j] # {} /\ picked[j] \cap movements = {}
    /\ Expired(j, reserved - Cardinality(picked[j]))

\* All of the batch in one transaction, which the counter's row lock keeps apart
\* from those of other runs.
ExpireBatch(j) ==
    /\ picked[j] # {} /\ picked[j] \cap movements = {}
    /\ Expired(j, AtLeastZero(reserved - Cardinality(picked[j])))

RunDies(j) ==
    /\ picked[j] # {}
    /\ picked' = [picked EXCEPT ![j] = {}]
    /\ UNCHANGED <<reserved, held, due, movements, counted, stale, twice>>

\* run_inventory_reserved_reconciliation_once finds the counter wrong ...
Count ==
    /\ counted = None
    /\ reserved # Cardinality(Active)
    /\ counted' = Cardinality(Active)
    /\ UNCHANGED <<reserved, held, due, movements, picked, stale, twice>>

\* ... and sets it to the sum it has read ...
Correct ==
    /\ counted # None /\ counted <= OnHand
    /\ reserved' = counted
    /\ stale' = (counted # Cardinality(Active)) /\ twice' = {}
    /\ counted' = None
    /\ UNCHANGED <<held, due, movements, picked>>

\* ... unless ck_pi_reserved_leq_hand refuses it, and it rolls back.
CorrectRefused ==
    /\ counted # None /\ counted > OnHand
    /\ counted' = None
    /\ UNCHANGED <<reserved, held, due, movements, picked, stale, twice>>

Next ==
    \/ \E r \in Reservations : Reserve(r) \/ Close(r) \/ FallsDue(r)
    \/ \E j \in Runs : Pick(j) \/ Conflict(j) \/ ExpireBatch(j) \/ RunDies(j)
    \/ Count \/ Correct \/ CorrectRefused

Spec == Init /\ [][Next]_stockVars

-----------------------------------------------------------------------------
TypeOK ==
    /\ reserved \in 0..OnHand
    /\ held \in [Reservations -> {"none", "ACTIVE", "EXPIRED", "RELEASED"}]
    /\ due \cup movements \cup twice \subseteq Reservations
    /\ picked \in [Runs -> SUBSET Reservations]
    /\ counted \in 0..Cardinality(Reservations) \cup {None}
    /\ stale \in BOOLEAN

\* No piece that is reserved counts as available: two runs that select one
\* reservation give its piece back once, and a reservation that is released between a
\* run's SELECT and its UPDATEs costs one piece, until the counter is corrected.  Only
\* a correction with a sum read before a reservation was made can do worse, until the
\* next one.
NeverUnderReserved == reserved >= Cardinality(Active) - Cardinality(twice) \/ stale
=============================================================================
