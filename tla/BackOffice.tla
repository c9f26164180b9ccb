----------------------------- MODULE BackOffice -----------------------------
(***************************************************************************)
(* The transactions behind the orders: Invoices, WalletCredits,            *)
(* StockReservations and PartnerOutbox side by side.  They share no state, *)
(* and each step is a step of one of them.                                 *)
(***************************************************************************)
EXTENDS Integers, FiniteSets

CONSTANTS Invoices, Workers, MaxRetries,
          Buyers, Credits, MaxPending,
          Reservations, Runs, OnHand,
          Senders, MaxEvents, MaxLooking, MaxAttempts,
          None

VARIABLES dead, status, lock, retries, waiting, incomplete, doing, filed,
          asked, refreshing, fault,
          credit, stage, named, pending, kept, reopened, again,
          reserved, held, due, movements, picked, counted, stale, twice,
          event, tries, backoff, looking, batch, replayed

B == INSTANCE Invoices
W == INSTANCE WalletCredits
S == INSTANCE StockReservations
O == INSTANCE PartnerOutbox

\* The sentinel is no row's key, status or number.
ASSUME NoneAssumption ==
    /\ None \notin Invoices \cup Credits
    /\ None \notin B!Statuses \cup B!Faults \cup {"recent", "stale"}
    /\ None \notin O!Statuses
    /\ None \notin 0..Cardinality(Reservations)

\* INVOICE_ISSUE_MAX_RETRIES and max_attempts, of which one at least is made.
ASSUME AttemptsAssumption == MaxRetries \in Nat /\ MaxAttempts \in Nat \ {0}

\* ck_pi_non_negative; a table has finitely many rows.
ASSUME StockAssumption == OnHand \in Nat /\ IsFiniteSet(Reservations)

\* The bounds of WalletCredits and PartnerOutbox.
ASSUME BoundsAssumption == MaxPending \in Nat /\ MaxEvents \in Nat /\ MaxLooking \in Nat

billingVars == <<dead, status, lock, retries, waiting, incomplete, doing, filed,
                 asked, refreshing, fault>>
walletVars == <<credit, stage, named, pending, kept, reopened, again>>
stockVars == <<reserved, held, due, movements, picked, counted, stale, twice>>
outboxVars == <<event, tries, backoff, looking, batch, replayed>>
vars == <<billingVars, walletVars, stockVars, outboxVars>>

Init == B!Init /\ W!Init /\ S!Init /\ O!Init

Billing(A) == A /\ UNCHANGED <<walletVars, stockVars, outboxVars>>
Wallet(A) == A /\ UNCHANGED <<billingVars, stockVars, outboxVars>>
Stock(A) == A /\ UNCHANGED <<billingVars, walletVars, outboxVars>>
Outbox(A) == A /\ UNCHANGED <<billingVars, walletVars, stockVars>>

Next == Billing(B!Next) \/ Wallet(W!Next) \/ Stock(S!Next) \/ Outbox(O!Next)

Spec == Init /\ [][Next]_vars

-----------------------------------------------------------------------------
\* The states of the four parts are what their modules say.
TypeOK == B!TypeOK /\ W!TypeOK /\ S!TypeOK /\ O!TypeOK

\* Two workers never issue one invoice at the same time (Invoices).
OneIssuer == B!OneIssuer
\* No invoice is filed twice for a reason of the service's own (Invoices).
FiledOnce == B!FiledOnce
\* A cancelled invoice stays cancelled (Invoices).
CancelledStays == B!CancelledStays
\* A pending invoice is settled (Invoices).
IssueSettles == B!IssueSettles
\* A requested cancellation is settled (Invoices).
CancelSettles == B!CancelSettles
\* A credit pays for one order at a time (WalletCredits).
SpentOnce == W!SpentOnce
\* A used credit pays for an order that is not undone (WalletCredits).
UsedIsHeld == W!UsedIsHeld
\* What is reserved never counts as available (StockReservations).
NeverUnderReserved == S!NeverUnderReserved
\* An event for a partner is delivered or given up (PartnerOutbox).
OutboxSettles == O!OutboxSettles
=============================================================================
