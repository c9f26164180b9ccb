--------------------------- MODULE WalletCredits ---------------------------
(***************************************************************************)
(* The credits a customer spends at the checkout of an online order        *)
(* (order_pickup_service/app/services/wallet_credits.py): a credit is      *)
(* marked USED in the transaction that creates the order, and reopened by  *)
(* whatever undoes the order, which finds it by the name the order keeps   *)
(* in its metadata, whoever has used it since.                             *)
(*                                                                         *)
(* OnlineOrder and PickupPhase take these handlers apart; here each has    *)
(* two steps: it reads the order, without a lock, and does the rest at the *)
(* commit of its transaction, over whatever the order has become.          *)
(***************************************************************************)
EXTENDS Integers, FiniteSets

CONSTANTS Buyers,     \* the orders that ask for a credit
          Credits,
          MaxPending, \* bound: the pieces of work that are pending at a time
          None

VARIABLES credit,       \* credit[c]: credits.status
          stage,        \* stage[o]: where o is, PAYMENT_PENDING being "open"
          named,        \* named[o]: the credit of o's credit_application, or None
          pending,      \* <<o, p>>: work on o that is yet to be committed (see Pending)
          kept,         \* orders closed with their credit USED, and not reopened since
          reopened,     \* orders undone once, with their credit
          again         \* credits named by an order that was undone twice

creditVars == <<credit, stage, named, pending, kept, reopened, again>>

Stages == {"new", "applying", "open", "paid", "collected", "cancelled", "expired", "deleted"}
Live == {"open", "paid", "collected"}

\* A handler has loaded the order and found it at that stage; the creation of the order
\* has not been answered; a row of the reconciliation queue is to be tried.
Found == {"open", "paid", "cancelled", "expired"}
Pending == Found \cup {"creation", "queued"}

Init ==
    /\ credit = [c \in Credits |-> "AVAILABLE"]
    /\ stage = [o \in Buyers |-> "new"]
    /\ named = [o \in Buyers |-> None]
    /\ pending = {}
    /\ kept = {} /\ reopened = {} /\ again = {}

GoTo(o, s) == stage' = [stage EXCEPT ![o] = s]

\* Work on o may be left for later, within the bound.
MayLeave(work, o, p) ==
    pending' \in {set \in {work, work \cup {<<o, p>>}} : Cardinality(set) <= MaxPending}

\* Work on o is committed; other work that found o so may be pending.  An UPDATE of a
\* row that is deleted fails.
Done(o, p) ==
    /\ <<o, p>> \in pending /\ stage[o] # "deleted"
    /\ pending' \in {pending, pending \ {<<o, p>>}}

-----------------------------------------------------------------------------
\* Mutant: the SELECT takes no lock.
ApplyUnlocked(o, c) ==
    /\ stage[o] = "new"
    /\ credit[c] = "AVAILABLE"
    /\ named' = [named EXCEPT ![o] = c]
    /\ GoTo(o, "applying")
    /\ UNCHANGED <<credit, pending, kept, reopened, again>>

\* apply_credit_for_checkout: SELECT ... FOR UPDATE, held until the order's commit.
Apply(o, c) ==
    /\ stage[o] = "new"
    /\ credit[c] = "AVAILABLE"
    /\ \A p \in Buyers : stage[p] = "applying" => named[p] # c
    /\ named' = [named EXCEPT ![o] = c]
    /\ GoTo(o, "applying")
    /\ UNCHANGED <<credit, pending, kept, reopened, again>>

\* Order and credit are committed together, or not at all.
Create(o) ==
    /\ stage[o] = "applying"
    /\ \/ /\ GoTo(o, "open")
          /\ credit' = [credit EXCEPT ![named[o]] = "USED"]
          /\ MayLeave(pending, o, "creation")
       \/ GoTo(o, "deleted") /\ UNCHANGED <<credit, pending>>
    /\ UNCHANGED <<named, kept, reopened, again>>

\* restore_credit_after_failed_order_creation: SELECT ... FOR UPDATE, which waits for
\* a checkout that holds the credit's row.
Reopen(o) ==
    /\ \A p \in Buyers : stage[p] = "applying" => named[p] # named[o]
    /\ credit' = [credit EXCEPT ![named[o]] = "AVAILABLE"]
    /\ again' = IF o \in reopened /\ credit[named[o]] = "USED" THEN again \cup {named[o]}
                                                       ELSE again
    /\ reopened' = reopened \cup {o}
    /\ kept' = kept \ {o}

\* Mutant: the order is deleted, its credit not reopened.
CompensateOrderOnly(o) ==
    /\ Done(o, "creation")
    /\ GoTo(o, "deleted")
    /\ UNCHANGED <<credit, named, kept, reopened, again>>

\* compensate_failed_online_creation, when the lifecycle service has not
\* registered the deadline.  The row is deleted, whatever it has become.
Compensate(o) ==
    /\ Done(o, "creation")
    /\ GoTo(o, "deleted")
    /\ Reopen(o)
    /\ UNCHANGED named

-----------------------------------------------------------------------------
\* A handler loads the order and finds it at a stage it deals with.
Read(o) ==
    /\ stage[o] \in Found /\ <<o, stage[o]>> \notin pending
    /\ MayLeave(pending, o, stage[o])
    /\ UNCHANGED <<credit, stage, named, kept, reopened, again>>

\* What is pending comes to nothing: the deadline is registered, the handler answers
\* without a commit or dies, the queue gives up.
Ends(o) ==
    /\ \E p \in Pending : <<o, p>> \in pending /\ pending' = pending \ {<<o, p>>}
    /\ UNCHANGED <<credit, stage, named, kept, reopened, again>>

\* payment_confirm.
Pay(o) ==
    /\ Done(o, "open")
    /\ GoTo(o, "paid")
    /\ UNCHANGED <<credit, named, kept, reopened, again>>

\* The redemptions, and the event of the door.
Collect(o) ==
    /\ Done(o, "paid")
    /\ GoTo(o, "collected")
    /\ UNCHANGED <<credit, named, kept, reopened, again>>

\* Its credit stays USED.
Keep(o) ==
    /\ kept' = kept \cup {o}
    /\ UNCHANGED <<credit, reopened, again>>

\* _handle_prepayment_timeout cancels the order only.
PaymentTimeout(o) ==
    /\ Done(o, "open")
    /\ GoTo(o, "cancelled")
    /\ Keep(o)
    /\ UNCHANGED named

\* The public cancellation, also of what is closed already ("reconciliação
\* tardia") or paid and overdue.  A failure to reopen the credit is caught; it is
\* queued, like a failed release of the drawer, unless queueing it fails too.
Cancel(o) ==
    /\ \E s \in Found :
          /\ <<o, s>> \in pending /\ stage[o] # "deleted"
          /\ IF s = "cancelled" THEN UNCHANGED stage ELSE GoTo(o, "cancelled")
          /\ \E work \in {pending, pending \ {<<o, s>>}} : MayLeave(work, o, "queued")
    /\ Reopen(o) \/ Keep(o)
    /\ UNCHANGED named

\* run_reconciliation_retry_once does all of it again, whatever the order is, until
\* the drawer is released and the credit reopened.
Retry(o) ==
    /\ Done(o, "queued")
    /\ Reopen(o) \/ UNCHANGED <<credit, kept, reopened, again>>
    /\ UNCHANGED <<stage, named>>

\* run_expiry_once and handle_pickup_expired.
Expire(o) ==
    /\ Done(o, "paid")
    /\ GoTo(o, "expired")
    /\ Reopen(o)
    /\ UNCHANGED named

Next ==
    \E o \in Buyers :
        \/ \E c \in Credits : Apply(o, c)
        \/ Create(o) \/ Compensate(o) \/ Read(o) \/ Ends(o)
        \/ Pay(o) \/ Collect(o) \/ PaymentTimeout(o) \/ Cancel(o) \/ Retry(o) \/ Expire(o)

Spec == Init /\ [][Next]_creditVars

-----------------------------------------------------------------------------
TypeOK ==
    /\ credit \in [Credits -> {"AVAILABLE", "USED"}]
    /\ stage \in [Buyers -> Stages]
    /\ named \in [Buyers -> Credits \cup {None}]
    /\ pending \subseteq Buyers \X Pending
    /\ kept \cup reopened \subseteq Buyers
    /\ again \subseteq Credits

\* A credit pays for one order at a time, however the customer's checkouts, the
\* compensations, the payments and the expiries interleave, unless an order that named
\* it was undone twice: the second time takes it from the order that has used it since.
\* An order that was undone and is paid or collected all the same, by a handler that
\* had read it before, does not count: it keeps the discount and has lost the credit.
SpentOnce ==
    \A c \in Credits \ again, o, p \in Buyers \ reopened :
        named[o] = c /\ named[p] = c /\ {stage[o], stage[p]} \subseteq Live => o = p

\* No credit is lost: one that is USED pays for an order that is not undone, unless
\* that order's payment timed out or reopening the credit failed.
UsedIsHeld ==
    \A c \in Credits :
        credit[c] = "USED" =>
            \E o \in Buyers : named[o] = c /\ (stage[o] \in Live \/ o \in kept)
=============================================================================
