---------------------------- MODULE MCBackOffice ----------------------------
(***************************************************************************)
(* BackOffice for TLC.  The parts share no state, so that a behaviour of   *)
(* one says all there is about it: Start chooses the part that runs, the   *)
(* others stay as they start.                                              *)
(***************************************************************************)
EXTENDS BackOffice

CONSTANTS Handled,  \* bound: the orders that handlers deal with; the others check out
          Disputed  \* bound: those of them that two handlers deal with at once

VARIABLES part

Start ==
    /\ Init
    /\ part \in {"billing", "wallet", "stock", "outbox"}
    /\ part # "stock" => reserved = 0

Only(p, A) == part = p /\ A /\ UNCHANGED part

\* Bound: of the requests that have read a row only one commits after it has changed,
\* or an operator resets it, and none is pending or reads it from then on.  (The
\* properties excuse such a row; the theorems are about any number of requests.)
OneOverwrite ==
    \A i \in Invoices : fault'[i] = "overwritten" => i \notin asked' \cup refreshing'

HandledOnly ==
    /\ \A work \in pending' : work[1] \in Handled
    /\ \A o \in Handled \ Disputed : Cardinality({work \in pending' : work[1] = o}) <= 1

\* Orders and reservations are numbered as they are made.
InTurn(made) == \A n \in made \ {1} : n - 1 \in made

Step ==
    \/ Only("billing", Billing(B!Next) /\ OneOverwrite)
    \/ Only("wallet", Wallet(W!Next) /\ HandledOnly
                      /\ InTurn({o \in Buyers : stage'[o] # "new"}))
    \/ Only("stock", Stock(S!Next)
                     /\ InTurn({r \in Reservations : held'[r] # "none"}))
    \/ Only("outbox", Outbox(O!Next))

partVars == <<part, vars>>

\* The fairness of Invoices and PartnerOutbox: it asks nothing of a part that stays as
\* it starts.
FairSpec == Start /\ [][Step]_partVars /\ B!Fairness /\ O!Fairness
=============================================================================
