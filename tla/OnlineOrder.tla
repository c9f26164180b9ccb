---------------------------- MODULE OnlineOrder ----------------------------
(***************************************************************************)
(* An online order until it is paid, cancelled or timed out: the order     *)
(* service's handlers (order_pickup_service) composed with the locker      *)
(* runtime (SlotRuntime) and the lifecycle service (Deadlines).            *)
(*                                                                         *)
(* A handler is taken apart where it calls another service or commits, so  *)
(* between its steps everyone else may act on rows it has already read.    *)
(* A call that fails may have taken effect; a handler that fails or dies   *)
(* leaves what it did so far.                                              *)
(***************************************************************************)
EXTENDS FiniteSets

CONSTANTS
    Orders,      \* orders, each with its own allocation identifier
    Locker,      \* the locker they are made at
    Slots,       \* its drawers
    Workers,     \* prepayment workers of the lifecycle service
    None

VARIABLES
    door, alloc, at, lapsed,                              \* SlotRuntime
    status, due, paid, event, shown, wpc, todo, cur,      \* Deadlines
    cancels, seen, ccall, revoked, stranded,
    order,       \* order[o]: orders.status, or None (no row)
    local,       \* local[o]: allocations.state of the order service, or None
    ready,       \* orders with an active pickup and its token
    creating,    \* creating[o]: next step of the handler that creates o
    paying,      \* paying[o]: next step of the payment-confirm handler
    comp,        \* comp[<<w, o>>]: a compensation of o under way, what it has read
    batch,       \* events the consumer has listed and not yet handled
    handling,    \* [order, expires]: the event it handles, what it found
    recon,       \* recon[o]: status of its reconciliation_pending row, or None
    confirmed,   \* orders whose payment-confirm was answered ok
    acked,       \* orders whose event the consumer has acknowledged
    asked,       \* orders the customer has asked to cancel
    voided       \* orders whose cancellation was answered ok

runtimeVars == <<door, alloc, at, lapsed>>
deadlineVars == <<status, due, paid, event, shown, wpc, todo, cur, cancels, seen,
                  ccall, revoked, stranded>>
orderVars == <<order, local, ready>>
handlerVars == <<creating, paying, comp>>
consumerVars == <<batch, handling>>
historyVars == <<confirmed, acked, asked, voided>>
otherVars == <<recon, historyVars>>
vars == <<runtimeVars, deadlineVars, orderVars, handlerVars, consumerVars, otherVars>>

Runtime == INSTANCE SlotRuntime WITH Machines <- {Locker}, AllocIds <- Orders

Lifecycle == INSTANCE Deadlines WITH
    Deadlines <- Orders, Pickups <- {}, Clients <- Orders,
    Serves <- [w \in Workers |-> Orders]

OrderStates == {"PAYMENT_PENDING", "PAID_PENDING_PICKUP", "CANCELLED"}
LocalStates == {"RESERVED_PENDING_PAYMENT", "RESERVED_PAID_PENDING_PICKUP", "RELEASED"}
CreateSteps == {"reserve", "persist", "giveback", "register", "compensate", "delete",
                "answered", "gone"}
PaySteps == {"idle", "apply", "cancel1", "commit", "finish", "cancel2"}
\* Who compensates an order: the customer's cancellation, the retry job.
Compensators == {"customer", "retry"}
\* PENDING stands for FAILED too, which is retried just the same.
ReconStates == {"PENDING", "PROCESSING", "DONE", "FAILED_FINAL"}

ASSUME NoneAssumption ==
    None \notin Orders \cup Runtime!Doors \cup Runtime!SlotStates \cup Runtime!AllocStates
                \cup Lifecycle!Statuses \cup Lifecycle!EventStatuses
                \cup OrderStates \cup LocalStates \cup ReconStates

NotCompensating == [step |-> "idle", order |-> None, local |-> None,
                    pickup |-> FALSE, released |-> FALSE]
NotHandling == [order |-> None, expires |-> FALSE]

Init ==
    /\ Runtime!Init
    /\ Lifecycle!Init
    /\ order = [o \in Orders |-> None]
    /\ local = [o \in Orders |-> None]
    /\ ready = {}
    /\ creating = [o \in Orders |-> "reserve"]
    /\ paying = [o \in Orders |-> "idle"]
    /\ comp = [c \in Compensators \X Orders |-> NotCompensating]
    /\ batch = {}
    /\ handling = NotHandling
    /\ recon = [o \in Orders |-> None]
    /\ confirmed = {} /\ acked = {} /\ asked = {} /\ voided = {}

-----------------------------------------------------------------------------
\* The runtime's answers to a release and to a commit: done now, done before
\* (200, idempotent).
Released(o) ==
    \/ Runtime!Release(Locker, o)
    \/ alloc[o] = "RELEASED" /\ UNCHANGED runtimeVars
Committed(o) ==
    \/ Runtime!Commit(Locker, o)
    \/ alloc[o] = "COMMITTED" /\ UNCHANGED runtimeVars

\* A release that failed for the caller, whether it took effect or not.
ReleaseFailed(o) == Runtime!Release(Locker, o) \/ UNCHANGED runtimeVars

-----------------------------------------------------------------------------
\* create_order_core: a drawer is reserved in the runtime ...
Goto(o, step) == creating' = [creating EXCEPT ![o] = step]

Reserve(o) ==
    /\ creating[o] = "reserve"
    /\ \E s \in Slots : Runtime!Allocate(Locker, s, o)
    /\ Goto(o, "persist")
    /\ UNCHANGED <<deadlineVars, orderVars, paying, comp, consumerVars, otherVars>>

\* ... the order and its allocation are committed ...
Store(o) ==
    /\ order' = [order EXCEPT ![o] = "PAYMENT_PENDING"]
    /\ local' = [local EXCEPT ![o] = "RESERVED_PENDING_PAYMENT"]
    /\ UNCHANGED ready

Persist(o) ==
    /\ creating[o] = "persist"
    /\ Store(o)
    /\ Goto(o, "register")
    /\ UNCHANGED <<runtimeVars, deadlineVars, paying, comp, consumerVars, otherVars>>

\* (which may fail, even after the commit, and then the drawer is given back,
\* if the runtime answers)
PersistFails(o) ==
    /\ creating[o] = "persist"
    /\ Store(o) \/ UNCHANGED orderVars
    /\ Goto(o, "giveback")
    /\ UNCHANGED <<runtimeVars, deadlineVars, paying, comp, consumerVars, otherVars>>

GiveBack(o) ==
    /\ creating[o] = "giveback"
    /\ ReleaseFailed(o)
    /\ Goto(o, "gone")
    /\ UNCHANGED <<deadlineVars, orderVars, paying, comp, consumerVars, otherVars>>

\* ... and its deadline is registered.  Then the customer gets an answer.
Register(o) ==
    /\ creating[o] = "register"
    /\ Lifecycle!CreateDeadline(o)
    /\ Goto(o, "answered")
    /\ UNCHANGED <<runtimeVars, orderVars, paying, comp, consumerVars, otherVars>>

RegisterFails(o) ==
    /\ creating[o] = "register"
    /\ Lifecycle!CreateDeadline(o) \/ UNCHANGED deadlineVars
    /\ Goto(o, "compensate")
    /\ UNCHANGED <<runtimeVars, orderVars, paying, comp, consumerVars, otherVars>>

\* compensate_failed_online_creation: release, whatever comes of it, and delete.
Compensate(o) ==
    /\ creating[o] = "compensate"
    /\ ReleaseFailed(o)
    /\ Goto(o, "delete")
    /\ UNCHANGED <<deadlineVars, orderVars, paying, comp, consumerVars, otherVars>>

DeleteOrder(o) ==
    /\ creating[o] = "delete"
    /\ order' = [order EXCEPT ![o] = None]
    /\ local' = [local EXCEPT ![o] = None]
    /\ Goto(o, "gone")
    /\ UNCHANGED <<runtimeVars, deadlineVars, ready, paying, comp, consumerVars,
                   otherVars>>

\* The handler dies, or the call it waits for or its own commit fails: the order
\* may be left unpaid without a deadline.
CreateDies(o) ==
    /\ creating[o] \notin {"reserve", "answered", "gone"}
    /\ Goto(o, "gone")
    /\ UNCHANGED <<runtimeVars, deadlineVars, orderVars, paying, comp,
                   consumerVars, otherVars>>

-----------------------------------------------------------------------------
PayGoto(o, step) == paying' = [paying EXCEPT ![o] = step]

\* The customer acts on an order, as it is assumed here, when its creation is over:
\* answered, or dead, which leaves a row the customer finds like any other.
Created(o) == creating[o] \in {"answered", "gone"}

\* Mutant: the timeout is cancelled before the payment is committed.
PayReadCancels(o) ==
    /\ Created(o)
    /\ paying[o] = "idle"
    /\ order[o] = "PAYMENT_PENDING"
    /\ PayGoto(o, "cancel1")
    /\ UNCHANGED <<runtimeVars, deadlineVars, orderVars, creating, comp,
                   consumerVars, otherVars>>

\* payment_confirm reads the order.  A paid order is answered ok at once.
PayRead(o) ==
    /\ Created(o)
    /\ paying[o] = "idle"
    /\ \/ /\ order[o] = "PAID_PENDING_PICKUP"
          /\ confirmed' = confirmed \cup {o}
          /\ UNCHANGED paying
       \/ /\ order[o] = "PAYMENT_PENDING"
          /\ PayGoto(o, "apply")
          /\ UNCHANGED confirmed
    /\ UNCHANGED <<runtimeVars, deadlineVars, orderVars, creating, comp,
                   consumerVars, recon, acked, asked, voided>>

\* apply_payment_confirmation commits the payment over what it has read.
PayApply(o) ==
    /\ paying[o] = "apply"
    /\ paid' = paid \cup {o}
    /\ order' = [order EXCEPT ![o] = "PAID_PENDING_PICKUP"]
    /\ PayGoto(o, "cancel1")
    /\ UNCHANGED <<runtimeVars, status, due, event, shown, wpc, todo, cur, cancels, seen,
                   ccall, revoked, stranded, local, ready, creating, comp,
                   consumerVars, otherVars>>

\* The timeout is cancelled, in the lifecycle service's two steps ...
PayCancelRead(o) ==
    /\ paying[o] \in {"cancel1", "cancel2"}
    /\ Lifecycle!CancelRead(o, o)
    /\ UNCHANGED <<runtimeVars, orderVars, handlerVars, consumerVars, otherVars>>

\* ... with the answer: cancelled, or nothing to cancel.
PayCancelled(o) ==
    /\ paying[o] \in {"cancel1", "cancel2"}
    /\ \/ Lifecycle!CancelWrite(o)
       \/ /\ ccall[o] = None
          /\ status[o] \in {None, "EXECUTED", "CANCELLED"}
          /\ UNCHANGED deadlineVars
    /\ PayGoto(o, IF paying[o] = "cancel1" THEN "commit" ELSE "idle")
    /\ confirmed' = IF paying[o] = "cancel2" THEN confirmed \cup {o} ELSE confirmed
    /\ UNCHANGED <<runtimeVars, orderVars, creating, comp, consumerVars, recon, acked,
                   asked, voided>>

\* Mutant: the answer of the runtime is not looked at.
PayCommitIgnored(o) ==
    /\ paying[o] = "commit"
    /\ Committed(o) \/ UNCHANGED runtimeVars
    /\ PayGoto(o, "finish")
    /\ UNCHANGED <<deadlineVars, orderVars, creating, comp, consumerVars, otherVars>>

\* The runtime commits the reservation (a refusal is a 502, see PayFails).
PayCommit(o) ==
    /\ paying[o] = "commit"
    /\ Committed(o)
    /\ PayGoto(o, "finish")
    /\ UNCHANGED <<deadlineVars, orderVars, creating, comp, consumerVars, otherVars>>

\* Allocation, pickup and token are committed; the timeout is cancelled again.
PayFinish(o) ==
    /\ paying[o] = "finish"
    /\ local' = [local EXCEPT ![o] = "RESERVED_PAID_PENDING_PICKUP"]
    /\ ready' = ready \cup {o}
    /\ PayGoto(o, "cancel2")
    /\ UNCHANGED <<runtimeVars, deadlineVars, order, creating, comp, consumerVars,
                   otherVars>>

\* The handler dies or answers an error; a call it made may have taken effect.
\* The caller may confirm again.
PayFails(o) ==
    /\ paying[o] # "idle"
    /\ ccall[o] = None
    /\ PayGoto(o, "idle")
    /\ UNCHANGED <<runtimeVars, deadlineVars, orderVars, creating, comp,
                   consumerVars, otherVars>>

-----------------------------------------------------------------------------
CompGoto(w, o, r) == comp' = [comp EXCEPT ![<<w, o>>] = r]

\* What a compensator finds in the rows of order o.
Found(o) == [step |-> "release", order |-> order[o], local |-> local[o],
             pickup |-> o \in ready, released |-> FALSE]

\* The customer cancels an order that is not paid, or is cancelled already.
CancelOrder(o) ==
    /\ Created(o)
    /\ comp[<<"customer", o>>] = NotCompensating
    /\ order[o] \in {"PAYMENT_PENDING", "CANCELLED"}
    /\ CompGoto("customer", o, Found(o))
    /\ asked' = asked \cup {o}
    /\ UNCHANGED <<runtimeVars, deadlineVars, orderVars, creating, paying, consumerVars,
                   recon, confirmed, acked, voided>>

\* The retry job claims what is queued, or was claimed by a job that died, and
\* reads the order, whatever it has become.
RetryOrder(o) ==
    /\ comp[<<"retry", o>>] = NotCompensating
    /\ recon[o] \in {"PENDING", "PROCESSING"}
    /\ recon' = [recon EXCEPT ![o] = "PROCESSING"]
    /\ CompGoto("retry", o, Found(o))
    /\ UNCHANGED <<runtimeVars, deadlineVars, orderVars, creating, paying, consumerVars,
                   historyVars>>

\* reconcile_order_compensation releases the drawer and goes on either way.
CompRelease(w, o) ==
    LET c == comp[<<w, o>>] IN
    /\ c.step = "release"
    /\ \/ Released(o) /\ CompGoto(w, o, [c EXCEPT !.step = "save", !.released = TRUE])
       \/ ReleaseFailed(o) /\ CompGoto(w, o, [c EXCEPT !.step = "save"])
    /\ UNCHANGED <<deadlineVars, orderVars, creating, paying, consumerVars, otherVars>>

\* The allocation and the pickup of c, as its commit leaves them: a column is
\* written where it differs from what was read.
SaveRows(o, c) ==
    /\ local' = IF c.released /\ c.local # "RELEASED"
                THEN [local EXCEPT ![o] = "RELEASED"] ELSE local
    /\ ready' = IF c.pickup THEN ready \ {o} ELSE ready

\* The cancellation is committed, and a failed release queued for the retry
\* job, once: not while it is retried nor after it was done.
CancelSave(o) ==
    LET c == comp[<<"customer", o>>] IN
    /\ c.step = "save"
    /\ order' = IF c.order = "CANCELLED" THEN order ELSE [order EXCEPT ![o] = "CANCELLED"]
    /\ SaveRows(o, c)
    /\ recon' = IF c.released \/ recon[o] \in {"PROCESSING", "DONE"}
                THEN recon ELSE [recon EXCEPT ![o] = "PENDING"]
    /\ CompGoto("customer", o, NotCompensating)
    /\ voided' = voided \cup {o}
    /\ UNCHANGED <<runtimeVars, deadlineVars, creating, paying, consumerVars, confirmed,
                   acked, asked>>

\* Mutant: the retry is marked done whatever came of it.
RetryDone(o) ==
    LET c == comp[<<"retry", o>>] IN
    /\ c.step = "save"
    /\ SaveRows(o, c)
    /\ recon' = [recon EXCEPT ![o] = "DONE"]
    /\ CompGoto("retry", o, NotCompensating)
    /\ UNCHANGED <<runtimeVars, deadlineVars, order, creating, paying, consumerVars,
                   historyVars>>

\* The retry is committed: done, or to be tried again unless its attempts are
\* used up.  What it wrote is committed with the failure as well.
RetrySave(o) ==
    LET c == comp[<<"retry", o>>] IN
    /\ c.step = "save"
    /\ SaveRows(o, c)
    /\ \E r \in IF c.released THEN ReconStates \ {"PROCESSING"}
                              ELSE {"PENDING", "FAILED_FINAL"} :
            recon' = [recon EXCEPT ![o] = r]
    /\ CompGoto("retry", o, NotCompensating)
    /\ UNCHANGED <<runtimeVars, deadlineVars, order, creating, paying, consumerVars,
                   historyVars>>

CompDies(w, o) ==
    /\ comp[<<w, o>>] # NotCompensating
    /\ CompGoto(w, o, NotCompensating)
    /\ UNCHANGED <<runtimeVars, deadlineVars, orderVars, creating, paying, consumerVars,
                   otherVars>>

-----------------------------------------------------------------------------
\* run_lifecycle_events_consumer_once lists the pending events ...
Poll ==
    /\ batch = {} /\ handling = NotHandling
    /\ Lifecycle!ListPending
    /\ batch' = Lifecycle!Pending
    /\ UNCHANGED <<runtimeVars, orderVars, handlerVars, handling, otherVars>>

\* ... reads the order of each ...
HandleRead(o) ==
    /\ handling = NotHandling
    /\ o \in batch
    /\ handling' = [order |-> o, expires |-> order[o] = "PAYMENT_PENDING"]
    /\ batch' = batch \ {o}
    /\ UNCHANGED <<runtimeVars, deadlineVars, orderVars, handlerVars, otherVars>>

\* Mutant: the cancellation is not committed.
HandleNothing ==
    /\ handling.expires
    /\ handling' = [handling EXCEPT !.expires = FALSE]
    /\ UNCHANGED <<runtimeVars, deadlineVars, orderVars, handlerVars, batch, otherVars>>

\* ... cancels it if it was unpaid ...
HandleWrite ==
    LET o == handling.order IN
    /\ handling.expires
    /\ order' = [order EXCEPT ![o] = "CANCELLED"]
    /\ local' = [local EXCEPT ![o] = "RELEASED"]
    /\ handling' = [handling EXCEPT !.expires = FALSE]
    /\ UNCHANGED <<runtimeVars, deadlineVars, ready, handlerVars, batch, otherVars>>

\* ... and acknowledges the event, or finds it published.
HandleAck ==
    LET o == handling.order IN
    /\ o # None /\ ~handling.expires
    /\ Lifecycle!Ack(o) \/ (event[o] = "PUBLISHED" /\ UNCHANGED deadlineVars)
    /\ handling' = NotHandling
    /\ acked' = acked \cup {o}
    /\ UNCHANGED <<runtimeVars, orderVars, handlerVars, batch, recon, confirmed, asked,
                   voided>>

\* An error skips the event until the next poll; a crash skips the batch.
ConsumerFails ==
    /\ handling # NotHandling \/ batch # {}
    /\ handling' = NotHandling
    /\ batch' = {} \/ (handling # NotHandling /\ batch' = batch)
    /\ UNCHANGED <<runtimeVars, deadlineVars, orderVars, handlerVars, otherVars>>

Consume == Poll \/ (\E o \in Orders : HandleRead(o)) \/ HandleWrite \/ HandleAck

-----------------------------------------------------------------------------
\* The lifecycle service's own steps: its workers, their crashes, its clock.
Work(w) ==
    /\ Lifecycle!RunOnce(w)
    /\ UNCHANGED <<runtimeVars, orderVars, handlerVars, consumerVars, otherVars>>

Disturb ==
    /\ \/ \E o \in Orders : Lifecycle!BecomeDue(o)
       \/ \E w \in Workers : Lifecycle!Crash(w)
    /\ UNCHANGED <<runtimeVars, orderVars, handlerVars, consumerVars, otherVars>>

Create(o) == \/ Reserve(o) \/ Persist(o) \/ PersistFails(o) \/ GiveBack(o) \/ Register(o)
             \/ RegisterFails(o) \/ Compensate(o) \/ DeleteOrder(o) \/ CreateDies(o)
Payment(o) == \/ PayRead(o) \/ PayApply(o) \/ PayCancelRead(o) \/ PayCancelled(o)
              \/ PayCommit(o) \/ PayFinish(o) \/ PayFails(o)
Compensation(o) ==
    \/ CancelOrder(o) \/ CancelSave(o) \/ RetryOrder(o) \/ RetrySave(o)
    \/ \E w \in Compensators : CompRelease(w, o) \/ CompDies(w, o)

Next ==
    \/ \E o \in Orders : Create(o) \/ Payment(o) \/ Compensation(o)
    \/ Consume \/ ConsumerFails
    \/ (\E w \in Workers : Work(w)) \/ Disturb

Spec == Init /\ [][Next]_vars

\* The loops of the workers and of the consumer never stop, and an error of the
\* consumer does not come back for ever.  Customers promise nothing.
FairSpec ==
    /\ Spec
    /\ \A w \in Workers : WF_vars(Work(w))
    /\ WF_vars(Consume)
    /\ \A o \in Orders : SF_vars(HandleRead(o))
    /\ SF_vars(HandleWrite)

-----------------------------------------------------------------------------
TypeOK ==
    /\ Runtime!TypeOK /\ Lifecycle!TypeOK
    /\ order \in [Orders -> OrderStates \cup {None}]
    /\ local \in [Orders -> LocalStates \cup {None}]
    /\ creating \in [Orders -> CreateSteps]
    /\ paying \in [Orders -> PaySteps]
    /\ comp \in [Compensators \X Orders ->
                  [step : {"idle", "release", "save"}, order : OrderStates \cup {None},
                   local : LocalStates \cup {None}, pickup : BOOLEAN, released : BOOLEAN]]
    /\ handling \in [order : Orders \cup {None}, expires : BOOLEAN]
    /\ recon \in [Orders -> ReconStates \cup {None}]
    /\ ready \cup batch \cup confirmed \cup acked \cup asked \cup voided \subseteq Orders

\* An unpaid order is watched: its deadline is still to be executed, or was and the
\* consumer has not acknowledged its event, or is marked FAILED.  A deadline is never
\* cancelled before the payment is committed, nor an event acknowledged before the
\* order is closed, however payment, worker and consumer interleave and fail.  Only an
\* order whose creation was never answered may have no deadline at all.
UnpaidIsWatched ==
    \A o \in Orders : order[o] = "PAYMENT_PENDING" =>
        \/ status[o] = None /\ creating[o] # "answered"
        \/ status[o] \in {"PENDING", "EXECUTING", "FAILED"}
        \/ status[o] = "EXECUTED" /\ o \notin acked

\* A pickup that is ready holds its drawer, paid in the runtime as well: the
\* timeout and its consumer, however they race with the payment, never take it.
\* Only a cancellation the customer asked for can.
ReadyHolds ==
    \A o \in ready \ asked :
        alloc[o] = "COMMITTED" /\ door[at[o]] = "PAID_PENDING_PICKUP"

\* A cancellation that was answered ok has given the drawer back, or the retry
\* job knows of it (until it gives up).
NoLostRelease ==
    \A o \in voided :
        alloc[o] = "RELEASED" \/ recon[o] \in {"PENDING", "PROCESSING", "FAILED_FINAL"}

\* An order whose deadline has passed does not stay unpaid, unless its deadline
\* FAILED or its worker died (and no other deadline's worker publishes its
\* event: see PublishedWasShown in Deadlines).
UnpaidIsClosed ==
    \A o \in Orders :
        (order[o] = "PAYMENT_PENDING" /\ o \in due) ~>
            (order[o] # "PAYMENT_PENDING" \/ status[o] = "FAILED" \/ o \in stranded)

\* docs/architecture/ellan_order_full_flow.md, 5B: an allocation that ends
\* RELEASED has its slot AVAILABLE again, given back by locker_release.
ReleasedIsFree == \A o \in Orders : local[o] = "RELEASED" => alloc[o] = "RELEASED"

\* docs/architecture/ellan_order_full_flow.md, 5A: a confirmed payment leaves the
\* order PAID_PENDING_PICKUP and its pickup ACTIVE.
ConfirmedIsReady ==
    \A o \in confirmed : order[o] = "PAID_PENDING_PICKUP" /\ o \in ready
=============================================================================
