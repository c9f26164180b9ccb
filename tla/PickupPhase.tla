---------------------------- MODULE PickupPhase ----------------------------
(***************************************************************************)
(* A paid order until its drawer is given back: the redemption of an       *)
(* online order's token at the totem, the sale of a kiosk order, which     *)
(* opens its drawer at once, the job that expires what nobody picks up,    *)
(* the lifecycle worker that does so for kiosk orders, the customer's      *)
(* cancellation of what is overdue, and the consumer of the events they    *)
(* leave, composed with the locker runtime (SlotRuntime).                  *)
(*                                                                         *)
(* A handler is taken apart where it calls another service or commits.  It *)
(* may stop at any of these points, and so may a call that has taken       *)
(* effect fail.  Drawers are opened, and their states set, by number,      *)
(* whoever holds them by then.                                             *)
(***************************************************************************)
EXTENDS Integers, FiniteSets, SequencesExt

CONSTANTS
    Online,      \* online orders, each with its own allocation identifier
    Kiosk,       \* kiosk orders, likewise
    Locker,      \* the locker they are made at
    Slots,       \* its drawers
    Attempts,    \* redemptions of one token that may be under way at once
    None

VARIABLES
    door, alloc, at, lapsed,     \* SlotRuntime
    order,       \* order[o]: orders.status, or None (no row)
    overdue,     \* online orders whose pickup window, and token, has run out
    used,        \* online orders whose token has used_at
    redeeming,   \* redeeming[<<o, r>>]: next step of redemption r of o's token
    selling,     \* selling[k]: next step of the handler that sells kiosk order k
    timer,       \* timer[k]: status of k's PICKUP_TIMEOUT deadline, or None
    feed,        \* the PENDING domain events it acts on, oldest first
    stored,      \* every event ever stored: the event keys are unique
    batch,       \* events the consumer has listed and not yet handled
    handling,    \* [event, step]: the event it handles
    jobAt,       \* the expiry job: "expire" its orders, then "free" the drawers
    jobRead,     \* the order it has read and not yet committed, or None
    jobDone,     \* orders it has expired, whose drawers it has to free
    jobFree,     \* the order whose drawer it frees, or None
    cancelling,  \* <<o, p>>: a cancellation of o that is to take its step p next
    withdrawn,   \* online orders for which a cancellation has called the runtime
    failed,      \* orders whose drawer the job or the consumer failed to free
    early,       \* kiosk orders given back before their event is handled (again)
    dropped      \* expiry events a worker published before they were handled

runtimeVars == <<door, alloc, at, lapsed>>
orderVars == <<order, overdue, used>>
eventVars == <<feed, stored, dropped>>
kioskVars == <<selling, timer>>
consumerVars == <<batch, handling, early>>
jobVars == <<jobAt, jobRead, jobDone, jobFree>>
cancelVars == <<cancelling, withdrawn>>
vars == <<runtimeVars, orderVars, redeeming, kioskVars, eventVars, consumerVars,
          jobVars, cancelVars, failed>>

Orders == Online \cup Kiosk
Runtime == INSTANCE SlotRuntime WITH Machines <- {Locker}, AllocIds <- Orders

OnlineStates == {"PAYMENT_PENDING", "PAID_PENDING_PICKUP", "PICKED_UP", "DISPENSED",
                 "EXPIRED", "CANCELLED"}
\* What execute_pickup_timeout finds open; the other states are terminal.
OpenStates == {"PAYMENT_PENDING", "PAID_PENDING_PICKUP"}
KioskStates == OpenStates \cup {"DISPENSED", "EXPIRED"}
TimerStates == {"PENDING", "EXECUTING", "EXECUTED", "FAILED"}
RedeemSteps == {"idle", "open", "door_opened", "door_closed", "save"}
SellSteps == {"idle", "commit", "register", "door_opened", "open", "save"}
CancelSteps == {"release", "save", "repeat"}
\* The events run_lifecycle_events_consumer_once acts on.  It passes over the
\* others (created, ready_for_pickup, item_removed, redeemed) without an
\* acknowledgement; they are left out.
Events == [name : {"door_opened", "door_closed", "expired"}, order : Orders]

ASSUME OrdersAssumption == Online \cap Kiosk = {}
ASSUME NoneAssumption ==
    /\ None \notin Orders \cup Runtime!Doors \cup Runtime!SlotStates \cup Runtime!AllocStates
    /\ None \notin OnlineStates \cup TimerStates \cup Events

NotHandling == [event |-> None, step |-> "idle"]

Init ==
    /\ Runtime!Init
    /\ order = [o \in Orders |-> None]
    /\ overdue = {} /\ used = {}
    /\ redeeming = [t \in Online \X Attempts |-> "idle"]
    /\ selling = [k \in Kiosk |-> "idle"]
    /\ timer = [k \in Kiosk |-> None]
    /\ feed = <<>> /\ stored = {} /\ dropped = {}
    /\ batch = <<>> /\ handling = NotHandling /\ early = {}
    /\ jobAt = "expire" /\ jobRead = None /\ jobDone = {} /\ jobFree = None
    /\ cancelling = {} /\ withdrawn = {}
    /\ failed = {}

-----------------------------------------------------------------------------
\* The runtime's answer to a release: done now, done before (200), or an error,
\* whether it took effect or not.
Released(o) ==
    \/ Runtime!Release(Locker, o)
    \/ alloc[o] = "RELEASED" /\ UNCHANGED runtimeVars
ReleaseFailed(o) == Runtime!Release(Locker, o) \/ UNCHANGED runtimeVars

\* POST set-state for the drawer of o's allocation.
SetDrawer(o, state) == Runtime!SetSlotState(Locker, at[o][2], state)
SetDrawerFailed(o, state) == SetDrawer(o, state) \/ UNCHANGED runtimeVars

\* POST /internal/pickup-events: an event key is stored once.
Event(name, o) == [name |-> name, order |-> o]
Publish(name, o) ==
    /\ feed' = IF Event(name, o) \in stored THEN feed ELSE Append(feed, Event(name, o))
    /\ stored' = stored \cup {Event(name, o)}
    /\ UNCHANGED dropped

-----------------------------------------------------------------------------
\* A drawer is reserved for an online order or a kiosk order, which is committed,
\* unless its creation fails: then the drawer stays reserved, or it is released,
\* as if nothing had happened ...
Book(o) ==
    /\ order[o] = None
    /\ \E s \in Slots : Runtime!Allocate(Locker, s, o)
    /\ order' \in {[order EXCEPT ![o] = "PAYMENT_PENDING"], order}
    /\ UNCHANGED <<overdue, used, redeeming, kioskVars, eventVars, consumerVars,
                   jobVars, cancelVars, failed>>

\* ... and it is paid (OnlineOrder takes the two handlers apart).  payment_confirm looks
\* at no channel; the sale of a kiosk order can go on when the runtime failed.
Pay(o) ==
    /\ order[o] = "PAYMENT_PENDING"
    /\ Runtime!Commit(Locker, o) \/ (o \in Kiosk /\ UNCHANGED runtimeVars)
    /\ order' = [order EXCEPT ![o] = "PAID_PENDING_PICKUP"]
    /\ UNCHANGED <<overdue, used, redeeming, kioskVars, eventVars, consumerVars,
                   jobVars, cancelVars, failed>>

\* Its pickup window ends, and its token with it.
WindowEnds(o) ==
    /\ order[o] \notin {None, "PAYMENT_PENDING"}
    /\ o \notin overdue
    /\ overdue' = overdue \cup {o}
    /\ UNCHANGED <<runtimeVars, order, used, redeeming, kioskVars, eventVars,
                   consumerVars, jobVars, cancelVars, failed>>

-----------------------------------------------------------------------------
RedeemGoto(o, r, step) == redeeming' = [redeeming EXCEPT ![<<o, r>>] = step]

\* totem_redeem: the token is unused and its window open.  The order's status
\* is not looked at.
RedeemRead(o, r) ==
    /\ redeeming[<<o, r>>] = "idle"
    /\ order[o] \notin {None, "PAYMENT_PENDING"}
    /\ o \notin used /\ o \notin overdue
    /\ RedeemGoto(o, r, "open")
    /\ UNCHANGED <<runtimeVars, orderVars, kioskVars, eventVars, consumerVars,
                   jobVars, cancelVars, failed>>

\* The drawer is opened and marked OUT_OF_STOCK, both by its number ...
RedeemOpen(o, r) ==
    /\ redeeming[<<o, r>>] = "open"
    /\ SetDrawer(o, "OUT_OF_STOCK")
    /\ RedeemGoto(o, r, "door_opened")
    /\ UNCHANGED <<orderVars, kioskVars, eventVars, consumerVars, jobVars,
                   cancelVars, failed>>

\* ... the events are published, each with a call of its own ...
RedeemPublish(o, r) ==
    LET step == redeeming[<<o, r>>] IN
    /\ step \in {"door_opened", "door_closed"}
    /\ Publish(step, o)
    /\ RedeemGoto(o, r, IF step = "door_opened" THEN "door_closed" ELSE "save")
    /\ UNCHANGED <<runtimeVars, orderVars, kioskVars, consumerVars, jobVars,
                   cancelVars, failed>>

\* ... and only then are the order and the used token committed, over whatever
\* the order has become.
RedeemSave(o, r) ==
    /\ redeeming[<<o, r>>] = "save"
    /\ order' = [order EXCEPT ![o] = "PICKED_UP"]
    /\ used' = used \cup {o}
    /\ RedeemGoto(o, r, "idle")
    /\ UNCHANGED <<runtimeVars, overdue, kioskVars, eventVars, consumerVars,
                   jobVars, cancelVars, failed>>

\* A call or the commit fails, or the handler dies.
RedeemFails(o, r) ==
    /\ redeeming[<<o, r>>] # "idle"
    /\ RedeemGoto(o, r, "idle")
    /\ UNCHANGED <<runtimeVars, orderVars, kioskVars, eventVars, consumerVars,
                   jobVars, cancelVars, failed>>

-----------------------------------------------------------------------------
SellGoto(k, step) == selling' = [selling EXCEPT ![k] = step]

\* _finalize_kiosk_payment.  The runtime has no route that returns an
\* allocation, so the drawer, RESERVED by whomever, stands for it ...
SellCheck(k) ==
    /\ selling[k] = "idle"
    /\ order[k] # None
    /\ door[at[k]] = "RESERVED"
    /\ SellGoto(k, "commit")
    /\ UNCHANGED <<runtimeVars, orderVars, redeeming, timer, eventVars,
                   consumerVars, jobVars, cancelVars, failed>>

\* ... unless the second look finds it in another state, and releases the
\* allocation ...
SellLost(k) ==
    /\ selling[k] = "commit"
    /\ door[at[k]] # "RESERVED"
    /\ ReleaseFailed(k)
    /\ SellGoto(k, "idle")
    /\ UNCHANGED <<orderVars, redeeming, timer, eventVars, consumerVars,
                   jobVars, cancelVars, failed>>

\* ... until the commit (409 if the allocation was released) ...
SellCommit(k) ==
    /\ selling[k] = "commit"
    /\ \/ Runtime!Commit(Locker, k)
       \/ alloc[k] = "COMMITTED" /\ UNCHANGED runtimeVars
    /\ SellGoto(k, "register")
    /\ UNCHANGED <<orderVars, redeeming, timer, eventVars, consumerVars,
                   jobVars, cancelVars, failed>>

\* ... the pickup's deadline is registered with the lifecycle service ...
SellRegister(k) ==
    /\ selling[k] = "register"
    /\ timer' = [timer EXCEPT ![k] = IF @ = None THEN "PENDING" ELSE @]
    /\ SellGoto(k, "door_opened")
    /\ UNCHANGED <<runtimeVars, orderVars, redeeming, eventVars, consumerVars,
                   jobVars, cancelVars, failed>>

\* ... the opening is published before it happens ...
SellPublish(k) ==
    /\ selling[k] = "door_opened"
    /\ Publish("door_opened", k)
    /\ SellGoto(k, "open")
    /\ UNCHANGED <<runtimeVars, orderVars, redeeming, timer, consumerVars,
                   jobVars, cancelVars, failed>>

SellOpen(k) ==
    /\ selling[k] = "open"
    /\ SetDrawer(k, "OUT_OF_STOCK")
    /\ SellGoto(k, "save")
    /\ UNCHANGED <<orderVars, redeeming, timer, eventVars, consumerVars,
                   jobVars, cancelVars, failed>>

\* Mutant: the sale is committed as a redemption is.
SellSavePicked(k) ==
    /\ selling[k] = "save"
    /\ order' = [order EXCEPT ![k] = "PICKED_UP"]
    /\ SellGoto(k, "idle")
    /\ UNCHANGED <<runtimeVars, overdue, used, redeeming, timer, eventVars,
                   consumerVars, jobVars, cancelVars, failed>>

\* ... and the order is committed DISPENSED, or, when the payment is simulated, marked
\* as paid once more and committed so.
SellSave(k) ==
    /\ selling[k] = "save"
    /\ \E s \in {"DISPENSED", "PAID_PENDING_PICKUP"} : order' = [order EXCEPT ![k] = s]
    /\ SellGoto(k, "idle")
    /\ UNCHANGED <<runtimeVars, overdue, used, redeeming, timer, eventVars,
                   consumerVars, jobVars, cancelVars, failed>>

SellFails(k) ==
    /\ selling[k] # "idle"
    /\ SellGoto(k, "idle")
    /\ UNCHANGED <<runtimeVars, orderVars, redeeming, timer, eventVars,
                   consumerVars, jobVars, cancelVars, failed>>

-----------------------------------------------------------------------------
\* What a transaction of the worker does with the feed: it publishes what is
\* PENDING, and stores the event of its own deadline.
Expired(k) ==
    /\ feed' = <<Event("expired", k)>>
    /\ stored' = stored \cup {Event("expired", k)}
    /\ dropped' = dropped \cup {e \in ToSet(feed) : e.name = "expired"}
    /\ timer' = [timer EXCEPT ![k] = "EXECUTED"]

\* execute_pickup_timeout, hours after the sale, finds the order closed ...
ExpireSold(k) ==
    /\ timer[k] = "PENDING" /\ selling[k] = "idle"
    /\ order[k] \notin OpenStates
    /\ Expired(k)
    /\ UNCHANGED <<runtimeVars, orderVars, redeeming, selling, consumerVars,
                   jobVars, cancelVars, failed>>

\* ... or open, because the sale failed or was committed as a payment, and gives the
\* drawer back itself: AVAILABLE by its number, then released (which leaves the same),
\* or one of them fails ...
ExpireOpen(k) ==
    /\ timer[k] = "PENDING" /\ selling[k] = "idle"
    /\ order[k] \in OpenStates
    /\ \/ Released(k) /\ timer' = [timer EXCEPT ![k] = "EXECUTING"]
       \/ /\ ReleaseFailed(k) \/ SetDrawer(k, "AVAILABLE")
          /\ timer' = [timer EXCEPT ![k] = "FAILED"]
    /\ UNCHANGED <<orderVars, redeeming, selling, eventVars, consumerVars,
                   jobVars, cancelVars, failed>>

\* ... before the order is committed EXPIRED (a kiosk order has no user to whom
\* a credit could be given).
ExpireCommit(k) ==
    /\ timer[k] = "EXECUTING"
    /\ order' = [order EXCEPT ![k] = "EXPIRED"]
    /\ Expired(k)
    /\ early' = early \cup {k}
    /\ UNCHANGED <<runtimeVars, overdue, used, redeeming, selling, batch,
                   handling, jobVars, cancelVars, failed>>

-----------------------------------------------------------------------------
\* run_lifecycle_events_consumer_once lists the oldest pending events ...
Poll ==
    /\ batch = <<>> /\ handling = NotHandling
    /\ feed # <<>>
    /\ batch' = feed
    /\ UNCHANGED <<runtimeVars, orderVars, redeeming, kioskVars, eventVars,
                   handling, early, jobVars, cancelVars, failed>>

\* ... commits what an opened and a closed door mean for the order ...
HandleDoor ==
    LET e == Head(batch) IN
    /\ handling = NotHandling /\ batch # <<>>
    /\ e.name # "expired"
    /\ order' = IF e.name = "door_closed" /\ order[e.order] = "PICKED_UP" THEN order
                ELSE [order EXCEPT ![e.order] = "DISPENSED"]
    /\ handling' = [event |-> e, step |-> "ack"]
    /\ batch' = Tail(batch)
    /\ UNCHANGED <<runtimeVars, overdue, used, redeeming, kioskVars, eventVars,
                   early, jobVars, cancelVars, failed>>

\* Mutant: a closed order is left alone.
HandleExpiredClosed ==
    LET e == Head(batch) IN
    /\ handling = NotHandling /\ batch # <<>>
    /\ e.name = "expired"
    /\ handling' = [event |-> e, step |-> "ack"]
    /\ batch' = Tail(batch)
    /\ UNCHANGED <<runtimeVars, orderVars, redeeming, kioskVars, eventVars,
                   early, jobVars, cancelVars, failed>>

\* ... and for an expiry, which always finds the order closed, frees the drawer
\* all the same: by its number ...
HandleExpired ==
    LET e == Head(batch) IN
    /\ handling = NotHandling /\ batch # <<>>
    /\ e.name = "expired"
    /\ handling' = [event |-> e, step |-> "set"]
    /\ batch' = Tail(batch)
    /\ UNCHANGED <<runtimeVars, orderVars, redeeming, kioskVars, eventVars,
                   early, jobVars, cancelVars, failed>>

HandleSet ==
    /\ handling.step = "set"
    /\ SetDrawerFailed(handling.event.order, "AVAILABLE")
    /\ handling' = [handling EXCEPT !.step = "release"]
    /\ UNCHANGED <<orderVars, redeeming, kioskVars, eventVars, batch, early,
                   jobVars, cancelVars, failed>>

\* ... and by its allocation; three failed attempts are logged.
HandleRelease ==
    /\ handling.step = "release"
    /\ \/ Released(handling.event.order) /\ UNCHANGED failed
       \/ /\ ReleaseFailed(handling.event.order)
          /\ failed' = failed \cup {handling.event.order}
    /\ handling' = [handling EXCEPT !.step = "ack"]
    /\ UNCHANGED <<orderVars, redeeming, kioskVars, eventVars, batch, early,
                   jobVars, cancelVars>>

\* The event is acknowledged (or was published by a worker meanwhile).
HandleAck ==
    /\ handling.step = "ack"
    /\ \/ \E i \in DOMAIN feed :
             feed[i] = handling.event /\ feed' = RemoveAt(feed, i)
       \/ handling.event \notin ToSet(feed) /\ UNCHANGED feed
    /\ handling' = NotHandling
    /\ UNCHANGED <<runtimeVars, orderVars, redeeming, kioskVars, stored,
                   dropped, batch, early, jobVars, cancelVars, failed>>

\* An error skips the event until a later poll; a crash skips the batch.
ConsumerFails ==
    /\ handling # NotHandling
    /\ early' = IF handling.event.name = "expired"
                THEN early \cup {handling.event.order} ELSE early
    /\ batch' \in {batch, <<>>}
    /\ handling' = NotHandling
    /\ UNCHANGED <<runtimeVars, orderVars, redeeming, kioskVars, eventVars,
                   jobVars, cancelVars, failed>>

Consume == Poll \/ HandleDoor \/ HandleExpired \/ HandleSet \/ HandleRelease \/ HandleAck

-----------------------------------------------------------------------------
\* Mutant: the deadline is not part of the query.
JobReadEarly(o) ==
    /\ jobAt = "expire" /\ jobRead = None
    /\ order[o] = "PAID_PENDING_PICKUP"
    /\ jobRead' = o
    /\ UNCHANGED <<runtimeVars, orderVars, redeeming, kioskVars, eventVars,
                   consumerVars, jobAt, jobDone, jobFree, cancelVars, failed>>

\* run_expiry_once reads a paid order whose pickup deadline has passed ...
JobRead(o) ==
    /\ jobAt = "expire" /\ jobRead = None
    /\ order[o] = "PAID_PENDING_PICKUP" /\ o \in overdue
    /\ jobRead' = o
    /\ UNCHANGED <<runtimeVars, orderVars, redeeming, kioskVars, eventVars,
                   consumerVars, jobAt, jobDone, jobFree, cancelVars, failed>>

\* Mutant: what is to be freed is not noted.
JobCommitOnly ==
    /\ jobRead # None
    /\ order' = [order EXCEPT ![jobRead] = "EXPIRED"]
    /\ jobRead' = None
    /\ UNCHANGED <<runtimeVars, overdue, used, redeeming, kioskVars, eventVars,
                   consumerVars, jobAt, jobDone, jobFree, cancelVars, failed>>

\* Mutant: the commit is forgotten.
JobCommitLost ==
    /\ jobRead # None
    /\ jobRead' = None
    /\ jobDone' = jobDone \cup {jobRead}
    /\ UNCHANGED <<runtimeVars, orderVars, redeeming, kioskVars, eventVars,
                   consumerVars, jobAt, jobFree, cancelVars, failed>>

\* ... and commits it EXPIRED, over what it has become since ...
JobCommit ==
    /\ jobRead # None
    /\ order' = [order EXCEPT ![jobRead] = "EXPIRED"]
    /\ jobRead' = None
    /\ jobDone' = jobDone \cup {jobRead}
    /\ UNCHANGED <<runtimeVars, overdue, used, redeeming, kioskVars, eventVars,
                   consumerVars, jobAt, jobFree, cancelVars, failed>>

\* ... or rolls back and goes on with the next.
JobFails ==
    /\ jobRead # None
    /\ jobRead' = None
    /\ UNCHANGED <<runtimeVars, orderVars, redeeming, kioskVars, eventVars,
                   consumerVars, jobAt, jobDone, jobFree, cancelVars, failed>>

\* When all are committed, the drawer of each is marked OUT_OF_STOCK ...
JobSet(o) ==
    /\ jobRead = None /\ jobFree = None
    /\ o \in jobDone
    /\ SetDrawerFailed(o, "OUT_OF_STOCK")
    /\ jobAt' = "free"
    /\ jobDone' = jobDone \ {o}
    /\ jobFree' = o
    /\ UNCHANGED <<orderVars, redeeming, kioskVars, eventVars, consumerVars,
                   jobRead, cancelVars, failed>>

\* ... and its allocation released; three failed attempts are logged.
JobRelease ==
    /\ jobFree # None
    /\ \/ Released(jobFree) /\ UNCHANGED failed
       \/ ReleaseFailed(jobFree) /\ failed' = failed \cup {jobFree}
    /\ jobFree' = None
    /\ jobAt' = IF jobDone = {} THEN "expire" ELSE "free"
    /\ UNCHANGED <<orderVars, redeeming, kioskVars, eventVars, consumerVars,
                   jobRead, jobDone, cancelVars>>

\* The process dies, and what it had to free is forgotten.
JobDies ==
    /\ jobDone # {} \/ jobFree # None
    /\ failed' = failed \cup jobDone \cup ({jobFree} \ {None})
    /\ jobAt' = "expire" /\ jobRead' = None /\ jobDone' = {} /\ jobFree' = None
    /\ UNCHANGED <<runtimeVars, orderVars, redeeming, kioskVars, eventVars,
                   consumerVars, cancelVars>>

Job == (\E o \in Online : JobRead(o) \/ JobSet(o)) \/ JobCommit \/ JobRelease

-----------------------------------------------------------------------------
\* A cancellation of o takes its step; others may be as far as it was.
CancelGoto(o, step, next) ==
    /\ <<o, step>> \in cancelling
    /\ \E rest \in {cancelling, cancelling \ {<<o, step>>}} :
          cancelling' = rest \cup ({o} \X next)

\* The customer cancels an order that is expired, or paid and overdue; one that is
\* cancelled already only has its drawer released again ...
CancelRead(o) ==
    /\ \/ /\ \/ order[o] = "EXPIRED"
             \/ order[o] = "PAID_PENDING_PICKUP" /\ o \in overdue
          /\ cancelling' = cancelling \cup {<<o, "release">>}
       \/ /\ order[o] = "CANCELLED"
          /\ cancelling' = cancelling \cup {<<o, "repeat">>}
    /\ UNCHANGED <<runtimeVars, orderVars, redeeming, kioskVars, eventVars,
                   consumerVars, jobVars, withdrawn, failed>>

\* ... which may fail ...
CancelRelease(o) ==
    /\ Released(o) \/ ReleaseFailed(o)
    /\ CancelGoto(o, "release", {"save"})
    /\ withdrawn' = withdrawn \cup {o}
    /\ UNCHANGED <<orderVars, redeeming, kioskVars, eventVars, consumerVars,
                   jobVars, failed>>

\* ... and commits it CANCELLED, over what it has become since, with a failed
\* release queued, unless that fails too.
CancelSave(o) ==
    /\ \E next \in {{}, {"repeat"}} : CancelGoto(o, "save", next)
    /\ order' = [order EXCEPT ![o] = "CANCELLED"]
    /\ UNCHANGED <<runtimeVars, overdue, used, redeeming, kioskVars, eventVars,
                   consumerVars, jobVars, withdrawn, failed>>

\* run_reconciliation_retry_once releases what is queued, whatever the order is.
CancelRepeat(o) ==
    /\ Released(o) \/ ReleaseFailed(o)
    /\ CancelGoto(o, "repeat", {})
    /\ UNCHANGED <<orderVars, redeeming, kioskVars, eventVars, consumerVars,
                   jobVars, withdrawn, failed>>

CancelFails(o) ==
    /\ \E step \in CancelSteps :
          <<o, step>> \in cancelling /\ cancelling' = cancelling \ {<<o, step>>}
    /\ UNCHANGED <<runtimeVars, orderVars, redeeming, kioskVars, eventVars,
                   consumerVars, jobVars, withdrawn, failed>>

Cancel(o) ==
    \/ CancelRead(o) \/ CancelRelease(o) \/ CancelSave(o) \/ CancelRepeat(o) \/ CancelFails(o)

-----------------------------------------------------------------------------
Redeem(o, r) ==
    \/ RedeemRead(o, r) \/ RedeemOpen(o, r) \/ RedeemPublish(o, r)
    \/ RedeemSave(o, r) \/ RedeemFails(o, r)

Sell(k) ==
    \/ SellCheck(k) \/ SellLost(k) \/ SellCommit(k) \/ SellRegister(k)
    \/ SellPublish(k) \/ SellOpen(k) \/ SellSave(k) \/ SellFails(k)

Next ==
    \/ \E o \in Orders : Book(o) \/ Pay(o)
    \/ \E o \in Online :
          WindowEnds(o) \/ Cancel(o) \/ \E r \in Attempts : Redeem(o, r)
    \/ \E k \in Kiosk : Sell(k) \/ ExpireSold(k) \/ ExpireOpen(k) \/ ExpireCommit(k)
    \/ Consume \/ ConsumerFails
    \/ Job \/ JobFails \/ JobDies

Spec == Init /\ [][Next]_vars

\* The loops of the job and of the consumer never stop, and their errors do not come
\* back for ever.  Customers, the worker and the reconciliation promise nothing.
FairSpec ==
    /\ Spec
    /\ WF_vars(Consume)
    /\ SF_vars(HandleRelease) /\ SF_vars(HandleExpired) /\ SF_vars(HandleSet)
    /\ WF_vars(Job)
    /\ SF_vars(JobCommit)

-----------------------------------------------------------------------------
TypeOK ==
    /\ Runtime!TypeOK
    /\ order \in [Orders -> OnlineStates \cup {None}]
    /\ \A k \in Kiosk : order[k] \in KioskStates \cup {None}
    /\ overdue \cup used \cup jobDone \cup withdrawn \subseteq Online
    /\ cancelling \subseteq Online \X CancelSteps
    /\ redeeming \in [Online \X Attempts -> RedeemSteps]
    /\ selling \in [Kiosk -> SellSteps]
    /\ timer \in [Kiosk -> TimerStates \cup {None}]
    /\ feed \in Seq(Events) /\ batch \in Seq(Events)
    /\ stored \cup dropped \subseteq Events
    /\ handling \in [event : Events \cup {None}, step : {"idle", "set", "release", "ack"}]
    /\ jobAt \in {"expire", "free"}
    /\ {jobRead, jobFree} \subseteq Online \cup {None}
    /\ early \subseteq Kiosk /\ failed \subseteq Orders

\* Whoever is about to open a drawer or to set its state, by its number, acts for
\* the order that holds it: two redemptions of one token, a sale, the expiry job
\* and the consumer never touch the drawer of another customer.  The exceptions
\* are a redemption still under way when its window ends, the expiry event of a
\* kiosk order whose drawer was freed before, and the job when the order's customer
\* has cancelled it: the drawer is released then before the job marks it.
ActsOnOwnDrawer ==
    /\ \A o \in Online, r \in Attempts :
          redeeming[<<o, r>>] = "open" => alloc[o] = "COMMITTED" \/ o \in overdue
    /\ \A k \in Kiosk :
          selling[k] = "open" \/ (timer[k] = "PENDING" /\ order[k] \in OpenStates)
              => alloc[k] = "COMMITTED"
    /\ \A o \in jobDone \ withdrawn : alloc[o] = "COMMITTED"
    /\ handling.step = "set" =>
          LET k == handling.event.order IN alloc[k] = "COMMITTED" \/ k \in early

\* An expired order's drawer is free again, or the job that expired it still has
\* to free it, unless it died or the runtime never answered.
ExpiredIsFreed ==
    \A o \in Online :
        order[o] = "EXPIRED" =>
            alloc[o] = "RELEASED" \/ o \in jobDone \cup {jobFree} \cup failed

\* An order nobody picks up does not stay paid for ever.
OverdueIsClosed ==
    \A o \in Online :
        (order[o] = "PAID_PENDING_PICKUP" /\ o \in overdue) ~>
            order[o] # "PAID_PENDING_PICKUP"

\* A kiosk drawer, which nobody else gives back, is given back when its pickup
\* deadline has been executed, unless the call fails, or another deadline's
\* worker publishes the event before it is handled.
KioskGivenBack ==
    \A k \in Kiosk :
        timer[k] = "EXECUTED" ~>
            (alloc[k] = "RELEASED" \/ k \in failed \/ Event("expired", k) \in dropped)

=============================================================================
