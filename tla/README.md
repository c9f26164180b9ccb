# Verification of the ELLAN Lab locker platform

TLA+ models of the smart-locker platform in `src/01_source`, checked with TLC
and proved with TLAPS. The platform sells products out of locker drawers: a
customer reserves a drawer online, pays within a deadline and opens the drawer
with a token before another deadline. Three services keep one order in step, each with a
database of its own and no transaction that spans two of them. That is where it is hard,
and what is modelled here.

## The system

| Component | State | Operations | Hard behaviour |
|---|---|---|---|
| locker runtime (`backend/runtime`) | `door_state`, `allocations` (sqlite) | allocate, commit, release, expire, set-state, bootstrap | one connection shared by all threads; set-state ignores leases; late and repeated calls |
| lifecycle service (`backend/order_lifecycle_service`) | `lifecycle_deadlines`, `domain_events` | register and cancel deadlines, two timeout workers, pending events, acknowledgement | competing workers, crashes between claim and commit, rows written over without a version check |
| order service (`order_pickup_service`) | `orders`, `allocations`, `pickups`, `pickup_tokens`, `reconciliation_pending`, credits, inventory, outboxes | creation, payment-confirm, cancellation, retry of compensations, events consumer, redemption, expiry | calls to the other two between its own commits; partial failure; retries |
| payment gateway (`payment_gateway`) | idempotency keys, risk events | pay, confirm, set the drawer paid | keys stored after the effect |
| billing and fiscal service (`backend/billing_fiscal_service`) | `invoices`, processed events, postings | create, issue, correct, cancel, reset, refresh, report | claims that go stale or never do, answers of the tax authority that are lost, commits over what others wrote |
| others | | inventory, wallet, notification, logistics, partner and catalog services, ML predictor, simulator, user interfaces, skeletons | |

How they interact. Creating an order calls the runtime's *allocate*, commits the order,
then registers a deadline with the lifecycle service. A payment confirmation commits the
payment, cancels the deadline, calls the runtime's *commit*, and commits pickup and
token. A lifecycle worker that executes a deadline records a domain event; the order
service polls the pending events, applies them and acknowledges each. A cancellation
calls *release* and queues what failed for a retry job. A redemption opens the drawer
and marks it OUT_OF_STOCK by its number, publishes events, and only then commits. The
billing service reads `order.paid` events and asks the order service for the order. All
calls are HTTP: a call that fails may have taken effect.

What makes each correct: the **runtime** never leases one drawer twice, and a lease only
ends by a request that names it. The **lifecycle service** executes a deadline at most
once, tells of every timeout, and lets none rest. The **order service** agrees with
both: a ready pickup has its drawer, an unpaid order keeps its deadline until it is
closed, a closed order gives its drawer back, nobody acts on a drawer that another
customer holds, a credit is spent once, reserved stock is not sold, and a partner's
event is delivered or given up. The **billing service** files one document per order and
leaves none pending.

## Modules

- `DoorLease` – the promise: a drawer has at most one holder, an identifier is
  used once, and only a current holder is confirmed.
- `SlotRuntime` – the runtime, one atomic action per request handler of
  `routers/allocations.py` and `routers/locker_state.py`. `door` and `alloc`
  are the two tables. A refused request changes nothing and is a stuttering
  step. `ImplementsLease` maps the active allocation of a door to its holder.
- `RuntimeConnection` – the handlers taken apart into SQL statements on the
  shared connection of `core/db.py`: the stored tables, the connection's view
  of them, the place of each request, commits, rollbacks and restarts.
  `ImplementsRuntime` maps it to `SlotRuntime`.
- `Deadlines` – the lifecycle service: table of deadlines, events, API, and
  the workers' `run_once` with its claim, its transaction (`Load` reads,
  `Commit...` writes), its error handler and crashes.
- `OnlineOrder` – the order service until an order is ready or closed,
  composed with `SlotRuntime` and `Deadlines` (`INSTANCE ... WITH`, one
  allocation and one deadline per order). Each handler has a program counter
  and is split where it calls another service or commits; what it read earlier stays with it.
- `PickupPhase` – a paid order until its drawer is given back, composed with
  `SlotRuntime`: the redemption (`totem_redeem`), the sale of a kiosk order
  (`_finalize_kiosk_payment`, `fulfill_payment_post_approval`), the expiry job
  (`run_expiry_once`: commits first, frees later), the pickup worker's timeout
  of a kiosk order, the customer's cancellation of an order that is expired, or paid
  and overdue, with its retries, and the consumer of the door and expiry events. Each
  has a program counter and may stop at each call. A payment is one step here; the
  cancellation of what is not paid is `OnlineOrder`'s. `failed`, `early`, `dropped`
  and `withdrawn` are history: they name what the properties except.
- `Invoices` – the billing service's invoice: the guarded UPDATE that claims it,
  the call to the authority, the commits that follow, retries, dead letters,
  cancellation, correction, refresh, and the operator's resets. A request to cancel,
  correct or refresh has two steps: it reads the row without a lock (`ReadIssued`,
  `ReadIncomplete`), and commits over whatever the row has become. `asked` and
  `refreshing` say which rows requests have read: one request or several, since a
  commit may leave the row there. `fault` is history: the worst that has befallen a row.
- `WalletCredits` – a credit, the orders that name it, and every handler that closes,
  pays or collects such an order: each reads the order (`Read`) and commits later, over
  what the order has become. Reopening the credit may fail (`Keep`). `kept`,
  `reopened` and `again` are history.
- `StockReservations` – the reserved counter of a product, the expiry job's
  batches (selected without a lock, updated without a look at the status), releases
  and consumptions of a reservation, and the reconciliation that overwrites the counter.
  `stale` and `twice` are history.
- `PartnerOutbox` – a partner's events of one order and the overlapping runs
  that send them.
- `BackOffice` – the last four side by side (`INSTANCE` of each, a step is a step
  of one of them). They share no state, so a property of the union is one of a
  part: the proofs show each for `BackOffice`'s own, interleaved specification.
- `MCBackOffice` – for TLC, `part` chooses in `Start` which of the four moves, so
  that one run covers the sum of their states and not the product.
- `MC...` – constants and bounds for TLC. `..._proofs` – theorems, for `Spec`
  of the module they are named after (`Invoices_proofs`, `WalletCredits_proofs` and
  `BackOffice_proofs`: for that of `BackOffice`).

`Spec` of `Deadlines` and `FairSpec` of `OnlineOrder`, `PickupPhase`, `Invoices`
and `PartnerOutbox` state fairness; the other specifications are safety only.

Each module has a few definitions commented *Mutant*: a plausible mistake in the
definition that follows. Nothing uses them; a run whose property survives its
mutant would say nothing about the code.

## Runs

| Run | What it shows |
|---|---|
| `SlotRuntime.cfg` | exclusive leases, undisturbed leases, isolated lockers, refinement of `DoorLease` |
| `ConnectionSerial.cfg` | one request at a time with crashes: refinement of `SlotRuntime`, answers are durable |
| `ConnectionShared.cfg` | two concurrent requests: exclusion and durable rows survive the shared connection |
| `ConnectionGrant.cfg` | *violated*: an answered allocation can be without a row |
| `Deadlines.cfg` | one executor, told timeouts, final cancellations, settlement |
| `DeadlinesLostEvent.cfg` | *violated*: an event leaves the queue before it was polled |
| `OnlineOrder.cfg` | one order with every failure: an unpaid order is watched by its deadline, drawer of a ready pickup, no forgotten release, overdue orders closed |
| `OnlineOrderPair.cfg` | two orders and one drawer: stale releases do no harm |
| `OnlineOrderSlot.cfg` | *violated*: after a payment timeout the runtime keeps the drawer |
| `OnlineOrderConfirmed.cfg` | *violated*: a retried confirmation is ok without a pickup |
| `PickupPhase.cfg` | an online and a kiosk order at one drawer: who opens it or sets its state holds it, what expires is freed, overdue orders are closed and kiosk drawers given back, but in the cases named below |
| `BackOffice.cfg` | invoices, credits, stock and outbox: nothing issued, filed, spent or given back twice, pending work settled, with the faults named |

Bounds. *Runtime*: two lockers with one drawer each and three allocations, so a drawer
is leased, given back and leased again while stale requests of the first lease are still
possible, next to a second locker. *Connection*: two handler threads are the least that
interleave, and every pair of statements does; the proofs cover any number. *Deadlines*:
two workers contend for one order's deadline, a third executes a pickup's; one
concurrent canceller. *OnlineOrder*: one order, since orders only meet at a drawer and
in the event queue; the pair run adds the drawer, without the failures of creation and
workers and the retry job and with one cancelled order (constraint `Contention`). The
lost event of `Deadlines` needs a second deadline, so `UnpaidIsClosed` is checked with
one order and says so. Counters (attempts of a retry, failures of a deadline) are
abstracted to a nondeterministic last attempt. *PickupPhase*: one online and one kiosk
order are the least that can meet at a drawer, in either order of booking, and every
handler has its stale calls left over when the other comes; two redemptions of one token
run only while there is no kiosk order (constraint `Bounds`), since their race is with
each other, the job and the token, and a cancellation only while there is no kiosk order
either: the order it frees the drawer for may be booked when it has ended, which is when
the job's stale call does harm. *Invoices*: one invoice (they share nothing) and two
workers; any number of requests may have read it, but in the run only one of them
commits after the row has changed, and no other is pending then (`OneOverwrite`): the
safety properties and `IssueSettles` excuse such a row, and `CancelSettles` is checked
of it. *WalletCredits*: three orders and one credit, so that the second user of a credit
can lose it to the first, and a third take it; two of the orders are dealt with by
handlers (`Handled`), one of them by two at once (`Disputed`), and at most two pieces of
work are pending (`MaxPending`). Orders and reservations are numbered as they are made
(`InTurn`). *StockReservations*: three reservations, so that a batch of two can meet a
batch of one and a release between, of a product with two pieces on hand, so that a sum
that the reconciliation counted can be more than the table's check lets it write
(`CorrectRefused`). *PartnerOutbox*: one event with `MaxAttempts = 3` (it is sent,
fails, is tried again) and two runs; a batch is then one event, and two events were
checked once by hand, in more time than a run should take.

`CHECK_DEADLOCK FALSE` stands where the system may stop: all deadlines settled,
all orders closed, all requests answered.

Fairness. A lifecycle worker's loop (`main`: `while True: run_once()`) never
stops, so `RunOnce` is weakly fair; crashes are not prevented, but a crash
strands what was claimed, and the property exempts that. The order service's
`lifecycle_events_loop` polls for ever (weak fairness of `Consume`), and an
error of the consumer is not permanent: reading and writing one event are
strongly fair. The expiry loop is weakly fair and its commit strongly, so it may
die, and what it forgets is in `failed`. In `Invoices` the issue and cancel
workers poll for ever, time passes (`RetryDue`, `LockTimeout`), and a worker
does not die at every attempt; an invoice whose worker did die is excepted,
because nothing in the code takes it up. In `PartnerOutbox` the loop polls for
ever and a run does not fail each time. Customers, operators, the pickup worker
of `PickupPhase` and callers of the API promise nothing.

What the properties except. Each names the cases the code does not exclude, as
narrowly as TLC and the proofs allow, and says that there are no others.

| Property | Except |
|---|---|
| `UnpaidIsWatched` | an order whose creation was never answered: it may have no deadline |
| `ActsOnOwnDrawer` | a redemption under way when its window ends; the event of a kiosk order whose drawer was given back early; the expiry job after the customer's cancellation |
| `ExpiredIsFreed` | the job died, or the runtime never answered |
| `KioskGivenBack` | the call failed, or another deadline's worker published the event |
| `OneIssuer`, `IssueSettles` | an operator's reset, a request that commits after the row changed; for the second also a worker that died |
| `FiledOnce` | these two, and a row that could not be read back. It is about what the worker, the API and the admin console file; the resync files too and is not modelled |
| `CancelledStays` | the same, and a worker that outlived its lock, which may make it DEAD_LETTER or ISSUED, never CANCELLING |
| `SpentOnce` | an order that was undone and is paid all the same; a credit that was reopened twice for one order |
| `UsedIsHeld` | the payment timeout, and a reopening that failed |
| `NeverUnderReserved` | one piece for each reservation released under a run, until the next correction; a correction with an old sum |

Assumptions. A customer pays for or cancels an order only when its creation is over:
answered, or dead, which leaves a row like any other. The gateway confirms one order one
call at a time. Conditions that depend on data (amounts, regions, tokens' formats) hold:
their refusals change nothing. PostgreSQL transactions are read committed, and the ORM
writes the columns that differ from what the session read: a column that was NULL then
is not set to NULL again (`MayDrop` in `Invoices`). A credit's handlers take its row
lock until their commit, the orders' rows they read without one. The first attempt of an
issue may keep its row locked over the authority's call; there the operator's `Reset` is
allowed more than the database allows it, and the properties except it anyway. Product
inventory reservations are made, released and consumed outside the repository's code:
`Reserve` and `Close` are what the jobs, the table's checks (`ck_ir_status`) and the
documents suppose.

## Findings

1. `routers/allocations.py`: the `rollback()` of one request's refused INSERT
   reverts another's on the shared connection; that one is answered 200 with
   nothing stored (`connection_grant`).
2. `services/event_publisher.py`: executing any deadline marks every pending
   event PUBLISHED; the order service lists pending ones only, so it never
   learns of those timeouts (`deadlines_lost_event`).
3. `jobs/lifecycle_events_consumer.py` never releases the drawer of an order
   that timed out, although the order documents say so (`online_order_slot`).
4. `routers/internal.py`: a confirmation that failed halfway is answered ok when
   retried, without commit, pickup or token (`online_order_confirmed`).

Seen while modelling, without a document that says otherwise: the expiry job
marks a drawer OUT_OF_STOCK "aguardando reposição" (`jobs/expiry.py:62`) and then
releases it, which makes it AVAILABLE; a PICKED_UP order becomes DISPENSED when
its door event is handled; the outbox job's SELECT leaves `payload_json` out, so
that a partner is sent an empty payload; a sale that fails after `door_opened`
was published cannot be retried.

More of it, met as a counterexample when a property was first stated without its
exception:

- an order whose creation dies between its commit and the registration of the deadline
  can be paid, and is never timed out (`order_creation_service.py:1046`);
- a kiosk order whose payment is simulated ends PAID_PENDING_PICKUP after its goods were
  handed out (`payment_confirm_service.py:399`), and its deadline expires it; one that
  `payment_confirm` has paid is refused by `_finalize_kiosk_payment`, since the drawer
  is not RESERVED any more;
- a customer who cancels an order that the expiry job has committed has its drawer
  released; the job marks the drawer OUT_OF_STOCK later, whoever holds it by then;
- two refreshes of one invoice that overlap put it back to PENDING while it is issued, and
  another worker issues it again, although the issue worker is said not to conflict with
  another of its kind ("não conflita com outro worker igual",
  `workers/invoice_issue_worker.py:3`);
- a payment that commits over a cancellation leaves the order paid with its discount and the
  credit back in the wallet; a credit whose reopening failed stays USED until the queue
  or the customer tries again;
- a reservation that is released between the expiry job's SELECT and its UPDATEs is given
  back twice.

## Proofs

Every type invariant and every safety property that a passing run checks is also a
theorem, for every value of the constants, and so are the refinements. TLC says
the same of small instances, where it also checked the inductive invariants of the
compositions before they were proved.

| Module | Theorem | Property |
|---|---|---|
| `SlotRuntime_proofs` | `TypeCorrect`, `DoorExclusion`, `LeaseStability`, `LockerIsolation`, `RuntimeImplementsLease` | `TypeOK`, `OneActivePerDoor`, `LeaseUndisturbed`, `LockersIsolated`, `ImplementsLease` |
| `RuntimeConnection_proofs` | `ConnTypeCorrect`, `SharedExclusion`, `DurableRowsStay`; for one thread `SerialGrantsStored`, `SerialRefinement` | `ConnTypeOK`, `Exclusive`, `RowsStay`; `GrantsStored`, `ImplementsRuntime` |
| `Deadlines_proofs` | `DeadlinesTypeCorrect`, `ExecutedOnce`, `TimeoutsAreTold`, `CancelledStays` | `TypeOK`, `OneExecutor`, `FiredIsTold`, `RevokedStays` |
| `OnlineOrder_proofs` | `OrderTypeCorrect`, `UnpaidWatched`, `ReadyKept`, `ReleaseNotLost`, `LeasesKept`, `DeadlinesKept` | `TypeOK`, `UnpaidIsWatched`, `ReadyHolds`, `NoLostRelease` |
| `PickupPhase_proofs` | `PickupTypeCorrect`, `OwnDrawerOnly`, `ExpiredFreed`, `PickupLeasesKept` | `TypeOK`, `ActsOnOwnDrawer`, `ExpiredIsFreed` |
| `Invoices_proofs` | `OneIssuerOnly`, `NothingFiledTwice`, `CancellationIsFinal` | `OneIssuer`, `FiledOnce`, `CancelledStays` |
| `WalletCredits_proofs` | `CreditSpentOnce`, `NoCreditLost` | `SpentOnce`, `UsedIsHeld` |
| `BackOffice_proofs` | `BackOfficeTypeCorrect`, `ReservedNotSold` | `TypeOK`, `NeverUnderReserved` |

**Runtime** (any lockers, drawers and allocations). The invariant is the type
invariant with "an allocation row names a door with its own row" together with
`OneActivePerDoor`; it is inductive because *allocate* looks for an active
allocation of the door (the unique index) and every other handler only ends leases
or keeps them. `LockersIsolated` needs that a handler finds an allocation by its
identifier *and* locker, and that a door belongs to one locker.

**Connection** (any number of threads). Both what is stored and what the connection sees
satisfy the exclusion, because the index is checked against the view and a commit or a
rollback copies one onto the other; a durable row is never removed from the view
(`Ahead`), because handlers only add rows or change states. With one thread
(`OneThread`, the hypothesis of the last two theorems; the run `ConnectionGrant.cfg`
shows that both need it) the invariant `Halfway` says, for each place of a request, how
far the view has gone from what is stored: one door written, or one row, or both and
nothing else. So the commit at the end is exactly one handler of `SlotRuntime`
(`FlushIsAllocate`, `FlushMovesRow`, `FlushSetsState`), and everything before it, a
rollback or a crash is a stutter.

**Deadlines** (any workers, deadlines and callers, whatever types the workers
serve). None of the three safety properties is inductive alone. `IInv` adds that what a
worker holds, or a crash left behind, is no longer PENDING and never will be (`Held`),
so a claim takes only what nobody has; that a deadline cancelled before its claim is in
nobody's hands (`Untouched`); and that only an execution records a prepayment timeout's
event while events never disappear (`EventsGrow`). Every end of a worker's turn goes
through one lemma, `FinishKeeps`.

**Compositions.** `OnlineOrder_proofs` and `PickupPhase_proofs` take the runtime's
theorems by `INSTANCE`: each step is a step of `SlotRuntime` or leaves its tables alone
(`RuntimeStep`), so each composition implements `SlotRuntime` and with it
`DoorLease` (`LeasesKept`, `PickupLeasesKept`), and the exclusion of drawers need not be
proved again. `OnlineOrder_proofs` takes the lifecycle service from `Deadlines_proofs`
in the same way (`SameApi`, `SameWork`), and `DeadlinesKept` shows `OneExecutor`,
`FiredIsTold` and `RevokedStays` of the composition. Its first part is a refinement of
the safety part of `Deadlines`, initial states and steps.

**Online order** (any orders, drawers and workers). `Inv` adds to the properties: a
committed allocation's door shows PAID_PENDING_PICKUP (`DoorInv`, which rests on the
exclusion: another order's commit or release is at another door); nobody pays, is made
ready or cancels before the creation is over (`CreatedInv`), so that the
compensations of a failed creation never meet a payment; nothing is compensated without
the customer having asked (`AskedInv`); until then a payment that is past the runtime's
commit keeps it (`PaidInv`); and a handler that remembers a successful release, or a
DONE row, is right for good (`ReleasedInv`), because nothing leads out of RELEASED.
One lemma for each handler says what it does to one order (`CreateOrderEffect` to
`StepEffect`); the invariants are then proved order by order. `UnpaidWatched` rests on
two more (`WatchInv`, `ClosedInv`), proved with the invariant of `Deadlines` that
`LifecycleKept` carries over: nobody cancels, or is about to cancel, the deadline of an
order that is not paid, and an event that is acknowledged, or about to be, is that of an
order that is unpaid no more.

**Pickup** (any online and kiosk orders, drawers and concurrent redemptions of a token).
`OwnDrawerOnly` rests on the whole of `Inv`: who still has something to do at a drawer
(`OnlineInv`, `JobInv`, `KioskInv`) holds it, or its order was cancelled, which only
happens to what is overdue and after the runtime was called (`CancelInv`); a drawer that
shows RESERVED has a reservation, so that no sale commits an allocation twice
(`DoorInv`); an event in the store is one that its order has come to (`StoredInv`), is
at most once in the feed and in the batch (`ListInv`, by lemmas about sequences without
repetition), and an expiry event that is still to be handled finds its drawer held, or
the handling was broken off before (`HeldInv`). `ExpiredIsFreed` is a conjunct of `Inv`.

**Invoices** (any invoices and workers, any number of attempts). `OneIssuer` holds since
a claim is the only way into PROCESSING, and for a row that was never written over
nothing leads back to a claimable status while a worker has the issue (`IssueHeld`); a
refresh commits over what it has read, or the row counts as overwritten from then on.
`FiledOnce` splits the invoices into those not filed yet and those that are, and no
longer claimable (`FiledInv`). `CancelledStays` needs what a claim guarantees while
nothing is unread, overwritten or outlived: the worker is alone and its task is still to
be done (`ClaimHeld`, `LockHeld`).

**Credits** (any orders, credits and pending work). `OwnerInv`: a credit that no order
was undone twice for is USED while it has an owner, an order that was not undone, and
has one; it is kept because whoever is about to take a credit has it locked and
AVAILABLE (`LockedInv`). **Stock** (any finite set of reservations, any overlapping
runs). A reservation has a movement exactly when it is EXPIRED (`StockInv`), so a batch
whose movements are new is all ACTIVE and the counter falls with the sum, and by one too
many for each that was released (`twice`, which is counted by cardinalities). **Outbox**
(any senders and events). The type invariant is not inductive: what is due or read has
an attempt left (`OutboxInv`).

Assumptions. Only the named `ASSUME`s of the modules, which TLC evaluates on the runs of
those modules: the value "no row" is none of the keys and states it stands beside; sets
of constants are related as declared; online and kiosk orders are different; an outbox
policy makes one attempt at least; stock and bounds are natural numbers; reservations
are finitely many.

What the proofs have changed. The type of `reserved` is `0..OnHand`, and the proof of it
failed at the reconciliation: it may have read a sum greater than the stock, which the
table refuses (`ck_pi_reserved_leq_hand`). The first instance had as many pieces as
reservations and could not show it. `Correct` is now guarded, `CorrectRefused` is the
refusal, and the instance has two pieces for three reservations. `BackOffice` was taken
out of `MCBackOffice` to have a specification without TLC's choice of a part.

Only model-checked, because liveness under fairness is out of the prover's reach:
`DueIsSettled`, `UnpaidIsClosed`, `OverdueIsClosed`, `KioskGivenBack`,
`IssueSettles`, `CancelSettles`, `OutboxSettles`. The properties of the four violated
runs are false of the code. That `OnlineOrder` implements the *fair* lifecycle service
is not stated: fairness is out of reach there too.

## Not modelled

The runtime's expire endpoint is modelled, but no service calls it. The MQTT listener
and the development routes of the runtime are not mounted by its `main.py` and left out.
In the order service: redemption by manual code (the same steps as by token), the
reallocation of online orders (reached from a development route), the grant of credits,
the expiry of credits (never called), the tracking row and the other two outboxes. In
the billing service: the adapters of the tax authorities, accounting, partner billing,
e-mail, and the resync of what was issued in contingency (`invoice_resync_service.py`):
it files documents too, under the lock of the row, so that `FiledOnce` and
`CancelSettles` are about the rest only. The consumer's feed lists all that is pending,
not the oldest 100. The gateway's idempotency keys are stored after the effect, which
leaves no promise to check. Refunds, pricing, authentication, analytics, the young
services and the user interfaces have no protocol between components: they are queries,
forms, migrations, seeds and arithmetic over request data, and they are most of the
repository's lines, so that the share of all lines that the models cover stays small.
`PROJECT.json` gives the reason for each.

## Plan

1. done: `SlotRuntime`, `RuntimeConnection`, `Deadlines`, `OnlineOrder`,
   `PickupPhase`, `Invoices`, `WalletCredits`, `StockReservations`, `PartnerOutbox`.
2. done: every type invariant, safety property and refinement of the passing runs.
3. next: the resync in `Invoices`; an abstract specification of an order's life that
   `OnlineOrder` and `PickupPhase` implement; the safety half of the temporal
   properties, as action properties (what may end an overdue order, a cancellation,
   an issue).
