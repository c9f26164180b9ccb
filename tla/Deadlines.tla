----------------------------- MODULE Deadlines -----------------------------
(***************************************************************************)
(* The order lifecycle service (backend/order_lifecycle_service): the      *)
(* table of deadlines, the two workers that execute those that are due,    *)
(* the domain events they record, and the internal API the other services  *)
(* call.                                                                   *)
(*                                                                         *)
(* A worker claims a batch in one transaction and executes each deadline   *)
(* in a transaction of its own, whose reads are one action (Load) and      *)
(* whose commit is another: what other transactions commit in between is   *)
(* not seen, and rows are written back without a version check.  A         *)
(* deadline of Deadlines names its event too: both keys are made of the    *)
(* deadline's type and its order or pickup.                                *)
(***************************************************************************)
EXTENDS FiniteSets

CONSTANTS
    Workers,     \* worker processes
    Deadlines,   \* deadline keys
    Pickups,     \* the pickup timeouts among them; the others are prepayment timeouts
    Serves,      \* Serves[w]: the deadlines of worker w's type
    Clients,     \* concurrent callers of /deadlines/cancel
    None

VARIABLES
    status,      \* status[k]: lifecycle_deadlines.status, or None
    due,         \* deadlines whose due_at is in the past
    paid,        \* deadlines whose order is paid (public.orders)
    event,       \* event[k]: domain_events.status of k's event, or None
    shown,       \* events that GET /events/pending has returned
    wpc,         \* wpc[w]: where worker w is in run_once
    todo,        \* todo[w]: claimed deadlines it has not finished
    cur,         \* cur[w]: the deadline it is executing, or None
    cancels,     \* cancels[w]: it found the order paid
    seen,        \* seen[w]: pending events read by publish_pending_events
    ccall,       \* ccall[c]: the deadline caller c is about to cancel, or None
    revoked,     \* deadlines cancelled while they were PENDING
    stranded     \* deadlines held by a worker when it died

tableVars == <<status, event>>
workerVars == <<wpc, todo, cur, cancels, seen>>
historyVars == <<shown, revoked, stranded>>
vars == <<tableVars, due, paid, workerVars, ccall, historyVars>>

Statuses == {"PENDING", "EXECUTING", "EXECUTED", "CANCELLED", "FAILED"}
EventStatuses == {"PENDING", "PUBLISHED"}

ASSUME DeadlinesAssumption ==
    /\ Pickups \subseteq Deadlines
    /\ Serves \in [Workers -> SUBSET Deadlines]
    /\ None \notin Deadlines \cup Statuses \cup EventStatuses

Pending == {e \in Deadlines : event[e] = "PENDING"}

Init ==
    /\ status = [k \in Deadlines |-> None]
    /\ due = {}
    /\ paid = {}
    /\ event = [k \in Deadlines |-> None]
    /\ shown = {}
    /\ wpc = [w \in Workers |-> "sleep"]
    /\ todo = [w \in Workers |-> {}]
    /\ cur = [w \in Workers |-> None]
    /\ cancels = [w \in Workers |-> FALSE]
    /\ seen = [w \in Workers |-> {}]
    /\ ccall = [c \in Clients |-> None]
    /\ revoked = {}
    /\ stranded = {}

-----------------------------------------------------------------------------
\* Mutant: registering a deadline again arms it again.
CreateAgain(k) ==
    /\ status[k] \in {None, "CANCELLED"}
    /\ status' = [status EXCEPT ![k] = "PENDING"]
    /\ UNCHANGED <<event, due, paid, workerVars, ccall, historyVars>>

\* POST /deadlines: a key that exists is answered as it is.
CreateDeadline(k) ==
    /\ status[k] = None
    /\ status' = [status EXCEPT ![k] = "PENDING"]
    /\ UNCHANGED <<event, due, paid, workerVars, ccall, historyVars>>

BecomeDue(k) ==
    /\ status[k] # None
    /\ k \notin due
    /\ due' = due \cup {k}
    /\ UNCHANGED <<tableVars, paid, workerVars, ccall, historyVars>>

\* The order service commits the payment of the order.
Pay(k) ==
    /\ k \notin Pickups \cup paid
    /\ paid' = paid \cup {k}
    /\ UNCHANGED <<tableVars, due, workerVars, ccall, historyVars>>

\* POST /deadlines/cancel, its read and its write.
CancelRead(c, k) ==
    /\ ccall[c] = None
    /\ status[k] \notin {None, "EXECUTED", "CANCELLED"}
    /\ ccall' = [ccall EXCEPT ![c] = k]
    /\ UNCHANGED <<tableVars, due, paid, workerVars, historyVars>>

CancelWrite(c) ==
    LET k == ccall[c] IN
    /\ k # None
    /\ status' = [status EXCEPT ![k] = "CANCELLED"]
    /\ revoked' = IF status[k] = "PENDING" THEN revoked \cup {k} ELSE revoked
    /\ ccall' = [ccall EXCEPT ![c] = None]
    /\ UNCHANGED <<event, due, paid, workerVars, shown, stranded>>

\* POST /pickup-events: the order service records that a pickup expired.  An
\* event key that exists is not stored again.
Ingest(k) ==
    /\ k \in Pickups
    /\ event[k] = None
    /\ event' = [event EXCEPT ![k] = "PENDING"]
    /\ UNCHANGED <<status, due, paid, workerVars, ccall, historyVars>>

\* GET /events/pending, polled by the order service.
ListPending ==
    /\ Pending # {}
    /\ shown' = shown \cup Pending
    /\ UNCHANGED <<tableVars, due, paid, workerVars, ccall, revoked, stranded>>

\* POST /events/ack for an event it was shown.
Ack(k) ==
    /\ k \in shown
    /\ event[k] = "PENDING"
    /\ event' = [event EXCEPT ![k] = "PUBLISHED"]
    /\ UNCHANGED <<status, due, paid, workerVars, ccall, historyVars>>

-----------------------------------------------------------------------------
\* Mutant: the claim does not look at the status.
ClaimableAny(w) == {k \in Serves[w] \cap due : status[k] \in {"PENDING", "EXECUTING"}}

Claimable(w) == {k \in Serves[w] \cap due : status[k] = "PENDING"}

\* claim_due_deadline_ids, FOR UPDATE SKIP LOCKED, and its commit.
Claim(w) ==
    /\ wpc[w] = "sleep"
    /\ Claimable(w) # {}
    /\ todo' = [todo EXCEPT ![w] = Claimable(w)]
    /\ status' = [k \in Deadlines |->
                    IF k \in Claimable(w) THEN "EXECUTING" ELSE status[k]]
    /\ wpc' = [wpc EXCEPT ![w] = "next"]
    /\ UNCHANGED <<event, due, paid, cur, cancels, seen, ccall, historyVars>>

\* Worker w is done with deadline k: the next one, or run_once is over.
Finish(w, k) ==
    /\ todo' = [todo EXCEPT ![w] = @ \ {k}]
    /\ wpc' = [wpc EXCEPT ![w] = IF todo[w] \subseteq {k} THEN "sleep" ELSE "next"]
    /\ cur' = [cur EXCEPT ![w] = None]
    /\ cancels' = [cancels EXCEPT ![w] = FALSE]
    /\ seen' = [seen EXCEPT ![w] = {}]

\* The deadline is read, and skipped unless it still is EXECUTING.
Skip(w, k) ==
    /\ wpc[w] = "next"
    /\ k \in todo[w]
    /\ status[k] # "EXECUTING"
    /\ Finish(w, k)
    /\ UNCHANGED <<tableVars, due, paid, ccall, historyVars>>

\* Otherwise the order's payment and the pending events are read as well.
Load(w, k) ==
    /\ wpc[w] = "next"
    /\ k \in todo[w]
    /\ status[k] = "EXECUTING"
    /\ wpc' = [wpc EXCEPT ![w] = "loaded"]
    /\ cur' = [cur EXCEPT ![w] = k]
    /\ cancels' = [cancels EXCEPT ![w] = k \in paid]
    /\ seen' = [seen EXCEPT ![w] = Pending]
    /\ UNCHANGED <<tableVars, due, paid, todo, ccall, historyVars>>

\* Event rows once w commits: those it read are PUBLISHED, k's is new.
Published(w) == [e \in Deadlines |-> IF e \in seen[w] THEN "PUBLISHED" ELSE event[e]]

\* The order is paid: the deadline is CANCELLED and nothing is emitted.
CommitCancel(w) ==
    /\ wpc[w] = "loaded"
    /\ cancels[w]
    /\ status' = [status EXCEPT ![cur[w]] = "CANCELLED"]
    /\ event' = Published(w)
    /\ Finish(w, cur[w])
    /\ UNCHANGED <<due, paid, ccall, historyVars>>

\* Mutant: the deadline is committed as executed before its event is recorded.
CommitWithoutEvent(w) ==
    /\ wpc[w] = "loaded"
    /\ ~ cancels[w]
    /\ status' = [status EXCEPT ![cur[w]] = "EXECUTED"]
    /\ event' = Published(w)
    /\ Finish(w, cur[w])
    /\ UNCHANGED <<due, paid, ccall, historyVars>>

\* The timeout: EXECUTED and its event, in one commit.  The event's key must
\* be new.
CommitFire(w) ==
    LET k == cur[w] IN
    /\ wpc[w] = "loaded"
    /\ ~ cancels[w]
    /\ event[k] = None
    /\ status' = [status EXCEPT ![k] = "EXECUTED"]
    /\ event' = [Published(w) EXCEPT ![k] = "PENDING"]
    /\ Finish(w, k)
    /\ UNCHANGED <<due, paid, ccall, historyVars>>

\* The execution raises: the event key is taken, or a database error.
Raise(w) ==
    /\ wpc[w] = "loaded"
    /\ wpc' = [wpc EXCEPT ![w] = "raised"]
    /\ UNCHANGED <<tableVars, due, paid, todo, cur, cancels, seen, ccall, historyVars>>

\* The error handler reads the deadline ...
FailRead(w) ==
    /\ wpc[w] = "raised"
    /\ \/ /\ status[cur[w]] = "EXECUTING"
          /\ wpc' = [wpc EXCEPT ![w] = "failing"]
          /\ UNCHANGED <<todo, cur, cancels, seen>>
       \/ /\ status[cur[w]] # "EXECUTING"
          /\ Finish(w, cur[w])
    /\ UNCHANGED <<tableVars, due, paid, ccall, historyVars>>

\* Mutant: the handler forgets to write FAILED.
FailSilently(w) ==
    /\ wpc[w] = "failing"
    /\ Finish(w, cur[w])
    /\ UNCHANGED <<tableVars, due, paid, ccall, historyVars>>

\* Mutant: a status the enumeration does not have.
FailUnknown(w) ==
    /\ wpc[w] = "failing"
    /\ status' = [status EXCEPT ![cur[w]] = "ERROR"]
    /\ Finish(w, cur[w])
    /\ UNCHANGED <<event, due, paid, ccall, historyVars>>

\* ... and writes FAILED.
FailWrite(w) ==
    /\ wpc[w] = "failing"
    /\ status' = [status EXCEPT ![cur[w]] = "FAILED"]
    /\ Finish(w, cur[w])
    /\ UNCHANGED <<event, due, paid, ccall, historyVars>>

\* The worker process dies; what it claimed stays EXECUTING.
Crash(w) ==
    /\ wpc[w] # "sleep"
    /\ stranded' = stranded \cup todo[w]
    /\ wpc' = [wpc EXCEPT ![w] = "sleep"]
    /\ todo' = [todo EXCEPT ![w] = {}]
    /\ cur' = [cur EXCEPT ![w] = None]
    /\ cancels' = [cancels EXCEPT ![w] = FALSE]
    /\ seen' = [seen EXCEPT ![w] = {}]
    /\ UNCHANGED <<tableVars, due, paid, ccall, shown, revoked>>

Api ==
    \/ \E k \in Deadlines : \/ CreateDeadline(k) \/ BecomeDue(k) \/ Pay(k)
                            \/ Ingest(k) \/ Ack(k)
    \/ \E c \in Clients, k \in Deadlines : CancelRead(c, k)
    \/ \E c \in Clients : CancelWrite(c)
    \/ ListPending

RunOnce(w) ==
    \/ Claim(w)
    \/ \E k \in Deadlines : Skip(w, k) \/ Load(w, k)
    \/ CommitCancel(w) \/ CommitFire(w) \/ Raise(w) \/ FailRead(w) \/ FailWrite(w)

Next ==
    \/ Api
    \/ \E w \in Workers : RunOnce(w) \/ Crash(w)

\* A worker's loop never stops; callers and the clock promise nothing.
Spec == Init /\ [][Next]_vars /\ \A w \in Workers : WF_vars(RunOnce(w))

-----------------------------------------------------------------------------
TypeOK ==
    /\ status \in [Deadlines -> Statuses \cup {None}]
    /\ event \in [Deadlines -> EventStatuses \cup {None}]
    /\ due \subseteq Deadlines /\ paid \subseteq Deadlines /\ shown \subseteq Deadlines
    /\ wpc \in [Workers -> {"sleep", "next", "loaded", "raised", "failing"}]
    /\ todo \in [Workers -> SUBSET Deadlines]
    /\ cur \in [Workers -> Deadlines \cup {None}]
    /\ cancels \in [Workers -> BOOLEAN]
    /\ seen \in [Workers -> SUBSET Deadlines]
    /\ ccall \in [Clients -> Deadlines \cup {None}]
    /\ revoked \subseteq Deadlines /\ stranded \subseteq Deadlines

\* Workers of one type never execute the same deadline, and none is executed
\* again after it was finished or left behind by a crash.
OneExecutor ==
    \A k \in Deadlines :
        /\ \A v, w \in Workers : k \in todo[v] \cap todo[w] => v = w
        /\ k \in stranded => \A w \in Workers : k \notin todo[w]

\* A timeout that took effect has left its event for the order service, whose
\* only notice it is.
FiredIsTold == \A k \in Deadlines : status[k] = "EXECUTED" => event[k] # None

\* A cancellation that comes before the claim is final: the deadline stays
\* CANCELLED, whatever is registered, claimed or failed afterwards.
RevokedStays ==
    \A k \in revoked : status[k] = "CANCELLED" /\ (k \notin Pickups => event[k] = None)

\* A due deadline is executed, cancelled or marked FAILED in the end, unless a
\* worker died while it held it.
DueIsSettled ==
    \A k \in Deadlines :
        (k \in due /\ status[k] = "PENDING") ~>
            (status[k] \in {"EXECUTED", "CANCELLED", "FAILED"} \/ k \in stranded)

\* The order service polls the pending events and acknowledges them itself
\* (docs/architecture/ellan_order_full_flow.md, 5B): no event leaves the queue
\* before it was shown to it.
PublishedWasShown == \A k \in Deadlines : event[k] = "PUBLISHED" => k \in shown
=============================================================================
