------------------------------ MODULE Invoices ------------------------------
(***************************************************************************)
(* The invoices of the billing service (backend/billing_fiscal_service):   *)
(* one per paid order, issued, corrected and cancelled at the tax          *)
(* authority by workers that claim a row with a guarded UPDATE, call the   *)
(* authority, and commit what came of it over the row they loaded.         *)
(*                                                                         *)
(* The claim of an issue is the status PROCESSING; the claim of a          *)
(* cancellation or a correction is a lock, which goes stale.  A commit     *)
(* writes the columns that differ from the loaded ones, without looking at *)
(* the row again: so do the requests of the API and of the event worker,   *)
(* which read the row without a lock, check its status and commit later.   *)
(***************************************************************************)
EXTENDS Integers, FiniteSets

CONSTANTS
    Invoices,     \* an invoice and its order (orders have one invoice at most)
    Workers,      \* processes that claim: the two workers, the API
    MaxRetries,   \* INVOICE_ISSUE_MAX_RETRIES
    None

VARIABLES
    dead,        \* invoices whose order.paid event is DEAD: it is not tried again
    status,      \* status[i]: invoices.status, or None (no row)
    lock,        \* lock[i]: locked_at: None, recent, or past the timeout
    retries,     \* retries[i]: retry_count
    waiting,     \* invoices whose next_retry_at is in the future
    incomplete,  \* those whose last error is CONSUMER_FISCAL_INCOMPLETE
    doing,       \* doing[w]: what worker w has claimed and loaded
    asked,       \* invoices that requests to cancel or correct have read as ISSUED
    refreshing,  \* those that refreshes have read as reopenable
    filed,       \* filed[i]: acceptances of the authority that arrived (2: two or more)
    fault        \* fault[i]: the worst that has befallen the row of i, or None

rowVars == <<status, lock, retries, waiting, incomplete>>
requestVars == <<asked, refreshing>>
vars == <<dead, rowVars, doing, filed, requestVars, fault>>

Statuses == {"PENDING", "PROCESSING", "ISSUED", "FAILED", "DEAD_LETTER", "CANCELLING",
             "CANCELLED", "CORRECTION_REQUESTED", "COMPLEMENTARY_ISSUED"}
Outcomes == {"unknown", "ok", "error", "incomplete", "unread"}
\* Its lock went stale while its worker was alive; it could not be read back after its
\* commit; an operator has put it back to PENDING, or a request has committed over it
\* after it had changed.
Faults == {"outlived", "unread", "overwritten"}
Idle == [task |-> "none", invoice |-> None, retries |-> 0, outcome |-> "unknown"]

Init ==
    /\ dead = {}
    /\ status = [i \in Invoices |-> None]
    /\ lock = [i \in Invoices |-> None]
    /\ retries = [i \in Invoices |-> 0]
    /\ waiting = {} /\ incomplete = {}
    /\ doing = [w \in Workers |-> Idle]
    /\ filed = [i \in Invoices |-> 0]
    /\ asked = {} /\ refreshing = {}
    /\ fault = [i \in Invoices |-> None]

Busy(w, task, i) == doing[w].task = task /\ doing[w].invoice = i

-----------------------------------------------------------------------------
\* process_events_once: an order.paid event without an invoice gets one ...
Create(i) ==
    /\ status[i] = None /\ i \notin dead
    /\ status' = [status EXCEPT ![i] = "PENDING"]
    /\ UNCHANGED <<dead, lock, retries, waiting, incomplete, doing, filed, requestVars, fault>>

\* ... unless the order is not found, once.  Other errors are tried again.
CreateFails(i) ==
    /\ status[i] = None /\ i \notin dead
    /\ dead' = dead \cup {i}
    /\ UNCHANGED <<rowVars, doing, filed, requestVars, fault>>

-----------------------------------------------------------------------------
Take(w, task, i) ==
    /\ doing' = [doing EXCEPT ![w] = [task |-> task, invoice |-> i, retries |-> retries[i],
                                      outcome |-> "unknown"]]
    /\ lock' = [lock EXCEPT ![i] = "recent"]

\* Mutant: what is PROCESSING is claimed too when its lock is stale.
ClaimIssueStale(w, i) ==
    /\ doing[w] = Idle
    /\ \/ status[i] \in {"PENDING", "FAILED"} /\ lock[i] # "recent"
       \/ status[i] = "PROCESSING" /\ lock[i] = "stale"
    /\ i \notin waiting
    /\ status' = [status EXCEPT ![i] = "PROCESSING"]
    /\ Take(w, "issue", i)
    /\ UNCHANGED <<dead, retries, waiting, incomplete, filed, requestVars, fault>>

\* _claim_invoice_row and the load that follows.
ClaimIssue(w, i) ==
    /\ doing[w] = Idle
    /\ status[i] \in {"PENDING", "FAILED"}
    /\ i \notin waiting /\ lock[i] # "recent"
    /\ status' = [status EXCEPT ![i] = "PROCESSING"]
    /\ Take(w, "issue", i)
    /\ UNCHANGED <<dead, retries, waiting, incomplete, filed, requestVars, fault>>

TaskOf == [CANCELLING |-> "cancel", CORRECTION_REQUESTED |-> "correct"]

\* Mutant: a lock is for ever.
ClaimChangeUnlocked(w, i) ==
    /\ doing[w] = Idle
    /\ status[i] \in DOMAIN TaskOf
    /\ i \notin waiting /\ lock[i] = None
    /\ Take(w, TaskOf[status[i]], i)
    /\ UNCHANGED <<dead, status, retries, waiting, incomplete, filed, requestVars, fault>>

\* _claim_cancel_row and _claim_cc_row: the status stays as it is.
ClaimChange(w, i) ==
    /\ doing[w] = Idle
    /\ status[i] \in DOMAIN TaskOf
    /\ i \notin waiting /\ lock[i] # "recent"
    /\ Take(w, TaskOf[status[i]], i)
    /\ UNCHANGED <<dead, status, retries, waiting, incomplete, filed, requestVars, fault>>

\* The call to the tax authority: accepted, or refused, or its answer does not
\* arrive.  A missing tax number stops an issue before the call.
Call(w) ==
    LET i == doing[w].invoice IN
    /\ doing[w] # Idle /\ doing[w].outcome = "unknown"
    /\ \E o \in {"ok", "error", "incomplete"} :
          /\ o = "incomplete" => doing[w].task = "issue"
          /\ doing' = [doing EXCEPT ![w].outcome = o]
          /\ filed' = IF o = "ok" /\ doing[w].task = "issue" /\ filed[i] < 2
                      THEN [filed EXCEPT ![i] = @ + 1] ELSE filed
    /\ UNCHANGED <<dead, rowVars, requestVars, fault>>

\* The end of a claim.
Unlocked(w, i) ==
    /\ lock' = [lock EXCEPT ![i] = None]
    /\ doing' = [doing EXCEPT ![w] = Idle]

\* The attempts, counted from the loaded row; all of MaxRetries and above are alike.
OneMore(w) == IF doing[w].retries >= MaxRetries THEN MaxRetries ELSE doing[w].retries + 1

\* finalize_invoice_success, finalize_cancel_success, process_claimed_cc_stub.
SaveSuccess(w) ==
    LET i == doing[w].invoice IN
    /\ doing[w].outcome = "ok"
    /\ status' = [status EXCEPT ![i] = IF doing[w].task = "cancel" THEN "CANCELLED"
                                                                   ELSE "ISSUED"]
    /\ waiting' = waiting \ {i} /\ incomplete' = incomplete \ {i}
    /\ Unlocked(w, i)
    /\ UNCHANGED <<dead, retries, filed, requestVars, fault>>

\* The row cannot be read back after that commit, which counts as a failure of
\* the issue or the cancellation.
SaveUnread(w) ==
    LET i == doing[w].invoice IN
    /\ doing[w].outcome = "ok" /\ doing[w].task \in {"issue", "cancel"}
    /\ status' = [status EXCEPT ![i] = IF doing[w].task = "cancel" THEN "CANCELLED"
                                                                   ELSE "ISSUED"]
    /\ waiting' = waiting \ {i} /\ incomplete' = incomplete \ {i}
    /\ lock' = [lock EXCEPT ![i] = None]
    /\ doing' = [doing EXCEPT ![w].outcome = "unread", ![w].retries = retries[i]]
    /\ fault' = [fault EXCEPT ![i] = IF @ = "overwritten" THEN @ ELSE "unread"]
    /\ UNCHANGED <<dead, retries, filed, requestVars>>

\* Mutant: a failed issue is not made FAILED.
SaveIssueFailureKept(w) ==
    LET i == doing[w].invoice
        n == IF doing[w].outcome = "incomplete" THEN MaxRetries ELSE OneMore(w) IN
    /\ doing[w].task = "issue" /\ doing[w].outcome \in {"error", "incomplete", "unread"}
    /\ retries' = [retries EXCEPT ![i] = n]
    /\ status' = IF n = MaxRetries THEN [status EXCEPT ![i] = "DEAD_LETTER"] ELSE status
    /\ waiting' = IF n = MaxRetries THEN waiting \ {i} ELSE waiting \cup {i}
    /\ incomplete' = IF doing[w].outcome = "incomplete" THEN incomplete \cup {i}
                                                       ELSE incomplete \ {i}
    /\ lock' = lock
    /\ doing' = [doing EXCEPT ![w].outcome = "unknown"]
    /\ UNCHANGED <<dead, filed, requestVars, fault>>

\* finalize_invoice_failure: tried again later, until the attempts are used up.
SaveIssueFailure(w) ==
    LET i == doing[w].invoice
        n == IF doing[w].outcome = "incomplete" THEN MaxRetries ELSE OneMore(w) IN
    /\ doing[w].task = "issue" /\ doing[w].outcome \in {"error", "incomplete", "unread"}
    /\ retries' = [retries EXCEPT ![i] = n]
    /\ status' = [status EXCEPT ![i] = IF n = MaxRetries THEN "DEAD_LETTER" ELSE "FAILED"]
    /\ waiting' = IF n = MaxRetries THEN waiting \ {i} ELSE waiting \cup {i}
    /\ incomplete' = IF doing[w].outcome = "incomplete" THEN incomplete \cup {i}
                                                       ELSE incomplete \ {i}
    /\ Unlocked(w, i)
    /\ UNCHANGED <<dead, filed, requestVars, fault>>

\* Mutant: the status is written back although it has not changed.
SaveCancelFailureOver(w) ==
    LET i == doing[w].invoice  n == OneMore(w) IN
    /\ doing[w].task = "cancel" /\ doing[w].outcome \in {"error", "unread"}
    /\ retries' = [retries EXCEPT ![i] = n]
    /\ status' = [status EXCEPT ![i] = IF n = MaxRetries THEN "DEAD_LETTER"
                                                          ELSE "CANCELLING"]
    /\ waiting' = IF n = MaxRetries THEN waiting \ {i} ELSE waiting \cup {i}
    /\ incomplete' = incomplete \ {i}
    /\ Unlocked(w, i)
    /\ UNCHANGED <<dead, filed, requestVars, fault>>

\* finalize_cancel_failure, with the attempts the issue has used up counted in.
\* CANCELLING is what was loaded, so that it is not written, unless the row was
\* CANCELLED just before.
SaveCancelFailure(w) ==
    LET i == doing[w].invoice  n == OneMore(w) IN
    /\ doing[w].task = "cancel" /\ doing[w].outcome \in {"error", "unread"}
    /\ retries' = [retries EXCEPT ![i] = n]
    /\ status' = IF n = MaxRetries THEN [status EXCEPT ![i] = "DEAD_LETTER"]
                 ELSE IF doing[w].outcome = "unread"
                 THEN [status EXCEPT ![i] = "CANCELLING"] ELSE status
    /\ waiting' = IF n = MaxRetries THEN waiting \ {i} ELSE waiting \cup {i}
    /\ incomplete' = incomplete \ {i}
    /\ Unlocked(w, i)
    /\ UNCHANGED <<dead, filed, requestVars, fault>>

\* A failed correction is tried again for ever.
SaveCorrectFailure(w) ==
    LET i == doing[w].invoice IN
    /\ doing[w].task = "correct" /\ doing[w].outcome = "error"
    /\ waiting' = waiting \cup {i} /\ incomplete' = incomplete \ {i}
    /\ Unlocked(w, i)
    /\ UNCHANGED <<dead, status, retries, filed, requestVars, fault>>

Save(w) == SaveSuccess(w) \/ SaveUnread(w) \/ SaveIssueFailure(w) \/ SaveCancelFailure(w)
           \/ SaveCorrectFailure(w)

\* The worker dies, or its commit fails, which leaves the row as it was claimed.
Dies(w) ==
    /\ doing[w] # Idle
    /\ doing' = [doing EXCEPT ![w] = Idle]
    /\ UNCHANGED <<dead, rowVars, filed, requestVars, fault>>

-----------------------------------------------------------------------------
\* next_retry_at comes.
RetryDue(i) ==
    /\ i \in waiting
    /\ waiting' = waiting \ {i}
    /\ UNCHANGED <<dead, status, lock, retries, incomplete, doing, filed, requestVars, fault>>

\* The timeout of a lock runs out.
LockTimeout(i) ==
    /\ lock[i] = "recent"
    /\ lock' = [lock EXCEPT ![i] = "stale"]
    /\ fault' = IF fault[i] = None /\ \E w \in Workers : doing[w].invoice = i
                THEN [fault EXCEPT ![i] = "outlived"] ELSE fault
    /\ UNCHANGED <<dead, status, retries, waiting, incomplete, doing, filed, requestVars>>

\* request_invoice_cancel and request_cce_stub_queue read an ISSUED row, without a
\* lock, for one request or several ...
ReadIssued(i) ==
    /\ status[i] = "ISSUED"
    /\ i \notin asked
    /\ asked' = asked \cup {i}
    /\ UNCHANGED <<dead, rowVars, doing, filed, refreshing, fault>>

\* ... and refresh_invoice_order_snapshot one it may reopen.
ReadIncomplete(i) ==
    /\ status[i] = "DEAD_LETTER" /\ i \in incomplete
    /\ i \notin refreshing
    /\ refreshing' = refreshing \cup {i}
    /\ UNCHANGED <<dead, rowVars, doing, filed, asked, fault>>

\* A request that has read is answered: it may have been the last one.  And a
\* column that was NULL when the row was read is not set to NULL again.
MayDrop(set, i) == {set, set \ {i}}

\* What a commit writes over, unless the row is still as it was read.
OverwrittenUnless(i, asRead) ==
    fault' = IF asRead THEN fault ELSE [fault EXCEPT ![i] = "overwritten"]

\* request_invoice_cancel commits: void, correct or complement, as the policy has
\* it, over whatever the row has become.
RequestCancel(i) ==
    /\ i \in asked
    /\ \E s \in {"CANCELLING", "CORRECTION_REQUESTED", "COMPLEMENTARY_ISSUED"} :
          /\ status' = [status EXCEPT ![i] = s]
          /\ waiting' \in IF s = "CANCELLING" THEN MayDrop(waiting, i) ELSE {waiting}
          /\ incomplete' \in IF s = "CANCELLING" THEN MayDrop(incomplete, i) ELSE {incomplete}
    /\ asked' \in MayDrop(asked, i)
    /\ OverwrittenUnless(i, status[i] = "ISSUED")
    /\ UNCHANGED <<dead, lock, retries, doing, filed, refreshing>>

\* request_cce_stub_queue commits.
RequestCorrection(i) ==
    /\ i \in asked
    /\ status' = [status EXCEPT ![i] = "CORRECTION_REQUESTED"]
    /\ waiting' \in MayDrop(waiting, i) /\ incomplete' \in MayDrop(incomplete, i)
    /\ asked' \in MayDrop(asked, i)
    /\ OverwrittenUnless(i, status[i] = "ISSUED")
    /\ UNCHANGED <<dead, lock, retries, doing, filed, refreshing>>

\* reset_invoice_for_retry, over whatever the row has become.  retry_count is kept.
ResetRow(i) ==
    /\ status' = [status EXCEPT ![i] = "PENDING"]
    /\ lock' \in {lock, [lock EXCEPT ![i] = None]}
    /\ waiting' \in MayDrop(waiting, i)

\* The operator's retry and reissue, whatever the invoice's status.
Reset(i) ==
    /\ status[i] # None
    /\ ResetRow(i)
    /\ incomplete' \in MayDrop(incomplete, i)
    /\ fault' = [fault EXCEPT ![i] = "overwritten"]
    /\ UNCHANGED <<dead, retries, doing, filed, requestVars>>

\* refresh_invoice_order_snapshot commits.
Refresh(i) ==
    /\ i \in refreshing
    /\ ResetRow(i)
    /\ incomplete' = incomplete \ {i}
    /\ refreshing' \in MayDrop(refreshing, i)
    /\ OverwrittenUnless(i, status[i] = "DEAD_LETTER" /\ i \in incomplete)
    /\ UNCHANGED <<dead, retries, doing, filed, asked>>

-----------------------------------------------------------------------------
Work(w) ==
    \/ \E i \in Invoices : ClaimIssue(w, i) \/ ClaimChange(w, i)
    \/ Call(w) \/ Save(w)

Next ==
    \/ \E i \in Invoices : Create(i) \/ CreateFails(i)
    \/ \E w \in Workers : Work(w) \/ Dies(w)
    \/ \E i \in Invoices : \/ RetryDue(i) \/ LockTimeout(i)
                           \/ ReadIssued(i) \/ RequestCancel(i) \/ RequestCorrection(i)
                           \/ ReadIncomplete(i) \/ Refresh(i) \/ Reset(i)

Spec == Init /\ [][Next]_vars

\* The workers' loops never stop, time passes, and a worker does not die at every
\* attempt.  The event worker's errors may come back for ever.
Fairness ==
    /\ \A w \in Workers : WF_vars(Work(w)) /\ SF_vars(Call(w)) /\ SF_vars(Save(w))
    /\ \A i \in Invoices : WF_vars(RetryDue(i)) /\ WF_vars(LockTimeout(i))

FairSpec == Spec /\ Fairness

-----------------------------------------------------------------------------
TypeOK ==
    /\ status \in [Invoices -> Statuses \cup {None}]
    /\ lock \in [Invoices -> {None, "recent", "stale"}]
    /\ retries \in [Invoices -> 0..MaxRetries]
    /\ doing \in [Workers -> [task : {"none", "issue", "cancel", "correct"},
                              invoice : Invoices \cup {None},
                              retries : 0..MaxRetries,
                              outcome : Outcomes]]
    /\ filed \in [Invoices -> 0..2]
    /\ dead \cup waiting \cup incomplete \cup asked \cup refreshing \subseteq Invoices
    /\ fault \in [Invoices -> Faults \cup {None}]

\* Two workers never issue one invoice at the same time, however slow they are,
\* unless an operator reset it or a refresh came late: of two refreshes that overlap
\* the second puts back to PENDING what is being issued already.
OneIssuer ==
    \A i \in Invoices, v, w \in Workers :
        v # w /\ Busy(v, "issue", i) /\ Busy(w, "issue", i) => fault[i] = "overwritten"

\* No invoice is filed twice with the tax authority by the worker, the API and the
\* admin console, as far as they learn of it, unless the issued row could not be read
\* back, an operator asked for it or a request came late.  (The resync of what was
\* issued in contingency files too, and is not modelled.)
FiledOnce == \A i \in Invoices : filed[i] = 2 => fault[i] \in {"unread", "overwritten"}

\* A cancelled invoice stays cancelled, unless an operator resets it, its row could
\* not be read back, a request read it before and commits over it, or a worker that
\* outlived its lock comes late: a failure of it may make it DEAD_LETTER, but never
\* puts the cancellation back in the queue.
CancelledStays ==
    [][\A i \in Invoices :
          status[i] = "CANCELLED" /\ status'[i] # "CANCELLED" =>
              \/ fault'[i] \in {"unread", "overwritten"}
              \/ fault[i] = "outlived" /\ status'[i] \in {"DEAD_LETTER", "ISSUED"}]_vars

\* A pending invoice is settled, one way or the other, unless an operator resets it,
\* a request came late or the worker that claimed it died: what is PROCESSING is
\* never claimed again.
Abandoned(i) == status[i] = "PROCESSING" /\ \A w \in Workers : ~Busy(w, "issue", i)
IssueSettles ==
    \A i \in Invoices :
        status[i] \in {"PENDING", "FAILED"} ~>
            \/ status[i] \notin {"PENDING", "FAILED", "PROCESSING"}
            \/ Abandoned(i) \/ fault[i] = "overwritten"

\* A requested cancellation is settled even if the worker that claimed it died.
CancelSettles == \A i \in Invoices : status[i] = "CANCELLING" ~> status[i] # "CANCELLING"
=============================================================================
