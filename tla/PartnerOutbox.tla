--------------------------- MODULE PartnerOutbox ---------------------------
(***************************************************************************)
(* The ORDER_PAID events that the order service tells a partner about one  *)
(* order (partner_order_events_outbox): each request for the order's       *)
(* fiscal context adds one unless it finds one; runs of the outbox job,    *)
(* which may overlap (each replica's loop, and an operator's), send what   *)
(* is due to the partner's webhook; an operator replays.                   *)
(*                                                                         *)
(* A run sends a batch in one transaction and counts an attempt from the   *)
(* row it selected.  The order's tracking row, written for each event,     *)
(* keeps the transactions of two runs apart once both have written.        *)
(***************************************************************************)
EXTENDS Integers, FiniteSets

CONSTANTS Senders,      \* runs of the outbox job
          MaxEvents,    \* bound: events of the order, in the order of created_at
          MaxLooking,   \* bound: requests that look at once
          MaxAttempts,  \* max_attempts of the endpoint's policy
          None

VARIABLES event,      \* event[e]: the row's status, or None
          tries,      \* tries[e]: attempt_count
          backoff,    \* events whose next_retry_at is in the future
          looking,    \* how many requests have found no event and will add one
          batch,      \* batch[s]: what run s has selected, seen and written
          replayed    \* events an operator has replayed

outboxVars == <<event, tries, backoff, looking, batch, replayed>>

Events == 1..MaxEvents
Statuses == {"PENDING", "FAILED", "DELIVERED", "DEAD_LETTER", "SKIPPED"}
Nothing == [todo |-> {}, seen |-> [e \in Events |-> 0], wrote |-> [e \in Events |-> None]]

Init ==
    /\ event = [e \in Events |-> None]
    /\ tries = [e \in Events |-> 0]
    /\ backoff = {} /\ looking = 0 /\ replayed = {}
    /\ batch = [s \in Senders |-> Nothing]

Written(s) == {e \in Events : batch[s].wrote[e] # None}

\* enqueue_partner_order_paid_event_if_needed: nothing pending or delivered ...
Look ==
    /\ looking < MaxLooking
    /\ \A e \in Events : event[e] \notin {"PENDING", "FAILED", "DELIVERED"}
    /\ looking' = looking + 1
    /\ UNCHANGED <<event, tries, backoff, batch, replayed>>

\* ... so that an event is added, whatever others have added meanwhile.
Enqueue ==
    /\ looking > 0
    /\ looking' = looking - 1
    /\ \E e \in Events :
          /\ event[e] = None /\ \A d \in 1..(e - 1) : event[d] # None
          /\ event' = [event EXCEPT ![e] = "PENDING"]
    /\ UNCHANGED <<tries, backoff, batch, replayed>>

Due == {e \in Events \ backoff : event[e] \in {"PENDING", "FAILED"}}

\* run_integration_order_events_outbox_once reads what is due, without a lock.
Select(s) ==
    /\ batch[s] = Nothing /\ Due # {}
    /\ batch' = [batch EXCEPT ![s] =
                    [todo |-> Due,
                     seen |-> [e \in Events |-> IF e \in Due THEN tries[e] ELSE 0],
                     wrote |-> @.wrote]]
    /\ UNCHANGED <<event, tries, backoff, looking, replayed>>

\* What comes of an attempt.
Outcomes(attempt) == {"DELIVERED", "SKIPPED", IF attempt >= MaxAttempts THEN "DEAD_LETTER"
                                                                      ELSE "FAILED"}

\* Sends the oldest event of the batch, whatever has become of its row, and
\* writes the outcome: SKIPPED without an endpoint.
Deliver(s) ==
    /\ \A r \in Senders \ {s} : Written(r) = {}
    /\ \E e \in batch[s].todo :
          /\ \A d \in batch[s].todo : e <= d
          /\ \E o \in Outcomes(batch[s].seen[e] + 1) :
                batch' = [batch EXCEPT ![s] = [todo |-> @.todo \ {e}, seen |-> @.seen,
                                               wrote |-> [@.wrote EXCEPT ![e] = o]]]
    /\ UNCHANGED <<event, tries, backoff, looking, replayed>>

\* Mutant: a retry does not count its attempt.
CommitUncounted(s) ==
    /\ batch[s].todo = {} /\ Written(s) # {}
    /\ event' = [e \in Events |-> IF e \in Written(s) THEN batch[s].wrote[e] ELSE event[e]]
    /\ tries' = [e \in Events |->
                   IF e \in Written(s) THEN batch[s].seen[e] ELSE tries[e]]
    /\ backoff' = (backoff \ Written(s)) \cup {e \in Events : batch[s].wrote[e] = "FAILED"}
    /\ batch' = [batch EXCEPT ![s] = Nothing]
    /\ UNCHANGED <<looking, replayed>>

\* One commit for the batch.
Commit(s) ==
    /\ batch[s].todo = {} /\ Written(s) # {}
    /\ event' = [e \in Events |-> IF e \in Written(s) THEN batch[s].wrote[e] ELSE event[e]]
    /\ tries' = [e \in Events |->
                   IF e \in Written(s) THEN batch[s].seen[e] + 1 ELSE tries[e]]
    /\ backoff' = (backoff \ Written(s)) \cup {e \in Events : batch[s].wrote[e] = "FAILED"}
    /\ batch' = [batch EXCEPT ![s] = Nothing]
    /\ UNCHANGED <<looking, replayed>>

\* Wherever a run dies, nothing of its batch is kept: here, when it would commit.
Fails(s) ==
    /\ batch[s].todo = {} /\ Written(s) # {}
    /\ batch' = [batch EXCEPT ![s] = Nothing]
    /\ UNCHANGED <<event, tries, backoff, looking, replayed>>

\* next_retry_at comes.
BackoffOver(e) ==
    /\ e \in backoff
    /\ backoff' = backoff \ {e}
    /\ UNCHANGED <<event, tries, looking, batch, replayed>>

\* The operator's replays: DELIVERED too, with force, or when it was not that yet
\* when the rows to replay were read.
Replay(e) ==
    /\ event[e] # None
    /\ \A s \in Senders : e \notin Written(s)
    /\ event' = [event EXCEPT ![e] = "PENDING"]
    /\ tries' = [tries EXCEPT ![e] = 0]
    /\ backoff' = backoff \ {e}
    /\ replayed' = replayed \cup {e}
    /\ UNCHANGED <<looking, batch>>

Next ==
    \/ Look \/ Enqueue
    \/ \E s \in Senders : Select(s) \/ Deliver(s) \/ Commit(s) \/ Fails(s)
    \/ \E e \in Events : BackoffOver(e) \/ Replay(e)

Spec == Init /\ [][Next]_outboxVars

\* The loops never stop, time passes, and a run does not fail each time.
Fairness ==
    /\ \A s \in Senders : WF_outboxVars(Select(s)) /\ WF_outboxVars(Deliver(s))
                          /\ SF_outboxVars(Commit(s))
    /\ \A e \in Events : WF_outboxVars(BackoffOver(e))

FairSpec == Spec /\ Fairness

-----------------------------------------------------------------------------
TypeOK ==
    /\ event \in [Events -> Statuses \cup {None}]
    /\ tries \in [Events -> 0..MaxAttempts]
    /\ backoff \cup replayed \subseteq Events
    /\ looking \in 0..MaxLooking
    /\ batch \in [Senders -> [todo : SUBSET Events, seen : [Events -> 0..MaxAttempts],
                              wrote : [Events -> Statuses \cup {None}]]]

\* An event is delivered or given up, although overlapping runs count attempts
\* from rows they have read before each other's commits, and may even take a
\* delivered event back to FAILED; unless an operator keeps replaying it.
OutboxSettles ==
    \A e \in Events :
        event[e] \in {"PENDING", "FAILED"} ~>
            event[e] \in {"DELIVERED", "DEAD_LETTER", "SKIPPED"} \/ e \in replayed
=============================================================================
