-------------------------- MODULE Deadlines_proofs --------------------------
(***************************************************************************)
(* What the deadline table and its workers keep for any number of workers, *)
(* deadlines and callers, and whatever types of deadline a worker serves.  *)
(***************************************************************************)
EXTENDS Deadlines, TLAPS

Executing == {"loaded", "raised", "failing"}

\* Once claimed, a deadline never is PENDING again, nor is one that a crash
\* left behind; what a worker executes is among what it holds.
Held ==
    /\ \A w \in Workers : \A k \in todo[w] : status[k] \notin {None, "PENDING"}
    /\ \A k \in stranded : status[k] \notin {None, "PENDING"}
    /\ \A w \in Workers : wpc[w] \in Executing => cur[w] \in todo[w]

\* A deadline cancelled before its claim is in no worker's hands.
Untouched ==
    \A k \in revoked :
        /\ status[k] = "CANCELLED"
        /\ \A w \in Workers : k \notin todo[w]

\* Only the execution of a prepayment timeout records its event, and events
\* are never deleted.
EventsGrow ==
    /\ \A k \in Deadlines \ Pickups :
          status[k] \in {None, "PENDING"} \/ k \in revoked => event[k] = None
    /\ \A w \in Workers : \A k \in seen[w] : event[k] # None

\* The inductive invariant.
IInv == TypeOK /\ OneExecutor /\ FiredIsTold /\ Held /\ Untouched /\ EventsGrow

-----------------------------------------------------------------------------
LEMMA FinishTyped ==
    ASSUME TypeOK, NEW w \in Workers, NEW k, Finish(w, k)
    PROVE  /\ todo' \in [Workers -> SUBSET Deadlines]
           /\ wpc' \in [Workers -> {"sleep", "next", "loaded", "raised", "failing"}]
           /\ cur' \in [Workers -> Deadlines \cup {None}]
           /\ cancels' \in [Workers -> BOOLEAN]
           /\ seen' \in [Workers -> SUBSET Deadlines]
  BY DEF TypeOK, Finish

\* Finishing only takes work away from a worker.
LEMMA FinishDrops ==
    ASSUME TypeOK, NEW w \in Workers, NEW k, Finish(w, k)
    PROVE  /\ todo'[w] = todo[w] \ {k}
           /\ wpc'[w] \notin Executing
           /\ seen'[w] = {}
           /\ \A v \in Workers \ {w} :
                 todo'[v] = todo[v] /\ wpc'[v] = wpc[v] /\ cur'[v] = cur[v] /\ seen'[v] = seen[v]
  BY DEF TypeOK, Finish, Executing

LEMMA PublishedKeeps ==
    ASSUME TypeOK, NEW w \in Workers
    PROVE  /\ Published(w) \in [Deadlines -> EventStatuses \cup {None}]
           /\ \A k \in Deadlines : event[k] # None => Published(w)[k] # None
           /\ EventsGrow => \A k \in Deadlines : event[k] = None => Published(w)[k] = None
  BY DeadlinesAssumption DEF TypeOK, Published, EventStatuses, EventsGrow

-----------------------------------------------------------------------------
LEMMA ApiTyped ==
    ASSUME TypeOK, Api
    PROVE  TypeOK'
  <1> USE DEF tableVars, workerVars, historyVars, Statuses, EventStatuses
  <1>1. ASSUME NEW k \in Deadlines, CreateDeadline(k)
        PROVE  TypeOK'
    BY <1>1 DEF CreateDeadline, TypeOK
  <1>2. ASSUME NEW k \in Deadlines, BecomeDue(k)
        PROVE  TypeOK'
    BY <1>2 DEF BecomeDue, TypeOK
  <1>3. ASSUME NEW k \in Deadlines, Pay(k)
        PROVE  TypeOK'
    BY <1>3 DEF Pay, TypeOK
  <1>4. ASSUME NEW k \in Deadlines, Ingest(k)
        PROVE  TypeOK'
    BY <1>4 DEF Ingest, TypeOK
  <1>5. ASSUME NEW k \in Deadlines, Ack(k)
        PROVE  TypeOK'
    BY <1>5 DEF Ack, TypeOK
  <1>6. ASSUME NEW c \in Clients, NEW k \in Deadlines, CancelRead(c, k)
        PROVE  TypeOK'
    BY <1>6 DEF CancelRead, TypeOK
  <1>7. ASSUME NEW c \in Clients, CancelWrite(c)
        PROVE  TypeOK'
    BY <1>7 DEF CancelWrite, TypeOK
  <1>8. CASE ListPending
    BY <1>8 DEF ListPending, TypeOK, Pending
  <1>9. QED
    BY <1>1, <1>2, <1>3, <1>4, <1>5, <1>6, <1>7, <1>8 DEF Api

LEMMA WorkerTyped ==
    ASSUME TypeOK, NEW w \in Workers, RunOnce(w) \/ Crash(w)
    PROVE  TypeOK'
  <1> USE DEF tableVars, historyVars, Statuses
  <1>1. CASE Claim(w)
    BY <1>1, DeadlinesAssumption DEF Claim, Claimable, TypeOK
  <1>2. ASSUME NEW k \in Deadlines, Skip(w, k)
        PROVE  TypeOK'
    BY <1>2, FinishTyped DEF Skip, TypeOK
  <1>3. ASSUME NEW k \in Deadlines, Load(w, k)
        PROVE  TypeOK'
    BY <1>3 DEF Load, TypeOK, Pending
  <1>4. CASE CommitCancel(w)
    BY <1>4, FinishTyped, PublishedKeeps DEF CommitCancel, TypeOK
  <1>5. CASE CommitFire(w)
    BY <1>5, FinishTyped, PublishedKeeps DEF CommitFire, TypeOK, EventStatuses
  <1>6. CASE Raise(w)
    BY <1>6 DEF Raise, TypeOK
  <1>7. CASE FailRead(w)
    <2>1. CASE Finish(w, cur[w])
      BY <1>7, <2>1, FinishTyped DEF FailRead, TypeOK
    <2>2. CASE ~ Finish(w, cur[w])
      BY <1>7, <2>2 DEF FailRead, TypeOK
    <2>3. QED
      BY <2>1, <2>2
  <1>8. CASE FailWrite(w)
    BY <1>8, FinishTyped DEF FailWrite, TypeOK
  <1>9. CASE Crash(w)
    BY <1>9 DEF Crash, TypeOK
  <1>10. QED
    BY <1>1, <1>2, <1>3, <1>4, <1>5, <1>6, <1>7, <1>8, <1>9 DEF RunOnce

\* The rows of the table, the workers and the histories always have their
\* types.
THEOREM DeadlinesTypeCorrect == Spec => []TypeOK
  <1>1. Init => TypeOK
    BY DEF Init, TypeOK
  <1>2. TypeOK /\ [Next]_vars => TypeOK'
    <2>1. CASE UNCHANGED vars
      BY <2>1 DEF vars, tableVars, workerVars, historyVars, TypeOK
    <2>2. QED
      BY <2>1, ApiTyped, WorkerTyped DEF Next
  <1>3. QED
    BY <1>1, <1>2, PTL DEF Spec

-----------------------------------------------------------------------------
\* Requests, the clock and payments: none gives a worker anything to hold.
LEMMA ApiKeeps ==
    ASSUME IInv, Api
    PROVE  IInv'
  <1> USE DEF tableVars, workerVars, historyVars, IInv
  <1>0. TypeOK'
    BY ApiTyped
  <1>1. ASSUME NEW k \in Deadlines, CreateDeadline(k)
        PROVE  IInv'
    <2>1. \A w \in Workers : k \notin todo[w]
      BY <1>1 DEF CreateDeadline, Held
    <2>2. k \notin stranded /\ k \notin revoked
      BY <1>1, DeadlinesAssumption DEF CreateDeadline, Held, Untouched, Statuses
    <2>3. status' = [status EXCEPT ![k] = "PENDING"]
      BY <1>1 DEF CreateDeadline
    <2>4. OneExecutor' /\ Held' /\ Untouched'
      BY <1>1, <2>1, <2>2, <2>3 DEF CreateDeadline, OneExecutor, Held, Untouched, TypeOK
    <2>5. FiredIsTold' /\ EventsGrow'
      BY <1>1, <2>2, <2>3 DEF CreateDeadline, FiredIsTold, EventsGrow, TypeOK
    <2>6. QED
      BY <1>0, <2>4, <2>5
  <1>2. ASSUME NEW k \in Deadlines, BecomeDue(k) \/ Pay(k)
        PROVE  IInv'
    BY <1>0, <1>2
    DEF BecomeDue, Pay, OneExecutor, FiredIsTold, Held, Untouched, EventsGrow
  <1>3. ASSUME NEW k \in Deadlines, Ingest(k) \/ Ack(k)
        PROVE  IInv'
    <2>1. OneExecutor' /\ Held' /\ Untouched'
      BY <1>3 DEF Ingest, Ack, OneExecutor, Held, Untouched
    <2>2. event' \in [Deadlines -> EventStatuses \cup {None}]
      BY <1>0 DEF TypeOK
    <2>3. /\ event[k] # None \/ k \in Pickups
          /\ event'[k] # None
          /\ \A e \in Deadlines \ {k} : event'[e] = event[e]
      BY <1>3, DeadlinesAssumption DEF Ingest, Ack, EventStatuses, TypeOK
    <2>4. FiredIsTold' /\ EventsGrow'
      BY <1>3, <2>3 DEF Ingest, Ack, FiredIsTold, EventsGrow, TypeOK
    <2>5. QED
      BY <1>0, <2>1, <2>4
  <1>4. ASSUME NEW c \in Clients, NEW k \in Deadlines, CancelRead(c, k)
        PROVE  IInv'
    BY <1>0, <1>4
    DEF CancelRead, OneExecutor, FiredIsTold, Held, Untouched, EventsGrow
  <1>5. ASSUME NEW c \in Clients, CancelWrite(c)
        PROVE  IInv'
    <2> DEFINE k == ccall[c]
    <2>1. k \in Deadlines /\ status' = [status EXCEPT ![k] = "CANCELLED"]
      BY <1>5 DEF CancelWrite, TypeOK
    <2>2. \A e \in revoked' \ revoked : e = k /\ status[k] = "PENDING"
      BY <1>5 DEF CancelWrite
    <2>3. OneExecutor' /\ Held'
      BY <1>5, <2>1, DeadlinesAssumption
      DEF CancelWrite, OneExecutor, Held, TypeOK, Statuses
    <2>4. Untouched'
      BY <1>5, <2>1, <2>2 DEF CancelWrite, Untouched, Held, TypeOK
    <2>5. FiredIsTold' /\ EventsGrow'
      BY <1>5, <2>1, <2>2, DeadlinesAssumption
      DEF CancelWrite, FiredIsTold, EventsGrow, TypeOK, Statuses
    <2>6. QED
      BY <1>0, <2>3, <2>4, <2>5
  <1>6. CASE ListPending
    BY <1>0, <1>6
    DEF ListPending, OneExecutor, FiredIsTold, Held, Untouched, EventsGrow
  <1>7. QED
    BY <1>1, <1>2, <1>3, <1>4, <1>5, <1>6 DEF Api

\* A worker that ends its work on the deadline it executes, writing its status
\* and event rows that only it could add to, disturbs nobody.
LEMMA FinishKeeps ==
    ASSUME IInv, TypeOK', NEW w \in Workers, wpc[w] \in Executing \cup {"next"},
           NEW k \in todo[w], Finish(w, k),
           UNCHANGED <<revoked, stranded>>,
           \A e \in Deadlines \ {k} :
              /\ status'[e] = status[e]
              /\ event[e] = None <=> event'[e] = None,
           status'[k] \notin {None, "PENDING"},
           event[k] # None => event'[k] # None,
           status'[k] = "EXECUTED" => event'[k] # None
    PROVE  IInv'
  <1> USE DEF IInv
  <1>1. todo'[w] = todo[w] \ {k} /\ wpc'[w] \notin Executing /\ seen'[w] = {}
    BY FinishDrops
  <1>2. \A v \in Workers \ {w} :
          todo'[v] = todo[v] /\ wpc'[v] = wpc[v] /\ cur'[v] = cur[v] /\ seen'[v] = seen[v]
    BY FinishDrops
  <1>3. k \in Deadlines /\ k \notin revoked
    BY DEF TypeOK, Untouched
  <1>4. OneExecutor' /\ Held'
    <2>1. \A v \in Workers : todo'[v] \subseteq todo[v]
      BY <1>1, <1>2
    <2>2. OneExecutor'
      BY <2>1 DEF OneExecutor
    <2>3. \A e \in Deadlines :
            status[e] \notin {None, "PENDING"} => status'[e] \notin {None, "PENDING"}
      OBVIOUS
    <2>4. Held'
      BY <1>1, <1>2, <2>1, <2>3 DEF Held, TypeOK
    <2>5. QED
      BY <2>2, <2>4
  <1>5. Untouched'
    BY <1>1, <1>2, <1>3 DEF Untouched, TypeOK
  <1>6. FiredIsTold'
    BY <1>3 DEF FiredIsTold
  <1>7. EventsGrow'
    BY <1>1, <1>2, <1>3 DEF EventsGrow, TypeOK
  <1>8. QED
    BY <1>4, <1>5, <1>6, <1>7

LEMMA WorkerKeeps ==
    ASSUME IInv, NEW w \in Workers, RunOnce(w) \/ Crash(w)
    PROVE  IInv'
  <1> USE DEF tableVars, historyVars
  <1>0. TypeOK /\ TypeOK'
    BY WorkerTyped DEF IInv
  <1>1. wpc[w] \in Executing => cur[w] \in todo[w] /\ cur[w] \in Deadlines
    BY <1>0 DEF IInv, Held, TypeOK
  <1>2. CASE Claim(w)
    <2> DEFINE C == Claimable(w)
    <2>1. /\ C \subseteq Deadlines
          /\ \A k \in C : status[k] = "PENDING" /\ status'[k] = "EXECUTING"
          /\ \A k \in Deadlines \ C : status'[k] = status[k]
      BY <1>2, DeadlinesAssumption DEF Claim, Claimable
    <2>2. todo'[w] = C /\ \A v \in Workers \ {w} : todo'[v] = todo[v]
      BY <1>0, <1>2 DEF Claim, TypeOK
    <2>3. \A k \in C : k \notin stranded /\ k \notin revoked /\ \A v \in Workers : k \notin todo[v]
      BY <2>1 DEF IInv, Held, Untouched
    <2>4. /\ \A v \in Workers \ {w} : wpc'[v] = wpc[v]
          /\ wpc'[w] \notin Executing
      BY <1>0, <1>2 DEF Claim, TypeOK, Executing
    <2>5. UNCHANGED <<event, cur, seen, revoked, stranded>>
      BY <1>2 DEF Claim
    <2>6. OneExecutor'
      BY <2>2, <2>3, <2>5 DEF IInv, OneExecutor
    <2>7. Held'
      BY <1>0, <2>1, <2>2, <2>4, <2>5, DeadlinesAssumption DEF IInv, Held, Statuses, TypeOK
    <2>8. Untouched'
      BY <1>0, <2>1, <2>2, <2>3, <2>5 DEF IInv, Untouched, TypeOK
    <2>9. FiredIsTold'
      BY <2>1, <2>5 DEF IInv, FiredIsTold
    <2>10. EventsGrow'
      BY <2>1, <2>5 DEF IInv, EventsGrow
    <2>11. QED
      BY <1>0, <2>6, <2>7, <2>8, <2>9, <2>10 DEF IInv
  <1>3. ASSUME NEW k \in Deadlines, Skip(w, k)
        PROVE  IInv'
    <2>1. status[k] \notin {None, "PENDING"}
      BY <1>3 DEF Skip, IInv, Held
    <2>2. QED
      BY <1>0, <1>3, <2>1, FinishKeeps DEF Skip, IInv, FiredIsTold
  <1>4. ASSUME NEW k \in Deadlines, Load(w, k)
        PROVE  IInv'
    <2>1. /\ wpc'[w] \in Executing => cur'[w] \in todo'[w]
          /\ \A v \in Workers \ {w} : wpc'[v] = wpc[v] /\ cur'[v] = cur[v] /\ seen'[v] = seen[v]
          /\ seen'[w] = Pending
      BY <1>0, <1>4 DEF Load, TypeOK
    <2>2. \A e \in Pending : event[e] # None
      BY DeadlinesAssumption DEF Pending, EventStatuses
    <2>3. OneExecutor' /\ FiredIsTold' /\ Untouched'
      BY <1>4 DEF Load, IInv, OneExecutor, FiredIsTold, Untouched
    <2>4. Held'
      BY <1>4, <2>1 DEF Load, IInv, Held
    <2>5. EventsGrow'
      BY <1>4, <2>1, <2>2 DEF Load, IInv, EventsGrow
    <2>6. QED
      BY <1>0, <2>3, <2>4, <2>5 DEF IInv
  <1>5. CASE CommitCancel(w)
    <2>1. wpc[w] \in Executing
      BY <1>5 DEF CommitCancel, Executing
    <2>2. /\ status' = [status EXCEPT ![cur[w]] = "CANCELLED"]
          /\ event' = Published(w)
          /\ Finish(w, cur[w])
          /\ UNCHANGED <<revoked, stranded>>
      BY <1>5 DEF CommitCancel
    <2>3. \A e \in Deadlines : event[e] = None <=> event'[e] = None
      BY <1>0, <2>2, PublishedKeeps DEF IInv
    <2>4. status'[cur[w]] = "CANCELLED" /\ \A e \in Deadlines \ {cur[w]} : status'[e] = status[e]
      BY <1>0, <1>1, <2>1, <2>2 DEF TypeOK
    <2>5. QED
      BY <1>0, <1>1, <2>1, <2>2, <2>3, <2>4, DeadlinesAssumption, FinishKeeps DEF Statuses
  <1>6. CASE CommitFire(w)
    <2>1. wpc[w] \in Executing
      BY <1>6 DEF CommitFire, Executing
    <2>2. /\ status' = [status EXCEPT ![cur[w]] = "EXECUTED"]
          /\ event' = [Published(w) EXCEPT ![cur[w]] = "PENDING"]
          /\ Finish(w, cur[w])
          /\ UNCHANGED <<revoked, stranded>>
      BY <1>6 DEF CommitFire
    <2>3. /\ event'[cur[w]] = "PENDING"
          /\ \A e \in Deadlines \ {cur[w]} : event[e] = None <=> event'[e] = None
      BY <1>0, <1>1, <2>1, <2>2, PublishedKeeps DEF IInv
    <2>4. status'[cur[w]] = "EXECUTED" /\ \A e \in Deadlines \ {cur[w]} : status'[e] = status[e]
      BY <1>0, <1>1, <2>1, <2>2 DEF TypeOK
    <2>5. None # "PENDING" /\ None # "EXECUTED"
      BY DeadlinesAssumption DEF Statuses
    <2>6. QED
      BY <1>0, <1>1, <2>1, <2>2, <2>3, <2>4, <2>5, FinishKeeps
  <1>7. CASE Raise(w)
    <2>1. wpc[w] \in Executing
      BY <1>7 DEF Raise, Executing
    <2>2. \A v \in Workers : wpc'[v] \in Executing => wpc[v] \in Executing
      BY <1>0, <1>7, <2>1 DEF Raise, TypeOK
    <2>3. QED
      BY <1>0, <1>7, <2>2
      DEF Raise, IInv, OneExecutor, FiredIsTold, Held, Untouched, EventsGrow
  <1>8. CASE FailRead(w)
    <2>1. wpc[w] \in Executing
      BY <1>8 DEF FailRead, Executing
    <2>2. status[cur[w]] \notin {None, "PENDING"}
      BY <1>1, <2>1 DEF IInv, Held
    <2>3. CASE Finish(w, cur[w])
      BY <1>0, <1>1, <1>8, <2>1, <2>2, <2>3, FinishKeeps DEF FailRead, IInv, FiredIsTold
    <2>4. CASE ~ Finish(w, cur[w])
      <3>1. \A v \in Workers : wpc'[v] \in Executing => wpc[v] \in Executing
        BY <1>0, <1>8, <2>1, <2>4 DEF FailRead, TypeOK
      <3>2. QED
        BY <1>0, <1>8, <2>4, <3>1
        DEF FailRead, IInv, OneExecutor, FiredIsTold, Held, Untouched, EventsGrow
    <2>5. QED
      BY <2>3, <2>4
  <1>9. CASE FailWrite(w)
    <2>1. wpc[w] \in Executing
      BY <1>9 DEF FailWrite, Executing
    <2>2. status'[cur[w]] = "FAILED" /\ \A e \in Deadlines \ {cur[w]} : status'[e] = status[e]
      BY <1>0, <1>1, <1>9, <2>1 DEF FailWrite, TypeOK
    <2>3. None # "FAILED"
      BY DeadlinesAssumption DEF Statuses
    <2>4. QED
      BY <1>0, <1>1, <1>9, <2>1, <2>2, <2>3, FinishKeeps DEF FailWrite
  <1>10. CASE Crash(w)
    <2>1. /\ todo'[w] = {} /\ wpc'[w] \notin Executing /\ seen'[w] = {}
          /\ \A v \in Workers \ {w} :
                todo'[v] = todo[v] /\ wpc'[v] = wpc[v] /\ cur'[v] = cur[v] /\ seen'[v] = seen[v]
      BY <1>0, <1>10 DEF Crash, TypeOK, Executing
    <2>2. stranded' = stranded \cup todo[w] /\ UNCHANGED <<status, event, revoked>>
      BY <1>10 DEF Crash
    <2>3. OneExecutor'
      BY <2>1, <2>2 DEF IInv, OneExecutor
    <2>4. Held'
      BY <2>1, <2>2 DEF IInv, Held
    <2>5. Untouched' /\ FiredIsTold' /\ EventsGrow'
      BY <2>1, <2>2 DEF IInv, Untouched, FiredIsTold, EventsGrow
    <2>6. QED
      BY <1>0, <2>3, <2>4, <2>5 DEF IInv
  <1>11. QED
    BY <1>2, <1>3, <1>4, <1>5, <1>6, <1>7, <1>8, <1>9, <1>10 DEF RunOnce

LEMMA InitKeeps == Init => IInv
  BY DeadlinesAssumption
  DEF Init, IInv, TypeOK, OneExecutor, FiredIsTold, Held, Untouched, EventsGrow,
      Executing, Statuses

LEMMA StepKeeps == IInv /\ [Next]_vars => IInv'
  <1>1. CASE UNCHANGED vars
    BY <1>1
    DEF vars, tableVars, workerVars, historyVars, IInv, TypeOK, OneExecutor, FiredIsTold,
        Held, Untouched, EventsGrow
  <1>2. QED
    BY <1>1, ApiKeeps, WorkerKeeps DEF Next

LEMMA Inductive == Spec => []IInv
  BY InitKeeps, StepKeeps, PTL DEF Spec

LEMMA StaysRevoked == IInv => RevokedStays
  BY DEF IInv, TypeOK, Untouched, EventsGrow, RevokedStays

\* However many workers poll, no deadline is in the hands of two of them, and
\* none that a crash left behind is taken up again.
THEOREM ExecutedOnce == Spec => []OneExecutor
  BY Inductive, PTL DEF IInv

\* A timeout is never committed without the event that tells the order service
\* of it.
THEOREM TimeoutsAreTold == Spec => []FiredIsTold
  BY Inductive, PTL DEF IInv

\* A deadline cancelled while it was PENDING stays CANCELLED and its prepayment
\* timeout never fires, whatever workers and callers do afterwards.
THEOREM CancelledStays == Spec => []RevokedStays
  BY StaysRevoked, Inductive, PTL
=============================================================================
