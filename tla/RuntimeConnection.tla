------------------------- MODULE RuntimeConnection -------------------------
(***************************************************************************)
(* The locker runtime's handlers, statement by statement.  The handlers    *)
(* run on the threads of the server's pool and all of them use the one     *)
(* sqlite connection of get_conn, so they also share its transaction: a    *)
(* commit() makes the statements of every thread durable and a rollback()  *)
(* reverts those of every thread.  A handler's first statement is taken    *)
(* together with the arrival of its request.                               *)
(*                                                                         *)
(* One locker.  The expire handler, which no service calls, is left to     *)
(* SlotRuntime: its writes are those of release.                           *)
(***************************************************************************)
EXTENDS FiniteSets

CONSTANTS
    Threads,     \* threads of the server's pool
    Machine,     \* the locker
    Slots,       \* its drawers
    AllocIds,    \* allocation identifiers
    SetStates,   \* bound: the states that set-state is asked for
    None         \* "no row"

VARIABLES
    disk,        \* the committed tables [door, alloc, at]
    conn,        \* the tables as the shared connection sees them
    pc,          \* pc[t]: the statement thread t executes next
    req,         \* req[t]: the request thread t serves [slot, id, to]
    granted      \* allocations whose allocate call was answered 200

vars == <<disk, conn, pc, req, granted>>

SlotStates == {"AVAILABLE", "RESERVED", "PAID_PENDING_PICKUP",
               "OUT_OF_STOCK", "MAINTENANCE", "FAULT", "BLOCKED"}
AllocStates == {"RESERVED", "COMMITTED", "RELEASED"}
ActiveStates == {"RESERVED", "COMMITTED"}
Statements == {"idle", "reserve", "insert", "door", "row", "flush", "undo"}

ASSUME SetStatesAssumption == SetStates \subseteq SlotStates
ASSUME NoRowAssumption ==
    None \notin SlotStates \cup AllocStates \cup Slots \cup AllocIds

Tables == [door : [Slots -> SlotStates \cup {None}],
           alloc : [AllocIds -> AllocStates \cup {None}],
           at : [AllocIds -> Slots \cup {None}]]
Requests == [slot : Slots \cup {None}, id : AllocIds \cup {None},
             to : AllocStates \cup {None}]
NoRequest == [slot |-> None, id |-> None, to |-> None]

Init ==
    /\ disk = [door |-> [s \in Slots |-> None],
               alloc |-> [a \in AllocIds |-> None],
               at |-> [a \in AllocIds |-> None]]
    /\ conn = disk
    /\ pc = [t \in Threads |-> "idle"]
    /\ req = [t \in Threads |-> NoRequest]
    /\ granted = {}

-----------------------------------------------------------------------------
\* Thread t, at this statement, goes on to the next one; conn takes tables c.
Execute(t, next, c) ==
    /\ pc' = [pc EXCEPT ![t] = next]
    /\ conn' = c
    /\ UNCHANGED <<disk, granted>>

\* The first statement of a request, and a later one.
Accept(t, r, next, c) ==
    /\ pc[t] = "idle"
    /\ req' = [req EXCEPT ![t] = r]
    /\ Execute(t, next, c)
Continue(t, next, c) == UNCHANGED req /\ Execute(t, next, c)

\* Thread t has answered and waits for its next request.
Answer(t) ==
    /\ pc' = [pc EXCEPT ![t] = "idle"]
    /\ req' = [req EXCEPT ![t] = NoRequest]

WithDoor(s, state) == [conn EXCEPT !.door[s] = state]
WithRow(a, state, s) == [conn EXCEPT !.alloc[a] = state, !.at[a] = s]

\* Row id, made active on drawer s, would break the unique index.
Clash(id, s) ==
    \E b \in AllocIds \ {id} : conn.alloc[b] \in ActiveStates /\ conn.at[b] = s

\* POST /allocate: INSERT the door row AVAILABLE if there is none.
EnsureDoor(t, s, a) ==
    Accept(t, [slot |-> s, id |-> a, to |-> "RESERVED"], "reserve",
           IF conn.door[s] = None THEN WithDoor(s, "AVAILABLE") ELSE conn)

\* UPDATE door_state ... WHERE state='AVAILABLE'.
ReserveDoor(t) ==
    /\ pc[t] = "reserve"
    /\ conn.door[req[t].slot] = "AVAILABLE"
    /\ Continue(t, "insert", WithDoor(req[t].slot, "RESERVED"))

\* No row updated: 409, without a rollback.
RefuseDoor(t) ==
    /\ pc[t] = "reserve"
    /\ conn.door[req[t].slot] # "AVAILABLE"
    /\ Answer(t)
    /\ UNCHANGED <<disk, conn, granted>>

\* Mutant: an INSERT OR REPLACE, which the primary key does not stop.
ReplaceRow(t) ==
    /\ pc[t] = "insert"
    /\ ~Clash(req[t].id, req[t].slot)
    /\ Continue(t, "flush", WithRow(req[t].id, "RESERVED", req[t].slot))

\* INSERT INTO allocations, when neither the key nor the index is violated.
InsertRow(t) ==
    /\ pc[t] = "insert"
    /\ conn.alloc[req[t].id] = None
    /\ ~Clash(req[t].id, req[t].slot)
    /\ Continue(t, "flush", WithRow(req[t].id, "RESERVED", req[t].slot))

\* The INSERT raises IntegrityError.
InsertFails(t) ==
    /\ pc[t] = "insert"
    /\ conn.alloc[req[t].id] # None \/ Clash(req[t].id, req[t].slot)
    /\ Continue(t, "undo", conn)

\* Commit and release read the row and decide on it; the other states are
\* answered without a write.
Fetch(t, a, to) ==
    /\ conn.alloc[a] \in IF to = "COMMITTED" THEN {"RESERVED"} ELSE ActiveStates
    /\ Accept(t, [slot |-> conn.at[a], id |-> a, to |-> to], "door", conn)

\* Mutant: the allocation's new state is written into the door.
WriteDoorState(t) ==
    /\ pc[t] = "door"
    /\ conn.door[req[t].slot] # None
    /\ Continue(t, "row", WithDoor(req[t].slot, req[t].to))

\* UPDATE door_state, whatever its state.
WriteDoor(t) ==
    /\ pc[t] = "door"
    /\ conn.door[req[t].slot] # None
    /\ Continue(t, "row", WithDoor(req[t].slot,
                                   IF req[t].to = "COMMITTED"
                                   THEN "PAID_PENDING_PICKUP" ELSE "AVAILABLE"))

\* No row updated: 404, without a rollback.
DoorMissing(t) ==
    /\ pc[t] = "door"
    /\ conn.door[req[t].slot] = None
    /\ Answer(t)
    /\ UNCHANGED <<disk, conn, granted>>

\* Mutant: no unique index stops the UPDATE.
WriteAnyRow(t) ==
    /\ pc[t] = "row"
    /\ Continue(t, "flush", WithRow(req[t].id, req[t].to, req[t].slot))

\* UPDATE allocations; a row that is gone by now is not noticed.
WriteRow(t) ==
    LET r == req[t] IN
    /\ pc[t] = "row"
    /\ r.to = "RELEASED" \/ ~Clash(r.id, conn.at[r.id])
    /\ Continue(t, "flush", IF conn.alloc[r.id] = None THEN conn
                            ELSE WithRow(r.id, r.to, conn.at[r.id]))

\* The UPDATE raises IntegrityError: the drawer has a new active allocation.
WriteFails(t) ==
    /\ pc[t] = "row"
    /\ req[t].to = "COMMITTED" /\ Clash(req[t].id, conn.at[req[t].id])
    /\ Continue(t, "undo", conn)

\* POST set-state, and the reads that create a missing row AVAILABLE.
UpsertDoor(t, s, state) ==
    Accept(t, [slot |-> s, id |-> None, to |-> None], "flush", WithDoor(s, state))

\* Mutant: 200 is answered without the commit.
FlushNothing(t) ==
    /\ pc[t] = "flush"
    /\ granted' = granted \cup (IF req[t].to = "RESERVED" THEN {req[t].id} ELSE {})
    /\ Answer(t)
    /\ UNCHANGED <<disk, conn>>

\* conn.commit() and the answer 200.
Flush(t) ==
    /\ pc[t] = "flush"
    /\ disk' = conn
    /\ granted' = granted \cup (IF req[t].to = "RESERVED" THEN {req[t].id} ELSE {})
    /\ Answer(t)
    /\ UNCHANGED conn

\* Mutant: the error is answered without a rollback.
UndoNothing(t) ==
    /\ pc[t] = "undo"
    /\ Answer(t)
    /\ UNCHANGED <<disk, conn, granted>>

\* conn.rollback() and the answer 500.
Undo(t) ==
    /\ pc[t] = "undo"
    /\ conn' = disk
    /\ Answer(t)
    /\ UNCHANGED <<disk, granted>>

\* The process dies and is started again.
Restart ==
    /\ conn' = disk
    /\ pc' = [t \in Threads |-> "idle"]
    /\ req' = [t \in Threads |-> NoRequest]
    /\ UNCHANGED <<disk, granted>>

Step(t) ==
    \/ \E s \in Slots, a \in AllocIds : EnsureDoor(t, s, a)
    \/ ReserveDoor(t) \/ RefuseDoor(t) \/ InsertRow(t) \/ InsertFails(t)
    \/ \E a \in AllocIds, to \in {"COMMITTED", "RELEASED"} : Fetch(t, a, to)
    \/ WriteDoor(t) \/ DoorMissing(t) \/ WriteRow(t) \/ WriteFails(t)
    \/ \E s \in Slots, state \in SetStates : UpsertDoor(t, s, state)
    \/ Flush(t) \/ Undo(t)

Next == Restart \/ \E t \in Threads : Step(t)

Spec == Init /\ [][Next]_vars

-----------------------------------------------------------------------------
\* Types of the committed tables, of the connection's and of the requests.
ConnTypeOK ==
    /\ disk \in Tables /\ conn \in Tables
    /\ pc \in [Threads -> Statements]
    /\ req \in [Threads -> Requests]
    /\ granted \subseteq AllocIds

ExclusiveIn(db) ==
    \A a, b \in AllocIds :
        (/\ db.alloc[a] \in ActiveStates
         /\ db.alloc[b] \in ActiveStates
         /\ db.at[a] = db.at[b]) => a = b

\* Whatever the threads' statements interleave to, and whatever is rolled
\* back under a running handler, a drawer has one active allocation at most.
Exclusive == ExclusiveIn(disk) /\ ExclusiveIn(conn)

\* An allocation that is durable stays durable and never moves to another
\* drawer, although any thread may roll back the common transaction.
RowsStay ==
    [][\A a \in AllocIds : disk.alloc[a] # None =>
          disk'.alloc[a] # None /\ disk'.at[a] = disk.at[a]]_vars

\* An allocation that was answered 200 has its row ("persiste allocation local
\* para commit/release/offline", allocations.py:161).
GrantsStored == \A a \in granted : disk.alloc[a] # None

\* With one thread the durable tables do what SlotRuntime says: a handler takes
\* effect when it commits, entirely or, refused, failed or killed, not at all.
Runtime == INSTANCE SlotRuntime WITH
    Machines <- {Machine},
    door <- [d \in {Machine} \X Slots |-> disk.door[d[2]]],
    alloc <- disk.alloc,
    at <- [a \in AllocIds |-> IF disk.at[a] = None THEN None
                              ELSE <<Machine, disk.at[a]>>],
    lapsed <- {}

ImplementsRuntime == Runtime!Spec
=============================================================================
