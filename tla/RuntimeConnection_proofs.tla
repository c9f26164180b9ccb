---------------------- MODULE RuntimeConnection_proofs ----------------------
(***************************************************************************)
(* What the shared sqlite connection keeps for any number of threads,      *)
(* drawers and allocations, whatever statement is interrupted by whatever  *)
(* commit or rollback.                                                     *)
(***************************************************************************)
EXTENDS RuntimeConnection, TLAPS

\* The connection never loses a durable row: a rollback goes back to disk, and
\* no statement deletes or moves a row.
Ahead ==
    \A a \in AllocIds : disk.alloc[a] # None =>
        conn.alloc[a] # None /\ conn.at[a] = disk.at[a]

LEMMA DoorWriteTyped ==
    ASSUME conn \in Tables, NEW s \in Slots, NEW state \in SlotStates
    PROVE  /\ WithDoor(s, state) \in Tables
           /\ WithDoor(s, state).alloc = conn.alloc
           /\ WithDoor(s, state).at = conn.at
  BY DEF WithDoor, Tables

LEMMA RowWriteTyped ==
    ASSUME conn \in Tables, NEW a \in AllocIds, NEW state \in AllocStates,
           NEW s \in Slots \cup {None}
    PROVE  /\ WithRow(a, state, s) \in Tables
           /\ WithRow(a, state, s).alloc = [conn.alloc EXCEPT ![a] = state]
           /\ WithRow(a, state, s).at = [conn.at EXCEPT ![a] = s]
  BY DEF WithRow, Tables

-----------------------------------------------------------------------------
\* What a thread in the middle of a request carries.
RequestsOK ==
    \A t \in Threads :
        /\ pc[t] \in {"reserve", "insert", "door", "row"} =>
              req[t].slot \in Slots /\ req[t].id \in AllocIds /\ req[t].to \in AllocStates
        /\ pc[t] \in {"door", "row"} => req[t].to # "RESERVED"
        /\ req[t].to # None => req[t].id \in AllocIds

\* A row names a drawer.
Placed(db) == \A a \in AllocIds : db.alloc[a] # None => db.at[a] \in Slots

TypeInv == ConnTypeOK /\ RequestsOK /\ Placed(conn) /\ Placed(disk)

LEMMA ContinueTyped ==
    ASSUME TypeInv, NEW t \in Threads, NEW next \in {"insert", "row", "flush", "undo"},
           NEW c \in Tables, Placed(c), Continue(t, next, c),
           pc[t] \in {"reserve", "insert", "door", "row"},
           next = "row" => pc[t] \in {"door", "row"}
    PROVE  TypeInv'
  <1>1. ConnTypeOK'
    BY DEF TypeInv, ConnTypeOK, Continue, Execute, Statements
  <1>2. RequestsOK'
    BY DEF TypeInv, ConnTypeOK, RequestsOK, Continue, Execute
  <1>3. QED
    BY <1>1, <1>2 DEF TypeInv, Placed, Continue, Execute

LEMMA AcceptTyped ==
    ASSUME TypeInv, NEW t \in Threads, NEW next \in {"reserve", "door", "flush"},
           NEW c \in Tables, Placed(c), NEW r \in Requests, Accept(t, r, next, c),
           next # "flush" => r.slot \in Slots /\ r.id \in AllocIds /\ r.to \in AllocStates,
           next = "door" => r.to # "RESERVED",
           next = "flush" => r.to = None
    PROVE  TypeInv'
  <1>1. ConnTypeOK'
    BY DEF TypeInv, ConnTypeOK, Accept, Execute, Statements
  <1>2. RequestsOK'
    BY DEF TypeInv, ConnTypeOK, RequestsOK, Accept, Execute
  <1>3. QED
    BY <1>1, <1>2 DEF TypeInv, Placed, Accept, Execute

LEMMA AnswerTyped ==
    ASSUME TypeInv, NEW t \in Threads, Answer(t)
    PROVE  /\ pc' \in [Threads -> Statements]
           /\ req' \in [Threads -> Requests]
           /\ RequestsOK'
  <1>1. NoRequest \in Requests
    BY DEF NoRequest, Requests
  <1>2. NoRequest.to = None
    BY DEF NoRequest
  <1> HIDE DEF NoRequest
  <1>3. QED
    BY <1>1, <1>2 DEF TypeInv, ConnTypeOK, RequestsOK, Answer, Statements

LEMMA StartTyped == Init => TypeInv
  <1> SUFFICES ASSUME Init
               PROVE  TypeInv
    OBVIOUS
  <1>1. disk \in Tables
    BY DEF Init, Tables
  <1>2. req \in [Threads -> Requests]
    BY DEF Init, NoRequest, Requests
  <1>3. RequestsOK
    BY DEF Init, RequestsOK, NoRequest
  <1>4. Placed(disk) /\ Placed(conn)
    BY DEF Init, Placed
  <1>5. QED
    BY <1>1, <1>2, <1>3, <1>4 DEF Init, TypeInv, ConnTypeOK, Statements

LEMMA DoorKeepsPlaces ==
    ASSUME TypeInv, NEW s \in Slots, NEW state \in SlotStates
    PROVE  WithDoor(s, state) \in Tables /\ Placed(WithDoor(s, state))
  BY DoorWriteTyped DEF TypeInv, ConnTypeOK, Placed

LEMMA RowKeepsPlaces ==
    ASSUME TypeInv, NEW a \in AllocIds, NEW state \in AllocStates, NEW s \in Slots
    PROVE  WithRow(a, state, s) \in Tables /\ Placed(WithRow(a, state, s))
  <1>1. conn \in Tables
    BY DEF TypeInv, ConnTypeOK
  <1>2. conn.alloc \in [AllocIds -> AllocStates \cup {None}]
    BY <1>1 DEF Tables
  <1>3. conn.at \in [AllocIds -> Slots \cup {None}]
    BY <1>1 DEF Tables
  <1> DEFINE c == WithRow(a, state, s)
  <1>4. /\ c \in Tables
        /\ c.alloc = [conn.alloc EXCEPT ![a] = state]
        /\ c.at = [conn.at EXCEPT ![a] = s]
    BY <1>1, RowWriteTyped
  <1> HIDE DEF c
  <1>5. ASSUME NEW b \in AllocIds, c.alloc[b] # None
        PROVE  c.at[b] \in Slots
    BY <1>2, <1>3, <1>4, <1>5 DEF TypeInv, Placed
  <1>6. c \in Tables /\ Placed(c)
    BY <1>4, <1>5 DEF Placed
  <1>7. QED
    BY <1>6 DEF c

-----------------------------------------------------------------------------
\* The five things a step can do to the tables.
SameTables == disk' = disk /\ conn' = conn
DoorWritten == \E s \in Slots, state \in SlotStates :
                  disk' = disk /\ conn' = WithDoor(s, state)
RowWritten == \E a \in AllocIds, state \in AllocStates, s \in Slots :
                 /\ disk' = disk /\ conn' = WithRow(a, state, s)
                 /\ state \in ActiveStates => ~Clash(a, s)
                 /\ conn.alloc[a] # None => conn.at[a] = s
Committed == disk' = conn /\ conn' = conn
RolledBack == disk' = disk /\ conn' = disk

Effects == SameTables \/ DoorWritten \/ RowWritten \/ Committed \/ RolledBack

\* Every statement keeps the types and has one of these effects.
LEMMA StepTyped ==
    ASSUME TypeInv, [Next]_vars
    PROVE  TypeInv' /\ Effects
  <1>1. ASSUME NEW t \in Threads, NEW s \in Slots, NEW a \in AllocIds,
               EnsureDoor(t, s, a)
        PROVE  TypeInv' /\ Effects
    <2> DEFINE c == IF conn.door[s] = None THEN WithDoor(s, "AVAILABLE") ELSE conn
               r == [slot |-> s, id |-> a, to |-> "RESERVED"]
    <2>1. c \in Tables /\ Placed(c)
      BY DoorKeepsPlaces DEF TypeInv, ConnTypeOK, SlotStates
    <2>2. r \in Requests
      BY DEF Requests, AllocStates
    <2>3. r.slot \in Slots /\ r.id \in AllocIds /\ r.to \in AllocStates
      BY DEF AllocStates
    <2>4. Accept(t, r, "reserve", c)
      BY <1>1 DEF EnsureDoor
    <2>5. Effects
      BY <2>4 DEF Effects, SameTables, DoorWritten, Accept, Execute, SlotStates
    <2> HIDE DEF c, r
    <2>6. QED
      BY <2>1, <2>2, <2>3, <2>4, <2>5, AcceptTyped
  <1>2. ASSUME NEW t \in Threads, ReserveDoor(t)
        PROVE  TypeInv' /\ Effects
    <2> DEFINE s == req[t].slot
    <2>1. s \in Slots
      BY <1>2 DEF ReserveDoor, TypeInv, RequestsOK
    <2>2. WithDoor(s, "RESERVED") \in Tables /\ Placed(WithDoor(s, "RESERVED"))
      BY <2>1, DoorKeepsPlaces DEF SlotStates
    <2>3. Continue(t, "insert", WithDoor(s, "RESERVED")) /\ pc[t] = "reserve"
      BY <1>2 DEF ReserveDoor
    <2>4. Effects
      BY <2>1, <2>3 DEF Effects, DoorWritten, Continue, Execute, SlotStates
    <2>5. QED
      BY <2>2, <2>3, <2>4, ContinueTyped
  <1>3. ASSUME NEW t \in Threads, RefuseDoor(t) \/ DoorMissing(t)
        PROVE  TypeInv' /\ Effects
    BY <1>3, AnswerTyped
    DEF RefuseDoor, DoorMissing, TypeInv, ConnTypeOK, Placed, Effects, SameTables
  <1>4. ASSUME NEW t \in Threads, InsertRow(t)
        PROVE  TypeInv' /\ Effects
    <2> DEFINE r == req[t]
               c == WithRow(r.id, "RESERVED", r.slot)
    <2>1. r.slot \in Slots /\ r.id \in AllocIds
      BY <1>4 DEF InsertRow, TypeInv, RequestsOK
    <2>2. c \in Tables /\ Placed(c)
      BY <2>1, RowKeepsPlaces DEF AllocStates
    <2>3. Continue(t, "flush", c) /\ pc[t] = "insert"
      BY <1>4 DEF InsertRow
    <2>4. conn.alloc[r.id] = None /\ ~Clash(r.id, r.slot)
      BY <1>4 DEF InsertRow
    <2>5. disk' = disk /\ conn' = c
      BY <2>3 DEF Continue, Execute
    <2>6. RowWritten
      BY <2>1, <2>4, <2>5 DEF RowWritten, AllocStates
    <2> HIDE DEF c
    <2>7. QED
      BY <2>2, <2>3, <2>6, ContinueTyped DEF Effects
  <1>5. ASSUME NEW t \in Threads, InsertFails(t) \/ WriteFails(t)
        PROVE  TypeInv' /\ Effects
    <2>1. Continue(t, "undo", conn) /\ pc[t] \in {"insert", "row"}
      BY <1>5 DEF InsertFails, WriteFails
    <2>2. conn \in Tables /\ Placed(conn)
      BY DEF TypeInv, ConnTypeOK
    <2>3. Effects
      BY <2>1 DEF Effects, SameTables, Continue, Execute
    <2>4. QED
      BY <2>1, <2>2, <2>3, ContinueTyped
  <1>6. ASSUME NEW t \in Threads, NEW a \in AllocIds,
               NEW to \in {"COMMITTED", "RELEASED"}, Fetch(t, a, to)
        PROVE  TypeInv' /\ Effects
    <2> DEFINE r == [slot |-> conn.at[a], id |-> a, to |-> to]
    <2>1. conn.alloc[a] # None
      BY <1>6, NoRowAssumption DEF Fetch, ActiveStates, AllocStates
    <2>2. conn.at[a] \in Slots
      BY <2>1 DEF TypeInv, Placed
    <2>3. /\ r \in Requests
          /\ r.slot \in Slots /\ r.id \in AllocIds /\ r.to \in AllocStates
          /\ r.to # "RESERVED"
      BY <2>2 DEF Requests, AllocStates
    <2>4. Accept(t, r, "door", conn)
      BY <1>6 DEF Fetch
    <2>5. conn \in Tables /\ Placed(conn)
      BY DEF TypeInv, ConnTypeOK
    <2>6. Effects
      BY <2>4 DEF Effects, SameTables, Accept, Execute
    <2> HIDE DEF r
    <2>7. QED
      BY <2>3, <2>4, <2>5, <2>6, AcceptTyped
  <1>7. ASSUME NEW t \in Threads, WriteDoor(t)
        PROVE  TypeInv' /\ Effects
    <2> DEFINE s == req[t].slot
               state == IF req[t].to = "COMMITTED"
                        THEN "PAID_PENDING_PICKUP" ELSE "AVAILABLE"
    <2>1. s \in Slots /\ state \in SlotStates
      BY <1>7 DEF WriteDoor, TypeInv, RequestsOK, SlotStates
    <2>2. Continue(t, "row", WithDoor(s, state)) /\ pc[t] = "door"
      BY <1>7 DEF WriteDoor
    <2> HIDE DEF s, state
    <2>3. WithDoor(s, state) \in Tables /\ Placed(WithDoor(s, state))
      BY <2>1, DoorKeepsPlaces
    <2>4. Effects
      BY <2>1, <2>2 DEF Effects, DoorWritten, Continue, Execute
    <2>5. QED
      BY <2>2, <2>3, <2>4, ContinueTyped
  <1>8. ASSUME NEW t \in Threads, WriteRow(t)
        PROVE  TypeInv' /\ Effects
    <2> DEFINE r == req[t]
               s == conn.at[r.id]
    <2>1. r.id \in AllocIds /\ r.to \in AllocStates /\ r.to # "RESERVED"
      BY <1>8 DEF WriteRow, TypeInv, RequestsOK
    <2>2. pc[t] = "row" /\ (r.to = "RELEASED" \/ ~Clash(r.id, s))
      BY <1>8 DEF WriteRow
    <2>3. CASE conn.alloc[r.id] = None
      <3>1. Continue(t, "flush", conn)
        BY <1>8, <2>3 DEF WriteRow
      <3>2. conn \in Tables /\ Placed(conn)
        BY DEF TypeInv, ConnTypeOK
      <3>3. Effects
        BY <3>1 DEF Effects, SameTables, Continue, Execute
      <3>4. QED
        BY <2>2, <3>1, <3>2, <3>3, ContinueTyped
    <2>4. CASE conn.alloc[r.id] # None
      <3> DEFINE c == WithRow(r.id, r.to, s)
      <3>1. s \in Slots
        BY <2>1, <2>4 DEF TypeInv, Placed
      <3>2. Continue(t, "flush", c)
        BY <1>8, <2>4 DEF WriteRow
      <3>3. c \in Tables /\ Placed(c)
        BY <2>1, <3>1, RowKeepsPlaces
      <3>4. disk' = disk /\ conn' = c
        BY <3>2 DEF Continue, Execute
      <3>5. r.to \in ActiveStates => ~Clash(r.id, s)
        BY <2>1, <2>2 DEF ActiveStates, AllocStates
      <3>6. RowWritten
        BY <2>1, <3>1, <3>4, <3>5 DEF RowWritten
      <3> HIDE DEF c
      <3>7. QED
        BY <2>2, <3>2, <3>3, <3>6, ContinueTyped DEF Effects
    <2>5. QED
      BY <2>3, <2>4
  <1>9. ASSUME NEW t \in Threads, NEW s \in Slots, NEW state \in SetStates,
               UpsertDoor(t, s, state)
        PROVE  TypeInv' /\ Effects
    <2> DEFINE r == [slot |-> s, id |-> None, to |-> None]
    <2>1. state \in SlotStates
      BY SetStatesAssumption
    <2>2. WithDoor(s, state) \in Tables /\ Placed(WithDoor(s, state))
      BY <2>1, DoorKeepsPlaces
    <2>3. Accept(t, r, "flush", WithDoor(s, state))
      BY <1>9 DEF UpsertDoor
    <2>4. r \in Requests /\ r.to = None
      BY DEF Requests
    <2>5. Effects
      BY <2>1, <2>3 DEF Effects, DoorWritten, Accept, Execute
    <2> HIDE DEF r
    <2>6. QED
      BY <2>2, <2>3, <2>4, <2>5, AcceptTyped
  <1>10. ASSUME NEW t \in Threads, Flush(t)
         PROVE  TypeInv' /\ Effects
    <2>1. req[t].to = "RESERVED" => req[t].id \in AllocIds
      BY NoRowAssumption DEF TypeInv, RequestsOK, AllocStates
    <2>2. granted' \subseteq AllocIds
      BY <1>10, <2>1 DEF Flush, TypeInv, ConnTypeOK
    <2>3. Answer(t) /\ disk' = conn /\ conn' = conn
      BY <1>10 DEF Flush
    <2>4. QED
      BY <2>2, <2>3, AnswerTyped DEF TypeInv, ConnTypeOK, Placed, Effects, Committed
  <1>11. ASSUME NEW t \in Threads, Undo(t)
         PROVE  TypeInv' /\ Effects
    BY <1>11, AnswerTyped
    DEF Undo, TypeInv, ConnTypeOK, Placed, Effects, RolledBack
  <1>12. CASE Restart
    <2>1. req' \in [Threads -> Requests] /\ RequestsOK'
      BY <1>12 DEF Restart, RequestsOK, NoRequest, Requests
    <2>2. QED
      BY <1>12, <2>1
      DEF Restart, TypeInv, ConnTypeOK, Placed, Statements, Effects, RolledBack
  <1>13. CASE UNCHANGED vars
    BY <1>13 DEF vars, TypeInv, ConnTypeOK, RequestsOK, Placed, Effects, SameTables
  <1>14. QED
    BY <1>1, <1>2, <1>3, <1>4, <1>5, <1>6, <1>7, <1>8, <1>9, <1>10, <1>11,
       <1>12, <1>13
    DEF Next, Step

\* The tables, the connection and the requests keep their types.
THEOREM ConnTypeCorrect == Spec => []ConnTypeOK
  <1>1. TypeInv /\ [Next]_vars => TypeInv'
    BY StepTyped
  <1>2. TypeInv => ConnTypeOK
    BY DEF TypeInv
  <1>3. QED
    BY <1>1, <1>2, StartTyped, PTL DEF Spec

LEMMA TypeInvariant == Spec => []TypeInv
  <1>1. TypeInv /\ [Next]_vars => TypeInv'
    BY StepTyped
  <1>2. QED
    BY <1>1, StartTyped, PTL DEF Spec

-----------------------------------------------------------------------------
LEMMA RowWriteEffect ==
    ASSUME TypeInv, RowWritten
    PROVE  \E a \in AllocIds, state \in AllocStates, s \in Slots :
              /\ disk' = disk
              /\ conn'.alloc = [conn.alloc EXCEPT ![a] = state]
              /\ conn'.at = [conn.at EXCEPT ![a] = s]
              /\ conn.alloc \in [AllocIds -> AllocStates \cup {None}]
              /\ conn.at \in [AllocIds -> Slots \cup {None}]
              /\ state \in ActiveStates => ~Clash(a, s)
              /\ conn.alloc[a] # None => conn.at[a] = s
  <1>1. PICK a \in AllocIds, state \in AllocStates, s \in Slots :
           /\ disk' = disk /\ conn' = WithRow(a, state, s)
           /\ state \in ActiveStates => ~Clash(a, s)
           /\ conn.alloc[a] # None => conn.at[a] = s
    BY DEF RowWritten
  <1>2. conn \in Tables
    BY DEF TypeInv, ConnTypeOK
  <1>3. /\ conn'.alloc = [conn.alloc EXCEPT ![a] = state]
        /\ conn'.at = [conn.at EXCEPT ![a] = s]
    BY <1>1, <1>2, RowWriteTyped
  <1>4. /\ conn.alloc \in [AllocIds -> AllocStates \cup {None}]
        /\ conn.at \in [AllocIds -> Slots \cup {None}]
    BY <1>2 DEF Tables
  <1>5. QED
    BY <1>1, <1>3, <1>4

LEMMA DoorWriteEffect ==
    ASSUME TypeInv, DoorWritten
    PROVE  disk' = disk /\ conn'.alloc = conn.alloc /\ conn'.at = conn.at
  BY DoorWriteTyped DEF TypeInv, ConnTypeOK, DoorWritten

\* Two threads never get one drawer, in the durable tables or in the
\* connection's: the unique index holds through every interleaving.
THEOREM SharedExclusion == Spec => []Exclusive
  <1>1. Init => Exclusive
    BY NoRowAssumption DEF Init, Exclusive, ExclusiveIn, ActiveStates, AllocStates
  <1>2. TypeInv /\ Exclusive /\ [Next]_vars => Exclusive'
    <2> SUFFICES ASSUME TypeInv, Exclusive, Effects
                 PROVE  Exclusive'
      BY StepTyped
    <2>1. CASE SameTables
      BY <2>1 DEF SameTables, Exclusive, ExclusiveIn
    <2>2. CASE DoorWritten
      BY <2>2, DoorWriteEffect DEF Exclusive, ExclusiveIn
    <2>3. CASE RowWritten
      <3>1. PICK a \in AllocIds, state \in AllocStates, s \in Slots :
              /\ disk' = disk
              /\ conn'.alloc = [conn.alloc EXCEPT ![a] = state]
              /\ conn'.at = [conn.at EXCEPT ![a] = s]
              /\ conn.alloc \in [AllocIds -> AllocStates \cup {None}]
              /\ conn.at \in [AllocIds -> Slots \cup {None}]
              /\ state \in ActiveStates => ~Clash(a, s)
        BY <2>3, RowWriteEffect
      <3>2. QED
        BY <3>1 DEF Exclusive, ExclusiveIn, Clash
    <2>4. CASE Committed
      BY <2>4 DEF Committed, Exclusive, ExclusiveIn
    <2>5. CASE RolledBack
      BY <2>5 DEF RolledBack, Exclusive, ExclusiveIn
    <2>6. QED
      BY <2>1, <2>2, <2>3, <2>4, <2>5 DEF Effects
  <1>3. QED
    BY <1>1, <1>2, TypeInvariant, PTL DEF Spec

LEMMA AheadStep ==
    ASSUME TypeInv, Ahead, [Next]_vars
    PROVE  Ahead'
  <1>1. Effects
    BY StepTyped
  <1>2. CASE SameTables
    BY <1>2 DEF SameTables, Ahead
  <1>3. CASE DoorWritten
    BY <1>3, DoorWriteEffect DEF Ahead
  <1>4. CASE RowWritten
    BY <1>4, RowWriteEffect, NoRowAssumption DEF Ahead
  <1>5. CASE Committed
    BY <1>5 DEF Committed, Ahead
  <1>6. CASE RolledBack
    BY <1>6 DEF RolledBack, Ahead
  <1>7. QED
    BY <1>1, <1>2, <1>3, <1>4, <1>5, <1>6 DEF Effects

\* A durable allocation is never lost and never moves, whoever rolls back.
THEOREM DurableRowsStay == Spec => RowsStay
  <1>1. Init => Ahead
    BY DEF Init, Ahead
  <1>2. TypeInv /\ Ahead /\ [Next]_vars => Ahead'
    BY AheadStep
  <1>3. TypeInv /\ Ahead /\ [Next]_vars =>
          [\A a \in AllocIds : disk.alloc[a] # None =>
             disk'.alloc[a] # None /\ disk'.at[a] = disk.at[a]]_vars
    <2> SUFFICES ASSUME TypeInv, Ahead, Effects, NEW a \in AllocIds,
                        disk.alloc[a] # None
                 PROVE  disk'.alloc[a] # None /\ disk'.at[a] = disk.at[a]
      BY StepTyped
    <2>1. disk' = disk \/ disk' = conn
      BY DoorWriteEffect, RowWriteEffect
      DEF Effects, SameTables, Committed, RolledBack
    <2>2. QED
      BY <2>1 DEF Ahead
  <1>4. QED
    BY <1>1, <1>2, <1>3, TypeInvariant, PTL DEF Spec, RowsStay

-----------------------------------------------------------------------------
\* One thread serves every request, as the runtime would with a pool of one.
OneThread == \A t, u \in Threads : t = u

DoorChanged(s, state) == conn.door = [disk.door EXCEPT ![s] = state]
RowsUnchanged == conn.alloc = disk.alloc /\ conn.at = disk.at

\* The row that a commit or a release has read is still the durable one.
Fetched(r) ==
    /\ r.to \in {"COMMITTED", "RELEASED"}
    /\ disk.at[r.id] = r.slot
    /\ disk.alloc[r.id] \in IF r.to = "COMMITTED" THEN {"RESERVED"} ELSE ActiveStates

Settled(r) ==
    DoorChanged(r.slot, IF r.to = "COMMITTED" THEN "PAID_PENDING_PICKUP" ELSE "AVAILABLE")

\* The three kinds of request as their last statement leaves them.
StateSet == RowsUnchanged /\ \E s \in Slots, state \in SlotStates : DoorChanged(s, state)

Leased(r) ==
    /\ r.slot \in Slots /\ r.id \in AllocIds
    /\ disk.door[r.slot] \in {None, "AVAILABLE"}
    /\ disk.alloc[r.id] = None
    /\ \A b \in AllocIds : disk.alloc[b] \in ActiveStates => disk.at[b] # r.slot
    /\ DoorChanged(r.slot, "RESERVED")
    /\ conn.alloc = [disk.alloc EXCEPT ![r.id] = "RESERVED"]
    /\ conn.at = [disk.at EXCEPT ![r.id] = r.slot]

Moved(r) ==
    /\ Fetched(r) /\ r.id \in AllocIds /\ r.slot \in Slots
    /\ Settled(r)
    /\ conn.alloc = [disk.alloc EXCEPT ![r.id] = r.to]
    /\ conn.at = disk.at

\* How far the only request under way has got: between requests the connection
\* shows the durable tables, and in a request what its statements have changed.
HalfwayAt(t) ==
    LET r == req[t] IN
    /\ pc[t] \in {"idle", "door"} => RowsUnchanged /\ conn.door = disk.door
    /\ pc[t] = "reserve" =>
          /\ r.to = "RESERVED" /\ RowsUnchanged
          /\ \/ conn.door = disk.door
             \/ disk.door[r.slot] = None /\ DoorChanged(r.slot, "AVAILABLE")
    /\ pc[t] = "insert" =>
          /\ r.to = "RESERVED" /\ RowsUnchanged
          /\ disk.door[r.slot] \in {None, "AVAILABLE"} /\ DoorChanged(r.slot, "RESERVED")
    /\ pc[t] \in {"door", "row"} => Fetched(r)
    /\ pc[t] = "row" => RowsUnchanged /\ Settled(r)
    /\ pc[t] = "flush" => \/ r.to = None /\ StateSet
                          \/ r.to = "RESERVED" /\ Leased(r)
                          \/ r.to \in {"COMMITTED", "RELEASED"} /\ Moved(r)

Halfway == \A t \in Threads : HalfwayAt(t)

\* A new door state, and a new row, in the connection's tables.
LEMMA DoorWrites ==
    ASSUME conn \in Tables, NEW s \in Slots, NEW state \in SlotStates,
           conn' = WithDoor(s, state)
    PROVE  /\ conn'.door = [conn.door EXCEPT ![s] = state]
           /\ conn'.alloc = conn.alloc /\ conn'.at = conn.at
  BY DEF WithDoor, Tables

LEMMA RowWrites ==
    ASSUME conn \in Tables, NEW a \in AllocIds, NEW state \in AllocStates,
           NEW s \in Slots, conn' = WithRow(a, state, s)
    PROVE  /\ conn'.door = conn.door
           /\ conn'.alloc = [conn.alloc EXCEPT ![a] = state]
           /\ conn'.at = [conn.at EXCEPT ![a] = s]
  BY DEF WithRow, Tables

LEMMA TablesTyped ==
    ASSUME NEW db \in Tables
    PROVE  /\ db.door \in [Slots -> SlotStates \cup {None}]
           /\ db.alloc \in [AllocIds -> AllocStates \cup {None}]
           /\ db.at \in [AllocIds -> Slots \cup {None}]
  BY DEF Tables

LEMMA ThreadMoves ==
    ASSUME TypeInv, NEW t \in Threads, NEW next, NEW c
    PROVE  /\ Continue(t, next, c) =>
                 /\ pc'[t] = next /\ req'[t] = req[t]
                 /\ conn' = c /\ disk' = disk
           /\ \A r : Accept(t, r, next, c) =>
                 /\ pc'[t] = next /\ req'[t] = r
                 /\ conn' = c /\ disk' = disk
           /\ Answer(t) => pc'[t] = "idle"
  BY DEF TypeInv, ConnTypeOK, Continue, Accept, Execute, Answer

LEMMA HalfwayStep ==
    ASSUME OneThread, TypeInv, Halfway, [Next]_vars
    PROVE  Halfway'
  <1>1. conn \in Tables /\ disk \in Tables
    BY DEF TypeInv, ConnTypeOK
  <1>2. /\ conn.door \in [Slots -> SlotStates \cup {None}]
        /\ disk.door \in [Slots -> SlotStates \cup {None}]
        /\ conn.alloc \in [AllocIds -> AllocStates \cup {None}]
        /\ disk.alloc \in [AllocIds -> AllocStates \cup {None}]
        /\ conn.at \in [AllocIds -> Slots \cup {None}]
    BY <1>1, TablesTyped
  <1>3. ASSUME NEW t \in Threads, HalfwayAt(t)'
        PROVE  Halfway'
    BY <1>3 DEF Halfway, OneThread
  <1>4. \A t \in Threads : HalfwayAt(t)
    BY DEF Halfway
  <1>5. ASSUME NEW t \in Threads, NEW s \in Slots, NEW a \in AllocIds,
               EnsureDoor(t, s, a)
        PROVE  HalfwayAt(t)'
    <2> DEFINE c == IF conn.door[s] = None THEN WithDoor(s, "AVAILABLE") ELSE conn
               r == [slot |-> s, id |-> a, to |-> "RESERVED"]
    <2>1. Accept(t, r, "reserve", c) /\ pc[t] = "idle"
      BY <1>5 DEF EnsureDoor, Accept
    <2> HIDE DEF c, r
    <2>2. pc'[t] = "reserve" /\ req'[t] = r /\ conn' = c /\ disk' = disk
      BY <2>1, ThreadMoves
    <2>3. RowsUnchanged /\ conn.door = disk.door
      BY <1>4, <2>1 DEF HalfwayAt
    <2>4. CASE conn.door[s] = None
      <3>1. conn' = WithDoor(s, "AVAILABLE")
        BY <2>2, <2>4 DEF c
      <3>2. /\ conn'.door = [conn.door EXCEPT ![s] = "AVAILABLE"]
            /\ conn'.alloc = conn.alloc /\ conn'.at = conn.at
        BY <1>1, <3>1, DoorWrites DEF SlotStates
      <3>3. QED
        BY <2>2, <2>3, <2>4, <3>2 DEF HalfwayAt, RowsUnchanged, DoorChanged, r
    <2>5. CASE conn.door[s] # None
      BY <2>2, <2>3, <2>5 DEF c, r, HalfwayAt, RowsUnchanged, DoorChanged
    <2>6. QED
      BY <2>4, <2>5
  <1>6. ASSUME NEW t \in Threads, ReserveDoor(t)
        PROVE  HalfwayAt(t)'
    <2> DEFINE s == req[t].slot
    <2>1. s \in Slots /\ pc[t] = "reserve" /\ conn.door[s] = "AVAILABLE"
      BY <1>6 DEF ReserveDoor, TypeInv, RequestsOK
    <2>2. /\ pc'[t] = "insert" /\ req'[t] = req[t] /\ disk' = disk
          /\ conn' = WithDoor(s, "RESERVED")
      BY <1>6, ThreadMoves DEF ReserveDoor
    <2>3. /\ conn'.door = [conn.door EXCEPT ![s] = "RESERVED"]
          /\ conn'.alloc = conn.alloc /\ conn'.at = conn.at
      BY <1>1, <2>1, <2>2, DoorWrites DEF SlotStates
    <2>4. /\ req[t].to = "RESERVED" /\ RowsUnchanged
          /\ \/ conn.door = disk.door
             \/ disk.door[s] = None /\ conn.door = [disk.door EXCEPT ![s] = "AVAILABLE"]
      BY <1>4, <2>1 DEF HalfwayAt, DoorChanged
    <2>5. /\ disk.door[s] \in {None, "AVAILABLE"}
          /\ conn'.door = [disk.door EXCEPT ![s] = "RESERVED"]
      BY <1>2, <2>1, <2>3, <2>4
    <2>6. QED
      BY <2>2, <2>3, <2>4, <2>5 DEF HalfwayAt, RowsUnchanged, DoorChanged
  <1>7. ASSUME NEW t \in Threads, RefuseDoor(t) \/ DoorMissing(t)
        PROVE  HalfwayAt(t)'
    <2>1. pc'[t] = "idle" /\ disk' = disk /\ conn' = conn
      BY <1>7, ThreadMoves DEF RefuseDoor, DoorMissing
    <2>2. RowsUnchanged /\ conn.door = disk.door
      <3>1. CASE DoorMissing(t)
        BY <1>4, <3>1 DEF DoorMissing, HalfwayAt
      <3>2. CASE RefuseDoor(t)
        <4>1. req[t].slot \in Slots
          BY <3>2 DEF RefuseDoor, TypeInv, RequestsOK
        <4>2. QED
          BY <1>2, <1>4, <3>2, <4>1 DEF RefuseDoor, HalfwayAt, DoorChanged
      <3>3. QED
        BY <1>7, <3>1, <3>2
    <2>3. QED
      BY <2>1, <2>2 DEF HalfwayAt, RowsUnchanged
  <1>8. ASSUME NEW t \in Threads, InsertRow(t)
        PROVE  HalfwayAt(t)'
    <2> DEFINE r == req[t]
    <2>1. /\ r.slot \in Slots /\ r.id \in AllocIds /\ pc[t] = "insert"
          /\ conn.alloc[r.id] = None /\ ~Clash(r.id, r.slot)
      BY <1>8 DEF InsertRow, TypeInv, RequestsOK
    <2>2. /\ pc'[t] = "flush" /\ req'[t] = r /\ disk' = disk
          /\ conn' = WithRow(r.id, "RESERVED", r.slot)
      BY <1>8, ThreadMoves DEF InsertRow
    <2>3. /\ conn'.door = conn.door
          /\ conn'.alloc = [conn.alloc EXCEPT ![r.id] = "RESERVED"]
          /\ conn'.at = [conn.at EXCEPT ![r.id] = r.slot]
      BY <1>1, <2>1, <2>2, RowWrites DEF AllocStates
    <2>4. /\ r.to = "RESERVED" /\ RowsUnchanged
          /\ disk.door[r.slot] \in {None, "AVAILABLE"} /\ DoorChanged(r.slot, "RESERVED")
      BY <1>4, <2>1 DEF HalfwayAt
    <2>5. \A b \in AllocIds : disk.alloc[b] \in ActiveStates => disk.at[b] # r.slot
      BY <2>1, <2>4, NoRowAssumption DEF Clash, RowsUnchanged, ActiveStates, AllocStates
    <2>6. Leased(r)'
      BY <2>1, <2>2, <2>3, <2>4, <2>5 DEF Leased, RowsUnchanged, DoorChanged
    <2>7. QED
      BY <2>2, <2>4, <2>6 DEF HalfwayAt
  <1>9. ASSUME NEW t \in Threads, InsertFails(t) \/ WriteFails(t)
        PROVE  HalfwayAt(t)'
    <2>1. pc'[t] = "undo"
      BY <1>9, ThreadMoves DEF InsertFails, WriteFails
    <2>2. QED
      BY <2>1 DEF HalfwayAt
  <1>10. ASSUME NEW t \in Threads, NEW a \in AllocIds,
                NEW to \in {"COMMITTED", "RELEASED"}, Fetch(t, a, to)
         PROVE  HalfwayAt(t)'
    <2> DEFINE r == [slot |-> conn.at[a], id |-> a, to |-> to]
    <2>1. Accept(t, r, "door", conn) /\ pc[t] = "idle"
      BY <1>10 DEF Fetch, Accept
    <2>2. pc'[t] = "door" /\ req'[t] = r /\ conn' = conn /\ disk' = disk
      BY <2>1, ThreadMoves
    <2>3. RowsUnchanged /\ conn.door = disk.door
      BY <1>4, <2>1 DEF HalfwayAt
    <2>4. req'[t].to = to /\ req'[t].id = a /\ req'[t].slot = conn.at[a]
      BY <2>2
    <2>5. conn.alloc[a] \in IF to = "COMMITTED" THEN {"RESERVED"} ELSE ActiveStates
      BY <1>10 DEF Fetch
    <2> HIDE DEF r
    <2>6. Fetched(req[t])'
      BY <2>2, <2>3, <2>4, <2>5 DEF Fetched, RowsUnchanged
    <2>7. QED
      BY <2>2, <2>3, <2>6 DEF HalfwayAt, RowsUnchanged
  <1>11. ASSUME NEW t \in Threads, WriteDoor(t)
         PROVE  HalfwayAt(t)'
    <2> DEFINE s == req[t].slot
               state == IF req[t].to = "COMMITTED"
                        THEN "PAID_PENDING_PICKUP" ELSE "AVAILABLE"
    <2>1. s \in Slots /\ state \in SlotStates /\ pc[t] = "door"
      BY <1>11 DEF WriteDoor, TypeInv, RequestsOK, SlotStates
    <2>2. /\ pc'[t] = "row" /\ req'[t] = req[t] /\ disk' = disk
          /\ conn' = WithDoor(s, state)
      BY <1>11, ThreadMoves DEF WriteDoor
    <2>3. /\ conn'.door = [conn.door EXCEPT ![s] = state]
          /\ conn'.alloc = conn.alloc /\ conn'.at = conn.at
      <3> HIDE DEF state
      <3> QED BY <1>1, <2>1, <2>2, DoorWrites
    <2>4. RowsUnchanged /\ conn.door = disk.door /\ Fetched(req[t])
      BY <1>4, <2>1 DEF HalfwayAt
    <2>5. QED
      BY <2>2, <2>3, <2>4 DEF HalfwayAt, RowsUnchanged, Fetched, Settled, DoorChanged
  <1>12. ASSUME NEW t \in Threads, WriteRow(t)
         PROVE  HalfwayAt(t)'
    <2> DEFINE r == req[t]
    <2>1. /\ r.id \in AllocIds /\ r.slot \in Slots /\ r.to \in AllocStates
          /\ pc[t] = "row"
      BY <1>12 DEF WriteRow, TypeInv, RequestsOK
    <2>2. RowsUnchanged /\ Settled(r) /\ Fetched(r)
      BY <1>4, <2>1 DEF HalfwayAt
    <2>3. conn.alloc[r.id] # None /\ conn.at[r.id] = r.slot
      BY <2>2, NoRowAssumption DEF RowsUnchanged, Fetched, ActiveStates, AllocStates
    <2>4. /\ pc'[t] = "flush" /\ req'[t] = r /\ disk' = disk
          /\ conn' = WithRow(r.id, r.to, r.slot)
      BY <1>12, <2>3, ThreadMoves DEF WriteRow
    <2>5. /\ conn'.door = conn.door
          /\ conn'.alloc = [conn.alloc EXCEPT ![r.id] = r.to]
          /\ conn'.at = conn.at
      BY <1>1, <1>2, <2>1, <2>3, <2>4, RowWrites
    <2>6. Moved(r)'
      BY <2>1, <2>2, <2>4, <2>5
      DEF Moved, Fetched, Settled, DoorChanged, RowsUnchanged
    <2>7. QED
      BY <2>2, <2>4, <2>6 DEF HalfwayAt, Fetched
  <1>13. ASSUME NEW t \in Threads, NEW s \in Slots, NEW state \in SetStates,
                UpsertDoor(t, s, state)
         PROVE  HalfwayAt(t)'
    <2> DEFINE r == [slot |-> s, id |-> None, to |-> None]
    <2>1. Accept(t, r, "flush", WithDoor(s, state)) /\ pc[t] = "idle"
      BY <1>13 DEF UpsertDoor, Accept
    <2>2. /\ pc'[t] = "flush" /\ req'[t] = r /\ disk' = disk
          /\ conn' = WithDoor(s, state)
      BY <2>1, ThreadMoves
    <2>3. state \in SlotStates
      BY SetStatesAssumption
    <2>4. /\ conn'.door = [conn.door EXCEPT ![s] = state]
          /\ conn'.alloc = conn.alloc /\ conn'.at = conn.at
      BY <1>1, <2>2, <2>3, DoorWrites
    <2>5. RowsUnchanged /\ conn.door = disk.door
      BY <1>4, <2>1 DEF HalfwayAt
    <2>6. StateSet'
      BY <2>2, <2>3, <2>4, <2>5 DEF StateSet, RowsUnchanged, DoorChanged
    <2>7. QED
      BY <2>2, <2>6 DEF HalfwayAt
  <1>14. ASSUME NEW t \in Threads, Flush(t)
         PROVE  HalfwayAt(t)'
    BY <1>14, ThreadMoves DEF Flush, HalfwayAt, RowsUnchanged
  <1>15. ASSUME NEW t \in Threads, Undo(t)
         PROVE  HalfwayAt(t)'
    BY <1>15, ThreadMoves DEF Undo, HalfwayAt, RowsUnchanged
  <1>16. CASE Restart
    <2>1. \A t \in Threads : pc'[t] = "idle"
      BY <1>16 DEF Restart
    <2>2. QED
      BY <1>16, <2>1 DEF Restart, Halfway, HalfwayAt, RowsUnchanged
  <1>17. CASE UNCHANGED vars
    <2>1. RowsUnchanged' = RowsUnchanged /\ StateSet' = StateSet
      BY <1>17 DEF vars, RowsUnchanged, StateSet, DoorChanged
    <2>2. ASSUME NEW t \in Threads
          PROVE  /\ Leased(req[t])' = Leased(req[t]) /\ Moved(req[t])' = Moved(req[t])
                 /\ Fetched(req[t])' = Fetched(req[t])
                 /\ Settled(req[t])' = Settled(req[t])
      BY <1>17 DEF vars, Leased, Moved, Fetched, Settled, DoorChanged
    <2>3. QED
      BY <1>4, <1>17, <2>1, <2>2 DEF vars, Halfway, HalfwayAt, DoorChanged
  <1>18. QED
    BY <1>3, <1>5, <1>6, <1>7, <1>8, <1>9, <1>10, <1>11, <1>12, <1>13, <1>14, <1>15,
       <1>16, <1>17
    DEF Next, Step

\* Between requests nothing is left in the connection: with one thread the
\* durable tables are what the next request finds.
LEMMA HalfwayHolds ==
    ASSUME OneThread
    PROVE  Spec => [](TypeInv /\ Ahead /\ Halfway)
  <1>1. Init => TypeInv /\ Ahead /\ Halfway
    BY StartTyped DEF Init, Ahead, Halfway, HalfwayAt, RowsUnchanged
  <1>2. TypeInv /\ Ahead /\ Halfway /\ [Next]_vars => TypeInv' /\ Ahead' /\ Halfway'
    BY StepTyped, AheadStep, HalfwayStep
  <1>3. QED
    BY <1>1, <1>2, PTL DEF Spec

\* With one thread an allocation that was answered 200 has its row: nobody else's
\* rollback can take it back before the commit.
THEOREM SerialGrantsStored ==
    ASSUME OneThread
    PROVE  Spec => []GrantsStored
  <1>1. Init => GrantsStored
    BY DEF Init, GrantsStored
  <1>2. TypeInv /\ Ahead /\ Halfway /\ GrantsStored /\ [Next]_vars => GrantsStored'
    <2> SUFFICES ASSUME TypeInv, Ahead, Halfway, GrantsStored, [Next]_vars,
                        NEW a \in granted'
                 PROVE  disk'.alloc[a] # None
      BY DEF GrantsStored
    <2>1. Ahead' /\ Effects /\ TypeInv' /\ disk \in Tables /\ granted \subseteq AllocIds
      BY AheadStep, StepTyped DEF TypeInv, ConnTypeOK
    <2>2. CASE a \in granted
      <3>1. a \in AllocIds /\ disk.alloc[a] # None
        BY <2>1, <2>2 DEF GrantsStored
      <3>2. disk' = disk \/ disk' = conn
        BY <2>1, DoorWriteEffect, RowWriteEffect
        DEF Effects, SameTables, Committed, RolledBack
      <3>3. QED
        BY <3>1, <3>2 DEF Ahead
    <2>3. CASE a \notin granted
      <3>1. PICK t \in Threads : Flush(t) /\ req[t].to = "RESERVED" /\ a = req[t].id
        BY <2>3
        DEF Next, Step, vars, Restart, EnsureDoor, ReserveDoor, RefuseDoor, InsertRow,
            InsertFails, Fetch, WriteDoor, DoorMissing, WriteRow, WriteFails, UpsertDoor,
            Flush, Undo, Accept, Continue, Execute
      <3>2. Leased(req[t])
        BY <3>1, NoRowAssumption DEF Flush, Halfway, HalfwayAt, AllocStates
      <3>3. conn.alloc[a] = "RESERVED" /\ disk' = conn
        <4>1. disk.alloc \in [AllocIds -> AllocStates \cup {None}]
          BY <2>1, TablesTyped
        <4>2. QED
          BY <3>1, <3>2, <4>1 DEF Leased, Flush
      <3>4. QED
        BY <3>3, NoRowAssumption DEF AllocStates
    <2>4. QED
      BY <2>2, <2>3
  <1>3. QED
    BY <1>1, <1>2, HalfwayHolds, PTL DEF Spec

-----------------------------------------------------------------------------
\* The runtime's tables, as they are durable.
Doors == {Machine} \X Slots
DurableDoor == [d \in Doors |-> disk.door[d[2]]]
DurableAt == [a \in AllocIds |-> IF disk.at[a] = None THEN None ELSE <<Machine, disk.at[a]>>]

\* A commit takes over what the request has changed, and nothing else does.
LEMMA DurableDoorStep ==
    ASSUME TypeInv, NEW s \in Slots, NEW state, DoorChanged(s, state), disk' = conn
    PROVE  DurableDoor' = [DurableDoor EXCEPT ![<<Machine, s>>] = state]
  <1>1. disk.door \in [Slots -> SlotStates \cup {None}]
    BY TablesTyped DEF TypeInv, ConnTypeOK
  <1>2. ASSUME NEW d \in Doors
        PROVE  DurableDoor'[d] = [DurableDoor EXCEPT ![<<Machine, s>>] = state][d]
    <2>1. d[2] \in Slots /\ d = <<Machine, d[2]>>
      BY DEF Doors
    <2>2. DurableDoor'[d] = [disk.door EXCEPT ![s] = state][d[2]]
      BY DEF DoorChanged, DurableDoor
    <2>3. QED
      BY <1>1, <2>1, <2>2 DEF DurableDoor
  <1>3. QED
    BY <1>2 DEF DurableDoor

LEMMA DurableAtStep ==
    ASSUME TypeInv, NEW a \in AllocIds, NEW s \in Slots,
           conn.at = [disk.at EXCEPT ![a] = s], disk' = conn
    PROVE  DurableAt' = [DurableAt EXCEPT ![a] = <<Machine, s>>]
  <1>1. disk.at \in [AllocIds -> Slots \cup {None}]
    BY TablesTyped DEF TypeInv, ConnTypeOK
  <1>2. s # None
    BY NoRowAssumption
  <1>3. QED
    BY <1>1, <1>2 DEF DurableAt

\* The three kinds of commit are the runtime's own steps.
LEMMA FlushIsAllocate ==
    ASSUME TypeInv, NEW t \in Threads, Leased(req[t]), disk' = conn,
           NEW s \in Slots, NEW a \in AllocIds, req[t].slot = s, req[t].id = a
    PROVE  Runtime!Allocate(Machine, s, a)
  <1>1. /\ s \in Slots /\ a \in AllocIds
        /\ disk.door[s] \in {None, "AVAILABLE"} /\ disk.alloc[a] = None
        /\ \A b \in AllocIds : disk.alloc[b] \in ActiveStates => disk.at[b] # s
        /\ disk'.alloc = [disk.alloc EXCEPT ![a] = "RESERVED"]
    BY DEF Leased
  <1>2. /\ DurableDoor' = [DurableDoor EXCEPT ![<<Machine, s>>] = "RESERVED"]
        /\ DurableAt' = [DurableAt EXCEPT ![a] = <<Machine, s>>]
    BY DurableDoorStep, DurableAtStep DEF Leased
  <1>3. DurableDoor[<<Machine, s>>] = disk.door[s]
    BY <1>1 DEF DurableDoor, Doors
  <1>4. ASSUME NEW b \in AllocIds, disk.alloc[b] \in ActiveStates
        PROVE  DurableAt[b] # <<Machine, s>>
    <2>1. disk.at[b] \in Slots /\ disk.at[b] # None
      BY <1>4, NoRowAssumption DEF TypeInv, Placed, ActiveStates, AllocStates
    <2>2. QED
      BY <1>1, <1>4, <2>1 DEF DurableAt
  <1>5. Runtime!ActiveOn(<<Machine, s>>) = {}
    BY <1>4 DEF Runtime!ActiveOn, Runtime!Active, Runtime!ActiveStates, ActiveStates, DurableAt
  <1>6. QED
    BY <1>1, <1>2, <1>3, <1>5 DEF Runtime!Allocate, DurableDoor, DurableAt, Doors

LEMMA FlushMovesRow ==
    ASSUME TypeInv, NEW t \in Threads, Moved(req[t]), disk' = conn,
           NEW a \in AllocIds, req[t].id = a
    PROVE  Runtime!Commit(Machine, a) \/ Runtime!Release(Machine, a)
  <1> DEFINE s == req[t].slot
             to == req[t].to
  <1>1. /\ s \in Slots /\ a \in AllocIds /\ to \in {"COMMITTED", "RELEASED"}
        /\ disk.at[a] = s
        /\ disk.alloc[a] \in IF to = "COMMITTED" THEN {"RESERVED"} ELSE ActiveStates
        /\ disk'.alloc = [disk.alloc EXCEPT ![a] = to] /\ disk'.at = disk.at
        /\ disk.alloc \in [AllocIds -> AllocStates \cup {None}]
    BY TablesTyped DEF Moved, Fetched, TypeInv, ConnTypeOK
  <1>2. DurableDoor' = [DurableDoor EXCEPT ![<<Machine, s>>] =
                          IF to = "COMMITTED" THEN "PAID_PENDING_PICKUP" ELSE "AVAILABLE"]
    BY <1>1, DurableDoorStep DEF Moved, Settled
  <1>3. DurableAt' = DurableAt
    BY <1>1 DEF DurableAt
  <1>4. DurableAt[a] = <<Machine, s>> /\ disk.alloc[a] # None
    BY <1>1, NoRowAssumption DEF DurableAt, ActiveStates, AllocStates
  <1>5. <<Machine, s>> \in Doors
    BY <1>1 DEF Doors
  <1> HIDE DEF s, to
  <1>6. Runtime!BelongsTo(a, Machine)
    BY <1>1, <1>4 DEF Runtime!BelongsTo, DurableAt
  <1>7. CASE to = "COMMITTED"
    BY <1>1, <1>2, <1>3, <1>4, <1>6, <1>7
    DEF Runtime!Commit, DurableDoor, DurableAt, Doors
  <1>8. CASE to = "RELEASED"
    <2>1. disk'.alloc = Runtime!Released({a})
      BY <1>1, <1>8 DEF Runtime!Released
    <2>2. DurableDoor' = [d \in Doors |-> IF d \in {<<Machine, s>>} THEN "AVAILABLE"
                                          ELSE DurableDoor[d]]
      BY <1>2, <1>5, <1>8 DEF DurableDoor
    <2>3. DurableDoor' = Runtime!Freed({DurableAt[a]})
      BY <1>4, <2>2 DEF Runtime!Freed, Runtime!Doors, Doors, DurableDoor
    <2>4. Runtime!Release(Machine, a)
      BY <1>1, <1>3, <1>6, <2>1, <2>3, NoRowAssumption
      DEF Runtime!Release, DurableDoor, DurableAt, Doors, ActiveStates, AllocStates
    <2>5. QED
      BY <2>4
  <1>9. QED
    BY <1>1, <1>7, <1>8

LEMMA FlushSetsState ==
    ASSUME TypeInv, StateSet, disk' = conn
    PROVE  \E s \in Slots, state \in SlotStates : Runtime!SetSlotState(Machine, s, state)
  <1>1. PICK s \in Slots, state \in SlotStates : DoorChanged(s, state)
    BY DEF StateSet
  <1>2. DurableDoor' = [DurableDoor EXCEPT ![<<Machine, s>>] = state]
    BY <1>1, DurableDoorStep
  <1>3. disk'.alloc = disk.alloc /\ DurableAt' = DurableAt
    BY DEF StateSet, RowsUnchanged, DurableAt
  <1>4. Runtime!SetSlotState(Machine, s, state)
    BY <1>2, <1>3 DEF Runtime!SetSlotState, DurableDoor, DurableAt, Doors
  <1>5. QED
    BY <1>4

\* With one thread every handler takes effect as a whole, when it commits, or not
\* at all: the durable tables behave as SlotRuntime says.
THEOREM SerialRefinement ==
    ASSUME OneThread
    PROVE  Spec => ImplementsRuntime
  <1>1. Init => Runtime!Init
    <2> SUFFICES ASSUME Init
                 PROVE  Runtime!Init
      OBVIOUS
    <2>1. /\ disk.door = [s \in Slots |-> None] /\ disk.alloc = [a \in AllocIds |-> None]
          /\ disk.at = [a \in AllocIds |-> None]
      BY DEF Init
    <2>2. DurableDoor = [d \in Doors |-> None] /\ DurableAt = [a \in AllocIds |-> None]
      BY <2>1 DEF DurableDoor, DurableAt, Doors
    <2>3. QED
      BY <2>1, <2>2 DEF Runtime!Init, Runtime!Doors, Doors, DurableDoor, DurableAt
  <1>2. TypeInv /\ Ahead /\ Halfway /\ [Next]_vars => [Runtime!Next]_(Runtime!vars)
    <2> SUFFICES ASSUME TypeInv, Halfway, [Next]_vars
                 PROVE  [Runtime!Next]_(Runtime!vars)
      OBVIOUS
    <2>1. CASE disk' = disk
      BY <2>1 DEF Runtime!vars
    <2>2. CASE disk' # disk
      <3>1. PICK t \in Threads : Flush(t)
        BY <2>2
        DEF Next, Step, vars, Restart, EnsureDoor, ReserveDoor, RefuseDoor, InsertRow,
            InsertFails, Fetch, WriteDoor, DoorMissing, WriteRow, WriteFails, UpsertDoor,
            Undo, Accept, Continue, Execute
      <3>2. disk' = conn /\ HalfwayAt(t) /\ pc[t] = "flush"
        BY <3>1 DEF Flush, Halfway
      <3>3. CASE StateSet
        <4>1. \E s \in Slots, state \in SlotStates : Runtime!SetSlotState(Machine, s, state)
          BY <3>2, <3>3, FlushSetsState
        <4>2. QED
          BY <4>1 DEF Runtime!Next, Runtime!Handle, Runtime!SlotStates, SlotStates
      <3>4. CASE Leased(req[t])
        <4>1. PICK s \in Slots, a \in AllocIds : req[t].slot = s /\ req[t].id = a
          BY <3>4 DEF Leased
        <4>2. Runtime!Allocate(Machine, s, a)
          BY <3>2, <3>4, <4>1, FlushIsAllocate
        <4>3. QED
          BY <4>2 DEF Runtime!Next, Runtime!Handle
      <3>5. CASE Moved(req[t])
        <4>1. PICK a \in AllocIds : req[t].id = a
          BY <3>5 DEF Moved
        <4>2. Runtime!Commit(Machine, a) \/ Runtime!Release(Machine, a)
          BY <3>2, <3>5, <4>1, FlushMovesRow
        <4>3. QED
          BY <4>2 DEF Runtime!Next, Runtime!Handle
      <3>6. QED
        BY <3>2, <3>3, <3>4, <3>5 DEF HalfwayAt
    <2>3. QED
      BY <2>1, <2>2
  <1>3. QED
    BY <1>1, <1>2, HalfwayHolds, PTL DEF Spec, ImplementsRuntime, Runtime!Spec
=============================================================================
