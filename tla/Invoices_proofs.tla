-------------------------- MODULE Invoices_proofs --------------------------
(***************************************************************************)
(* What holds of the invoices of the billing service for every set of      *)
(* invoices and workers and every number of attempts.                      *)
(***************************************************************************)
EXTENDS BackOffice, TLAPS

\* A claim: what a worker that is not idle has in hand.
Claims == [task : {"issue", "cancel", "correct"}, invoice : Invoices,
           retries : 0..MaxRetries, outcome : B!Outcomes]

TypeInv == B!TypeOK /\ \A w \in Workers : doing[w] = B!Idle \/ doing[w] \in Claims

\* n is a number of attempts, whatever is counted.
LEMMA AttemptsBounded ==
    ASSUME TypeInv, NEW w \in Workers
    PROVE  B!OneMore(w) \in 0..MaxRetries
  BY AttemptsAssumption DEF TypeInv, B!TypeOK, B!OneMore

\* A worker that is not idle works on an invoice of the table.
LEMMA ClaimTyped ==
    ASSUME TypeInv, NEW w \in Workers, doing[w] # B!Idle
    PROVE  doing[w] \in Claims
  BY DEF TypeInv

\* Every row, claim and history has its type, and no claim is without invoice.
LEMMA TypeInvariant == B!Spec => []TypeInv
  <1>1. B!Init => TypeInv
    BY AttemptsAssumption, NoneAssumption
    DEF B!Init, TypeInv, B!TypeOK, B!Idle, B!Outcomes, B!Statuses, B!Faults
  <1>2. TypeInv /\ [B!Next]_(B!vars) => TypeInv'
    <2> SUFFICES ASSUME TypeInv, [B!Next]_(B!vars)
                 PROVE  TypeInv'
      OBVIOUS
    <2> USE DEF TypeInv, B!TypeOK, B!requestVars, B!Faults
    <2>1. ASSUME NEW i \in Invoices, B!Create(i) \/ B!CreateFails(i)
          PROVE  TypeInv'
      BY <2>1 DEF B!Create, B!CreateFails, B!rowVars, B!Statuses
    <2>2. ASSUME NEW w \in Workers, NEW i \in Invoices,
                 B!ClaimIssue(w, i) \/ B!ClaimChange(w, i)
          PROVE  TypeInv'
      BY <2>2 DEF B!ClaimIssue, B!ClaimChange, B!Take, B!TaskOf, B!Statuses, B!Outcomes, Claims
    <2>3. ASSUME NEW w \in Workers, B!Call(w)
          PROVE  TypeInv'
      BY <2>3, ClaimTyped DEF B!Call, B!rowVars, B!Outcomes, Claims
    <2>4. ASSUME NEW w \in Workers, B!Save(w)
          PROVE  TypeInv'
      <3> DEFINE i == doing[w].invoice
      <3> USE DEF B!Idle, B!Statuses, B!Outcomes, Claims
      <3>1. CASE B!SaveSuccess(w)
        BY <3>1, AttemptsAssumption DEF B!SaveSuccess, B!Unlocked
      <3>2. CASE B!SaveUnread(w)
        <4>1. doing[w] \in Claims
          BY <3>2 DEF B!SaveUnread
        <4>2. doing'[w] = [doing[w] EXCEPT !.outcome = "unread", !.retries = retries[i]]
          BY <3>2 DEF B!SaveUnread
        <4>3. doing'[w] \in Claims
          BY <4>1, <4>2
        <4>4. QED
          BY <3>2, <4>1, <4>3 DEF B!SaveUnread
      <3>3. CASE B!SaveIssueFailure(w)
        BY <3>3, AttemptsBounded, AttemptsAssumption DEF B!SaveIssueFailure, B!Unlocked
      <3>4. CASE B!SaveCancelFailure(w)
        BY <3>4, AttemptsBounded, AttemptsAssumption DEF B!SaveCancelFailure, B!Unlocked
      <3>5. CASE B!SaveCorrectFailure(w)
        BY <3>5, AttemptsAssumption DEF B!SaveCorrectFailure, B!Unlocked
      <3>6. QED
        BY <2>4, <3>1, <3>2, <3>3, <3>4, <3>5 DEF B!Save
    <2>5. ASSUME NEW w \in Workers, B!Dies(w)
          PROVE  TypeInv'
      BY <2>5, AttemptsAssumption DEF B!Dies, B!rowVars, B!Idle, B!Outcomes
    <2>6. ASSUME NEW i \in Invoices, B!RetryDue(i) \/ B!LockTimeout(i)
          PROVE  TypeInv'
      BY <2>6 DEF B!RetryDue, B!LockTimeout
    <2>7. ASSUME NEW i \in Invoices,
                 B!ReadIssued(i) \/ B!RequestCancel(i) \/ B!RequestCorrection(i)
          PROVE  TypeInv'
      BY <2>7
      DEF B!ReadIssued, B!RequestCancel, B!RequestCorrection, B!MayDrop,
          B!OverwrittenUnless, B!rowVars, B!Statuses
    <2>8. ASSUME NEW i \in Invoices, B!ReadIncomplete(i) \/ B!Reset(i) \/ B!Refresh(i)
          PROVE  TypeInv'
      BY <2>8
      DEF B!ReadIncomplete, B!Reset, B!Refresh, B!ResetRow, B!MayDrop,
          B!OverwrittenUnless, B!rowVars, B!Statuses
    <2>9. CASE UNCHANGED B!vars
      BY <2>9 DEF B!vars, B!rowVars
    <2>10. QED
      BY <2>1, <2>2, <2>3, <2>4, <2>5, <2>6, <2>7, <2>8, <2>9 DEF B!Next, B!Work
  <1>3. QED
    BY <1>1, <1>2, PTL DEF B!Spec

-----------------------------------------------------------------------------
\* The invoices that a fault of F has befallen.
Had(F) == {i \in Invoices : fault[i] \in F}
Overwritten == Had({"overwritten"})
Astray == Had({"unread", "overwritten"})
Faulty == Had(B!Faults)

\* A lock that goes stale is the least of the faults: it hides no other.
LEMMA TimeoutHidesNone ==
    ASSUME TypeInv, NEW i \in Invoices, B!LockTimeout(i)
    PROVE  Overwritten \subseteq Overwritten' /\ Astray \subseteq Astray'
  BY NoneAssumption
  DEF B!LockTimeout, TypeInv, B!TypeOK, B!Faults, Overwritten, Astray, Had

\* An invoice that is being issued is not claimable, unless it was overwritten:
\* neither PENDING nor FAILED, nor on its way back through a refresh.
IncompleteIsDead == \A i \in incomplete \ Overwritten : status[i] = "DEAD_LETTER"
IssueHeld ==
    \A i \in Invoices \ Overwritten, w \in Workers :
        B!Busy(w, "issue", i) =>
            status[i] \notin {None, "PENDING", "FAILED"} /\ i \notin incomplete
IssueInv == B!OneIssuer /\ IncompleteIsDead /\ IssueHeld

\* Two workers never issue one invoice, unless its row is overwritten meanwhile.
LEMMA IssuedByOne == B!Spec => []IssueInv
  <1>1. B!Init => IssueInv
    BY DEF B!Init, IssueInv, B!OneIssuer, IncompleteIsDead, IssueHeld, B!Busy, B!Idle
  <1>2. TypeInv /\ IssueInv /\ [B!Next]_(B!vars) => IssueInv'
    <2> SUFFICES ASSUME TypeInv, IssueInv, [B!Next]_(B!vars)
                 PROVE  IssueInv'
      OBVIOUS
    <2> USE NoneAssumption
        DEF IssueInv, B!OneIssuer, IncompleteIsDead, IssueHeld, B!Busy, Overwritten, Had,
            B!requestVars, TypeInv, B!TypeOK, B!Statuses, B!Idle
    <2>1. ASSUME NEW i \in Invoices, B!Create(i) \/ B!CreateFails(i)
          PROVE  IssueInv'
      BY <2>1 DEF B!Create, B!CreateFails, B!rowVars
    <2>2. ASSUME NEW w \in Workers, NEW i \in Invoices, B!ClaimIssue(w, i)
          PROVE  IssueInv'
      BY <2>2 DEF B!ClaimIssue, B!Take
    <2>3. ASSUME NEW w \in Workers, NEW i \in Invoices, B!ClaimChange(w, i)
          PROVE  IssueInv'
      BY <2>3 DEF B!ClaimChange, B!Take, B!TaskOf
    <2>4. ASSUME NEW w \in Workers, B!Call(w)
          PROVE  IssueInv'
      BY <2>4, ClaimTyped DEF B!Call, B!rowVars, Claims
    <2>5. ASSUME NEW w \in Workers, B!SaveSuccess(w)
          PROVE  IssueInv'
      BY <2>5 DEF B!SaveSuccess, B!Unlocked, B!Idle, Claims
    <2>6. ASSUME NEW w \in Workers, B!SaveUnread(w)
          PROVE  IssueInv'
      BY <2>6 DEF B!SaveUnread, B!Idle, Claims
    <2>7. ASSUME NEW w \in Workers, B!SaveIssueFailure(w)
          PROVE  IssueInv'
      BY <2>7, AttemptsBounded DEF B!SaveIssueFailure, B!Unlocked, B!Idle, Claims
    <2>8. ASSUME NEW w \in Workers, B!SaveCancelFailure(w)
          PROVE  IssueInv'
      BY <2>8, AttemptsBounded DEF B!SaveCancelFailure, B!Unlocked, B!Idle, Claims
    <2>9. ASSUME NEW w \in Workers, B!SaveCorrectFailure(w)
          PROVE  IssueInv'
      BY <2>9 DEF B!SaveCorrectFailure, B!Unlocked, B!Idle, Claims
    <2>10. ASSUME NEW w \in Workers, B!Dies(w)
           PROVE  IssueInv'
      BY <2>10 DEF B!Dies, B!rowVars, B!Idle
    <2>11. ASSUME NEW i \in Invoices, B!RetryDue(i) \/ B!LockTimeout(i)
           PROVE  IssueInv'
      <3>1. CASE B!RetryDue(i)
        BY <3>1 DEF B!RetryDue
      <3>2. CASE B!LockTimeout(i)
        <4>1. Overwritten \subseteq Overwritten' /\ Astray \subseteq Astray'
          BY <3>2, TimeoutHidesNone
        <4>2. UNCHANGED <<status, incomplete, doing, filed>>
          BY <3>2 DEF B!LockTimeout
        <4>3. QED
          BY <4>1, <4>2
      <3>3. QED
        BY <2>11, <3>1, <3>2
    <2>12. ASSUME NEW i \in Invoices,
                  B!ReadIssued(i) \/ B!RequestCancel(i) \/ B!RequestCorrection(i)
           PROVE  IssueInv'
      BY <2>12
      DEF B!ReadIssued, B!RequestCancel, B!RequestCorrection, B!MayDrop,
          B!OverwrittenUnless, B!rowVars
    <2>13. ASSUME NEW i \in Invoices, B!ReadIncomplete(i) \/ B!Reset(i) \/ B!Refresh(i)
           PROVE  IssueInv'
      BY <2>13
      DEF B!ReadIncomplete, B!Reset, B!Refresh, B!ResetRow, B!MayDrop,
          B!OverwrittenUnless, B!rowVars
    <2>14. CASE UNCHANGED B!vars
      BY <2>14 DEF B!vars, B!rowVars
    <2>15. QED
      BY <2>1, <2>2, <2>3, <2>4, <2>5, <2>6, <2>7, <2>8, <2>9, <2>10, <2>11, <2>12,
         <2>13, <2>14
      DEF B!Next, B!Work, B!Save
  <1>3. QED
    BY <1>1, <1>2, TypeInvariant, PTL DEF B!Spec

-----------------------------------------------------------------------------
On(w, i) == doing[w] # B!Idle /\ doing[w].invoice = i

\* The statuses of an invoice that has been issued or given up.
Settled == {"ISSUED", "DEAD_LETTER", "CANCELLING", "CANCELLED", "CORRECTION_REQUESTED",
            "COMPLEMENTARY_ISSUED"}

\* Unless its row was overwritten or could not be read back, an invoice in the hands
\* of an issuing worker is PROCESSING, and one that is cancelled or corrected stays
\* settled ...
ClaimHeld ==
    \A i \in Invoices \ Astray, w \in Workers :
        On(w, i) =>
            /\ doing[w].outcome # "unread"
            /\ doing[w].task = "issue" => status[i] = "PROCESSING"
            /\ doing[w].task # "issue" => status[i] \in Settled /\ i \notin incomplete

\* ... and while no lock has gone stale under a living worker, that worker is the
\* only one and what it was asked to do is still to be done.
LockHeld ==
    \A i \in Invoices \ Faulty, w \in Workers :
        On(w, i) =>
            /\ lock[i] = "recent"
            /\ doing[w].task # "issue" => status[i] \in {"CANCELLING", "CORRECTION_REQUESTED"}
            /\ \A v \in Workers \ {w} : ~On(v, i)

ClaimInv == ClaimHeld /\ LockHeld

LEMMA ClaimInvariant == B!Spec => []ClaimInv
  <1>1. B!Init => ClaimInv
    BY DEF B!Init, ClaimInv, ClaimHeld, LockHeld, On
  <1>2. TypeInv /\ IssueInv /\ ClaimInv /\ [B!Next]_(B!vars) => ClaimInv'
    <2> SUFFICES ASSUME TypeInv, IssueInv, ClaimInv, [B!Next]_(B!vars)
                 PROVE  ClaimInv'
      OBVIOUS
    <2> USE NoneAssumption
        DEF ClaimInv, ClaimHeld, LockHeld, On, Settled, IssueInv, IncompleteIsDead,
            Overwritten, Astray, Faulty, Had, B!Faults, B!requestVars,
            TypeInv, B!TypeOK, B!Statuses, B!Idle, Claims
    <2>1. ASSUME NEW i \in Invoices, B!Create(i) \/ B!CreateFails(i)
          PROVE  ClaimInv'
      BY <2>1 DEF B!Create, B!CreateFails, B!rowVars
    <2>2. ASSUME NEW w \in Workers, NEW i \in Invoices, B!ClaimIssue(w, i)
          PROVE  ClaimInv'
      BY <2>2 DEF B!ClaimIssue, B!Take
    <2>3. ASSUME NEW w \in Workers, NEW i \in Invoices, B!ClaimChange(w, i)
          PROVE  ClaimInv'
      BY <2>3 DEF B!ClaimChange, B!Take, B!TaskOf
    <2>4. ASSUME NEW w \in Workers, B!Call(w)
          PROVE  ClaimInv'
      BY <2>4 DEF B!Call, B!rowVars
    <2>5. ASSUME NEW w \in Workers, B!SaveSuccess(w)
          PROVE  ClaimInv'
      <3>1. ClaimHeld'
        BY <2>5 DEF B!OneIssuer, B!Busy, B!SaveSuccess, B!Unlocked
      <3>2. LockHeld'
        BY <2>5 DEF B!SaveSuccess, B!Unlocked
      <3>3. QED
        BY <3>1, <3>2
    <2>6. ASSUME NEW w \in Workers, B!SaveUnread(w)
          PROVE  ClaimInv'
      BY <2>6 DEF B!SaveUnread
    <2>7. ASSUME NEW w \in Workers, B!SaveIssueFailure(w)
          PROVE  ClaimInv'
      <3>1. ClaimHeld'
        BY <2>7, AttemptsBounded DEF B!OneIssuer, B!Busy, B!SaveIssueFailure, B!Unlocked
      <3>2. LockHeld'
        BY <2>7, AttemptsBounded DEF B!SaveIssueFailure, B!Unlocked
      <3>3. QED
        BY <3>1, <3>2
    <2>8. ASSUME NEW w \in Workers, B!SaveCancelFailure(w)
          PROVE  ClaimInv'
      BY <2>8, AttemptsBounded DEF B!SaveCancelFailure, B!Unlocked
    <2>9. ASSUME NEW w \in Workers, B!SaveCorrectFailure(w)
          PROVE  ClaimInv'
      BY <2>9 DEF B!SaveCorrectFailure, B!Unlocked
    <2>10. ASSUME NEW w \in Workers, B!Dies(w)
           PROVE  ClaimInv'
      BY <2>10 DEF B!Dies, B!rowVars
    <2>11. ASSUME NEW i \in Invoices, B!RetryDue(i) \/ B!LockTimeout(i)
           PROVE  ClaimInv'
      BY <2>11 DEF B!RetryDue, B!LockTimeout
    <2>12. ASSUME NEW i \in Invoices,
                  B!ReadIssued(i) \/ B!RequestCancel(i) \/ B!RequestCorrection(i)
           PROVE  ClaimInv'
      BY <2>12
      DEF B!ReadIssued, B!RequestCancel, B!RequestCorrection, B!MayDrop,
          B!OverwrittenUnless, B!rowVars
    <2>13. ASSUME NEW i \in Invoices, B!ReadIncomplete(i) \/ B!Reset(i) \/ B!Refresh(i)
           PROVE  ClaimInv'
      BY <2>13
      DEF B!ReadIncomplete, B!Reset, B!Refresh, B!ResetRow, B!MayDrop,
          B!OverwrittenUnless, B!rowVars
    <2>14. CASE UNCHANGED B!vars
      BY <2>14 DEF B!vars, B!rowVars
    <2>15. QED
      BY <2>1, <2>2, <2>3, <2>4, <2>5, <2>6, <2>7, <2>8, <2>9, <2>10, <2>11, <2>12,
         <2>13, <2>14
      DEF B!Next, B!Work, B!Save
  <1>3. QED
    BY <1>1, <1>2, TypeInvariant, IssuedByOne, PTL DEF B!Spec

-----------------------------------------------------------------------------
\* An invoice the authority has not accepted, and one it has accepted once, which is
\* then never up for issue again.
NotFiled(i) ==
    /\ filed[i] = 0
    /\ status[i] \in {None, "PENDING", "FAILED", "PROCESSING", "DEAD_LETTER"}
    /\ \A w \in Workers : On(w, i) => doing[w].task = "issue" /\ doing[w].outcome # "ok"
FiledForGood(i) ==
    /\ filed[i] = 1
    /\ status[i] \notin {None, "PENDING", "FAILED"} /\ i \notin incomplete
    /\ \A w \in Workers : B!Busy(w, "issue", i) => doing[w].outcome = "ok"

FiledInv ==
    \A i \in Invoices \ Astray : NotFiled(i) \/ FiledForGood(i)

LEMMA FiledInvariant == B!Spec => []FiledInv
  <1>1. B!Init => FiledInv
    BY DEF B!Init, FiledInv, NotFiled, On
  <1>2. TypeInv /\ IssueInv /\ ClaimInv /\ FiledInv /\ [B!Next]_(B!vars) => FiledInv'
    <2> SUFFICES ASSUME TypeInv, IssueInv, ClaimHeld, FiledInv, [B!Next]_(B!vars)
                 PROVE  FiledInv'
      BY DEF ClaimInv
    <2> USE NoneAssumption
        DEF FiledInv, NotFiled, FiledForGood, On, B!Busy, Overwritten, Astray, Had,
            B!requestVars, TypeInv, B!TypeOK, B!Statuses, B!Idle, Claims
    <2>1. ASSUME NEW i \in Invoices, B!Create(i) \/ B!CreateFails(i)
          PROVE  FiledInv'
      BY <2>1 DEF B!Create, B!CreateFails, B!rowVars
    <2>2. ASSUME NEW w \in Workers, NEW i \in Invoices, B!ClaimIssue(w, i)
          PROVE  FiledInv'
      BY <2>2 DEF B!ClaimIssue, B!Take
    <2>3. ASSUME NEW w \in Workers, NEW i \in Invoices, B!ClaimChange(w, i)
          PROVE  FiledInv'
      BY <2>3 DEF B!ClaimChange, B!Take, B!TaskOf
    <2>4. ASSUME NEW w \in Workers, B!Call(w)
          PROVE  FiledInv'
      BY <2>4 DEF B!Call, B!rowVars, IssueInv, IssueHeld, B!OneIssuer
    <2>5. ASSUME NEW w \in Workers, B!SaveSuccess(w)
          PROVE  FiledInv'
      BY <2>5 DEF B!SaveSuccess, B!Unlocked
    <2>6. ASSUME NEW w \in Workers, B!SaveUnread(w)
          PROVE  FiledInv'
      BY <2>6 DEF B!SaveUnread
    <2>7. ASSUME NEW w \in Workers, B!SaveIssueFailure(w)
          PROVE  FiledInv'
      BY <2>7, AttemptsBounded DEF B!SaveIssueFailure, B!Unlocked
    <2>8. ASSUME NEW w \in Workers, B!SaveCancelFailure(w)
          PROVE  FiledInv'
      BY <2>8, AttemptsBounded DEF B!SaveCancelFailure, B!Unlocked
    <2>9. ASSUME NEW w \in Workers, B!SaveCorrectFailure(w)
          PROVE  FiledInv'
      BY <2>9 DEF B!SaveCorrectFailure, B!Unlocked
    <2>10. ASSUME NEW w \in Workers, B!Dies(w)
           PROVE  FiledInv'
      BY <2>10 DEF B!Dies, B!rowVars
    <2>11. ASSUME NEW i \in Invoices, B!RetryDue(i) \/ B!LockTimeout(i)
           PROVE  FiledInv'
      <3>1. CASE B!RetryDue(i)
        BY <3>1 DEF B!RetryDue
      <3>2. CASE B!LockTimeout(i)
        <4>1. Overwritten \subseteq Overwritten' /\ Astray \subseteq Astray'
          BY <3>2, TimeoutHidesNone
        <4>2. UNCHANGED <<status, incomplete, doing, filed>>
          BY <3>2 DEF B!LockTimeout
        <4>3. QED
          BY <4>1, <4>2
      <3>3. QED
        BY <2>11, <3>1, <3>2
    <2>12. ASSUME NEW i \in Invoices,
                  B!ReadIssued(i) \/ B!RequestCancel(i) \/ B!RequestCorrection(i)
           PROVE  FiledInv'
      BY <2>12
      DEF B!ReadIssued, B!RequestCancel, B!RequestCorrection, B!MayDrop,
          B!OverwrittenUnless, B!rowVars
    <2>13. ASSUME NEW i \in Invoices, B!ReadIncomplete(i) \/ B!Reset(i) \/ B!Refresh(i)
           PROVE  FiledInv'
      BY <2>13
      DEF B!ReadIncomplete, B!Reset, B!Refresh, B!ResetRow, B!MayDrop,
          B!OverwrittenUnless, B!rowVars
    <2>14. CASE UNCHANGED B!vars
      BY <2>14 DEF B!vars, B!rowVars
    <2>15. QED
      BY <2>1, <2>2, <2>3, <2>4, <2>5, <2>6, <2>7, <2>8, <2>9, <2>10, <2>11, <2>12,
         <2>13, <2>14
      DEF B!Next, B!Work, B!Save
  <1>3. QED
    BY <1>1, <1>2, TypeInvariant, IssuedByOne, ClaimInvariant, PTL DEF B!Spec

-----------------------------------------------------------------------------
\* A cancelled invoice that is neither overwritten nor unread is left by the late commit
\* of a worker that outlived its lock, or not at all.
LEMMA CancellationStays == B!Spec => B!CancelledStays
  <1> DEFINE Stays ==
        \A i \in Invoices :
          status[i] = "CANCELLED" /\ status'[i] # "CANCELLED" =>
              \/ fault'[i] \in {"unread", "overwritten"}
              \/ fault[i] = "outlived" /\ status'[i] \in {"DEAD_LETTER", "ISSUED"}
  <1>1. TypeInv /\ ClaimInv /\ [B!Next]_(B!vars) => [Stays]_(B!vars)
    <2> SUFFICES ASSUME TypeInv, ClaimInv, B!Next, NEW i \in Invoices,
                        status[i] = "CANCELLED", status'[i] # "CANCELLED",
                        fault'[i] \notin {"unread", "overwritten"}
                 PROVE  fault[i] = "outlived" /\ status'[i] \in {"DEAD_LETTER", "ISSUED"}
      OBVIOUS
    <2>1. PICK w \in Workers : On(w, i) /\ B!Save(w)
      <3>1. ASSUME NEW j \in Invoices
            PROVE  /\ ~B!Create(j) /\ ~B!CreateFails(j)
                   /\ \A w \in Workers : ~B!ClaimIssue(w, j) /\ ~B!ClaimChange(w, j)
                   /\ ~B!RetryDue(j) /\ ~B!LockTimeout(j)
                   /\ ~B!ReadIssued(j) /\ ~B!RequestCancel(j) /\ ~B!RequestCorrection(j)
                   /\ ~B!ReadIncomplete(j) /\ ~B!Reset(j) /\ ~B!Refresh(j)
        BY NoneAssumption
        DEF TypeInv, B!TypeOK, B!Statuses, B!Create, B!CreateFails, B!rowVars, B!ClaimIssue,
            B!ClaimChange, B!RetryDue, B!LockTimeout, B!ReadIssued, B!RequestCancel,
            B!RequestCorrection, B!OverwrittenUnless, B!ReadIncomplete, B!Reset, B!Refresh,
            B!ResetRow
      <3>2. \A w \in Workers : ~B!Call(w) /\ ~B!Dies(w)
        BY DEF B!Call, B!Dies, B!rowVars
      <3>3. PICK w \in Workers : B!Save(w)
        BY <3>1, <3>2 DEF B!Next, B!Work
      <3>4. doing[w] # B!Idle
        BY <3>3
        DEF B!Idle, B!Save, B!SaveSuccess, B!SaveUnread, B!SaveIssueFailure,
            B!SaveCancelFailure, B!SaveCorrectFailure
      <3>5. status'[i] = status[i] \/ i = doing[w].invoice
        BY <3>3
        DEF TypeInv, B!TypeOK, B!Save, B!SaveSuccess, B!SaveUnread, B!SaveIssueFailure,
            B!SaveCancelFailure, B!SaveCorrectFailure
      <3>6. QED
        BY <3>3, <3>4, <3>5 DEF On
    <2>2. i \notin Astray
      BY <2>1 DEF B!Save, B!SaveSuccess, B!SaveUnread, B!SaveIssueFailure,
                  B!SaveCancelFailure, B!SaveCorrectFailure, On, Astray, Had, TypeInv, B!TypeOK
    <2>3. doing[w] \in Claims /\ doing[w].task # "issue" /\ doing[w].outcome # "unread"
      BY <2>1, <2>2, ClaimTyped DEF ClaimInv, ClaimHeld, On
    <2>4. fault[i] = "outlived"
      BY <2>1, <2>2, <2>3 DEF ClaimInv, LockHeld, Astray, Faulty, Had, B!Faults
    <2>5. status'[i] \in {"DEAD_LETTER", "ISSUED"}
      BY <2>1, <2>3
      DEF TypeInv, B!TypeOK, On, B!Save, B!SaveSuccess, B!SaveUnread, B!SaveIssueFailure,
          B!SaveCancelFailure, B!SaveCorrectFailure
    <2>6. QED
      BY <2>4, <2>5
  <1>2. QED
    BY <1>1, TypeInvariant, ClaimInvariant, PTL DEF B!Spec, B!CancelledStays

-----------------------------------------------------------------------------
\* The billing service among the other parts does what it does alone.
LEMMA BillingRuns == Spec => B!Spec
  <1>1. Init => B!Init
    BY DEF Init
  <1>2. [Next]_vars => [B!Next]_(B!vars)
    BY DEF Next, vars, Billing, Wallet, Stock, Outbox, billingVars, B!vars, B!rowVars,
           B!requestVars
  <1>3. QED
    BY <1>1, <1>2, PTL DEF Spec, B!Spec

\* workers/invoice_issue_worker.py:2: two workers never issue one invoice at the same
\* time, for any number of workers and however late they come, as long as no commit
\* lands on a row that has changed since it was read (an operator's retry or reissue,
\* the second of two overlapping refreshes).
THEOREM OneIssuerOnly == Spec => []OneIssuer
  <1>1. IssueInv => OneIssuer
    BY DEF IssueInv, OneIssuer
  <1>2. QED
    BY <1>1, BillingRuns, IssuedByOne, PTL

\* An invoice whose row was neither overwritten nor left unread after its commit has at
\* most one acceptance of the authority, of those that arrived and were not resync's.
THEOREM NothingFiledTwice == Spec => []FiledOnce
  <1>1. FiledInv => FiledOnce
    BY DEF FiledInv, NotFiled, FiledForGood, FiledOnce, B!FiledOnce, Astray, Had
  <1>2. QED
    BY <1>1, BillingRuns, FiledInvariant, PTL

\* A cancelled invoice stays cancelled, but for the exceptions CancelledStays names.
THEOREM CancellationIsFinal == Spec => CancelledStays
  BY BillingRuns, CancellationStays, PTL DEF CancelledStays
=============================================================================
