------------------------ MODULE AccountingOutboxProofs ------------------------
(***************************************************************************)
(* Theorems about AccountingOutbox, for every set of events, workers and   *)
(* requests.  The invariant is IInv: a claimed row stays as it was         *)
(* (ClaimedRowInv), an uncommitted entry is the only one of its source     *)
(* (SlotInv), that source was enqueued and has an amount (DutyInv), the    *)
(* period of a posting is open (PeriodInv).                                *)
(***************************************************************************)
EXTENDS AccountingOutbox, TLAPS

\* What a transaction in progress is working on, by its control point.
LEMMA TxTypes ==
  ASSUME TypeOK, NEW p \in Procs
  PROVE  /\ tx[p] = Idle \/ tx[p] \in Busy
         /\ tx[p].kind = "next" => tx[p] \in Busy /\ tx[p].event \in Events
         /\ tx[p].pc \in Points => tx[p] \in Busy /\ tx[p].event \in Events
BY DEF TypeOK, Busy, Idle, Points, KeyPoints

LEMMA InitOK == Init => IInv
<1> SUFFICES ASSUME Init PROVE IInv
  OBVIOUS
<1>1. TypeOK
  BY AttemptsArePositive DEF Init, TypeOK, EventRow, Idle
<1>2. ClaimedRowInv /\ SlotInv /\ DutyInv /\ PeriodInv
  BY DEF Init, Idle, ClaimedRowInv, SlotInv, DutyInv, PeriodInv, PeriodLocked, SlotPoints
<1>3. PostedOnce /\ ReportedIsPosted
  BY DEF Init, PostedOnce, ReportedIsPosted, Reported
<1> QED
  BY <1>1, <1>2, <1>3 DEF IInv

\* The rows that the actions write are rows.
LEMMA RowTypes ==
  ASSUME NEW row \in EventRow
  PROVE  /\ row.attempts < MaxAttempts => Claimed(row) \in EventRow
         /\ Failed(row) \in EventRow
         /\ Posted(row) \in EventRow
         /\ Requeued(row) \in EventRow
<1>1. row.attempts \in 0 .. MaxAttempts /\ 0 \in 0 .. MaxAttempts
  BY AttemptsArePositive DEF EventRow
<1>2. row.attempts < MaxAttempts => row.attempts + 1 \in 0 .. MaxAttempts
  BY <1>1, AttemptsArePositive
<1>3. row.attempts < MaxAttempts => Claimed(row) \in EventRow
  BY <1>2, Zenon DEF EventRow, Claimed
<1>4. Failed(row) \in EventRow /\ Posted(row) \in EventRow /\ Requeued(row) \in EventRow
  BY <1>1, Zenon DEF EventRow, Failed, Posted, Requeued
<1> QED
  BY <1>3, <1>4

\* What they write into it.
LEMMA RowFields ==
  ASSUME NEW row \in EventRow
  PROVE  /\ Claimed(row).status = "PENDING"
         /\ Failed(row).status = "FAILED"
         /\ Posted(row).status = "POSTED"
         /\ Requeued(row).status = "PENDING"
BY Zenon DEF EventRow, Claimed, Failed, Posted, Requeued

\* The clock changes neither the status nor the attempts.
LEMMA ClockFields ==
  ASSUME NEW row \in EventRow
  PROVE  LET expired == [row EXCEPT !.lease = "expired"]
             due == [row EXCEPT !.due = TRUE]
         IN /\ expired \in EventRow /\ due \in EventRow
            /\ expired.status = row.status /\ expired.attempts = row.attempts
            /\ due.status = row.status /\ due.attempts = row.attempts
BY Zenon DEF EventRow

LEMMA SetRowEffect ==
  ASSUME TypeOK, NEW e \in Events, NEW row, SetRow(e, row)
  PROVE  /\ event'[e] = row
         /\ \A f \in Events \ {e} : event'[f] = event[f]
         /\ row \in EventRow => event' \in [Events -> EventRow]
BY DEF TypeOK, SetRow

\* The row that a transaction sees as its own is a row.
LEMMA OwnRowType ==
  ASSUME TypeOK, ClaimedRowInv, NEW p \in Procs, tx[p] \in Busy
  PROVE  OwnRow(p) \in EventRow
BY RowTypes, TxTypes DEF TypeOK, ClaimedRowInv, OwnRow, Busy

-----------------------------------------------------------------------------
(* Steps that write no row *)

Reads(p) ==
  /\ UNCHANGED rows
  /\ \/ tx[p] # Idle /\ End(p)
     \/ ReadEvent(p) \/ BeginPosting(p) \/ InsertEntry(p) \/ PostEntry(p)
     \/ tx[p] # Idle /\ tx[p].kind = "worker" /\ Start(p, "worker", "failed", tx[p].event)
     \/ ClaimNext(p)
     \/ Ask(p)

LEMMA ReadsOK ==
  ASSUME IInv, NEW p \in Procs, Reads(p)
  PROVE  IInv'
<1> USE DEF IInv
<1>1. TypeOK'
  BY TxTypes DEF TypeOK, Reads, rows, End, ReadEvent, BeginPosting, InsertEntry,
    PostEntry, Goto, Start, ClaimNext, Ask, Busy, Idle, Kinds, Points, KeyPoints
<1>2. ClaimedRowInv'
  BY TxTypes DEF TypeOK, ClaimedRowInv, Reads, rows, End, ReadEvent, BeginPosting,
    InsertEntry, PostEntry, Goto, Start, ClaimNext, Ask, Busy, Idle, NextClaim,
    Claimable, RowLocked, RowFree
<1>3. SlotInv'
  BY TxTypes DEF TypeOK, SlotInv, SlotFree, SlotPoints, Reads, rows, End, ReadEvent,
    BeginPosting, InsertEntry, PostEntry, Goto, Start, ClaimNext, Ask, Busy, Idle,
    Points, KeyPoints
<1>4. PeriodInv'
  BY TxTypes DEF TypeOK, PeriodInv, PeriodLocked, Reads, rows, End, ReadEvent,
    BeginPosting, InsertEntry, PostEntry, Goto, Start, ClaimNext, Ask, Busy, Idle
<1>5. PostedOnce' /\ ReportedIsPosted'
  BY DEF Reads, rows, PostedOnce, ReportedIsPosted, Reported
<1>6. DutyInv'
  BY TxTypes DEF TypeOK, DutyInv, Enqueued, Reads, rows, End, ReadEvent, BeginPosting,
    InsertEntry, PostEntry, HasPolicyAndAmount, Goto, Start, ClaimNext, Ask, NextClaim,
    Claimable, Busy, Idle, Points, KeyPoints
<1> QED
  BY <1>1, <1>2, <1>3, <1>4, <1>5, <1>6

-----------------------------------------------------------------------------
(* Steps that write a row *)

\* Users, producers and the clock: no transaction moves.
Outside ==
  \/ \E e \in Events : \/ Enqueue(e) \/ RequeueEvent(e)
                       \/ LeaseExpires(e) \/ BackoffEnds(e) \/ KeyExpires(e)
  \/ ConfigurePolicy
  \/ ClosePeriod

\* Each of them leaves a locked row to the transaction that locked it, and makes
\* no event POSTED.
LEMMA OutsideEffect ==
  ASSUME IInv, Outside
  PROVE  /\ TypeOK'
         /\ \A e \in Events :
              /\ event'[e].status = "POSTED" => event[e].status = "POSTED"
              /\ event'[e].status = "NONE" => event[e].status = "NONE"
              /\ record'[e] = "COMPLETED" => record[e] = "COMPLETED"
              /\ RowLocked(e) /\ event[e].status # "NONE" =>
                   /\ event'[e].status = event[e].status
                   /\ event'[e].attempts = event[e].attempts
         /\ UNCHANGED <<entry, tx>>
<1> USE DEF IInv
<1> DEFINE Effect ==
      /\ TypeOK'
      /\ \A e \in Events :
           /\ event'[e].status = "POSTED" => event[e].status = "POSTED"
           /\ event'[e].status = "NONE" => event[e].status = "NONE"
           /\ record'[e] = "COMPLETED" => record[e] = "COMPLETED"
           /\ RowLocked(e) /\ event[e].status # "NONE" =>
                /\ event'[e].status = event[e].status
                /\ event'[e].attempts = event[e].attempts
<1>1. ASSUME NEW e \in Events, Enqueue(e) PROVE Effect
  <2>1. event[e] \in EventRow
    BY DEF TypeOK
  <2>2. /\ [event[e] EXCEPT !.status = "PENDING"] \in EventRow
        /\ [event[e] EXCEPT !.status = "PENDING"].status = "PENDING"
    BY <2>1, Zenon DEF EventRow
  <2> QED
    BY <1>1, <2>2, SetRowEffect DEF TypeOK, Enqueue
<1>2. ASSUME NEW e \in Events, RequeueEvent(e) PROVE Effect
  <2>1. event[e] \in EventRow
    BY DEF TypeOK
  <2>2. /\ TypeOK /\ SetRow(e, Requeued(event[e])) /\ ~RowLocked(e)
        /\ Requeued(event[e]) \in EventRow /\ Requeued(event[e]).status = "PENDING"
        /\ UNCHANGED <<entry, record, policy, period, tx>>
    BY <1>2, <2>1, RowTypes, RowFields DEF RequeueEvent
  <2>3. TypeOK'
    BY <2>2, SetRowEffect DEF TypeOK
  <2> QED
    BY <2>2, <2>3, SetRowEffect
<1>3. ASSUME NEW e \in Events, LeaseExpires(e) \/ BackoffEnds(e) PROVE Effect
  <2>1. event[e] \in EventRow
    BY DEF TypeOK
  <2>2. PICK row \in EventRow :
          /\ SetRow(e, row)
          /\ row.status = event[e].status /\ row.attempts = event[e].attempts
          /\ UNCHANGED <<entry, record, policy, period, tx>>
    BY <1>3, <2>1, ClockFields DEF LeaseExpires, BackoffEnds
  <2>3. TypeOK'
    BY <2>2, SetRowEffect DEF TypeOK
  <2> QED
    BY <2>2, <2>3, SetRowEffect
<1>4. ASSUME NEW e \in Events, KeyExpires(e) PROVE Effect
  BY <1>4 DEF TypeOK, KeyExpires
<1>5. ASSUME ConfigurePolicy \/ ClosePeriod PROVE Effect
  BY <1>5 DEF TypeOK, ConfigurePolicy, ClosePeriod
<1>6. UNCHANGED <<entry, tx>>
  BY DEF Outside, Enqueue, RequeueEvent, LeaseExpires, BackoffEnds, KeyExpires,
    ConfigurePolicy, ClosePeriod
<1> QED
  BY <1>1, <1>2, <1>3, <1>4, <1>5, <1>6 DEF Outside

LEMMA OutsideOK ==
  ASSUME IInv, Outside
  PROVE  IInv'
<1> USE DEF IInv
<1>1. TypeOK'
  BY OutsideEffect
<1>2. ClaimedRowInv'
  BY OutsideEffect, TxTypes DEF TypeOK, ClaimedRowInv, RowLocked, RowFree
<1>3. SlotInv'
  BY OutsideEffect DEF SlotInv, SlotFree
<1>4. PeriodInv'
  BY DEF PeriodInv, PeriodLocked, Outside, Enqueue, RequeueEvent, LeaseExpires,
    BackoffEnds, KeyExpires, ConfigurePolicy, ClosePeriod
<1>5. PostedOnce' /\ ReportedIsPosted'
  BY OutsideEffect DEF PostedOnce, ReportedIsPosted, Reported
<1>6. DutyInv'
  BY OutsideEffect DEF DutyInv, Enqueued
<1> QED
  BY <1>1, <1>2, <1>3, <1>4, <1>5, <1>6

\* A worker claims an event whose row nobody has locked.
LEMMA ClaimOK ==
  ASSUME IInv, NEW w \in Procs, Claim(w)
  PROVE  IInv'
<1> USE DEF IInv
<1>1. PICK e \in Events :
        /\ NextClaim(e)
        /\ SetRow(e, Claimed(event[e]))
        /\ Start(w, "worker", "claimed", e)
  BY DEF Claim
<1>2. Claimable(e) /\ ~RowLocked(e)
  BY <1>1 DEF NextClaim
<1>3. TypeOK'
  <2>1. Claimed(event[e]) \in EventRow
    BY <1>2, RowTypes DEF TypeOK, Claimable
  <2>2. [kind |-> "worker", pc |-> "claimed", event |-> e] \in Busy
    BY DEF Busy, Kinds, Points
  <2> QED
    BY <1>1, <2>1, <2>2, Zenon DEF TypeOK, Claim, SetRow, Start
<1>4. ClaimedRowInv'
  BY <1>1, <1>2, TxTypes DEF TypeOK, ClaimedRowInv, Claim, SetRow, Start, RowLocked, RowFree
<1>5. SlotInv' /\ PeriodInv'
  BY <1>1 DEF TypeOK, SlotInv, SlotFree, SlotPoints, PeriodInv, PeriodLocked, Claim, Start
<1>6. PostedOnce' /\ ReportedIsPosted'
  BY <1>1, RowFields, SetRowEffect DEF TypeOK, PostedOnce, ReportedIsPosted, Reported, Claim
<1>7. DutyInv'
  <2>1. Enqueued' = Enqueued /\ e \in Enqueued
    BY <1>1, <1>2, RowFields, SetRowEffect DEF TypeOK, Enqueued, Claimable
  <2> QED
    BY <1>1, <2>1, TxTypes DEF TypeOK, DutyInv, Start, Idle, KeyPoints
<1> QED
  BY <1>3, <1>4, <1>5, <1>6, <1>7

\* A step that ends p's transaction and writes one row, which p may write.
LEMMA EndOK ==
  ASSUME IInv, NEW p \in Procs, End(p), NEW e \in Events, NEW row \in EventRow,
         RowFree(p, e), SetRow(e, row)
  PROVE  /\ ClaimedRowInv' /\ (UNCHANGED entry => SlotInv') /\ (UNCHANGED period => PeriodInv')
         /\ row.status # "NONE" => DutyInv'
<1> USE DEF IInv
<1>1. ClaimedRowInv'
  BY TxTypes DEF TypeOK, ClaimedRowInv, End, SetRow, RowFree, Idle
<1>2. UNCHANGED entry => SlotInv'
  BY DEF TypeOK, SlotInv, SlotFree, SlotPoints, End, Idle
<1>3. UNCHANGED period => PeriodInv'
  BY DEF TypeOK, PeriodInv, PeriodLocked, End, Idle
<1>4. row.status # "NONE" => DutyInv'
  <2>1. row.status # "NONE" => Enqueued \subseteq Enqueued'
    BY SetRowEffect DEF Enqueued
  <2> QED
    BY <2>1 DEF TypeOK, DutyInv, End, Idle
<1> QED
  BY <1>1, <1>2, <1>3, <1>4

LEMMA MarkFailedOK ==
  ASSUME IInv, NEW w \in Procs, MarkFailed(w)
  PROVE  IInv'
<1> USE DEF IInv
<1>1. tx[w] \in Busy /\ tx[w].event \in Events
  BY TxTypes DEF MarkFailed, Points
<1>2. Failed(event[tx[w].event]) \in EventRow
  BY <1>1, RowTypes DEF TypeOK
<1>3. TypeOK'
  BY <1>1, <1>2 DEF TypeOK, MarkFailed, SetRow, End
<1>4. ClaimedRowInv' /\ SlotInv' /\ PeriodInv' /\ DutyInv'
  BY <1>1, <1>2, RowFields, EndOK DEF TypeOK, MarkFailed
<1>5. PostedOnce' /\ ReportedIsPosted'
  BY <1>1 DEF TypeOK, PostedOnce, ReportedIsPosted, Reported, MarkFailed, SetRow, Failed
<1> QED
  BY <1>3, <1>4, <1>5

\* processNextEvent's failure: the row it locked becomes FAILED.
LEMMA RejectNextOK ==
  ASSUME IInv, NEW p \in Procs, RejectNext(p)
  PROVE  IInv'
<1> USE DEF IInv
<1> DEFINE e == tx[p].event
<1>1. e \in Events /\ RowFree(p, e) /\ OwnRow(p) \in EventRow
  BY TxTypes, OwnRowType DEF RejectNext, ClaimedRowInv
<1>2. Failed(OwnRow(p)) \in EventRow /\ Failed(OwnRow(p)).status = "FAILED"
  BY <1>1, RowTypes, RowFields
<1>3. SetRow(e, Failed(OwnRow(p))) /\ End(p) /\ UNCHANGED <<entry, policy, period>>
  BY DEF RejectNext
<1>4. record' \in [Events -> {"NONE", "STARTED", "COMPLETED"}]
      /\ \A f \in Events : record'[f] = "COMPLETED" => record[f] = "COMPLETED"
  BY <1>1 DEF TypeOK, RejectNext
<1>5. TypeOK'
  BY <1>1, <1>2, <1>3, <1>4, SetRowEffect DEF TypeOK, End
<1>6. ClaimedRowInv' /\ SlotInv' /\ PeriodInv' /\ DutyInv'
  BY <1>1, <1>2, <1>3, EndOK
<1>7. PostedOnce' /\ ReportedIsPosted'
  BY <1>1, <1>2, <1>3, <1>4, SetRowEffect DEF PostedOnce, ReportedIsPosted, Reported
<1> QED
  BY <1>5, <1>6, <1>7

\* A success without a posting commits at most processNextEvent's claim.
LEMMA AnswerOK ==
  ASSUME IInv, NEW p \in Procs, Answer(p)
  PROVE  IInv'
<1> USE DEF IInv
<1> DEFINE e == tx[p].event
<1>1. tx[p] \in Busy /\ e \in Events /\ OwnRow(p) \in EventRow
  BY TxTypes, OwnRowType DEF Answer, Points
<1>2. SetRow(e, OwnRow(p)) /\ End(p) /\ UNCHANGED <<entry, record, policy, period>>
  BY DEF Answer
<1>3. \A f \in Events : event'[f].status = "POSTED" => event[f].status = "POSTED"
  <2>1. event[e] \in EventRow
    BY <1>1 DEF TypeOK
  <2>2. OwnRow(p).status = "POSTED" => event[e].status = "POSTED"
    BY <2>1, RowFields DEF OwnRow
  <2> QED
    BY <1>1, <1>2, <2>2, SetRowEffect
<1>4. TypeOK'
  BY <1>1, <1>2, SetRowEffect DEF TypeOK, End
<1>5. ClaimedRowInv' /\ SlotInv' /\ PeriodInv' /\ DutyInv'
  <2>1. CASE tx[p].kind = "next"
    <3>1. OwnRow(p).status = "PENDING"
      BY <1>1, <2>1, RowFields DEF TypeOK, OwnRow
    <3> QED
      BY <1>1, <1>2, <2>1, <3>1, EndOK DEF ClaimedRowInv
  <2>2. CASE tx[p].kind # "next"
    <3>1. event' = event
      BY <1>1, <1>2, <2>2 DEF TypeOK, SetRow, OwnRow
    <3> QED
      BY <1>2, <3>1, TxTypes DEF TypeOK, ClaimedRowInv, RowFree, SlotInv, SlotFree,
        SlotPoints, DutyInv, Enqueued, PeriodInv, PeriodLocked, End, Idle
  <2> QED
    BY <2>1, <2>2
<1>6. PostedOnce' /\ ReportedIsPosted'
  BY <1>2, <1>3 DEF PostedOnce, ReportedIsPosted, Reported
<1> QED
  BY <1>4, <1>5, <1>6

\* The commit of a posting: its slot is its own, so the entry is the first.
LEMMA CommitPostingOK ==
  ASSUME IInv, NEW p \in Procs, CommitPosting(p)
  PROVE  IInv' /\ period = "OPEN"
<1> USE DEF IInv
<1> DEFINE e == tx[p].event
<1>1. tx[p] \in Busy /\ e \in Events /\ OwnRow(p) \in EventRow
  BY TxTypes, OwnRowType DEF CommitPosting, Points, KeyPoints
<1>2. Posted(OwnRow(p)) \in EventRow /\ Posted(OwnRow(p)).status = "POSTED"
  BY <1>1, RowTypes, RowFields
<1>3. /\ SetRow(e, Posted(OwnRow(p))) /\ End(p) /\ RowFree(p, e)
      /\ entry' = [entry EXCEPT ![e] = @ + 1] /\ UNCHANGED <<policy, period>>
  BY DEF CommitPosting
<1>4. entry[e] = 0 /\ SlotFree(p) /\ period = "OPEN"
  BY DEF CommitPosting, SlotInv, SlotPoints, PeriodInv, PeriodLocked
<1>5. entry' \in [Events -> Nat] /\ entry'[e] = 1
      /\ \A f \in Events \ {e} : entry'[f] = entry[f]
  BY <1>1, <1>3, <1>4 DEF TypeOK
<1>6. record' \in [Events -> {"NONE", "STARTED", "COMPLETED"}]
      /\ \A f \in Events \ {e} : record'[f] = record[f]
  BY <1>1 DEF TypeOK, CommitPosting
<1>7. TypeOK'
  BY <1>1, <1>2, <1>3, <1>5, <1>6, SetRowEffect DEF TypeOK, End
<1>8. ClaimedRowInv' /\ PeriodInv' /\ DutyInv'
  BY <1>1, <1>2, <1>3, EndOK
<1>9. SlotInv'
  BY <1>1, <1>3, <1>4, <1>5, TxTypes DEF TypeOK, SlotInv, SlotFree, SlotPoints, End,
    Idle, Points, KeyPoints
<1>10. PostedOnce' /\ ReportedIsPosted'
  BY <1>1, <1>2, <1>3, <1>5, <1>6, SetRowEffect DEF PostedOnce, ReportedIsPosted, Reported
<1> QED
  BY <1>4, <1>7, <1>8, <1>9, <1>10

-----------------------------------------------------------------------------
(* The theorems *)

LEMMA NextCases ==
  ASSUME IInv, [Next]_vars
  PROVE  \/ Outside
         \/ \E p \in Procs : \/ Reads(p) \/ Claim(p) \/ MarkFailed(p) \/ CommitPosting(p)
                             \/ Answer(p) \/ RejectNext(p)
         \/ UNCHANGED vars
<1> DEFINE Cases(p) == \/ Reads(p) \/ Claim(p) \/ MarkFailed(p) \/ CommitPosting(p)
                       \/ Answer(p) \/ RejectNext(p)
<1>1. ASSUME NEW w \in Workers, Claim(w) \/ MarkFailed(w) \/ Crash(w)
      PROVE  w \in Procs /\ Cases(w)
  BY <1>1 DEF Procs, Reads, Crash
<1>2. ASSUME NEW r \in Requests, ClaimNext(r) \/ Ask(r)
      PROVE  r \in Procs /\ Cases(r)
  BY <1>2 DEF Procs, Reads, ClaimNext, Ask
<1>3. ASSUME NEW p \in Procs, Abort(p) \/ Reject(p) PROVE Reads(p)
  <2>1. tx[p] # Idle /\ RollBack(p)
    BY <1>3 DEF Abort, Reject, Rejected, Idle
  <2> QED
    BY <2>1 DEF Reads, RollBack
<1>4. ASSUME NEW p \in Procs, Proceed(p) PROVE Cases(p)
  BY <1>3, <1>4 DEF Proceed, Reads, ReadEvent, BeginPosting, InsertEntry, PostEntry, Goto
<1> QED
  BY <1>1, <1>2, <1>3, <1>4 DEF Next, Outside, Clock

LEMMA StepOK ==
  ASSUME IInv, [Next]_vars
  PROVE  IInv'
<1>1. CASE UNCHANGED vars
  BY <1>1 DEF IInv, vars, rows, TypeOK, ClaimedRowInv, RowFree, SlotInv, SlotFree,
    DutyInv, Enqueued, PeriodInv, PeriodLocked, PostedOnce, ReportedIsPosted, Reported
<1> QED
  BY <1>1, NextCases, OutsideOK, ReadsOK, ClaimOK, MarkFailedOK, CommitPostingOK,
    AnswerOK, RejectNextOK

\* The inductive invariant holds in every reachable state of the outbox.
THEOREM OutboxInvariant == Spec => []IInv
BY InitOK, StepOK, PTL DEF Spec

\* Whoever posts an event, with whatever keys and after whatever failures, its
\* source has at most one journal entry.
THEOREM AtMostOnePosting == Spec => []PostedOnce
<1>1. IInv => PostedOnce
  BY DEF IInv
<1> QED
  BY <1>1, OutboxInvariant, PTL

\* What is reported as POSTED, or answered from a COMPLETED record, has its entry.
THEOREM ReportsAreTrue == Spec => []ReportedIsPosted
<1>1. IInv => ReportedIsPosted
  BY DEF IInv
<1> QED
  BY <1>1, OutboxInvariant, PTL

\* No posting reaches a period that closed while it was in progress.
THEOREM ClosedPeriodStaysFinal == Spec => ClosedPeriodIsFinal
<1>1. ASSUME IInv, [Next]_vars PROVE [period = "CLOSED" => entry' = entry]_vars
  <2>1. ASSUME Outside PROVE UNCHANGED entry
    BY <1>1, <2>1, OutsideEffect
  <2>2. ASSUME NEW p \in Procs, Reads(p) \/ Claim(p) \/ MarkFailed(p) \/ Answer(p) \/ RejectNext(p)
        PROVE  UNCHANGED entry
    BY <2>2 DEF Reads, rows, Claim, MarkFailed, Answer, RejectNext
  <2>3. ASSUME NEW p \in Procs, CommitPosting(p) PROVE period # "CLOSED"
    BY <1>1, <2>3, CommitPostingOK
  <2> QED
    BY <1>1, <2>1, <2>2, <2>3, NextCases
<1> QED
  BY <1>1, OutboxInvariant, PTL DEF Spec, ClosedPeriodIsFinal

-----------------------------------------------------------------------------
(* The outbox implements Bookkeeping *)

BooksStep == [Books!Next]_<<Enqueued, entry, Reported, period = "OPEN">>

\* A step that at most takes reports back is Bookkeeping's Forget.
LEMMA ForgetStep ==
  ASSUME Reported' \subseteq Reported, Enqueued' = Enqueued, UNCHANGED <<entry, period>>
  PROVE  BooksStep
<1> DEFINE S == Reported \ Reported'
<1>1. S \in SUBSET Reported /\ Reported' = Reported \ S
  OBVIOUS
<1>2. Books!Forget(S)
  BY <1>1 DEF Books!Forget
<1> QED
  BY <1>1, <1>2 DEF BooksStep, Books!Next

\* It is one where the rows that a step writes are enqueued before and after it and
\* become neither POSTED nor COMPLETED by it.
LEMMA RowsForget ==
  ASSUME UNCHANGED <<entry, period>>,
         \A e \in Events :
           /\ event'[e].status = "NONE" <=> event[e].status = "NONE"
           /\ event'[e].status = "POSTED" => event[e].status = "POSTED"
           /\ record'[e] = "COMPLETED" => record[e] = "COMPLETED"
  PROVE  BooksStep
BY ForgetStep DEF Reported, Enqueued

LEMMA OutsideRefines ==
  ASSUME IInv, Outside
  PROVE  BooksStep
<1> USE DEF IInv
<1>1. ASSUME NEW e \in Events, Enqueue(e) PROVE BooksStep
  <2>1. event[e] \in EventRow
    BY DEF TypeOK
  <2>2. [event[e] EXCEPT !.status = "PENDING"].status = "PENDING"
    BY <2>1, Zenon DEF EventRow
  <2>3. /\ event'[e].status = "PENDING" /\ event[e].status = "NONE"
        /\ \A f \in Events \ {e} : event'[f] = event[f]
        /\ UNCHANGED <<entry, record, period>>
    BY <1>1, <2>2, SetRowEffect DEF Enqueue
  <2>4. Enqueued' = Enqueued \cup {e} /\ Reported' = Reported
    BY <2>3 DEF Enqueued, Reported
  <2>5. Books!Owe(e)
    BY <2>3, <2>4 DEF Books!Owe
  <2> QED
    BY <2>5 DEF BooksStep, Books!Next
<1>2. ASSUME NEW e \in Events, RequeueEvent(e) PROVE BooksStep
  <2>1. event[e] \in EventRow
    BY DEF TypeOK
  <2>2. /\ event'[e].status = "PENDING" /\ event[e].status = "FAILED"
        /\ \A f \in Events \ {e} : event'[f] = event[f]
        /\ UNCHANGED <<entry, record, period>>
    BY <1>2, <2>1, RowFields, SetRowEffect DEF RequeueEvent
  <2> QED
    BY <2>2, RowsForget
<1>3. ASSUME NEW e \in Events, LeaseExpires(e) \/ BackoffEnds(e) PROVE BooksStep
  <2>1. event[e] \in EventRow
    BY DEF TypeOK
  <2>2. PICK row \in EventRow :
          /\ SetRow(e, row)
          /\ row.status = event[e].status
          /\ UNCHANGED <<entry, record, policy, period, tx>>
    BY <1>3, <2>1, ClockFields DEF LeaseExpires, BackoffEnds
  <2> QED
    BY <2>2, RowsForget, SetRowEffect
<1>4. ASSUME NEW e \in Events, KeyExpires(e) PROVE BooksStep
  BY <1>4, RowsForget DEF TypeOK, KeyExpires
<1>5. ASSUME ConfigurePolicy PROVE BooksStep
  BY <1>5, RowsForget DEF ConfigurePolicy
<1>6. ASSUME ClosePeriod PROVE BooksStep
  <2>1. Enqueued' = Enqueued /\ Reported' = Reported /\ entry' = entry
    BY <1>6 DEF ClosePeriod, Enqueued, Reported
  <2>2. (period = "OPEN")' = FALSE
    BY <1>6 DEF ClosePeriod
  <2>3. Books!Close
    BY <2>1, <2>2, Zenon DEF Books!Close
  <2> QED
    BY <2>3 DEF BooksStep, Books!Next
<1> QED
  BY <1>1, <1>2, <1>3, <1>4, <1>5, <1>6 DEF Outside

\* A claim, a failure and an answer write a row that was enqueued; a failure may
\* take a report back, none of them makes one.
LEMMA WriteRefines ==
  ASSUME IInv, NEW p \in Procs, Claim(p) \/ MarkFailed(p) \/ Answer(p) \/ RejectNext(p)
  PROVE  BooksStep
<1> USE DEF IInv
<1>1. ASSUME Claim(p) PROVE BooksStep
  <2>1. PICK e \in Events : NextClaim(e) /\ SetRow(e, Claimed(event[e]))
    BY <1>1 DEF Claim
  <2>2. event[e] \in EventRow /\ event[e].status \in {"PENDING", "FAILED"}
    BY <2>1 DEF NextClaim, Claimable, TypeOK
  <2>3. /\ event'[e].status = "PENDING"
        /\ \A f \in Events \ {e} : event'[f] = event[f]
    BY <2>1, <2>2, RowFields, SetRowEffect
  <2> QED
    BY <1>1, <2>2, <2>3, RowsForget DEF Claim
<1>2. ASSUME MarkFailed(p) PROVE BooksStep
  <2> DEFINE e == tx[p].event
  <2>1. tx[p] \in Busy /\ tx[p] # Idle /\ e \in Events
    BY <1>2, TxTypes DEF MarkFailed, Points, Idle
  <2>2. event[e] \in EventRow /\ event[e].status # "NONE"
    BY <2>1 DEF DutyInv, Enqueued, TypeOK
  <2>3. /\ event'[e].status = "FAILED"
        /\ \A f \in Events \ {e} : event'[f] = event[f]
    BY <1>2, <2>1, <2>2, RowFields, SetRowEffect DEF MarkFailed
  <2> QED
    BY <1>2, <2>2, <2>3, RowsForget DEF MarkFailed
<1>3. ASSUME RejectNext(p) PROVE BooksStep
  <2> DEFINE e == tx[p].event
  <2>1. e \in Events /\ OwnRow(p) \in EventRow /\ event[e].status \in {"PENDING", "FAILED"}
    BY <1>3, TxTypes, OwnRowType DEF RejectNext, ClaimedRowInv
  <2>2. /\ event'[e].status = "FAILED"
        /\ \A f \in Events \ {e} : event'[f] = event[f]
    BY <1>3, <2>1, RowFields, SetRowEffect DEF RejectNext
  <2>3. \A f \in Events : record'[f] = "COMPLETED" => record[f] = "COMPLETED"
    BY <1>3, <2>1 DEF TypeOK, RejectNext
  <2> QED
    BY <1>3, <2>1, <2>2, <2>3, RowsForget DEF RejectNext
<1>4. ASSUME Answer(p) PROVE BooksStep
  <2> DEFINE e == tx[p].event
  <2>1. tx[p] \in Busy /\ tx[p] # Idle /\ e \in Events /\ OwnRow(p) \in EventRow
    BY <1>4, TxTypes, OwnRowType DEF Answer, Points, Idle
  <2>2. event[e] \in EventRow /\ event[e].status # "NONE"
    BY <2>1 DEF DutyInv, Enqueued, TypeOK
  <2>3. OwnRow(p).status = "PENDING" \/ OwnRow(p) = event[e]
    BY <2>2, RowFields DEF OwnRow
  <2>4. event'[e] = OwnRow(p) /\ \A f \in Events \ {e} : event'[f] = event[f]
    BY <1>4, <2>1, SetRowEffect DEF Answer
  <2>5. \A f \in Events :
          /\ event'[f].status = "NONE" <=> event[f].status = "NONE"
          /\ event'[f].status = "POSTED" => event[f].status = "POSTED"
    BY <2>2, <2>3, <2>4
  <2> QED
    BY <1>4, <2>5, RowsForget DEF Answer
<1> QED
  BY <1>1, <1>2, <1>3, <1>4

\* The commit of a posting books its source, for the first time, and reports it.
LEMMA CommitRefines ==
  ASSUME IInv, NEW p \in Procs, CommitPosting(p)
  PROVE  BooksStep
<1> USE DEF IInv
<1> DEFINE e == tx[p].event
<1>1. tx[p] \in Busy /\ tx[p] # Idle /\ e \in Events /\ OwnRow(p) \in EventRow
  BY TxTypes, OwnRowType DEF CommitPosting, Points, KeyPoints, Idle
<1>2. e \in Enqueued /\ e \notin NoAmount
  BY <1>1 DEF CommitPosting, DutyInv, KeyPoints
<1>3. entry[e] = 0 /\ period = "OPEN"
  BY DEF CommitPosting, SlotInv, SlotPoints, PeriodInv, PeriodLocked
<1>4. entry' = [entry EXCEPT ![e] = 1] /\ period' = period
  BY <1>3 DEF CommitPosting
<1>5. /\ event'[e].status = "POSTED"
      /\ \A f \in Events \ {e} : event'[f] = event[f] /\ record'[f] = record[f]
  BY <1>1, RowFields, SetRowEffect DEF TypeOK, CommitPosting
<1>6. Enqueued' = Enqueued /\ Reported' = Reported \cup {e}
  BY <1>1, <1>2, <1>5 DEF Enqueued, Reported
<1>7. Books!Book(e)
  BY <1>1, <1>2, <1>3, <1>4, <1>6, Zenon DEF Books!Book
<1> QED
  BY <1>1, <1>7 DEF BooksStep, Books!Next

\* Workers, users, failures, lost leases and expired keys together do what
\* Bookkeeping promises: every step is one of its steps or none.
THEOREM OutboxKeepsBooks == Spec => ImplementsBooks
<1>1. Init => Books!Init
  <2> SUFFICES ASSUME Init PROVE Books!Init
    OBVIOUS
  <2>1. Enqueued = {} /\ Reported = {} /\ entry = [e \in Events |-> 0]
    BY DEF Init, Enqueued, Reported
  <2>2. (period = "OPEN") = TRUE
    BY DEF Init
  <2> QED
    BY <2>1, <2>2, Zenon DEF Books!Init
<1>2. ASSUME IInv, [Next]_vars PROVE BooksStep
  <2>1. ASSUME NEW p \in Procs, Reads(p) PROVE BooksStep
    BY <2>1, ForgetStep DEF Reads, rows, Reported, Enqueued
  <2>2. ASSUME UNCHANGED vars PROVE BooksStep
    BY <2>2, ForgetStep DEF vars, rows, Reported, Enqueued
  <2> QED
    BY <1>2, <2>1, <2>2, OutsideRefines, WriteRefines, CommitRefines, NextCases
<1> QED
  BY <1>1, <1>2, OutboxInvariant, PTL DEF Spec, ImplementsBooks, Books!Spec, BooksStep
==============================================================================
