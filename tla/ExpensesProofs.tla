---------------------------- MODULE ExpensesProofs ----------------------------
(***************************************************************************)
(* Theorems about Expenses, for every set of expenses, adjustments,        *)
(* amounts and requests.  The invariant is IInv: what a request has read   *)
(* of an expense stays true in the part that matters, since no expense     *)
(* becomes a draft again (RequestInv).                                     *)
(***************************************************************************)
EXTENDS Expenses, TLAPS

LEMMA InitOK == Init => IInv
<1> SUFFICES ASSUME Init PROVE IInv
  OBVIOUS
<1>1. TypeOK
  BY DEF Init, TypeOK, Expense, Adjustment, Request, Idle
<1>2. RequestInv /\ AdjustmentInv /\ ApprovedIsInOutbox
  BY DEF Init, RequestInv, AdjustmentInv, ApprovedIsInOutbox, Idle, Approved
<1> QED
  BY <1>1, <1>2 DEF IInv

\* The end of a request disturbs nobody.
LEMMA EndEffect ==
  ASSUME TypeOK, NEW w \in Requests, End(w)
  PROVE  /\ tx' \in [Requests -> Request]
         /\ tx'[w].pc = "idle"
         /\ \A v \in Requests \ {w} : tx'[v] = tx[v]
BY DEF End, TypeOK, Idle, Request

\* A read takes note of what is true.
LEMMA ReadOK ==
  ASSUME IInv, NEW w \in Requests, NEW e \in Expenses, NEW amount \in Amounts \cup {0},
         NEW pc \in {"update", "remove", "approve", "adjust", "post"}, Read(w, pc, e, amount),
         expense[e].status # "NONE",
         pc \in {"adjust", "post"} => e \in event /\ expense[e].status # "DRAFT"
  PROVE  IInv'
<1>1. /\ UNCHANGED <<expense, adjustment, event, posted>>
      /\ tx' = [tx EXCEPT ![w] = [pc |-> pc, of |-> e, amount |-> amount]]
      /\ TypeOK
  BY DEF Read, rows, IInv
<1>2. TypeOK'
  BY <1>1 DEF TypeOK, Request
<1>3. tx'[w].pc = pc /\ tx'[w].of = e /\ \A v \in Requests \ {w} : tx'[v] = tx[v]
  BY <1>1 DEF TypeOK
<1>4. RequestInv'
  BY <1>1, <1>3 DEF RequestInv, IInv
<1>5. AdjustmentInv' /\ ApprovedIsInOutbox'
  BY <1>1 DEF AdjustmentInv, ApprovedIsInOutbox, IInv
<1> QED
  BY <1>2, <1>4, <1>5 DEF IInv

\* A write that keeps the approved approved and the drafts from coming back.
LEMMA RowsOK ==
  ASSUME IInv, TypeOK', NEW w \in Requests, End(w),
         \A e \in Expenses :
           /\ expense[e].status # "NONE" => expense'[e].status # "NONE"
           /\ expense[e].status # "DRAFT" /\ expense[e].status # "NONE" => expense'[e].status # "DRAFT",
         event \subseteq event'
  PROVE  RequestInv'
<1>1. tx'[w].pc = "idle" /\ \A v \in Requests \ {w} : tx'[v] = tx[v]
  BY EndEffect DEF IInv
<1> QED
  BY <1>1 DEF RequestInv, IInv

LEMMA WriteOK ==
  ASSUME IInv, NEW w \in Requests,
         \/ UpdateWrite(w) \/ RemoveWrite(w) \/ ApproveWrite(w) \/ PostWrite(w) \/ Abort(w)
         \/ \E j \in Adjustments, d \in Deltas : AdjustWrite(w, j, d)
  PROVE  IInv'
<1> DEFINE e == tx[w].of
<1>0. TypeOK /\ RequestInv /\ AdjustmentInv /\ ApprovedIsInOutbox
  BY DEF IInv
<1>1. ASSUME UpdateWrite(w) PROVE IInv'
  <2>1. /\ e \in Expenses /\ tx[w].amount \in Amounts \cup {0} /\ End(w)
        /\ expense' = [expense EXCEPT ![e].amount = tx[w].amount]
        /\ UNCHANGED <<adjustment, event, posted>>
    BY <1>0, <1>1 DEF UpdateWrite, RequestInv, TypeOK, Request
  <2>2. TypeOK'
    BY <1>0, <2>1, EndEffect DEF TypeOK, Expense
  <2>3. \A x \in Expenses : expense'[x].status = expense[x].status
    BY <1>0, <2>1 DEF TypeOK, Expense
  <2>4. RequestInv'
    BY <2>1, <2>2, <2>3, RowsOK
  <2>5. AdjustmentInv' /\ ApprovedIsInOutbox'
    BY <1>0, <2>1, <2>3 DEF AdjustmentInv, ApprovedIsInOutbox, TypeOK, Adjustment
  <2> QED
    BY <2>2, <2>4, <2>5 DEF IInv
<1>2. ASSUME RemoveWrite(w) PROVE IInv'
  <2>1. /\ e \in Expenses /\ AdjustmentsOf(e) = {} /\ End(w)
        /\ expense' = [expense EXCEPT ![e] = [status |-> "DELETED", amount |-> 0]]
        /\ UNCHANGED <<adjustment, event, posted>>
    BY <1>0, <1>2 DEF RemoveWrite, Removable, RequestInv
  <2>2. TypeOK'
    BY <1>0, <2>1, EndEffect DEF TypeOK, Expense
  <2>3. \A x \in Expenses : expense'[x].status = IF x = e THEN "DELETED" ELSE expense[x].status
    BY <1>0, <2>1 DEF TypeOK
  <2>4. RequestInv'
    BY <2>1, <2>2, <2>3, RowsOK
  <2>5. AdjustmentInv'
    BY <1>0, <2>1, <2>3 DEF AdjustmentInv, AdjustmentsOf, TypeOK, Adjustment
  <2>6. ApprovedIsInOutbox'
    BY <1>0, <2>1, <2>3 DEF ApprovedIsInOutbox, Approved
  <2> QED
    BY <2>2, <2>4, <2>5, <2>6 DEF IInv
<1>3. ASSUME ApproveWrite(w) PROVE IInv'
  <2>1. /\ e \in Expenses /\ End(w)
        /\ expense' = [expense EXCEPT ![e].status = "APPROVED"]
        /\ event' = event \cup {e}
        /\ UNCHANGED <<adjustment, posted>>
    BY <1>0, <1>3 DEF ApproveWrite, RequestInv
  <2>2. TypeOK'
    BY <1>0, <2>1, EndEffect DEF TypeOK, Expense, Approved
  <2>3. \A x \in Expenses : expense'[x].status = IF x = e THEN "APPROVED" ELSE expense[x].status
    BY <1>0, <2>1 DEF TypeOK, Expense
  <2>4. RequestInv'
    BY <2>1, <2>2, <2>3, RowsOK
  <2>5. AdjustmentInv' /\ ApprovedIsInOutbox'
    BY <1>0, <2>1, <2>3 DEF AdjustmentInv, ApprovedIsInOutbox, Approved, TypeOK, Adjustment
  <2> QED
    BY <2>2, <2>4, <2>5 DEF IInv
<1>4. ASSUME NEW j \in Adjustments, NEW d \in Deltas, AdjustWrite(w, j, d) PROVE IInv'
  <2>1. /\ e \in Expenses /\ e \in event /\ End(w)
        /\ expense' = [expense EXCEPT ![e].status = "ADJUSTED"]
        /\ adjustment' = [adjustment EXCEPT ![j] = [of |-> e, delta |-> d]]
        /\ UNCHANGED <<event, posted>>
    BY <1>0, <1>4 DEF AdjustWrite, RequestInv
  <2>2. TypeOK'
    BY <1>0, <2>1, EndEffect DEF TypeOK, Expense, Approved, Adjustment
  <2>3. \A x \in Expenses : expense'[x].status = IF x = e THEN "ADJUSTED" ELSE expense[x].status
    BY <1>0, <2>1 DEF TypeOK, Expense
  <2>4. RequestInv'
    BY <2>1, <2>2, <2>3, RowsOK
  <2>5. \A k \in Adjustments : adjustment'[k].of = IF k = j THEN e ELSE adjustment[k].of
    BY <1>0, <2>1 DEF TypeOK
  <2>6. AdjustmentInv' /\ ApprovedIsInOutbox'
    BY <1>0, <2>1, <2>3, <2>5 DEF AdjustmentInv, ApprovedIsInOutbox, Approved, TypeOK, Adjustment
  <2> QED
    BY <2>2, <2>4, <2>6 DEF IInv
<1>5. ASSUME PostWrite(w) PROVE IInv'
  <2> DEFINE amount == Net(e, tx[w].amount)
  <2>1. /\ e \in Expenses /\ e \in event /\ End(w) /\ amount \in Nat \ {0}
        /\ posted' = [posted EXCEPT ![e] = amount]
        /\ UNCHANGED <<expense, adjustment, event>>
    BY <1>0, <1>5 DEF PostWrite, RequestInv
  <2> HIDE DEF amount
  <2>2. TypeOK'
    BY <1>0, <2>1, EndEffect DEF TypeOK
  <2>3. RequestInv'
    BY <2>1, <2>2, RowsOK
  <2>4. AdjustmentInv' /\ ApprovedIsInOutbox'
    BY <1>0, <2>1 DEF AdjustmentInv, ApprovedIsInOutbox, TypeOK
  <2> QED
    BY <2>2, <2>3, <2>4 DEF IInv
<1>6. ASSUME Abort(w) PROVE IInv'
  <2>1. End(w) /\ UNCHANGED <<expense, adjustment, event, posted>>
    BY <1>6 DEF Abort, rows
  <2>2. TypeOK'
    BY <1>0, <2>1, EndEffect DEF TypeOK
  <2>3. RequestInv'
    BY <2>1, <2>2, RowsOK
  <2>4. AdjustmentInv' /\ ApprovedIsInOutbox'
    BY <1>0, <2>1 DEF AdjustmentInv, ApprovedIsInOutbox
  <2> QED
    BY <2>2, <2>3, <2>4 DEF IInv
<1> QED
  BY <1>1, <1>2, <1>3, <1>4, <1>5, <1>6

LEMMA NextOK == IInv /\ [Next]_vars => IInv'
<1> SUFFICES ASSUME IInv, [Next]_vars PROVE IInv'
  OBVIOUS
<1>1. CASE UNCHANGED vars
  BY <1>1 DEF vars, rows, IInv, TypeOK, RequestInv, AdjustmentInv, ApprovedIsInOutbox
<1>2. ASSUME NEW e \in Expenses, NEW a \in Amounts, Create(e, a) PROVE IInv'
  <2>1. /\ expense[e].status = "NONE"
        /\ expense' = [expense EXCEPT ![e] = [status |-> "DRAFT", amount |-> a]]
        /\ UNCHANGED <<adjustment, event, posted, tx>>
        /\ TypeOK
    BY <1>2 DEF Create, IInv
  <2>2. TypeOK'
    BY <2>1 DEF TypeOK, Expense
  <2>3. \A x \in Expenses : expense'[x].status = IF x = e THEN "DRAFT" ELSE expense[x].status
    BY <2>1 DEF TypeOK
  <2>4. RequestInv' /\ ApprovedIsInOutbox'
    BY <2>1, <2>3 DEF IInv, RequestInv, ApprovedIsInOutbox, Approved
  <2>5. AdjustmentInv'
    BY <2>1, <2>3 DEF IInv, AdjustmentInv, Approved, TypeOK, Adjustment
  <2> QED
    BY <2>2, <2>4, <2>5 DEF IInv
<1>3. ASSUME NEW w \in Requests, NEW e \in Expenses,
             \/ \E a \in Amounts : UpdateRead(w, e, a)
             \/ RemoveRead(w, e) \/ ApproveRead(w, e) \/ AdjustRead(w, e) \/ PostRead(w, e)
      PROVE  IInv'
  <2>1. expense[e].amount \in Amounts \cup {0}
    BY DEF IInv, TypeOK, Expense
  <2>2. expense[e].status \in Approved => e \in event
    BY DEF IInv, ApprovedIsInOutbox
  <2>3. ASSUME NEW a \in Amounts, UpdateRead(w, e, a) PROVE IInv'
    BY <2>3, ReadOK DEF UpdateRead
  <2>4. ASSUME RemoveRead(w, e) \/ ApproveRead(w, e) PROVE IInv'
    BY <2>4, ReadOK DEF RemoveRead, ApproveRead
  <2>5. ASSUME AdjustRead(w, e) \/ PostRead(w, e) PROVE IInv'
    BY <2>1, <2>2, <2>5, ReadOK DEF AdjustRead, PostRead, Approved
  <2> QED
    BY <1>3, <2>3, <2>4, <2>5
<1> QED
  BY <1>1, <1>2, <1>3, WriteOK DEF Next

-----------------------------------------------------------------------------

\* The inductive invariant holds, however the requests interleave.
THEOREM ExpensesInvariant == Spec => []IInv
  BY InitOK, NextOK, PTL DEF Spec

\* No approved expense and no entry is without its event.
THEOREM ApprovedReachesOutbox == Spec => []ApprovedIsInOutbox
<1>1. IInv => ApprovedIsInOutbox
  BY DEF IInv
<1> QED
  BY <1>1, ExpensesInvariant, PTL

\* Adjustments stay, and so does the approved expense they adjust.
THEOREM AdjustmentsAreKept == Spec => AdjustmentsStay
<1> DEFINE Kept == \A j \in Adjustments : adjustment[j].of # None =>
       /\ adjustment'[j] = adjustment[j]
       /\ expense[adjustment[j].of].status \in Approved
       /\ expense'[adjustment[j].of].status \in Approved
<1>1. ASSUME IInv, [Next]_vars PROVE [Kept]_vars
  <2> SUFFICES ASSUME NEW j \in Adjustments, adjustment[j].of # None, Next
               PROVE  /\ adjustment'[j] = adjustment[j]
                      /\ expense[adjustment[j].of].status \in Approved
                      /\ expense'[adjustment[j].of].status \in Approved
    BY <1>1
  <2> DEFINE e == adjustment[j].of
  <2>1. e \in Expenses /\ expense[e].status \in Approved /\ TypeOK
    BY <1>1 DEF IInv, AdjustmentInv, TypeOK, Adjustment
  <2>2. adjustment'[j] = adjustment[j]
    BY <2>1 DEF Next, Create, UpdateRead, UpdateWrite, RemoveRead, RemoveWrite, ApproveRead,
      ApproveWrite, AdjustRead, AdjustWrite, PostRead, PostWrite, Abort, Read, rows, TypeOK
  <2>3. (expense'[e].status # expense[e].status) =>
          expense'[e].status \in Approved
    <3>1. ASSUME NEW w \in Requests, RemoveWrite(w) PROVE expense'[e] = expense[e]
      <4>1. tx[w].of # e
        BY <3>1 DEF RemoveWrite, Removable, AdjustmentsOf
      <4> QED
        BY <2>1, <3>1, <4>1 DEF RemoveWrite, TypeOK
    <3>2. ASSUME NEW x \in Expenses, NEW a \in Amounts, Create(x, a) PROVE expense'[e] = expense[e]
      <4>1. x # e
        BY <2>1, <3>2 DEF Create, Approved
      <4> QED
        BY <2>1, <3>2, <4>1 DEF Create, TypeOK
    <3>3. ASSUME NEW w \in Requests, UpdateWrite(w) PROVE expense'[e].status = expense[e].status
      BY <2>1, <3>3 DEF UpdateWrite, TypeOK, Expense
    <3>4. ASSUME NEW w \in Requests, ApproveWrite(w) \/ \E k \in Adjustments, d \in Deltas : AdjustWrite(w, k, d)
          PROVE  expense'[e].status \in {expense[e].status} \cup Approved
      BY <2>1, <3>4 DEF ApproveWrite, AdjustWrite, TypeOK, Expense, Approved
    <3>5. ASSUME NEW w \in Requests,
                 \/ \E x \in Expenses :
                      \/ \E a \in Amounts : UpdateRead(w, x, a)
                      \/ RemoveRead(w, x) \/ ApproveRead(w, x) \/ AdjustRead(w, x) \/ PostRead(w, x)
                 \/ PostWrite(w) \/ Abort(w)
          PROVE  expense' = expense
      BY <3>5 DEF UpdateRead, RemoveRead, ApproveRead, AdjustRead, PostRead, PostWrite, Abort, Read, rows
    <3> QED
      BY <3>1, <3>2, <3>3, <3>4, <3>5 DEF Next
  <2>4. expense'[e].status \in Approved
    BY <2>1, <2>3
  <2> HIDE DEF e
  <2> QED
    BY <2>1, <2>2, <2>4 DEF e
<1> QED
  BY <1>1, ExpensesInvariant, PTL DEF Spec, AdjustmentsStay
==============================================================================
