------------------------------- MODULE Expenses -------------------------------
(***************************************************************************)
(* Expenses from draft to approval, their adjustments, and what the        *)
(* outbox posts of them.                                                   *)
(*                                                                         *)
(* Every handler reads the expense, decides on its status and writes by    *)
(* id, without a lock or a condition on the status it has read.  The trip  *)
(* and the bus an expense names are left out: that they do not match is    *)
(* one more reason to refuse a request.                                    *)
(***************************************************************************)
EXTENDS Integers, FiniteSetsExt

CONSTANTS
  Expenses,     \* ids of expenses, used once
  Adjustments,  \* ids of adjustments
  Amounts,      \* positive, by validation of the requests
  Requests,     \* requests and postings served at the same time
  None

ASSUME AmountsArePositive == Amounts \subseteq Nat \ {0}
ASSUME NoneIsNothing == None \notin Expenses

VARIABLES
  expense,     \* expenses: status ("NONE" not yet, "DELETED" no more) and amount
  adjustment,  \* expense_adjustments: the expense and INCREASE or minus DECREASE
  event,       \* expenses with an EXPENSE_APPROVED event in the outbox
  posted,      \* what the entry of an expense came to, 0 for no entry
  tx           \* what each request in progress remembers

rows == <<expense, adjustment, event, posted>>
vars == <<rows, tx>>

Deltas == Amounts \cup {-a : a \in Amounts}
Approved == {"APPROVED", "ADJUSTED"}
Expense == [status : {"NONE", "DRAFT", "DELETED"} \cup Approved, amount : Amounts \cup {0}]
Adjustment == [of : Expenses \cup {None}, delta : Deltas \cup {0}]

Request == [pc : {"idle", "update", "remove", "approve", "adjust", "post"},
            of : Expenses \cup {None}, amount : Amounts \cup {0}]
Idle == [pc |-> "idle", of |-> None, amount |-> 0]

TypeOK ==
  /\ expense \in [Expenses -> Expense]
  /\ adjustment \in [Adjustments -> Adjustment]
  /\ event \subseteq Expenses
  /\ posted \in [Expenses -> Nat]
  /\ tx \in [Requests -> Request]

Init ==
  /\ expense = [e \in Expenses |-> [status |-> "NONE", amount |-> 0]]
  /\ adjustment = [j \in Adjustments |-> [of |-> None, delta |-> 0]]
  /\ event = {}
  /\ posted = [e \in Expenses |-> 0]
  /\ tx = [w \in Requests |-> Idle]

AdjustmentsOf(e) == {j \in Adjustments : adjustment[j].of = e}
Net(e, amount) == amount + MapThenSumSet(LAMBDA j : adjustment[j].delta, AdjustmentsOf(e))
Exists(e) == expense[e].status \in {"DRAFT"} \cup Approved

\* A request reads an expense, and is refused or goes on.
Read(w, pc, e, amount) ==
  /\ tx[w] = Idle
  /\ tx' = [tx EXCEPT ![w] = [pc |-> pc, of |-> e, amount |-> amount]]
  /\ UNCHANGED rows
End(w) == tx' = [tx EXCEPT ![w] = Idle]

-----------------------------------------------------------------------------
(* create, update, remove *)

Create(e, amount) ==
  /\ expense[e].status = "NONE"
  /\ expense' = [expense EXCEPT ![e] = [status |-> "DRAFT", amount |-> amount]]
  /\ UNCHANGED <<adjustment, event, posted, tx>>

UpdateRead(w, e, amount) == expense[e].status = "DRAFT" /\ Read(w, "update", e, amount)
UpdateWrite(w) ==
  /\ tx[w].pc = "update"
  /\ Exists(tx[w].of)
  /\ expense' = [expense EXCEPT ![tx[w].of].amount = tx[w].amount]
  /\ End(w)
  /\ UNCHANGED <<adjustment, event, posted>>

\* Mutation of Removable: no foreign key is in the way.
Unguarded(e) == Exists(e)

\* The foreign key of the adjustments RESTRICTs the DELETE.
Removable(e) == Exists(e) /\ AdjustmentsOf(e) = {}

RemoveRead(w, e) == expense[e].status = "DRAFT" /\ Read(w, "remove", e, 0)
RemoveWrite(w) ==
  LET e == tx[w].of IN
  /\ tx[w].pc = "remove"
  /\ Removable(e)
  /\ expense' = [expense EXCEPT ![e] = [status |-> "DELETED", amount |-> 0]]
  /\ End(w)
  /\ UNCHANGED <<adjustment, event, posted>>

-----------------------------------------------------------------------------
(* approve, adjust *)

ApproveRead(w, e) == expense[e].status = "DRAFT" /\ Read(w, "approve", e, 0)

\* Mutation of ApproveWrite: the event is left to a later step.
ApproveQuietly(w) ==
  /\ tx[w].pc = "approve"
  /\ Exists(tx[w].of)
  /\ expense' = [expense EXCEPT ![tx[w].of].status = "APPROVED"]
  /\ End(w)
  /\ UNCHANGED <<adjustment, event, posted>>

\* The status and the event, which a second approval finds and leaves alone.
ApproveWrite(w) ==
  /\ tx[w].pc = "approve"
  /\ Exists(tx[w].of)
  /\ expense' = [expense EXCEPT ![tx[w].of].status = "APPROVED"]
  /\ event' = event \cup {tx[w].of}
  /\ End(w)
  /\ UNCHANGED <<adjustment, posted>>

\* Mutation of AdjustRead: drafts are adjusted too.
AdjustAnyRead(w, e) == Exists(e) /\ Read(w, "adjust", e, 0)

AdjustRead(w, e) == expense[e].status \in Approved /\ Read(w, "adjust", e, 0)
AdjustWrite(w, j, delta) ==
  /\ tx[w].pc = "adjust"
  /\ Exists(tx[w].of)
  /\ adjustment[j].of = None
  /\ adjustment' = [adjustment EXCEPT ![j] = [of |-> tx[w].of, delta |-> delta]]
  /\ expense' = [expense EXCEPT ![tx[w].of].status = "ADJUSTED"]
  /\ End(w)
  /\ UNCHANGED <<event, posted>>

-----------------------------------------------------------------------------
(* The posting of an event: resolveEventAmount reads the expense, then its
   adjustments; one posting of a source at a time, which creates one entry. *)

PostRead(w, e) ==
  /\ e \in event /\ posted[e] = 0
  /\ \A v \in Requests : ~(tx[v].pc = "post" /\ tx[v].of = e)
  /\ expense[e].status \in Approved
  /\ Read(w, "post", e, expense[e].amount)

\* createEntry refuses an entry that does not come to a positive amount.
PostWrite(w) ==
  LET amount == Net(tx[w].of, tx[w].amount) IN
  /\ tx[w].pc = "post"
  /\ amount \in Nat \ {0}
  /\ posted' = [posted EXCEPT ![tx[w].of] = amount]
  /\ End(w)
  /\ UNCHANGED <<expense, adjustment, event>>

-----------------------------------------------------------------------------

Abort(w) == tx[w] # Idle /\ End(w) /\ UNCHANGED rows

Next ==
  \/ \E e \in Expenses, a \in Amounts : Create(e, a)
  \/ \E w \in Requests :
       \/ \E e \in Expenses :
            \/ \E a \in Amounts : UpdateRead(w, e, a)
            \/ RemoveRead(w, e) \/ ApproveRead(w, e) \/ AdjustRead(w, e) \/ PostRead(w, e)
       \/ UpdateWrite(w) \/ RemoveWrite(w) \/ ApproveWrite(w)
       \/ \E j \in Adjustments, d \in Deltas : AdjustWrite(w, j, d)
       \/ PostWrite(w) \/ Abort(w)

Spec == Init /\ [][Next]_vars

-----------------------------------------------------------------------------
(* Properties *)

\* What is approved is in the outbox: no interleaving of approvals, updates and
\* adjustments leaves an approved expense, or an entry, without its event.
ApprovedIsInOutbox ==
  \A e \in Expenses :
    /\ expense[e].status \in Approved => e \in event
    /\ posted[e] # 0 => e \in event /\ posted[e] > 0

\* Adjustments are immutable and keep their approved expense: a removal that had read
\* the draft does not take them away.
AdjustmentsStay ==
  [][\A j \in Adjustments : adjustment[j].of # None =>
       /\ adjustment'[j] = adjustment[j]
       /\ expense[adjustment[j].of].status \in Approved
       /\ expense'[adjustment[j].of].status \in Approved]_vars

-----------------------------------------------------------------------------
(* Why they hold: the inductive invariant of ExpensesProofs *)

\* What a request has read: an expense that had been created, and approved if it is
\* adjusted or posted.
RequestInv ==
  \A w \in Requests :
    /\ tx[w].pc # "idle" => tx[w].of \in Expenses /\ expense[tx[w].of].status # "NONE"
    /\ tx[w].pc \in {"adjust", "post"} => tx[w].of \in event /\ expense[tx[w].of].status # "DRAFT"

AdjustmentInv ==
  \A j \in Adjustments : adjustment[j].of # None => expense[adjustment[j].of].status \in Approved

IInv ==
  /\ TypeOK
  /\ RequestInv
  /\ AdjustmentInv
  /\ ApprovedIsInOutbox
==============================================================================
