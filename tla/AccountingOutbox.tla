--------------------------- MODULE AccountingOutbox ---------------------------
(***************************************************************************)
(* The accounting outbox of one organization: events that sales, expenses  *)
(* and settlements enqueue, and their posting to the ledger by background  *)
(* workers and by users, who run the same code at the same time.           *)
(*                                                                         *)
(* A posting is one READ COMMITTED transaction of several steps.  It holds *)
(* the advisory lock of its idempotency key, then the slot of its source   *)
(* in the unique index of journal_entries, then the row of the fiscal      *)
(* period, and it writes the row of the event last.  A worker claims the   *)
(* event in a transaction of its own and records a failure in a third one; *)
(* processNextEvent claims, posts and records the failure in the single    *)
(* transaction of its request, whose claim locks the row until the end.    *)
(* Whoever waits in a cycle is aborted by PostgreSQL, and the 30 s timeout *)
(* aborts any transaction (Abort).                                         *)
(*                                                                         *)
(* One fiscal period covers all events; entry numbers that users choose    *)
(* are fresh, and so are their idempotency keys: a replay writes nothing.  *)
(***************************************************************************)
EXTENDS Naturals, FiniteSets

CONSTANTS
  Events,      \* accounting_events, numbered in the order of createdAt
  Workers,     \* backend processes that run the AccountingEventWorker
  Requests,    \* requests of users that are served at the same time
  MaxAttempts, \* attempts after which an event is not claimed (5 in the code)
  NoAmount,    \* events whose source has no positive amount
  Requeuable,  \* events that users put back after a failure
  None

ASSUME EventsAreNumbered == Events \subseteq Nat
ASSUME AttemptsArePositive == MaxAttempts \in Nat \ {0}
ASSUME ProcessesDiffer == Workers \cap Requests = {}
ASSUME NoneIsNoEvent == None \notin Events

VARIABLES
  event,   \* accounting_events: status, attempts, due, lease
  entry,   \* number of journal entries posted for the source of each event
  record,  \* idempotency record of the key accounting-event-<id>
  policy,  \* an accounting policy is configured
  period,  \* status of the fiscal period
  tx       \* what each worker and request is doing

rows == <<event, entry, record, policy, period>>
vars == <<rows, tx>>

Procs == Workers \cup Requests

EventRow == [status   : {"NONE", "PENDING", "POSTED", "FAILED"},
             attempts : 0 .. MaxAttempts,
             due      : BOOLEAN,                      \* availableAt has passed
             lease    : {"none", "live", "expired"}]  \* age of lockedAt

\* "worker": runOnce; "next": processNextEvent; "process": processEvent by id;
\* "post": postBusinessEvent by a user.
Kinds == {"worker", "next", "process", "post"}
\* Holding the advisory lock; holding the slot of the source.
KeyPoints == {"begun", "inserted", "posted"}
SlotPoints == {"inserted", "posted"}
Points == {"claimed", "checked", "failed"} \cup KeyPoints

Idle == [kind |-> "idle", pc |-> "idle", event |-> None]
Busy == [kind : Kinds, pc : Points, event : Events]

TypeOK ==
  /\ event \in [Events -> EventRow]
  /\ entry \in [Events -> Nat]
  /\ record \in [Events -> {"NONE", "STARTED", "COMPLETED"}]
  /\ policy \in BOOLEAN
  /\ period \in {"OPEN", "CLOSED"}
  /\ tx \in [Procs -> Busy \cup {Idle}]

Init ==
  /\ event = [e \in Events |->
       [status |-> "NONE", attempts |-> 0, due |-> TRUE, lease |-> "none"]]
  /\ entry = [e \in Events |-> 0]
  /\ record = [e \in Events |-> "NONE"]
  /\ policy \in BOOLEAN
  /\ period = "OPEN"
  /\ tx = [p \in Procs |-> Idle]

-----------------------------------------------------------------------------
(* Locks and rows *)

\* The row of an event is locked from processNextEvent's claim to its commit.
RowLocked(e) == \E p \in Procs : tx[p].kind = "next" /\ tx[p].event = e
RowFree(p, e) == \A q \in Procs \ {p} : ~(tx[q].kind = "next" /\ tx[q].event = e)

\* The key of an event is the same for all but users' own postings.
Keyed(p) == tx[p].kind # "post"
KeyFree(p) ==
  \A q \in Procs \ {p} :
    ~(Keyed(q) /\ tx[q].event = tx[p].event /\ tx[q].pc \in KeyPoints)

\* An insert waits for the uncommitted entry of another transaction.
SlotFree(p) ==
  \A q \in Procs \ {p} : ~(tx[q].event = tx[p].event /\ tx[q].pc \in SlotPoints)

\* Mutation of PeriodLocked: a trigger that reads the period without FOR UPDATE.
PeriodReadOnly == FALSE

\* The trigger of journal_entries locks the period FOR UPDATE.
PeriodLocked == \E p \in Procs : tx[p].pc = "posted"

\* The foreign key of an inserted entry, which waits for that lock, holds the
\* period FOR KEY SHARE: the period can be closed, but another posting's trigger
\* waits.  Two postings that have both inserted wait for each other.
PeriodShared(p) == \E q \in Procs \ {p} : tx[q].pc \in SlotPoints

\* Mutation of Claimable: a lease that never ends.
ClaimableUnlocked(e) ==
  /\ event[e].status \in {"PENDING", "FAILED"}
  /\ event[e].attempts < MaxAttempts
  /\ event[e].due
  /\ event[e].lease = "none"

\* What a claim looks for: not locked, or locked longer than five minutes ago.
Claimable(e) ==
  /\ event[e].status \in {"PENDING", "FAILED"}
  /\ event[e].attempts < MaxAttempts
  /\ event[e].due
  /\ event[e].lease # "live"

\* SKIP LOCKED, ORDER BY createdAt.
NextClaim(e) ==
  LET candidates == {f \in Events : Claimable(f) /\ ~RowLocked(f)}
  IN e \in candidates /\ \A f \in candidates : e <= f

Claimed(row) ==
  [row EXCEPT !.status = "PENDING", !.attempts = @ + 1, !.lease = "live"]
Failed(row) == [row EXCEPT !.status = "FAILED", !.due = FALSE, !.lease = "none"]
Posted(row) == [row EXCEPT !.status = "POSTED", !.lease = "none"]
Requeued(row) ==
  [row EXCEPT !.status = "PENDING", !.attempts = 0, !.due = TRUE, !.lease = "none"]

\* The row as p's transaction sees it.
OwnRow(p) ==
  IF tx[p].kind = "next" THEN Claimed(event[tx[p].event]) ELSE event[tx[p].event]

Start(p, kind, pc, e) == tx' = [tx EXCEPT ![p] = [kind |-> kind, pc |-> pc, event |-> e]]
Goto(p, pc) == tx' = [tx EXCEPT ![p].pc = pc] /\ UNCHANGED rows
End(p) == tx' = [tx EXCEPT ![p] = Idle]
SetRow(e, row) == event' = [event EXCEPT ![e] = row]

-----------------------------------------------------------------------------
(* How a posting begins *)

\* enqueueAccountingEvent, with the commit of the sale, expense or settlement.
Enqueue(e) ==
  /\ event[e].status = "NONE"
  /\ SetRow(e, [event[e] EXCEPT !.status = "PENDING"])
  /\ UNCHANGED <<entry, record, policy, period, tx>>

\* claim_accounting_event: a transaction of its own.
Claim(w) ==
  /\ tx[w] = Idle
  /\ \E e \in Events :
       /\ NextClaim(e)
       /\ SetRow(e, Claimed(event[e]))
       /\ Start(w, "worker", "claimed", e)
  /\ UNCHANGED <<entry, record, policy, period>>

\* processNextEvent: the claimed row is not visible before the request commits.
ClaimNext(r) ==
  /\ tx[r] = Idle
  /\ \E e \in Events : NextClaim(e) /\ Start(r, "next", "claimed", e)
  /\ UNCHANGED rows

\* POST events/:id/process, and POST events/post with a key of the user's.
Ask(r) ==
  /\ tx[r] = Idle
  /\ \E e \in {f \in Events : event[f].status # "NONE"} :
       Start(r, "process", "claimed", e) \/ Start(r, "post", "checked", e)
  /\ UNCHANGED rows

-----------------------------------------------------------------------------
(* The posting: processEvent, postBusinessEvent, createEntry, postEntry *)

AlreadyPosted(e) == event[e].status = "POSTED" /\ entry[e] > 0

\* processEvent's own reads; "next" sees the status PENDING of its claim.
ReadEvent(p) ==
  /\ tx[p].pc = "claimed"
  /\ Keyed(p) /\ (tx[p].kind = "next" \/ ~AlreadyPosted(tx[p].event))
  /\ period = "OPEN"
  /\ Goto(p, "checked")

\* beginIdempotentOperation found no record in the committed data.
NewKey(p) == ~Keyed(p) \/ (KeyFree(p) /\ record[tx[p].event] = "NONE")
HasPolicyAndAmount(p) == policy /\ tx[p].event \notin NoAmount

BeginPosting(p) ==
  /\ tx[p].pc = "checked"
  /\ NewKey(p)
  /\ HasPolicyAndAmount(p)
  /\ Goto(p, "begun")

\* Mutation of InsertEntry: no unique index on the source.
InsertAnyEntry(p) ==
  /\ tx[p].pc = "begun"
  /\ period = "OPEN"
  /\ Goto(p, "inserted")

\* createEntry: at most one entry per source.
InsertEntry(p) ==
  /\ tx[p].pc = "begun"
  /\ period = "OPEN"
  /\ SlotFree(p) /\ ~PeriodLocked
  /\ entry[tx[p].event] = 0
  /\ Goto(p, "inserted")

\* postEntry: the trigger checks the period again, under the lock of its row.
PostEntry(p) ==
  /\ tx[p].pc = "inserted"
  /\ ~PeriodShared(p)
  /\ period = "OPEN"
  /\ Goto(p, "posted")

\* completeIdempotentOperation, the update of the event, COMMIT.
CommitPosting(p) ==
  LET e == tx[p].event IN
  /\ tx[p].pc = "posted"
  /\ RowFree(p, e)
  /\ entry' = [entry EXCEPT ![e] = @ + 1]
  /\ record' = IF Keyed(p) THEN [record EXCEPT ![e] = "COMPLETED"] ELSE record
  /\ SetRow(e, Posted(OwnRow(p)))
  /\ End(p)
  /\ UNCHANGED <<policy, period>>

\* The event is posted already, or the key replays a completed record: success
\* without another write.  processNextEvent commits its claim.
Answer(p) ==
  /\ \/ /\ tx[p].pc = "claimed"
        /\ tx[p].kind \in {"worker", "process"}
        /\ AlreadyPosted(tx[p].event)
     \/ /\ tx[p].pc = "checked"
        /\ Keyed(p) /\ KeyFree(p) /\ record[tx[p].event] = "COMPLETED"
  /\ SetRow(tx[p].event, OwnRow(p))
  /\ End(p)
  /\ UNCHANGED <<entry, record, policy, period>>

-----------------------------------------------------------------------------
(* Failures *)

\* An exception of the application: no open period, a record without a result,
\* no policy, no amount.  The transaction could still commit.
Rejected(p) ==
  \/ tx[p].pc = "claimed" /\ period = "CLOSED"
       /\ (tx[p].kind = "next" \/ ~AlreadyPosted(tx[p].event))
  \/ tx[p].pc = "checked" /\ Keyed(p) /\ KeyFree(p) /\ record[tx[p].event] = "STARTED"
  \/ tx[p].pc = "checked" /\ NewKey(p) /\ ~HasPolicyAndAmount(p)
  \/ tx[p].pc = "begun" /\ period = "CLOSED"

\* Its transaction has inserted the record of the key by then.
WroteRecord(p) == tx[p].pc = "begun" \/ (tx[p].pc = "checked" /\ NewKey(p))

\* Mutation of RejectNext: the record is completed before the entry is posted.
RejectCompleted(p) ==
  LET e == tx[p].event IN
  /\ tx[p].kind = "next"
  /\ Rejected(p)
  /\ SetRow(e, Failed(OwnRow(p)))
  /\ record' = IF WroteRecord(p) THEN [record EXCEPT ![e] = "COMPLETED"] ELSE record
  /\ End(p)
  /\ UNCHANGED <<entry, policy, period>>

\* processNextEvent catches it and commits, the new record included.
RejectNext(p) ==
  LET e == tx[p].event IN
  /\ tx[p].kind = "next"
  /\ Rejected(p)
  /\ SetRow(e, Failed(OwnRow(p)))
  /\ record' = IF WroteRecord(p) THEN [record EXCEPT ![e] = "STARTED"] ELSE record
  /\ End(p)
  /\ UNCHANGED <<entry, policy, period>>

\* Otherwise the transaction is rolled back; the worker then records the failure.
RollBack(p) ==
  /\ IF tx[p].kind = "worker" THEN Start(p, "worker", "failed", tx[p].event) ELSE End(p)
  /\ UNCHANGED rows

Reject(p) == tx[p].kind # "next" /\ Rejected(p) /\ RollBack(p)

\* A unique violation, the trigger's exception, the timeout, a deadlock, a lost
\* connection: what processNextEvent's catch writes then fails as well.
Abort(p) == tx[p] # Idle /\ tx[p].pc # "failed" /\ RollBack(p)

\* markEventFailed: by id, whatever happened to the event since.
MarkFailed(w) ==
  /\ tx[w].pc = "failed"
  /\ RowFree(w, tx[w].event)
  /\ SetRow(tx[w].event, Failed(event[tx[w].event]))
  /\ End(w)
  /\ UNCHANGED <<entry, record, policy, period>>

\* The process dies, or markEventFailed itself throws out of runOnce.
Crash(w) == tx[w] # Idle /\ End(w) /\ UNCHANGED rows

-----------------------------------------------------------------------------
(* Users and the clock *)

RequeueEvent(e) ==
  /\ e \in Requeuable
  /\ event[e].status = "FAILED"
  /\ ~RowLocked(e)
  /\ SetRow(e, Requeued(event[e]))
  /\ UNCHANGED <<entry, record, policy, period, tx>>

ConfigurePolicy ==
  /\ ~policy
  /\ policy' = TRUE
  /\ UNCHANGED <<event, entry, record, period, tx>>

\* closePeriod; the drafts of postings in progress are not visible to its count.
ClosePeriod ==
  /\ period = "OPEN"
  /\ ~PeriodLocked
  /\ period' = "CLOSED"
  /\ UNCHANGED <<event, entry, record, policy, tx>>

LeaseExpires(e) ==
  /\ event[e].lease = "live"
  /\ SetRow(e, [event[e] EXCEPT !.lease = "expired"])
  /\ UNCHANGED <<entry, record, policy, period, tx>>

BackoffEnds(e) ==
  /\ ~event[e].due
  /\ SetRow(e, [event[e] EXCEPT !.due = TRUE])
  /\ UNCHANGED <<entry, record, policy, period, tx>>

\* A record lives for 24 hours; an expired one is deleted by the next begin.
KeyExpires(e) ==
  /\ record[e] # "NONE"
  /\ record' = [record EXCEPT ![e] = "NONE"]
  /\ UNCHANGED <<event, entry, policy, period, tx>>

-----------------------------------------------------------------------------
Proceed(p) ==
  \/ ReadEvent(p) \/ BeginPosting(p) \/ InsertEntry(p) \/ PostEntry(p)
  \/ CommitPosting(p) \/ Answer(p) \/ RejectNext(p) \/ Reject(p)
Clock == \E e \in Events : LeaseExpires(e) \/ BackoffEnds(e) \/ KeyExpires(e)

Next ==
  \/ \E e \in Events : Enqueue(e) \/ RequeueEvent(e)
  \/ \E w \in Workers : Claim(w) \/ MarkFailed(w) \/ Crash(w)
  \/ \E r \in Requests : ClaimNext(r) \/ Ask(r)
  \/ \E p \in Procs : Proceed(p) \/ Abort(p)
  \/ ConfigurePolicy
  \/ ClosePeriod
  \/ Clock

Spec == Init /\ [][Next]_vars

\* The worker polls every 5 s, the clock runs, a transaction ends within 30 s.
\* Both may find the row of the event locked again and again by processNextEvent.
\* A claim skips locked rows: it gets through because users leave gaps between their
\* requests.  An update waits for the lock, which is granted in order.
FairSpec ==
  /\ Spec
  /\ \A w \in Workers : SF_vars(Claim(w)) /\ SF_vars(MarkFailed(w))
  /\ \A p \in Procs : WF_vars(Proceed(p) \/ Abort(p))
  /\ \A e \in Events : WF_vars(LeaseExpires(e)) /\ WF_vars(BackoffEnds(e))

-----------------------------------------------------------------------------
(* Properties *)

\* The source of an event is posted to the ledger at most once, whoever posts it
\* and with whatever keys: worker, users and their retries, after any crash.
PostedOnce == \A e \in Events : entry[e] <= 1

\* What the outbox and the idempotency records report as done is in the ledger:
\* a POSTED event is never processed again, and a COMPLETED record is answered
\* with its entry.
Reported == {e \in Events : event[e].status = "POSTED" \/ record[e] = "COMPLETED"}
ReportedIsPosted == \A e \in Reported : entry[e] = 1

\* A posting that began while the period was open does not reach it once it is
\* closed: the entries of a closed period are final.
ClosedPeriodIsFinal == [][period = "CLOSED" => entry' = entry]_vars

\* Each step of workers, users and the clock is one step of Bookkeeping or none:
\* only what was enqueued and has an amount is booked, once, in the open period, in
\* the same step as it is reported, and neither entry nor event is ever taken back.
Enqueued == {e \in Events : event[e].status # "NONE"}
Books == INSTANCE Bookkeeping WITH
  Sources <- Events, Payable <- Events \ NoAmount,
  owed <- Enqueued, entries <- entry, reported <- Reported, open <- period = "OPEN"
ImplementsBooks == Books!Spec

\* Once users stop requeueing, an event is posted, or tried as often as the
\* retries allow: no failure, crash, lost lease, row lock or deadlock with another
\* posting keeps it from being tried again.
TriedToTheEnd ==
  <>[][\A e \in Events : ~RequeueEvent(e)]_vars =>
    \A e \in Events :
      event[e].status # "NONE" ~> (entry[e] > 0 \/ event[e].attempts = MaxAttempts)

\* Why they hold: a request that has claimed an event keeps its row as it was.
ClaimedRowInv ==
  \A p \in Procs : tx[p].kind = "next" =>
    /\ event[tx[p].event].status \in {"PENDING", "FAILED"}
    /\ event[tx[p].event].attempts < MaxAttempts
    /\ RowFree(p, tx[p].event)

\* An uncommitted entry is the only one of its source.
SlotInv ==
  \A p \in Procs : tx[p].pc \in SlotPoints => entry[tx[p].event] = 0 /\ SlotFree(p)

\* What is being posted was enqueued, and by the time of its key it has an amount.
DutyInv ==
  \A p \in Procs : tx[p] # Idle =>
    /\ tx[p].event \in Enqueued
    /\ tx[p].pc \in KeyPoints => tx[p].event \notin NoAmount

\* The period stays open under the lock of its row.
PeriodInv == PeriodLocked => period = "OPEN"

IInv ==
  /\ TypeOK
  /\ ClaimedRowInv
  /\ SlotInv
  /\ DutyInv
  /\ PeriodInv
  /\ PostedOnce
  /\ ReportedIsPosted

==============================================================================
