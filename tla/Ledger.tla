-------------------------------- MODULE Ledger --------------------------------
(***************************************************************************)
(* The general ledger of one organization: fiscal periods, journal         *)
(* entries and their reversals, as the requests of users and the postings  *)
(* of the outbox write them at the same time.                              *)
(*                                                                         *)
(* Requests are READ COMMITTED transactions, cut where committed rows are  *)
(* read that are used later.  An entry is named by its entry number, which *)
(* is unique per organization; its lines are what they add up to per       *)
(* account, debit minus credit.  Journals and accounts are never removed.  *)
(*                                                                         *)
(* What an insert does to the period of its entry matters: the foreign key *)
(* locks the period FOR KEY SHARE, which lets closePeriod through but not  *)
(* the FOR UPDATE of another posting.                                      *)
(***************************************************************************)
EXTENDS Integers, FiniteSets, Functions

CONSTANTS
  Entries,   \* entry numbers
  Periods,   \* fiscal periods; their dates may overlap
  Accounts,
  Lines,     \* what users and events ask to record, balanced or not
  Sources,   \* sourceType and sourceId of what is no reversal
  Keys,      \* idempotency keys of reversals
  Requests,  \* requests and postings served at the same time
  None

ASSUME BooksAreFinite == IsFiniteSet(Entries) /\ IsFiniteSet(Accounts)
ASSUME LinesAddUp == Lines \subseteq [Accounts -> Int]
ASSUME NoneIsNothing == None \notin Entries \cup Keys \cup Periods \cup Sources

VARIABLES
  period,  \* fiscal_periods.status, "NONE" for no row
  entry,   \* journal_entries with their lines
  record,  \* idempotency records of accounting.entries.reverse: key -> reversal
  tx       \* what each request in progress remembers

rows == <<period, entry, record>>
vars == <<rows, tx>>

Nothing == [a \in Accounts |-> 0]
Source == Sources \cup {<<"REVERSAL", e>> : e \in Entries} \cup {None}
Amounts == Lines \cup {[a \in Accounts |-> -l[a]] : l \in Lines} \cup {Nothing}

EntryRow == [status : {"NONE", "DRAFT", "POSTED", "REVERSED"},
             period : Periods \cup {None},
             source : Source,
             of     : Entries \cup {None},   \* reversalOfId
             lines  : Amounts]
NoEntry == [status |-> "NONE", period |-> None, source |-> None, of |-> None, lines |-> Nothing]

\* "inserted": its entry exists as a draft that nobody else sees; "booked": the
\* draft is POSTED and the row of the period locked.
Points == {"idle", "create", "post", "insert", "inserted", "booked", "close"}
Request == [pc : Points, entry : Entries \cup {None}, row : EntryRow,
            key : Keys \cup {None}, period : Periods \cup {None}]
Idle == [pc |-> "idle", entry |-> None, row |-> NoEntry, key |-> None, period |-> None]

TypeOK ==
  /\ period \in [Periods -> {"NONE", "OPEN", "CLOSED"}]
  /\ entry \in [Entries -> EntryRow]
  /\ record \in [Keys -> Entries \cup {None}]
  /\ tx \in [Requests -> Request]

Init ==
  /\ period = [p \in Periods |-> "NONE"]
  /\ entry = [e \in Entries |-> NoEntry]
  /\ record = [k \in Keys |-> None]
  /\ tx = [w \in Requests |-> Idle]

-----------------------------------------------------------------------------
(* Entries and balances *)

\* Mutation of Swapped: the reversal repeats the entry.
Repeated(l) == l

\* The lines of a reversal: debit and credit change places.
Swapped(l) == [a \in Accounts |-> -l[a]]

Debits(l) == SumFunctionOnSet(l, {a \in Accounts : l[a] > 0})
Credits(l) == SumFunctionOnSet([a \in Accounts |-> -l[a]], {a \in Accounts : l[a] < 0})

\* Mutation of Balanced: only empty entries are refused.
NotEmpty(l) == Debits(l) + Credits(l) > 0

\* Lines that add up to nothing stand for an entry within one account: what has no
\* debit at all is refused and never in Lines.
Balanced(l) == Debits(l) = Credits(l)

Existing == {e \in Entries : entry[e].status # "NONE"}
Booked == {e \in Entries : entry[e].status \in {"POSTED", "REVERSED"}}
ReversalsOf(e) == {r \in Existing : entry[r].of = e}

\* The balance of an account in the reconciliation report: POSTED entries only.
Posted == {e \in Entries : entry[e].status = "POSTED"}
Balance(a) == SumFunctionOnSet([e \in Entries |-> entry[e].lines[a]], Posted)

-----------------------------------------------------------------------------
(* Locks and unique indexes *)

Writing(w) == {v \in Requests \ {w} : tx[v].pc \in {"inserted", "booked"}}

\* An insert waits for, or fails on, another entry with its number or its source.
Unique(w) ==
  /\ tx[w].entry \notin Existing
  /\ \A e \in Existing : entry[e].source # tx[w].row.source
  /\ \A v \in Writing(w) :
       tx[v].entry # tx[w].entry /\ tx[v].row.source # tx[w].row.source

\* The trigger of journal_entries takes the period FOR UPDATE and checks it.
PeriodReady(w, p) ==
  /\ \A v \in Writing(w) : tx[v].row.period # p
  /\ period[p] = "OPEN"

\* An insert waits for that lock: its foreign key takes the row FOR KEY SHARE.
PeriodUnlocked(p) == \A v \in Requests : tx[v].pc = "booked" => tx[v].row.period # p

\* Mutation of ReversalFree: reversals take no lock.
ReversalUnlocked(w, e) == TRUE

\* Advisory locks: one posting of a draft, one reversal of an entry, one request
\* per idempotency key at a time.
PostingFree(w, e) == \A v \in Requests \ {w} : ~(tx[v].pc = "post" /\ tx[v].entry = e)
ReversalFree(w, e) == \A v \in Requests \ {w} : tx[v].row.of # e
KeyFree(w, k) == \A v \in Requests \ {w} : tx[v].key # k

Start(w, request) ==
  /\ tx[w] = Idle
  /\ tx' = [tx EXCEPT ![w] = request]
  /\ UNCHANGED rows
Goto(w, pc) == tx' = [tx EXCEPT ![w].pc = pc] /\ UNCHANGED rows
End(w) == tx' = [tx EXCEPT ![w] = Idle]

-----------------------------------------------------------------------------
(* createEntry, by a user and by the posting of an event *)

Accepted == {l \in Lines : Balanced(l)}

CreateRead(w, pc, e, p, s, l) ==
  /\ period[p] = "OPEN"
  /\ Start(w, [Idle EXCEPT !.pc = pc, !.entry = e,
                           !.row = [status |-> "DRAFT", period |-> p, source |-> s,
                                    of |-> None, lines |-> l]])

\* A user's request commits a draft.  A draft may name the source of a reversal.
Draft(w) ==
  tx[w] = Idle /\ \E e \in Entries, p \in Periods, s \in Source \ {None}, l \in Accepted :
    CreateRead(w, "create", e, p, s, l)
DraftWrite(w) ==
  /\ tx[w].pc = "create"
  /\ Unique(w) /\ PeriodUnlocked(tx[w].row.period)
  /\ entry' = [entry EXCEPT ![tx[w].entry] = tx[w].row]
  /\ End(w)
  /\ UNCHANGED <<period, record>>

\* postBusinessEvent goes on to post it in the same transaction.
PostEvent(w) ==
  tx[w] = Idle /\ \E e \in Entries, p \in Periods, s \in Sources, l \in Accepted :
    CreateRead(w, "insert", e, p, s, l)

-----------------------------------------------------------------------------
(* postEntry *)

PostRead(w, e) ==
  /\ entry[e].status = "DRAFT"
  /\ PostingFree(w, e)
  /\ Start(w, [Idle EXCEPT !.pc = "post", !.entry = e])

PostWrite(w) ==
  LET e == tx[w].entry IN
  /\ tx[w].pc = "post"
  /\ PeriodReady(w, entry[e].period)
  /\ Balanced(entry[e].lines)
  /\ entry' = [entry EXCEPT ![e].status = "POSTED"]
  /\ End(w)
  /\ UNCHANGED <<period, record>>

-----------------------------------------------------------------------------
(* reverseEntry *)

\* The lock, the idempotency record, the original and the period.  A key that has
\* a record is answered with its reversal or refused: neither writes.
ReverseRead(w, e, r, p, k) ==
  /\ KeyFree(w, k) /\ record[k] = None
  /\ ReversalFree(w, e)
  /\ entry[e].status = "POSTED"
  /\ ReversalsOf(e) = {}
  /\ period[p] = "OPEN"
  /\ Start(w, [pc |-> "insert", entry |-> r, key |-> k, period |-> None,
               row |-> [status |-> "DRAFT", period |-> p, source |-> <<"REVERSAL", e>>,
                        of |-> e, lines |-> Swapped(entry[e].lines)]])
Reverse(w) ==
  tx[w] = Idle /\ \E e, r \in Entries, p \in Periods, k \in Keys : ReverseRead(w, e, r, p, k)

\* The entry and its lines are inserted as a draft...
Insert(w) ==
  /\ tx[w].pc = "insert"
  /\ Unique(w) /\ PeriodUnlocked(tx[w].row.period)
  /\ Goto(w, "inserted")

\* ... and posted.
Book(w) ==
  /\ tx[w].pc = "inserted"
  /\ PeriodReady(w, tx[w].row.period)
  /\ Balanced(tx[w].row.lines)
  /\ Goto(w, "booked")

\* Mutation of Commit: the original keeps its status.
CommitReversalOnly(w) ==
  /\ tx[w].pc = "booked"
  /\ entry' = [entry EXCEPT ![tx[w].entry] = [tx[w].row EXCEPT !.status = "POSTED"]]
  /\ record' = IF tx[w].key = None THEN record ELSE [record EXCEPT ![tx[w].key] = tx[w].entry]
  /\ End(w)
  /\ UNCHANGED period

\* A reversal marks its original REVERSED and completes its idempotency record.
Commit(w) ==
  LET of == tx[w].row.of IN
  /\ tx[w].pc = "booked"
  /\ of # None => entry[of].status = "POSTED"
  /\ entry' = [e \in Entries |->
       IF e = tx[w].entry THEN [tx[w].row EXCEPT !.status = "POSTED"]
       ELSE IF e = of THEN [entry[e] EXCEPT !.status = "REVERSED"]
       ELSE entry[e]]
  /\ record' = IF tx[w].key = None THEN record ELSE [record EXCEPT ![tx[w].key] = tx[w].entry]
  /\ End(w)
  /\ UNCHANGED period

-----------------------------------------------------------------------------
(* Periods *)

CreatePeriod(p) ==
  /\ period[p] = "NONE"
  /\ period' = [period EXCEPT ![p] = "OPEN"]
  /\ UNCHANGED <<entry, record, tx>>

\* closePeriod counts the drafts it can see...
CloseRead(w, p) ==
  /\ period[p] = "OPEN"
  /\ \A e \in Entries : ~(entry[e].status = "DRAFT" /\ entry[e].period = p)
  /\ Start(w, [Idle EXCEPT !.pc = "close", !.period = p])

\* Mutation of CloseWrite: it does not wait for the lock of a posting.
CloseWithoutWaiting(w) ==
  /\ tx[w].pc = "close"
  /\ period' = [period EXCEPT ![tx[w].period] = "CLOSED"]
  /\ End(w)
  /\ UNCHANGED <<entry, record>>

\* ... and closes by id, after the postings that hold the row of the period.
CloseWrite(w) ==
  /\ tx[w].pc = "close"
  /\ PeriodUnlocked(tx[w].period)
  /\ period' = [period EXCEPT ![tx[w].period] = "CLOSED"]
  /\ End(w)
  /\ UNCHANGED <<entry, record>>

-----------------------------------------------------------------------------

\* The record of a reversal is 24 hours old.
KeyExpires(k) ==
  /\ record[k] # None
  /\ record' = [record EXCEPT ![k] = None]
  /\ UNCHANGED <<period, entry, tx>>

\* An exception, the transaction timeout, a deadlock of two postings.
Abort(w) == tx[w] # Idle /\ End(w) /\ UNCHANGED rows

Next ==
  \/ \E w \in Requests :
       \/ Draft(w) \/ DraftWrite(w) \/ PostEvent(w) \/ Reverse(w)
       \/ Insert(w) \/ Book(w) \/ Commit(w)
       \/ \E e \in Entries : PostRead(w, e)
       \/ PostWrite(w)
       \/ \E p \in Periods : CloseRead(w, p)
       \/ CloseWrite(w) \/ Abort(w)
  \/ \E p \in Periods : CreatePeriod(p)
  \/ \E k \in Keys : KeyExpires(k)

Spec == Init /\ [][Next]_vars

-----------------------------------------------------------------------------
(* Properties *)

\* An entry is REVERSED exactly when one booked entry reverses it, line by line:
\* no overlap of reversals, postings and retries reverses an entry twice, leaves a
\* reversal without its original, or an original marked without a reversal.
ReversedOnce ==
  /\ \A e \in Entries : entry[e].status = "REVERSED" <=> ReversalsOf(e) # {}
  /\ \A r1, r2 \in Existing : entry[r1].of # None /\ entry[r1].of = entry[r2].of => r1 = r2
  /\ \A r \in Existing : entry[r].of # None =>
       r \in Booked /\ entry[r].lines = [a \in Accounts |-> -entry[entry[r].of].lines[a]]

\* The books of a closed period are closed: no posting, reversal or late draft that
\* began while it was open adds an entry to it, and none disappears from it.
ClosedPeriodIsFinal ==
  [][\A p \in Periods : period[p] = "CLOSED" =>
       /\ period'[p] = "CLOSED"
       /\ {e \in Booked : entry[e].period = p} = {e \in Booked' : entry'[e].period = p}]_vars

\* A key that a retry is answered with stands for a reversal that took place.
ReplayedReversalHappened ==
  \A k \in Keys : record[k] # None =>
    LET r == record[k] IN
    r \in Booked /\ entry[r].of # None /\ entry[entry[r].of].status = "REVERSED"

\* The accounts of the reconciliation report add up to zero, reversed entries and
\* reversals of reversals included.
TrialBalance == SumFunction([a \in Accounts |-> Balance(a)]) = 0

-----------------------------------------------------------------------------
(* Why they hold: the inductive invariant of FinanceProofs *)

\* Who writes an entry has its number and its source for itself.
WriterInv ==
  \A w \in Requests : tx[w].pc \in {"inserted", "booked"} => Unique(w)

\* The period of a booked entry stays open until the commit.
PeriodInv ==
  \A w \in Requests : tx[w].pc = "booked" =>
    period[tx[w].row.period] = "OPEN" /\ \A v \in Writing(w) : tx[v].row.period # tx[w].row.period

\* The original of a reversal in progress stays POSTED and unreversed, and no other
\* request reverses it.
ReversalOK(w) ==
  tx[w].row.of # None =>
    /\ tx[w].pc \in {"insert", "inserted", "booked"}
    /\ entry[tx[w].row.of].status = "POSTED"
    /\ ReversalFree(w, tx[w].row.of)
    /\ tx[w].row.source = <<"REVERSAL", tx[w].row.of>>
    /\ tx[w].row.lines = [a \in Accounts |-> -entry[tx[w].row.of].lines[a]]
ReversalInv == \A w \in Requests : ReversalOK(w)

\* What each request is about.
RequestInv ==
  \A w \in Requests :
    /\ tx[w].pc \in {"create", "insert", "inserted", "booked"} =>
         tx[w].entry \in Entries /\ tx[w].row.status = "DRAFT" /\ tx[w].row.period \in Periods
    /\ tx[w].pc = "create" => tx[w].row.of = None
    /\ tx[w].key # None => tx[w].row.of # None
    /\ tx[w].pc = "post" =>
         /\ tx[w].entry \in Entries /\ entry[tx[w].entry].status = "DRAFT"
         /\ PostingFree(w, tx[w].entry)
    /\ tx[w].pc = "close" => tx[w].period \in Periods

EntriesInv ==
  /\ TypeOK
  /\ WriterInv
  /\ PeriodInv
  /\ ReversalInv
  /\ RequestInv
  /\ ReversedOnce
  /\ ReplayedReversalHappened

\* Whatever is booked, or about to be committed as booked, balances.
BalancedInv ==
  /\ \A e \in Booked : Balanced(entry[e].lines)
  /\ \A w \in Requests : tx[w].pc = "booked" => Balanced(tx[w].row.lines)

IInv == EntriesInv /\ BalancedInv
==============================================================================
