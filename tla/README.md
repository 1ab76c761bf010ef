# A verification of Ticketty

Ticketty sells bus seats for transport companies: a NestJS backend over
PostgreSQL, a Next.js web client, and an accounting worker fed by an outbox.
This directory holds TLA+ models of the program, the TLC configurations that
check small instances of them, and proofs that TLAPS checks for every value of
the constants.

    tlc -workers 2 -config Sales.cfg MCTripSales     # and the other .cfg files
    tlapm TripSalesProofs.tla                        # and the other *Proofs.tla

## Inventory

Paths are under `backend/src/` unless they say otherwise.

| Component | State | Operations | Interacts through | Module |
|---|---|---|---|---|
| Seat holds and bookings (`bookings/bookings.service.ts`) | `trip_seats`, `bookings`, `tickets`, `payments`, `refunds`, `commissions` | `hold`, `release`, `createBooking`, `cancel` | trip lock, seat row locks, outbox rows, idempotency keys | `TripSales` |
| Trips (`trips/trips.service.ts`) | `trips`, `trip_seats` | `create`, `seats` (repairs and sweeps), `update`, `cancel`, `remove` | trip lock in `cancel` only | `TripSales`, `Catalogue` |
| Tickets (`bookings/tickets.service.ts`) | `tickets.status` | `checkIn` | reads what cancellations write | `TripSales` |
| Manifests (`manifests/manifests.service.ts`) | `manifests`, `trips.status` | `generate`, `lock` | trip lock in `lock` only | `TripSales` |
| Requests and locks (`prisma/prisma.service.ts`, `common/interceptors/tenant-rls.interceptor.ts`, `common/transaction-locks.ts`) | advisory and row locks | begin, commit, roll back, 30 s timeout | every handler | all |
| Idempotency (`common/idempotency.ts`) | `idempotency_records` | begin, replay, expire, complete | cancellations, postings, reversals | `TripSales`, `AccountingOutbox`, `Ledger` |
| Accounting outbox (`accounting/accounting-events.ts`, `accounting-event.worker.ts`, `accounting.service.ts`) | `accounting_events` | enqueue, claim, process, fail, requeue | sales, expenses and settlements enqueue; the worker and users process | `AccountingOutbox` |
| Ledger (`accounting/accounting.service.ts`) | entries, lines, fiscal periods | `createEntry`, `postEntry`, `reverseEntry`, `closePeriod`, `reconciliation` | postings of the outbox | `Ledger` |
| Settlements, agents (`settlements/settlements.service.ts`, `agents/agents.service.ts`) | settlements, lines, agents | `generate`, `settle`; CRUD of agents | commissions that sales earn and cancellations reverse; outbox | `Settlements` |
| Expenses (`expenses/expenses.service.ts`) | expenses, adjustments | `create`, `update`, `remove`, `approve`, `adjust` | outbox | `Expenses` |
| Fleet, drivers, routes (`fleet/`, `drivers/`, `routes/`) | templates, buses, drivers, routes | CRUD | foreign keys of trips | `Catalogue` |
| Login, administration, guards (`auth/`, `administration/`, `common/guards/`) | users, roles, audit log | `login`, `createRole`, `createUser`, `updateUser` | the guard of every request | `Access` |
| Web client (`web/src/`) | forms, their keys, calls in flight | the booking page; polling of the seat map every 15 s | HTTP through a proxy with a timeout | `BookingDesk` |
| Reports (`reports/reports.service.ts`) | none | `dashboard`, `sales`, `financial`, `occupancy` | read what the others write | `Reports` |
| Payment listings, customers, health, configuration, HTTP filters | single rows | reads, CRUD, I/O | - | - |
| Schema v1 (`docs/database-domain-v1`, `prisma/v1`) | a candidate design | not run | - | - |

What is hard, and what makes each part correct:

* **Sales.** Every request is one READ COMMITTED transaction, so two requests
  interleave between any two of their statements. Booking, both cancellations
  and the departure take the advisory lock of the trip; holds, the seat map,
  PATCH, `generate` and check-in do not. A seat must be sold once, a live hold
  must be respected, a cancelled or departed trip must not sell, and money,
  tickets, commissions and outbox events must follow the booking through
  retries, rollbacks and rounding.
* **Trips.** `cancel` ends all bookings while single cancellations run; `update`
  writes a status over any other. The seat map is the only cleaner of expired
  holds, so it must get through.
* **Check-in and manifests.** Check, then act by id: a late write must not undo
  a cancellation or a lock.
* **Outbox and ledger.** At-least-once processing with leases, five attempts and
  several workers: every event posted once, none lost, entries balanced and
  reversed once, closed periods closed.
* **Settlements and expenses.** Amounts computed at one time and paid at
  another; handlers that write by id what they have read.
* **Catalogue.** Rows that trips refer to are deleted and changed between the
  reads of a trip creation and its write; the seat map repairs trips from the
  template their bus has now.
* **Access.** Wrong passwords are counted in a transaction of their own; grants
  are checked against permissions that other requests change.
* **Booking page.** A call that was given up on may still be executed; the key
  of the form is all that ties a retry to it, and `createBooking` answers a
  known key whatever is asked.
* **Reports.** Several queries at different moments, and days that end meanwhile.

`PROJECT.json` lists the hazards one by one at the lines where they bite.

## Modules

| Module | What it is |
|---|---|
| `TripSales` | one trip with its seats, bookings, tickets, money, manifest and the requests in progress |
| `SeatInventory` | what sales promise about seats, with no requests, locks or money; `TripSales` implements it |
| `AccountingOutbox` | the events of one organization and their posting, by workers and users |
| `Bookkeeping` | what accounting promises about the sources of its books, with no events, attempts, leases, keys or locks; `AccountingOutbox` implements it |
| `Ledger` | entries, reversals and fiscal periods of one organization |
| `Settlements` | agents, commissions and what settles them |
| `Expenses` | expenses, adjustments and their postings |
| `Catalogue` | templates, buses, drivers, routes and the trips made of them |
| `Access` | users, roles, sessions and the audit log of several organizations |
| `BookingDesk` | the booking page of several clerks, the network and the seats of one trip |
| `Reports` | a report computed while rows change |
| `MC<Module>` | the instance TLC checks: symmetry, bounds, and for `TripSales` the specification `SalesSpec` of the customers' operations alone |
| `TripSalesProofs`, `AccountingOutboxProofs`, `SettlementsProofs`, `ExpensesProofs`, `CatalogueProofs` | theorems about the module of that name and their proofs |
| `FinanceProofs` | those about `Ledger` and `Reports` |
| `ClerkProofs` | those about `Access` and `BookingDesk` |
| `Sums` | facts about sums over finite sets, for the proofs about money |

The modules meet at rows. What `TripSales` writes to `outbox` is what
`AccountingOutbox` enqueues; the commissions it gives and reverses are
`BookWrite` and `Cancel` of `Settlements`; a posting of an event is `PostEvent` of
`Ledger` and `PostRead`, `PostWrite` of `Expenses`; the one-step `createBooking` of
`BookingDesk` is what the trip lock makes of the steps in `TripSales`
(`ImplementsInventory`: each handler is one step for whoever looks at the seats).
Composed in one state space they would be beyond TLC, so each is checked against
all that the others may do at the rows it shares with them.

### Conventions

A request is a READ COMMITTED transaction. It is cut where committed data is read
that is used later, and its writes appear in one step at the commit, since nobody
sees them before; what a write locks is a guard of the others. `tx[w]` is what the
request served by `w` remembers. A handler with one statement that matters, or
whose write checks again what it read, is one action. Requests that are answered
without writing (a replay, a conflict, a refused status) change nothing and have no
action. `Abort` is any end without a commit: an exception, the 30 s timeout, a lost
process, a deadlock victim; the connection pool only delays requests. A Prisma
`include` is one read unless a property depends on the difference (`Reports`,
`Expenses.PostRead`). Ids are never used again.

### TripSales and the code

The trip is fixed; everything in the code that couples requests (advisory lock,
rows, foreign keys) is per trip, except idempotency keys, which are per
organization and name the bookings here. The variables are the rows: `tripStatus`,
`manifest` (version 0: no row), `seat`, `booking`, `ticket`, `payment` (with the
`refundedAmount` the trigger of `refunds` maintains), `commission`, `outbox`, and
the idempotency records `cancelled` (bookings.cancel) and `tripKeys`
(trips.cancel). `tripLock` is the owner of the advisory lock and `tx[w]` what the
request served by worker `w` has read. A price and a fare are in minor units.

A request with one statement that matters is one action (`Release`, `SeatMap`,
`TripUpdate`, `TripRemove`). The others are cut where committed data is read that
is used later, and at the commit:

| Handler | Actions |
|---|---|
| `BookingsService.hold` | `HoldRead` (trip status, "now"), `HoldWrite` |
| `createBooking` | `BookingBegin` (lock, replay, trip status), `BookingPrice` (seats, prices, "now"), `BookingClaim` (conditional updates, which lock the rows; the count that decides FULL), `BookingCommit` |
| `BookingsService.cancel` | `CancelBegin`, `CancelCommit` |
| `TripsService.cancel` | `TripCancelBegin`, `TripCancelCommit` |
| `ManifestsService.generate`, `lock` | `GenerateRead`/`Write`, `DepartBegin`/`Commit` |
| `TicketsService.checkIn` | `CheckInRead`, `CheckInWrite` |
| any | `Abort`: an exception, the timeout, a crash, a deadlock victim |

Writes are shown at the commit, since READ COMMITTED hides them before. The seats
of a booking are claimed one after the other; each row stays locked until the end,
so the step is placed at the last claim. `RowLocked(s)` holds back whoever would
write a row that a booking has claimed. Requests that the code answers without
writing (a replay, a conflict, a refused status) are steps that change nothing and
have no action. `HoldExpires` and `KeyExpires` are the clock. `HoldExpires` may
come after a request fixed its "now", which is why `stale` is remembered.

`Init` is a trip as `TripsService.create` leaves it: any status the DTO accepts
(it accepts all), AVAILABLE seats at one price. A seat may be MISSING: the bus of
a trip can be given another template later, and the seat map then copies seats.

### SeatInventory

Each seat is absent, free, held, closed or sold to a booking; `Sell` takes all the
seats of a booking in one step, once per booking, `Return` gives them all back,
`Close` ends the sale. `TripSales!Inventory` is the refinement mapping and
`ImplementsInventory` says that every step of every handler is one of these steps
or changes nothing.

### AccountingOutbox and the code

`event[e]` is the row of `accounting_events`: status, attempts, `due` (availableAt
has passed) and `lease`, the age of `lockedAt`: none, live, or older than five
minutes. `lockedBy` is written and never read by the code, so it is left out.
`entry[e]` counts the journal entries of the event's source; at least one is what
`journalEntryId` says. `record[e]` is the idempotency record of
`accounting-event-<id>`, the key of every posting but a user's own `events/post`;
a STARTED record has no resource. `policy` and `period` are the configuration a
posting depends on. `tx[p]` says which code `p` runs (`kind`), how far it is (`pc`)
and for which event; the locks follow from it.

| Code | Actions |
|---|---|
| `enqueueAccountingEvent` | `Enqueue` |
| `runOnce` | `Claim` (its own transaction), the posting, `MarkFailed` (another transaction) |
| `processNextEvent` | `ClaimNext` (locks the row until the commit), the posting, `RejectNext` (the catch, in the same transaction) |
| `events/:id/process`, `events/post` | `Ask`, the posting |
| posting: `processEvent`, `postBusinessEvent`, `createEntry`, `postEntry` | `ReadEvent`, `BeginPosting` (key lock, record, policy, amount), `InsertEntry` (the unique source), `PostEntry` (trigger, period lock), `CommitPosting`, or `Answer` |
| exceptions | `Reject` (thrown by the code), `Abort` (thrown by PostgreSQL or the timeout, also the end of a deadlock) |
| `requeueEvent`, `configurePolicy`, `closePeriod` | `RequeueEvent`, `ConfigurePolicy`, `ClosePeriod` |
| a dead process, the clock | `Crash`, `LeaseExpires`, `BackoffEnds`, `KeyExpires` |

A failure has three shapes, and the difference matters: in the worker and in
`events/:id/process` the transaction is rolled back; in `processNextEvent` an
exception of the code is caught and its transaction commits, since a nested
`$transaction` is the request's own; an error of PostgreSQL dooms that transaction,
the catch included. Events are numbered by `createdAt`, because claims take the
oldest. `NoAmount` are sources that cannot be posted (an empty settlement). One
period covers all events. Entries by hand, reversals and the trial balance are in
`Ledger`, which sees a posting of the outbox as `PostEvent`.

### Bookkeeping

A source (a payment, a refund, an expense, a settlement) is owed its entry once it
has come about; `Book` gives it one, if it has an amount, while the period is open
and if it has none, and reports it as posted in the same step. Reports may be taken
back (`Forget`: a failure recorded over a success, an expired key, a requeued
event), entries never. `AccountingOutbox!Books` is the refinement mapping: owed is
what was enqueued, reported what is POSTED or has a COMPLETED record.
`ImplementsBooks` says that every step of workers, users and the clock is one of
these steps or changes nothing. It is where the order of things is stated: an entry
without an enqueued event, an entry in a closed period, a report before its entry
and an entry taken back are all steps that `Bookkeeping` does not have.

### Ledger and the code

`entry[e]` is a journal entry, named by its unique number: status, period, source,
the entry it reverses and what its lines add up to per account, debit minus credit.
`period[p]` is a fiscal period, `record[k]` the idempotency record of a reversal.

| Code | Actions |
|---|---|
| `createEntry` by a user | `Draft`, `DraftWrite` |
| `postBusinessEvent` (outbox) | `PostEvent`, then `Insert`, `Book`, `Commit` |
| `postEntry` by a user | `PostRead`, `PostWrite` (trigger, period `FOR UPDATE`) |
| `reverseEntry` | `Reverse` (key, record, original), `Insert` (draft with the lines changed over), `Book`, `Commit` |
| `createPeriod`, `closePeriod` | `CreatePeriod`; `CloseRead` (counts the drafts), `CloseWrite` |
| the clock, a lost request | `KeyExpires`, `Abort` |

An insert holds the row of its number, and of its source, until the end, and its
foreign key locks the period `FOR KEY SHARE`: `closePeriod` passes it, `FOR UPDATE`
does not. `Balance` is what `reconciliation` sums. An entry is `Balanced` on what it comes to per
account; one that debits and credits the same account comes to nothing there.

### Settlements and the code

A settlement is named by its agent and period, unique together; `line[c]` is the
settlement a commission is a line of. `commission[c].day` is the day its booking
began on, which may be before the day it commits on.

| Code | Actions |
|---|---|
| `AgentsService.create`, `update`, `remove` | `CreateAgent`, `UpdateAgent`, `RemoveAgent` |
| `createBooking`: agent and rate, commission | `BookRead`, `BookWrite` |
| both cancellations | `Cancel` |
| `SettlementsService.generate` | `GenerateRead` (agent lock, overlaps), `GenerateCollect` (lines), `GenerateWrite` |
| `SettlementsService.settle` | `SettleRead`, `SettleWrite` |
| the clock | `NextDay` |

An agent that is created inactive is created and then updated here.

### Expenses and the code

| Code | Actions |
|---|---|
| `create` | `Create` |
| `update`, `remove`, `approve`, `adjust` | `UpdateRead`/`Write`, `RemoveRead`/`Write`, `ApproveRead`/`Write`, `AdjustRead`/`Write` |
| the posting of `EXPENSE_APPROVED` | `PostRead`, `PostWrite` |

Each handler checks the status it reads and writes by id; the two halves are cut at
that point. A removal of an adjusted expense is refused by the foreign key.

### Catalogue and the code

The rows of templates, buses, drivers, routes and trips of one organization.
Actions are the handlers of the five services, for a user of any branch or of none.
A handler whose write, or a foreign key, checks again what it read is one action.
The others are `DriverRead`/`Write`, `RemoveDriverRead` followed by `Deactivate` or
`DeleteDriver`, `TripRead`/`Write` (the creation of a trip: route, bus, template,
driver), `AssignRead`/`Write` (`TripsService.update` with a driver),
`SeatsRead`/`Write` (the seat map that copies missing seats from the template the
bus has now). `LicenseExpires` is the clock. A seat has a place and a label: the one
the request gives it, or the default one of `seat-templates.service.ts`. Labels are
unique in a template and in a trip (`@@unique`), places are not, so a template may
have two seats at one place, and so may a trip whose bus has changed its template.
`Lacking` is the filter by label of the seat map, `Added` what `skipDuplicates`
leaves of it. Updates of templates and routes change nothing that trips depend on.

### Access and the code

| Code | Actions |
|---|---|
| `AuthService.login` | `SignInRead`, `SignInWrong` or `SignInRight`, `SignInAudited` |
| the lock runs out | `LockExpires` |
| the guards of a request | `Authenticate` |
| `createRole`, `createUser` | `CreateRoleRead`, `CreateUserRead`, `InsertWrite` |
| `updateUser` | `UpdateUserRead`, `UpdateUserWrite` |
| the end of the tenant transaction | `Commit` |

Each call of a login is a transaction of its own (the `SECURITY DEFINER` functions of
the migrations); a request of an administrator is one transaction, with its audit
row. The guard reads the user at every request, so a change takes effect at the next
one. Signing out deletes a cookie and nothing else.

### BookingDesk and the code

The page (`web/src/features/bookings/`) and the calls it has made. A call is on its
way, executed with an answer on its way back, or gone; `heard` says whether the page
still waits for it.

| Code | Actions |
|---|---|
| a seat is clicked, the form sent or left, the page loaded again | `ClickSeat`, `Submit`, `Drop`, `Reload` |
| answers at the page | `HoldAnswered`, `ReleaseAnswered`, `Booked`, `NotBooked` |
| network, the proxy (`web/src/app/api/proxy/`) | `LoseAnswer`, `ProxyTimeout`, `NeverArrives` |
| the backend | `Hold`, `Release`, `ReleaseDropped`, `Replay`, `CreateBooking`, `Fail`, `HoldLapses`, `Sweep`, `Cancel` |

A desk is one clerk with one page on one trip. Its list of seats may be stale, so a
click may be on any seat. `createBooking` looks a key up before anything else and
answers with the booking it finds, which is why the page must never send one key for
two selections.

### Reports and the code

The rows are bookings (what was refunded, the commission) and expenses; writers are
`Sell`, `Cancel`, `CreateExpense`, `SetStatus`, `Adjust`. `Ask` is `reportRange`, then
one step per query of `dashboard`, `sales`, `financial` and `occupancy`: `Sum`,
`ListExpenses`, `SumExpenses`, `SumSpent`, `FillSeries`, `EndReport`. `touched` is
history: the rows that changed since the report was asked. A figure must lie between
what the unchanged rows come to and what they come to with the changed ones.
`APPROVED` stands for `ADJUSTED` too, and the seats of the occupancy are the bookings
of one trip.

## Runs

CHECK_DEADLOCK is FALSE where the system may really stop (a deleted trip, ids that
are all given out, nobody signed in); the outbox, the settlements and the reports
are checked for deadlock.

| Run (cfg) | Question | Instance |
|---|---|---|
| `sales` (`Sales.cfg`) | `SeatSoldOnce`, `BooksAgree`, `ReplayedCancelHappened`, `HoldRespected`, `BookingEndsOnce`, `CancelledTripHasNoSale` and the refinement `ImplementsInventory` under contention | `SalesSpec`; 2 seats, 2 users, 2 bookings, 2 workers, 1 key; price 1, fees 0, 60 and 100 |
| `departure` (`Departure.cfg`) | `IInv` with every operation; `TripHeldStill`, `SalesFrozenAfterDeparture`, `ExpiredHoldEnds` while PATCH writes OPEN, FULL, DEPARTED and COMPLETED | `FairSpec`; 1 seat, 1 user, 2 bookings, 2 workers, fee 0, 1 manifest version |
| `boarding_refunded` (`BoardingRefunded.cfg`) | does a ticket board after its booking was cancelled? It does: a violation | `Spec`; 1 seat, 1 user, 1 booking, 2 workers |
| `departed_sale` (`DepartedSale.cfg`) | `SaleOnlyWhileOpen` with PATCH to DEPARTED: a violation | `Spec`; 1 seat, 1 user, 1 booking, 2 workers |
| `outbox` (`Outbox.cfg`) | `PostedOnce`, the refinement `ImplementsBooks`, `TriedToTheEnd`, `IInv` | `FairSpec`; 2 events, one without an amount, the other may be requeued; 1 worker, 1 request, 2 attempts |
| `ledger` (`Ledger.cfg`) | `ReversedOnce`, `ReplayedReversalHappened`, `TrialBalance`, `ClosedPeriodIsFinal`, `IInv` | 3 entries, 2 accounts, lines that balance and lines that do not, 2 periods, 1 source, 2 keys, 2 requests |
| `settlements` (`Settlements.cfg`) | `PeriodsDisjoint`, `AmountsMatchLines`, `SettledIsFinal`, `IInv` | 1 agent, 2 commissions of fare 2, rates 1 and 3, days 1 and 2, the periods 1, 2 and 1-2, 3 requests |
| `expenses` (`Expenses.cfg`) | `ApprovedIsInOutbox`, `AdjustmentsStay`, `IInv` | 2 expenses, 2 adjustments, amounts 1 and 2, 3 requests |
| `catalogue` (`Catalogue.cfg`) | `TripsStayInBranch`, `OneSeatPerLabel`, `IInv` | 2 branches, 2 templates of two sizes or of one listed seat with another's label, 1 bus, driver, route and trip, 2 workers |
| `access` (`Access.cfg`) | `GrantsAreCovered`, `NothingUnaudited`, `LockedAtLimit`, `IInv` | 2 organizations, 3 users, 3 roles, 2 workers, 2 failures lock |
| `desk` (`Desk.cfg`) | `ShownIsAsked`, `NotRefusedByItself`, `DeskInv` | 2 desks, 2 seats, 3 keys, 2 calls in flight |
| `reports` (`Reports.cfg`) | `FiguresAreBracketed`, `SeriesIsBracketed`, `ReportsInv` | 1 booking, 1 expense, 1 adjustment, 2 days of 2 instants, a series of 2 days, ranges up to 2 days |

Why the bounds are enough.

*TripSales.* A conflict over a seat, a lock or a ticket has two
parties, so two workers show each pair of overlapping requests, and their
successors show what a third would find. Two seats leave a trip with something to
sell after a booking (a trip with one seat is FULL at once, whatever else happened
to its status), make a booking partial, a trip
with one seat sold and one held, and a sweep that meets a locked row. Two bookings
make a resale. `departure`, which has every operation, has one seat, sold and resold;
what a second seat adds is in `sales`. With price 1 and fee 60 the refund of one seat rounds to nothing
and that of two seats to one unit, and fee 100 gives none: `CANCELLED` and
`REFUNDED` both occur. `MaxVersion` bounds the manifest version; it stops
`GenerateWrite` and nothing else, and one version is enough to lock and depart.
`PatchStatuses` lists the statuses PATCH is asked for: in `departure` all that
`update` accepts but SCHEDULED, which no operation tells from OPEN, and
CANCELLED, which `update` refuses; DEPARTED alone in `departed_sale`; elsewhere none,
and PATCH still changes prices. Fees are hundredths of a percent, as the DTO has them: 6000 is
60 %.

*AccountingOutbox.* Two events let a claim skip one and a period lock hold back the
other; a worker and a user meet on one event by `processNextEvent` and by a posting
of the user's own; two attempts have a first, a retry and a last, and `MaxAttempts`
is 5 in the code. `Requeuable` bounds nothing in time: `TriedToTheEnd` asks what
happens once requeueing has stopped, since who requeues for ever resets the attempts
for ever.

*Ledger.* Two entries and the reversal of one, or one entry and two reversals of it
that race; two keys are two users who reverse, one key twice is a retry; two periods
are the original's and the reversal's, closed in either order.

*Settlements.* Two commissions and three periods of which one overlaps both others;
three requests are two that generate and a booking or a settling between them. Commissions
of 1 and 3 on a fare of 2 make nets that are positive, zero and negative, and a CHECK
refuses the last.

*Expenses.* Any two handlers race on one expense, and a posting is the third;
the second expense shows that they do not mix.

*Catalogue.* The two templates differ in size, so that a bus that changes its
template leaves a trip that lacks seats; two branches are one that may and one that
may not. One trip is enough, since a trip's seats are its own. The listed seat is at
the place of A2 and says A1: a trip that has it lacks A2 of the grid, and gets a
second seat at that place. A third template, so that two seat maps repair a trip from
two of them at once, is beyond this run and is in the theorem.

*Access.* A role of all organizations with every permission, a role of one
organization with some, and one to be created; a permission in its own-only form.
Two requests of one administrator overlap, and the second organization is there to
leak into. Only the third user mistypes, whose row is also the one created.

*BookingDesk.* Two clerks with two selections; two calls in flight are one that was
given up on and its retry, or one of each clerk.

*Reports.* One row of each kind suffices to be seen by one query and not by the
next; two days of two instants have a midnight during the report, ranges of one day
and of both, and a trip that departs later today.

Symmetry is used in runs without liveness only: the sets it permutes are interchangeable
and no definition chooses from them.

Fairness. In `TripSales`, a request in progress proceeds or is rolled back
(`prisma.service.ts:183` bounds a transaction by 30 s): weak fairness of
`Proceed(w)`. The seat map is fetched every 15 s
(`web/src/features/bookings/hooks/use-trip-seats.ts:17`) by a client that has it
open; its sweep waits in the queue of a locked row and goes on when the row is
free, so it gets strong fairness: with weak fairness TLC shows a customer holding,
claiming and abandoning the other seat for ever in front of it.
In the outbox the worker polls every 5 s (`accounting-event.worker.ts:35`), a
transaction ends within 30 s (`Proceed` or `Abort`), the clock runs. `Claim` and
`MarkFailed` get strong fairness: `processNextEvent` may lock the row of the event
again and again and roll back. An update waits for the row, and its lock is granted
in order; a claim skips locked rows (`SKIP LOCKED`), and what it rests on is that
the requests of users leave gaps between them. The other modules promise nothing that must
eventually happen.

## Findings

Each is a run that TLC answers with a counterexample, of a property that a document
states.

* `boarding_refunded`: check-in overwrites a cancellation, and the ticket of a
  refunded booking boards. `TEST_STRATEGY.md:28` says otherwise; the trace of the run
  is three requests long.
* `departed_sale`: PATCH writes DEPARTED without the trip lock, and the booking that
  found the trip open commits (`TEST_STRATEGY.md:27`, `transaction-locks.ts:4`). What
  the lock does give is in `TripHeldStill` and `SalesFrozenAfterDeparture`, which
  hold with every status PATCH may write.

### Known departures

The models have the following behaviour because the code has it. Where a document
says otherwise it is named; none is stated as a property, since each is one write
over another or what the code plainly does. TECH_DEBT.md knows of some (TD-003,
TD-009, TD-010). The engineering documents are in `docs/engineering/`,
`engineering-principles.md` in `docs/`.

* PATCH reopens a CANCELLED trip (`TripUpdate`).
* An expired hold refuses its seat until somebody opens the seat map
  (`TEST_STRATEGY.md:25`).
* Two scans that both read BOOKED both check the ticket in (`CheckInWrite`).
* `generate` rewrites a locked manifest (`GenerateWrite`, `TEST_STRATEGY.md:29`).
* A booking that leaves no AVAILABLE seat sets FULL although the others are only
  held, and nothing but PATCH reopens the trip when they lapse.
* A `processNextEvent` that fails commits its idempotency record: for 24 hours no
  retry of the event succeeds, whatever was repaired.
* A worker that dies in the last attempt leaves the event PENDING, neither claimed
  nor requeued again; this is why `TriedToTheEnd` ends at `MaxAttempts`.
* `markEventFailed` overwrites POSTED: the event is reported FAILED although its
  entry exists.
* `reconciliation` leaves a reversed original out and counts its reversal, so that
  reversing an entry puts an account off by it (`DOMAIN_MODEL.md:34`). The sum over
  all accounts is zero all the same, which is all `TrialBalance` says.
* A settlement pays a commission that was reversed after it was generated
  (`PROJECT_STATE.md:31`), since `settle` looks at no commission; the amounts it pays
  are those of its lines, which is all `AmountsMatchLines` says.
* A template may list two seats at one place, and a repair may add a second one.
* An update that read a DRAFT changes the amount of an expense approved meanwhile
  (`expenses.service.ts:98` writes what `:89` checked; `engineering-principles.md:9`).
* A driver deleted after a trip read the name leaves a trip without a driver.
* Two administrators can deactivate each other at the same time.
* Gross figures of `dashboard` and `sales` include what was refunded (TD-010);
  `occupancy` without a last day leaves out the later departures of today.
* The page reads a 503 as a seat conflict and gives up its key; `cancelBooking` sends
  a new key each time, so that its retries are not replays.

## Proofs

Each theorem holds for all values of the constants under the named assumptions of
its module. Every safety invariant and action property of the passing runs is a
theorem, and so are both refinements.

### Sums

`SumFunctionOnSet` of the community modules folds a function over a set, choosing
one element after the other. That the order does not matter is induction over finite
sets, which the library states with an operator as parameter; here it is taken from
the well-foundedness of the strict subset ordering instead, by a smallest
counterexample (`SmallestSubset`, `SubsetInduction`). From it: the fold has one
value (`SolutionsAgree`, `SolutionExists`), taking one element out (`SumWithout`,
`SumWith`), comparing, adding, cutting and exchanging sums (`SumMonotone`, `SumOfBoth`,
`SumCut`, `SumByCases`), sums that count (`SumOfCount`).

### TripSalesProofs

Assumptions: finitely many seats, positive prices, fees
from 0 to 100 %, PATCH never sets CANCELLED, a natural bound, `None` outside the sets, no
booking named like a state of the inventory; prices and fees follow from the DTO validators and CHECK constraints.

* `InvariantHolds`: `Spec => []IInv`
* `TypeCorrect`: `Spec => []TypeOK`
* `NoDoubleSale`: `Spec => []SeatSoldOnce`
* `CancelledTripSoldNothing`: `Spec => []CancelledTripHasNoSale`
* `BooksFollowBookings`: `Spec => []BooksAgree`
* `ReplaysAreTrue`: `Spec => []ReplayedCancelHappened`
* `BookingsEndOnce`: `Spec => BookingEndsOnce`
* `HoldsAreRespected`: `Spec => HoldRespected`
* `TheLockHoldsTheTrip`: `Spec => TripHeldStill`
* `DepartureFreezesSales`: `Spec => SalesFrozenAfterDeparture`
* `SalesRefineInventory`: `Spec => ImplementsInventory`

`SeatSoldOnce` is not inductive: a booking commits on what it read three steps
ago. `IInv` adds `LockInv` (only the owner of the trip lock is at a protected
point), `RequestInv` (what each request relies on is still true: its booking does
not exist yet, the trip is not cancelled, its claimed rows are still for sale, the
booking it cancels is still CONFIRMED), `TicketInv` (a booking that does not
exist has no ticket), `HoldInv` (a hold that was claimed is the claimer's own),
`FareInv` (a request charges one price for
each seat it claims), `PaymentInv` (the shape of payments), `BooksAgree`, `RemovedInv` (a deleted trip has no seats and
no sales) and `StatusInv` (under the lock the trip has the status that a booking or a
cancellation found, or one that PATCH or DELETE wrote since). `RequestInv` is where concurrency is: a step of another
request preserves it because that request would need the lock (`OthersUnlocked`),
waits for the row (`RowLocked`), or never takes a seat out of sale
(`UnsoldSeatEffect`). `BooksAgree` holds at a commit because the amount is the sum of
the fares of seats that are priced (`FareInv`, `Sums`), hence positive, and because
a refund is a share of it between nothing and all. `NextCases` splits a step by what it writes, `Reads(w)` being
the steps that write no row; `EndBookingsEffect` says what the two cancellations do.

`TheLockHoldsTheTrip` and `DepartureFreezesSales` compare the two ends of a step: a step that
another request takes while the lock is held is one that needs no lock (`UnlockedStep`)
and leaves sales as they are (`NothingSold`); a commit under the lock gives it back
(`LockedCommitEnds`); and on a departed trip no sale begins (`NoSaleBegins`).

The refinement maps a hold to `Hold`; a release and the seat map to `Refresh`; the
commit of a booking, of its cancellation, of the trip's to `Sell`, `Return`, `Close`;
every other step stutters (`StutterStep`).

### AccountingOutboxProofs

Assumptions: events are numbers, workers are not requests, `None` is no event.

* `OutboxInvariant`: `Spec => []IInv`
* `AtMostOnePosting`: `Spec => []PostedOnce`
* `ReportsAreTrue`: `Spec => []ReportedIsPosted`
* `ClosedPeriodStaysFinal`: `Spec => ClosedPeriodIsFinal`
* `OutboxKeepsBooks`: `Spec => ImplementsBooks`

`ReportedIsPosted` is a part of `IInv`, `ClosedPeriodIsFinal` a part of what
`ImplementsBooks` says. Here `IInv` adds four facts about transactions in progress: a row locked by
`processNextEvent` keeps its status and attempts and has one holder
(`ClaimedRowInv`), an uncommitted entry is the only one of its source and nothing
is committed for it (`SlotInv`), the source of a posting was enqueued and, once the
posting has its key, has an amount (`DutyInv`), the period is open while its row is
locked (`PeriodInv`). The steps are grouped by what they write: nothing (`Reads`), a
row without a transaction (`Outside`), a row at the end of one.

The refinement maps an enqueueing to `Owe`, a commit to `Book` (`CommitRefines`: the
four facts are exactly its guards), the closing to `Close`; whatever writes a row
otherwise makes no report and is `Forget`, perhaps of nothing (`RowsForget`).

### FinanceProofs

*Ledger*; assumptions: finitely many entries and accounts, lines of integers, `None`
is nothing else.

* `LedgerInvariant`: `Spec => []IInv`
* `EntriesReversedOnce`: `Spec => []ReversedOnce`
* `RetriesAnswerReversals`: `Spec => []ReplayedReversalHappened`
* `ClosedBooksStay`: `Spec => ClosedPeriodIsFinal`
* `BooksBalance`: `Spec => []TrialBalance`

A reversal is decided on what was read three steps before its commit. `IInv` says
why it is still true then: the original of a reversal on its way stays POSTED and
unreversed, and nobody else reverses it (`ReversalInv`, from the lock of the entry);
an entry being written has its number and its source to itself (`WriterInv`, from the
unique indexes); the period of a booked entry is open until its commit (`PeriodInv`).
The trial balance sums over accounts what each account sums over entries. Its own
invariant is per entry (`BalancedInv`: whatever is booked, or about to be committed as
booked, balances; a reversal does because its original does), and exchanging the two
sums gives the rest.

*Reports*; assumptions: finitely many rows, natural amounts and times, `NoDay` is no
day.

* `ReportsInvariant`: `ReportsSpec => []ReportsInv`
* `FiguresStayBracketed`: `ReportsSpec => []FiguresAreBracketed`
* `SeriesStaysBracketed`: `ReportsSpec => []SeriesIsBracketed`

A figure is computed once, and its bracket keeps moving while rows are written. The
bracket is no sum of brackets of rows as it is stated; the invariant of the proof
(`RowInv`) says that the figure is between two sums over all rows, of the least and
of the most that each row may add. What is written meanwhile only widens the two
numbers of each row (`RowsMove`, `WorthWidens` and the like), the query that computes
the figure finds each row between them (`SumBrackets` and the like), and the two sums
are within the bracket of the property (`RowByRowIsEnough`). For the chart, the query returns all payments of the days that
have a bucket (`BucketOfDay`). `ListedInv` connects the
two queries of the financial report; `StampsInv` says that a row nobody wrote since
the report began has no later date.

### SettlementsProofs

* `SettlementsInvariant`: `Spec => []IInv`
* `SettlementsDisjoint`: `Spec => []PeriodsDisjoint`
* `SettlementsAddUp`: `Spec => []AmountsMatchLines`
* `SettledStaysFinal`: `Spec => SettledIsFinal`

`RequestInv` carries the argument: one `generate` per agent is past its lock, the only
settlement that overlaps its period is its own, and the lines it collected were earned
in it.

### ExpensesProofs

* `ExpensesInvariant`: `Spec => []IInv`
* `ApprovedReachesOutbox`: `Spec => []ApprovedIsInOutbox`
* `AdjustmentsAreKept`: `Spec => AdjustmentsStay`

A removal has read a DRAFT that may be approved and adjusted before the row goes.
`AdjustmentInv` and `RequestInv` say which expenses can still have adjustments.

### CatalogueProofs

* `CatalogueInvariant`: `Spec => []IInv`
* `TripsInTheirBranch`: `Spec => []TripsStayInBranch`
* `LabelsStayUnique`: `Spec => []OneSeatPerLabel`

`Prepared` says what a request in progress may rely on although rows go meanwhile:
what it read existed, an id is never given again (`Known`), and the seats it read
differ in their labels, as those of templates and trips do (`LabelsUnique`).

### ClerkProofs

*Access*:

* `AccessInvariant`: `Spec => []IInv`
* `GrantsStayCovered`: `Spec => []GrantsAreCovered`
* `ChangesAreAudited`: `Spec => []NothingUnaudited`
* `FailuresLock`: `Spec => LockedAtLimit`

`GrantsAreCovered` needs what each request has checked and not yet committed
(`RequestOK`), and that roles never leave their organization (`RolesAreOwn`).

*BookingDesk*:

* `DeskInvariant`: `DeskSpec => []DeskInv`
* `TicketsAreAsAsked`: `DeskSpec => []ShownIsAsked`
* `RetriesAreReplayed`: `DeskSpec => NotRefusedByItself`

`DeskInv` ties keys to selections through the calls in flight: a call carries its
form's key (`CallsCarryTheirKey`) and seats (`FormsAskForTheirSeats`), forms differ in
their keys (`FormsAreApart`), a booking with a form's key is of its seats
(`BookingsAreOfTheirForm`), and a key is one selection for ever (`OneKeyOneOrder`).

### Model-checked only

`ExpiredHoldEnds` and `TriedToTheEnd` are liveness under fairness, and fairness is
about ENABLED: out of the proof system's reach. The findings are counterexamples,
which need no proof. That is also why `SaleOnlyWhileOpen` and `EndedTicketNeverBoards`
have no theorem.

## Not modelled

* More than one trip or organization in `TripSales`, row-level security policies,
  audit rows outside `Access`, passenger data, and the agent a sale is credited to
  (`Settlements` has agents).
* Payment listings and customers: single rows that no other step depends on.
  Bookings and payments are one to one, as `createBooking` makes them; PENDING
  bookings and NO_SHOW tickets are never written.
* `updateOrganization`, `createBranch`, updates of templates and routes: nothing
  stated here depends on them.
* Counts of single tables and recent activity in `Reports`.
* The HTTP shell, configuration, validation and probes; pages of the web client
  that only show lists and forms; operations scripts; the candidate schema v1.

## Plan

1. `Ledger` as another implementation of `Bookkeeping`, whose sources are those of
   its entries.
2. `Catalogue` with updates of routes.
3. `Reports` with two bookings and a third day.
