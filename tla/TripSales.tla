------------------------------ MODULE TripSales ------------------------------
(***************************************************************************)
(* Sales on ONE trip: seat holds, bookings, refunds, trip edits, the       *)
(* manifest and check-in, as the backend runs them against PostgreSQL.     *)
(*                                                                         *)
(* Every HTTP request runs in one READ COMMITTED transaction, so a request *)
(* is modelled by the points where it reads committed data it later acts   *)
(* on, and by one step that makes all its writes visible.  Requests that   *)
(* read and write in one statement are a single action.  tx[w] is what the *)
(* request served by w remembers between its steps; the row locks it holds *)
(* follow from its control point.  Any request may be rejected, time out   *)
(* or die with its process before it commits (Abort): nothing of it stays. *)
(*                                                                         *)
(* Seats are the REGULAR and VIP seats of the bus template; the others are *)
(* BLOCKED at creation and no handler touches them.  A booking is named by *)
(* its Idempotency-Key, which is unique per organization.                  *)
(***************************************************************************)
EXTENDS Integers, FiniteSets, Functions

CONSTANTS
  Seats,         \* sellable seats of the template of the trip's bus
  Users,         \* staff and agents that hold and book seats
  Bookings,      \* idempotency keys of createBooking
  Keys,          \* idempotency keys of the two cancel endpoints
  Workers,       \* requests the backend serves at the same time
  Prices,        \* seat prices, in minor units
  Fees,          \* organization.cancellationFeePercent, in hundredths of a percent
  PatchStatuses, \* statuses that PATCH /trips/:id is asked to set
  MaxVersion,    \* bound on manifest versions
  None

ASSUME BusIsFinite == IsFiniteSet(Seats)
ASSUME PricesArePositive == Prices \subseteq Nat \ {0}

\* A percentage has two decimals.
HundredPercent == 100 * 100

ASSUME FeesArePercentages == Fees \subseteq 0 .. HundredPercent
ASSUME PatchNeverCancels ==
  PatchStatuses \subseteq {"SCHEDULED", "OPEN", "FULL", "DEPARTED", "COMPLETED"}
ASSUME VersionBound == MaxVersion \in Nat
ASSUME NoneIsNothing == None \notin Users \cup Bookings \cup Keys \cup Workers
ASSUME BookingsAreNoStates == Bookings \cap {"ABSENT", "FREE", "HELD", "CLOSED"} = {}

VARIABLES
  tripStatus,  \* trips.status, "DELETED" once the row is gone
  manifest,    \* the manifest row: version 0 is no row
  seat,        \* trip_seats rows, "MISSING" for a label not yet copied
  booking,     \* bookings rows: status and createdById
  ticket,      \* ticket[b][s]: status of b's ticket for s, "NONE" for no row
  payment,     \* the payment of each booking
  commission,  \* the commissions of each booking's tickets
  outbox,      \* accounting_events enqueued, by type and booking
  cancelled,   \* idempotency records of bookings.cancel: key -> booking
  tripKeys,    \* idempotency keys recorded for trips.cancel
  tripLock,    \* owner of the advisory lock of the trip
  tx           \* what each request in progress remembers

rows == <<tripStatus, manifest, seat, booking, ticket, payment, commission,
          outbox, cancelled, tripKeys>>
vars == <<rows, tripLock, tx>>

Bookable == {"SCHEDULED", "OPEN"}
TripStatuses ==
  Bookable \cup {"FULL", "DEPARTED", "COMPLETED", "CANCELLED", "DELETED"}
SeatStatuses == {"MISSING", "AVAILABLE", "HELD", "BOOKED", "BLOCKED"}
EndStatuses == {"CANCELLED", "REFUNDED"}
TicketStatuses == {"NONE", "BOOKED", "CHECKED_IN"} \cup EndStatuses

\* Control points of a request between its first read and its commit.
LockedPoints == {"book", "priced", "claimed", "cancel", "tripCancel", "depart"}
Points == LockedPoints \cup {"idle", "hold", "checkIn", "generate"}

SeatRow == [status  : SeatStatuses,
            heldBy  : Users \cup {None},
            expired : BOOLEAN,           \* holdExpiresAt is in the past
            price   : Prices,
            ticket  : Bookings \cup {None}]

Request == [pc    : Points,
            user  : Users \cup {None},
            booking : Bookings \cup {None},
            key   : Keys \cup {None},
            seats : SUBSET Seats,
            stale : SUBSET Seats,        \* holds expired at the request's "now"
            fare  : [Seats -> Prices \cup {0}],
            full  : BOOLEAN]             \* a count or status read earlier

Idle == [pc |-> "idle", user |-> None, booking |-> None, key |-> None,
         seats |-> {}, stale |-> {}, fare |-> [s \in Seats |-> 0], full |-> FALSE]

TypeOK ==
  /\ tripStatus \in TripStatuses
  /\ manifest \in [version : 0 .. MaxVersion, locked : BOOLEAN]
  /\ seat \in [Seats -> SeatRow]
  /\ booking \in [Bookings -> [status : {"NONE", "CONFIRMED"} \cup EndStatuses,
                               by     : Users \cup {None}]]
  /\ ticket \in [Bookings -> [Seats -> TicketStatuses]]
  /\ commission \in [Bookings -> {"NONE", "DUE", "REVERSED"}]
  /\ outbox \subseteq {"PAYMENT_RECEIVED", "REFUND_COMPLETED"} \X Bookings
  /\ cancelled \in [Keys -> Bookings \cup {None}]
  /\ tripKeys \subseteq Keys
  /\ tripLock \in Workers \cup {None}
  /\ tx \in [Workers -> Request]

\* TripsService.create: any status of the DTO, one price, all seats AVAILABLE;
\* a seat is MISSING when the template gains it later (a bus may change template).
Init ==
  /\ tripStatus \in TripStatuses \ {"DELETED"}
  /\ manifest = [version |-> 0, locked |-> FALSE]
  /\ \E copied \in SUBSET Seats, p \in Prices :
       seat = [s \in Seats |->
                 [status |-> IF s \in copied THEN "AVAILABLE" ELSE "MISSING",
                  heldBy |-> None, expired |-> FALSE, price |-> p, ticket |-> None]]
  /\ booking = [b \in Bookings |-> [status |-> "NONE", by |-> None]]
  /\ ticket = [b \in Bookings |-> [s \in Seats |-> "NONE"]]
  /\ payment = [b \in Bookings |-> [amount |-> 0, refunded |-> 0]]
  /\ commission = [b \in Bookings |-> "NONE"]
  /\ outbox = {}
  /\ cancelled = [k \in Keys |-> None]
  /\ tripKeys = {}
  /\ tripLock = None
  /\ tx = [w \in Workers |-> Idle]

-----------------------------------------------------------------------------
(* Transactions *)

\* A request starts outside the trip lock, or takes it (it waits until free).
Begin(w, request) ==
  /\ tx[w] = Idle
  /\ tx' = [tx EXCEPT ![w] = request]
  /\ UNCHANGED <<rows, tripLock>>

BeginLocked(w, request) ==
  /\ tripLock = None
  /\ tx[w] = Idle
  /\ tx' = [tx EXCEPT ![w] = request]
  /\ tripLock' = w
  /\ UNCHANGED rows

\* Commit or rollback: the request is over and its locks are released.
End(w) ==
  /\ tx' = [tx EXCEPT ![w] = Idle]
  /\ tripLock' = IF tripLock = w THEN None ELSE tripLock

\* Mutation of RowLocked: writers do not wait for uncommitted rows.
NeverRowLocked(s) == FALSE

\* Seats whose rows an uncommitted booking has already updated: every other
\* statement that would write them waits.
RowLocked(s) == \E w \in Workers : tx[w].pc = "claimed" /\ s \in tx[w].seats

Existing == {s \in Seats : seat[s].status # "MISSING"}

\* Mutation of ExpiredHolds: only trips on sale are swept.
ExpiredHoldsOnSale ==
  {s \in Seats : tripStatus \in Bookable /\ seat[s].status = "HELD" /\ seat[s].expired}

ExpiredHolds == {s \in Seats : seat[s].status = "HELD" /\ seat[s].expired}

\* Mutation of SoldBookings: the status filter is missing.
EverSold == {b \in Bookings : booking[b].status # "NONE"}

SoldBookings == {b \in Bookings : booking[b].status = "CONFIRMED"}
TicketsOf(b) == {s \in Seats : ticket[b][s] # "NONE"}

\* Mutation of Claimable: the holder is not compared.
ClaimableByAnyone(w, s) ==
  \/ seat[s].status = "AVAILABLE"
  \/ seat[s].status = "HELD" /\ ~(seat[s].expired /\ s \in tx[w].stale)

\* The WHERE clause shared by hold and createBooking, for the "now" of w.
Claimable(w, s) ==
  \/ seat[s].status = "AVAILABLE"
  \/ /\ seat[s].status = "HELD"
     /\ seat[s].heldBy = tx[w].user
     /\ ~(seat[s].expired /\ s \in tx[w].stale)

Freed(row) == [row EXCEPT !.status = "AVAILABLE", !.heldBy = None, !.expired = FALSE]

\* Mutation of Share: the fee is added.
ShareWithFee(amount, fee) ==
  (2 * amount * (HundredPercent + fee) + HundredPercent) \div (2 * HundredPercent)

\* What the fee leaves of an amount, rounded half up to the minor unit.
Share(amount, fee) ==
  (2 * amount * (HundredPercent - fee) + HundredPercent) \div (2 * HundredPercent)
RefundDue(b, fee) == Share(payment[b].amount - payment[b].refunded, fee)

\* The end of every booking in bs under one fee: refund row (whose trigger adds
\* to refundedAmount), outbox event, tickets, commissions and booking status.
EndBookings(bs, fee) ==
  LET ended(b) == IF RefundDue(b, fee) > 0 THEN "REFUNDED" ELSE "CANCELLED" IN
  /\ payment' = [b \in Bookings |->
       IF b \in bs THEN [payment[b] EXCEPT !.refunded = @ + RefundDue(b, fee)]
                   ELSE payment[b]]
  /\ outbox' = outbox \cup
       {<<"REFUND_COMPLETED", b>> : b \in {c \in bs : RefundDue(c, fee) > 0}}
  /\ ticket' = [b \in Bookings |-> [s \in Seats |->
       IF b \in bs /\ s \in TicketsOf(b) THEN ended(b) ELSE ticket[b][s]]]
  /\ commission' = [b \in Bookings |->
       IF b \in bs /\ commission[b] = "DUE" THEN "REVERSED" ELSE commission[b]]
  /\ booking' = [b \in Bookings |->
       IF b \in bs THEN [booking[b] EXCEPT !.status = ended(b)] ELSE booking[b]]

-----------------------------------------------------------------------------
(* BookingsService.hold and release *)

\* hold reads the trip and fixes "now"...
HoldRead(w, u, s) ==
  /\ tripStatus \in Bookable
  /\ s \in Existing
  /\ Begin(w, [Idle EXCEPT !.pc = "hold", !.user = u, !.seats = {s},
                           !.stale = ExpiredHolds])

\* ... then takes the seat with one conditional update.
HoldWrite(w) ==
  /\ tx[w].pc = "hold"
  /\ \A s \in tx[w].seats : Claimable(w, s) /\ ~RowLocked(s)
  /\ seat' = [s \in Seats |->
       IF s \in tx[w].seats
       THEN [seat[s] EXCEPT !.status = "HELD", !.heldBy = tx[w].user, !.expired = FALSE]
       ELSE seat[s]]
  /\ End(w)
  /\ UNCHANGED <<tripStatus, manifest, booking, ticket, payment, commission,
                 outbox, cancelled, tripKeys>>

\* release does not look at the expiry.
Release(u, s) ==
  /\ seat[s].status = "HELD" /\ seat[s].heldBy = u
  /\ ~RowLocked(s)
  /\ seat' = [seat EXCEPT ![s] = Freed(@)]
  /\ UNCHANGED <<tripStatus, manifest, booking, ticket, payment, commission,
                 outbox, cancelled, tripKeys, tripLock, tx>>

\* HOLD_MINUTES pass on the server's clock.
HoldExpires(s) ==
  /\ seat[s].status = "HELD" /\ ~seat[s].expired
  /\ seat' = [seat EXCEPT ![s].expired = TRUE]
  /\ UNCHANGED <<tripStatus, manifest, booking, ticket, payment, commission,
                 outbox, cancelled, tripKeys, tripLock, tx>>

\* The price of the first seat the trip has, if it has one.
FallbackPrices == IF Existing = {} THEN {None} ELSE {seat[s].price : s \in Existing}

\* TripsService.seats, the seat map: copies template seats the trip lacks, at the
\* price of one it has, and frees every expired hold.
SeatMap ==
  /\ tripStatus # "DELETED"
  /\ \A s \in ExpiredHolds : ~RowLocked(s)
  /\ \E copied \in SUBSET (Seats \ Existing), fallback \in FallbackPrices :
       /\ fallback = None => copied = {}
       /\ seat' = [s \in Seats |->
            IF s \in ExpiredHolds THEN Freed(seat[s])
            ELSE IF s \in copied
                 THEN [seat[s] EXCEPT !.status = "AVAILABLE", !.price = fallback]
                 ELSE seat[s]]
  /\ UNCHANGED <<tripStatus, manifest, booking, ticket, payment, commission,
                 outbox, cancelled, tripKeys, tripLock, tx>>

-----------------------------------------------------------------------------
(* BookingsService.createBooking *)

\* The lock, the replay check under it and the trip's status.  A key that has
\* a booking already is answered with it and writes nothing.
BookingBegin(w, u, b, S) ==
  /\ S # {}
  /\ booking[b].status = "NONE"
  /\ tripStatus \in Bookable
  /\ BeginLocked(w, [Idle EXCEPT !.pc = "book", !.user = u, !.booking = b, !.seats = S])

\* The seats are read with their prices, and "now" is fixed.
BookingPrice(w) ==
  /\ tx[w].pc = "book"
  /\ tx[w].seats \subseteq Existing
  /\ tx' = [tx EXCEPT
       ![w].pc = "priced",
       ![w].stale = ExpiredHolds,
       ![w].fare = [s \in Seats |-> IF s \in tx[w].seats THEN seat[s].price ELSE 0]]
  /\ UNCHANGED <<rows, tripLock>>

\* Each seat is claimed by a conditional update, which locks its row until the
\* end; the step is the last claim.  When no other seat is AVAILABLE the trip
\* will be marked FULL.
BookingClaim(w) ==
  /\ tx[w].pc = "priced"
  /\ \A s \in tx[w].seats : Claimable(w, s) /\ ~RowLocked(s)
  /\ tx' = [tx EXCEPT
       ![w].pc = "claimed",
       ![w].full = \A s \in Seats \ tx[w].seats : seat[s].status # "AVAILABLE"]
  /\ UNCHANGED <<rows, tripLock>>

\* Everything the booking wrote becomes visible.  The request may name an agent.
BookingCommit(w) ==
  LET b == tx[w].booking IN
  /\ tx[w].pc = "claimed"
  /\ seat' = [s \in Seats |->
       IF s \in tx[w].seats
       THEN [Freed(seat[s]) EXCEPT !.status = "BOOKED", !.ticket = b]
       ELSE seat[s]]
  /\ booking' = [booking EXCEPT ![b] = [status |-> "CONFIRMED", by |-> tx[w].user]]
  /\ ticket' = [ticket EXCEPT ![b] =
       [s \in Seats |-> IF s \in tx[w].seats THEN "BOOKED" ELSE "NONE"]]
  /\ payment' = [payment EXCEPT ![b] =
       [amount |-> SumFunction(tx[w].fare), refunded |-> 0]]
  /\ outbox' = outbox \cup {<<"PAYMENT_RECEIVED", b>>}
  /\ \E agent \in BOOLEAN :
       commission' = [commission EXCEPT ![b] = IF agent THEN "DUE" ELSE @]
  /\ tripStatus' = IF tx[w].full THEN "FULL" ELSE tripStatus
  /\ End(w)
  /\ UNCHANGED <<manifest, cancelled, tripKeys>>

-----------------------------------------------------------------------------
(* BookingsService.cancel and TripsService.cancel *)

\* Mutation of CancelBegin: the trip may have departed.
CancelBeginDeparted(w, b, k) ==
  /\ cancelled[k] = None
  /\ booking[b].status = "CONFIRMED"
  /\ BeginLocked(w, [Idle EXCEPT !.pc = "cancel", !.booking = b, !.key = k,
                                 !.full = (tripStatus = "FULL")])

\* Lock, idempotency record, booking and trip status.  A key recorded for b
\* replays it and one recorded for another booking conflicts: neither writes.
CancelBegin(w, b, k) ==
  /\ cancelled[k] = None
  /\ booking[b].status = "CONFIRMED"
  /\ tripStatus \notin {"DEPARTED", "COMPLETED"}
  /\ BeginLocked(w, [Idle EXCEPT !.pc = "cancel", !.booking = b, !.key = k,
                                 !.full = (tripStatus = "FULL")])

CancelCommit(w) ==
  LET b == tx[w].booking IN
  /\ tx[w].pc = "cancel"
  /\ \E fee \in Fees : EndBookings({b}, fee)
  /\ seat' = [s \in Seats |->
       IF s \in TicketsOf(b)
       THEN [seat[s] EXCEPT !.status = "AVAILABLE", !.ticket = None]
       ELSE seat[s]]
  /\ tripStatus' = IF tx[w].full THEN "OPEN" ELSE tripStatus
  /\ cancelled' = [cancelled EXCEPT ![tx[w].key] = b]
  /\ End(w)
  /\ UNCHANGED <<manifest, tripKeys>>

TripCancelBegin(w, k) ==
  /\ k \notin tripKeys
  /\ tripStatus \notin {"CANCELLED", "COMPLETED", "DELETED"}
  /\ BeginLocked(w, [Idle EXCEPT !.pc = "tripCancel", !.key = k])

\* Ends every CONFIRMED booking and blocks every seat; ticketId stays on them.
TripCancelCommit(w) ==
  /\ tx[w].pc = "tripCancel"
  /\ tripStatus # "DELETED"
  /\ \E fee \in Fees : EndBookings(SoldBookings, fee)
  /\ seat' = [s \in Seats |->
       IF s \in Existing
       THEN [Freed(seat[s]) EXCEPT !.status = "BLOCKED"]
       ELSE seat[s]]
  /\ tripStatus' = "CANCELLED"
  /\ tripKeys' = tripKeys \cup {tx[w].key}
  /\ End(w)
  /\ UNCHANGED <<manifest, cancelled>>

\* An idempotency record is 24 hours old: the next request with its key starts anew.
KeyExpires(k) ==
  /\ \/ /\ cancelled[k] # None
        /\ cancelled' = [cancelled EXCEPT ![k] = None]
        /\ UNCHANGED tripKeys
     \/ /\ k \in tripKeys
        /\ tripKeys' = tripKeys \ {k}
        /\ UNCHANGED cancelled
  /\ UNCHANGED <<tripStatus, manifest, seat, booking, ticket, payment, commission,
                 outbox, tripLock, tx>>

-----------------------------------------------------------------------------
(* TripsService.update and remove *)

\* PATCH takes no trip lock: a new price goes to the AVAILABLE seats, a new
\* status is written whatever the old one was.
TripUpdate ==
  /\ tripStatus # "DELETED"
  /\ \E status \in PatchStatuses \cup {tripStatus} : tripStatus' = status
  /\ \/ UNCHANGED seat
     \/ \E p \in Prices :
          /\ \A s \in Seats : seat[s].status = "AVAILABLE" => ~RowLocked(s)
          /\ seat' = [s \in Seats |-> IF seat[s].status = "AVAILABLE"
                                      THEN [seat[s] EXCEPT !.price = p]
                                      ELSE seat[s]]
  /\ UNCHANGED <<manifest, booking, ticket, payment, commission, outbox,
                 cancelled, tripKeys, tripLock, tx>>

\* The foreign keys of bookings and manifests refuse to lose their trip; the
\* seats go with it, so their row locks are waited for.
TripRemove ==
  /\ tripStatus # "DELETED"
  /\ \A b \in Bookings : booking[b].status = "NONE"
  /\ manifest.version = 0
  /\ \A s \in Seats : ~RowLocked(s)
  /\ tripStatus' = "DELETED"
  /\ seat' = [s \in Seats |-> [Freed(seat[s]) EXCEPT !.status = "MISSING", !.ticket = None]]
  /\ UNCHANGED <<manifest, booking, ticket, payment, commission, outbox,
                 cancelled, tripKeys, tripLock, tx>>

-----------------------------------------------------------------------------
(* ManifestsService.generate and lock *)

\* generate looks for the row...
GenerateRead(w) ==
  /\ tripStatus # "DELETED"
  /\ Begin(w, [Idle EXCEPT !.pc = "generate", !.full = (manifest.version > 0)])

\* ... and updates what it found, or creates version 1 (tripId is unique and
\* references the trip).
GenerateWrite(w) ==
  /\ tx[w].pc = "generate"
  /\ manifest.version < MaxVersion
  /\ \/ tx[w].full
     \/ manifest.version = 0 /\ tripStatus # "DELETED"
  /\ manifest' = [manifest EXCEPT !.version = @ + 1]
  /\ End(w)
  /\ UNCHANGED <<tripStatus, seat, booking, ticket, payment, commission,
                 outbox, cancelled, tripKeys>>

DepartBegin(w) ==
  /\ manifest.version > 0 /\ ~manifest.locked
  /\ tripStatus \notin {"CANCELLED", "COMPLETED", "DEPARTED"}
  /\ BeginLocked(w, [Idle EXCEPT !.pc = "depart"])

DepartCommit(w) ==
  /\ tx[w].pc = "depart"
  /\ manifest' = [manifest EXCEPT !.locked = TRUE]
  /\ tripStatus' = "DEPARTED"
  /\ End(w)
  /\ UNCHANGED <<seat, booking, ticket, payment, commission, outbox,
                 cancelled, tripKeys>>

-----------------------------------------------------------------------------
(* TicketsService.checkIn *)

\* The ticket is read, then updated by its id alone.
CheckInRead(w, b, s) ==
  /\ ticket[b][s] = "BOOKED"
  /\ Begin(w, [Idle EXCEPT !.pc = "checkIn", !.booking = b, !.seats = {s}])

CheckInWrite(w) ==
  LET b == tx[w].booking IN
  /\ tx[w].pc = "checkIn"
  /\ ticket' = [ticket EXCEPT ![b] =
       [s \in Seats |-> IF s \in tx[w].seats THEN "CHECKED_IN" ELSE ticket[b][s]]]
  /\ End(w)
  /\ UNCHANGED <<tripStatus, manifest, seat, booking, payment, commission,
                 outbox, cancelled, tripKeys>>

-----------------------------------------------------------------------------

\* Mutation of Abort: the idempotency record outlives the rollback.
AbortAfterRecord(w) ==
  /\ tx[w] # Idle
  /\ End(w)
  /\ cancelled' = IF tx[w].pc = "cancel"
                  THEN [cancelled EXCEPT ![tx[w].key] = tx[w].booking]
                  ELSE cancelled
  /\ UNCHANGED <<tripStatus, manifest, seat, booking, ticket, payment, commission,
                 outbox, tripKeys>>

\* An exception, the 30 s transaction timeout, a lost process or a deadlock
\* victim: PostgreSQL rolls the request back.
Abort(w) ==
  /\ tx[w] # Idle
  /\ End(w)
  /\ UNCHANGED rows

Booking(w) ==
  \/ \E u \in Users, b \in Bookings, S \in SUBSET Seats : BookingBegin(w, u, b, S)
  \/ BookingPrice(w)
  \/ BookingClaim(w)
  \/ BookingCommit(w)

Hold(w) == (\E u \in Users, s \in Seats : HoldRead(w, u, s)) \/ HoldWrite(w)
Cancel(w) == (\E b \in Bookings, k \in Keys : CancelBegin(w, b, k)) \/ CancelCommit(w)
TripCancel(w) == (\E k \in Keys : TripCancelBegin(w, k)) \/ TripCancelCommit(w)
Generate(w) == GenerateRead(w) \/ GenerateWrite(w)
Depart(w) == DepartBegin(w) \/ DepartCommit(w)
CheckIn(w) == (\E b \in Bookings, s \in Seats : CheckInRead(w, b, s)) \/ CheckInWrite(w)

Next ==
  \/ \E w \in Workers :
       Hold(w) \/ Booking(w) \/ Cancel(w) \/ TripCancel(w)
         \/ Generate(w) \/ Depart(w) \/ CheckIn(w) \/ Abort(w)
  \/ \E u \in Users, s \in Seats : Release(u, s)
  \/ \E s \in Seats : HoldExpires(s)
  \/ \E k \in Keys : KeyExpires(k)
  \/ SeatMap \/ TripUpdate \/ TripRemove

Spec == Init /\ [][Next]_vars

\* A request in progress goes on or is rolled back: the transaction timeout of
\* PrismaService ends what does not.  The open seat map of the web client polls
\* every 15 seconds; its sweep, when it meets a row lock, queues for the row and
\* goes on once the lock is free: strong fairness.  Users and clocks owe nothing.
Proceed(w) ==
  \/ HoldWrite(w) \/ BookingPrice(w) \/ BookingClaim(w) \/ BookingCommit(w)
  \/ CancelCommit(w) \/ TripCancelCommit(w) \/ GenerateWrite(w)
  \/ DepartCommit(w) \/ CheckInWrite(w) \/ Abort(w)

FairSpec ==
  /\ Spec
  /\ \A w \in Workers : WF_vars(Proceed(w))
  /\ SF_vars(SeatMap)

-----------------------------------------------------------------------------
(* Safety *)

\* A seat is sold once: a BOOKED row carries the ticket of a CONFIRMED booking,
\* and every seat a CONFIRMED booking has a ticket for is BOOKED with it, so two
\* CONFIRMED bookings never share a seat.  The claim, the cancellation and the
\* trip cancellation each rewrite seats and bookings at a different moment.
SeatSoldOnce ==
  /\ \A s \in Seats : seat[s].status = "BOOKED" =>
       \E b \in SoldBookings : seat[s].ticket = b /\ s \in TicketsOf(b)
  /\ \A b \in SoldBookings : \A s \in TicketsOf(b) :
       seat[s].status = "BOOKED" /\ seat[s].ticket = b

\* A trip that is CANCELLED has no CONFIRMED booking left, whatever sales, holds
\* or PATCHes overlapped TripsService.cancel.
CancelledTripHasNoSale == tripStatus = "CANCELLED" => SoldBookings = {}

\* Money, commissions, tickets and accounting events follow the booking: one
\* refund at most and only when it ended, never above the payment, a REFUNDED
\* booking is one that got money back, a commission is due only while CONFIRMED.
BooksAgree ==
  \A b \in Bookings :
    LET p == payment[b] IN
    /\ p.refunded \in 0 .. p.amount
    /\ booking[b].status = "REFUNDED" <=> p.refunded > 0
    /\ p.refunded > 0 <=> <<"REFUND_COMPLETED", b>> \in outbox
    /\ p.amount > 0 <=> <<"PAYMENT_RECEIVED", b>> \in outbox
    /\ p.amount > 0 <=> booking[b].status # "NONE"
    /\ commission[b] = "DUE" => booking[b].status = "CONFIRMED"
    /\ commission[b] = "REVERSED" => booking[b].status \in EndStatuses

\* A cancellation that a key answers for took place: the replay of a completed
\* bookings.cancel never returns a booking that is still CONFIRMED.
ReplayedCancelHappened ==
  \A k \in Keys : cancelled[k] # None => booking[cancelled[k]].status \in EndStatuses

\* A live hold is respected: until it expires, is released or the trip goes, the
\* seat is sold to its holder or to nobody, and nobody takes the hold over.
HoldRespected ==
  [][\A s \in Seats :
       /\ seat[s].status = "HELD" /\ ~seat[s].expired
       /\ seat'[s].status \in {"HELD", "BOOKED"}
       => IF seat'[s].status = "HELD"
          THEN seat'[s].heldBy = seat[s].heldBy
          ELSE booking'[seat'[s].ticket].by = seat[s].heldBy]_vars

\* A booking ends once: what CANCELLED or REFUNDED left is final, money included,
\* so a second cancellation, of the booking or of its trip, pays nothing more.
BookingEndsOnce ==
  [][\A b \in Bookings :
       /\ booking[b].status \in EndStatuses
            => booking'[b] = booking[b] /\ payment'[b] = payment[b]
       /\ booking[b].status = "CONFIRMED"
            => booking'[b].status # "NONE" /\ payment'[b].amount = payment[b].amount]_vars

SoldSeats == {s \in Seats : seat[s].status = "BOOKED"}

\* Whoever holds the lock of the trip is alone with it: between the reads of a
\* request that sells, cancels or departs and its commit no booking begins or ends,
\* no money moves, no seat is sold or returned, the manifest is not locked and the
\* trip not cancelled (transaction-locks.ts).  Only PATCH and DELETE, which take no
\* lock, change the status under it.
TripHeldStill ==
  [][\A w \in Workers : tx[w].pc \in LockedPoints /\ tx'[w].pc \in LockedPoints =>
       /\ UNCHANGED <<booking, payment>>
       /\ SoldSeats' = SoldSeats
       /\ manifest'.locked = manifest.locked
       /\ tripStatus' # tripStatus => tripStatus' \in PatchStatuses \cup {"DELETED"}]_vars

\* A booking, or the cancellation of one, between its first look at the trip and
\* its commit.
SaleUnderWay == \E w \in Workers : tx[w].pc \in {"book", "priced", "claimed", "cancel"}

\* The manifest is locked between sales, never during one (ManifestsService.lock);
\* and where none is under way on a DEPARTED trip, as it is then, none begins and no
\* seat is sold or returned until a PATCH or a trip cancellation ends that status.
SalesFrozenAfterDeparture ==
  [][/\ ~manifest.locked /\ manifest'.locked => ~SaleUnderWay'
     /\ tripStatus = "DEPARTED" /\ tripStatus' = "DEPARTED" /\ ~SaleUnderWay =>
          ~SaleUnderWay' /\ SoldSeats' = SoldSeats]_vars

\* A booking is confirmed only on a trip that is, at that moment, SCHEDULED or OPEN:
\* not cancelled, departed or completed while it was made (TEST_STRATEGY.md:27).
SaleOnlyWhileOpen ==
  [][\A b \in Bookings : booking[b].status = "NONE" /\ booking'[b].status = "CONFIRMED"
       => tripStatus \in Bookable]_vars

\* The ticket of a booking that was cancelled or refunded does not board.
EndedTicketNeverBoards ==
  \A b \in Bookings : booking[b].status \in EndStatuses =>
    \A s \in TicketsOf(b) : ticket[b][s] \in EndStatuses

-----------------------------------------------------------------------------
(* Why the safety properties hold: the inductive invariant of TripSalesProofs *)

\* The advisory lock admits one request to the steps it protects.
LockInv == \A w \in Workers : tx[w].pc \in LockedPoints <=> tripLock = w

\* What a request read stays true until it commits: under the lock nobody else
\* creates the booking, ends it or cancels the trip; rows it updated stay as they
\* were; the ticket being checked in does not go away.
RequestOK(w) ==
  LET b == tx[w].booking IN
  /\ tx[w].pc = "hold" => tx[w].user \in Users /\ \E s \in Seats : tx[w].seats = {s}
  /\ tx[w].pc \in {"book", "priced", "claimed"} =>
       /\ tx[w].user \in Users /\ b \in Bookings
       /\ booking[b].status = "NONE"
       /\ tripStatus # "CANCELLED"
  /\ tx[w].pc = "claimed" =>
       \A s \in tx[w].seats : seat[s].status \in {"AVAILABLE", "HELD"}
  /\ tx[w].pc \in {"cancel", "tripCancel"} => tx[w].key \in Keys
  /\ tx[w].pc = "cancel" => b \in SoldBookings
  /\ tx[w].pc = "checkIn" =>
       /\ b \in Bookings /\ booking[b].status # "NONE"
       /\ tx[w].seats \subseteq TicketsOf(b)

RequestInv == \A w \in Workers : RequestOK(w)

TicketInv == \A b \in Bookings : booking[b].status = "NONE" => TicketsOf(b) = {}

\* The hold that a claim took over is the claimer's own.
HoldInv ==
  \A w \in Workers : tx[w].pc = "claimed" =>
    \A s \in tx[w].seats : seat[s].status = "HELD" => seat[s].heldBy = tx[w].user

\* What a claim charges: a price for each of its seats.
FareInv ==
  \A w \in Workers : tx[w].pc \in {"priced", "claimed"} =>
    \A s \in tx[w].seats : tx[w].fare[s] \in Prices

PaymentInv == payment \in [Bookings -> [amount : Nat, refunded : Nat]]

\* Neither seats nor sales are left of a deleted trip.
RemovedInv == tripStatus = "DELETED" => Existing = {} /\ SoldBookings = {}

\* A trip stays as the requests under its lock found it, or becomes what PATCH makes
\* of it; it may be deleted before they have claimed a seat.
StatusOK(w) ==
  /\ tx[w].pc \in {"book", "priced", "claimed"} => tx[w].seats # {}
  /\ tx[w].pc \in {"book", "priced"} => tripStatus \in Bookable \cup PatchStatuses \cup {"DELETED"}
  /\ tx[w].pc = "claimed" => tripStatus \in Bookable \cup PatchStatuses
  /\ tx[w].pc = "cancel" => tripStatus \notin {"DEPARTED", "COMPLETED"} \ PatchStatuses

StatusInv == \A w \in Workers : StatusOK(w)

IInv ==
  /\ TypeOK
  /\ LockInv
  /\ RequestInv
  /\ TicketInv
  /\ HoldInv
  /\ FareInv
  /\ PaymentInv
  /\ BooksAgree
  /\ RemovedInv
  /\ StatusInv
  /\ SeatSoldOnce
  /\ CancelledTripHasNoSale
  /\ ReplayedCancelHappened

-----------------------------------------------------------------------------
(* The abstract specification *)

InventoryOf(s) ==
  CASE seat[s].status = "MISSING"   -> "ABSENT"
    [] seat[s].status = "AVAILABLE" -> "FREE"
    [] seat[s].status = "HELD"      -> "HELD"
    [] seat[s].status = "BLOCKED"   -> "CLOSED"
    [] seat[s].status = "BOOKED"    -> seat[s].ticket

Inventory == INSTANCE SeatInventory WITH
  inventory <- [s \in Seats |-> InventoryOf(s)],
  sold <- {b \in Bookings : booking[b].status # "NONE"}

\* Sales and refunds are atomic for whoever looks at the seats: the handlers,
\* whatever they overlap with, implement SeatInventory.
ImplementsInventory == Inventory!Spec

-----------------------------------------------------------------------------
(* Liveness *)

\* The hold of a customer who went away does not keep the seat for ever.
ExpiredHoldEnds ==
  \A s \in Seats : (seat[s].status = "HELD" /\ seat[s].expired)
                    ~> ~(seat[s].status = "HELD" /\ seat[s].expired)
==============================================================================
