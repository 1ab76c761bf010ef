--------------------------- MODULE TripSalesProofs ---------------------------
EXTENDS TripSales, Sums, TLAPS

USE NoneIsNothing, PatchNeverCancels, VersionBound, PricesArePositive, BusIsFinite,
    FeesArePercentages

LEMMA IdleIsRequest == Idle \in Request
BY DEF Idle, Request, Points, LockedPoints

LEMMA InitInv == Init => IInv
<1> SUFFICES ASSUME Init PROVE IInv
  OBVIOUS
<1>1. TypeOK
  BY IdleIsRequest DEF Init, TypeOK, TripStatuses, Bookable, SeatRow, SeatStatuses, TicketStatuses
<1>2. LockInv
  BY DEF Init, LockInv, LockedPoints, Idle
<1>3. RequestInv
  BY DEF Init, RequestInv, RequestOK, Idle
<1>4. TicketInv /\ SeatSoldOnce /\ CancelledTripHasNoSale
  BY DEF Init, TicketInv, TicketsOf, SeatSoldOnce, SoldBookings, CancelledTripHasNoSale
<1>5. HoldInv /\ PaymentInv /\ ReplayedCancelHappened
  BY DEF Init, HoldInv, PaymentInv, ReplayedCancelHappened, Idle
<1>6. RemovedInv /\ StatusInv
  BY DEF Init, RemovedInv, StatusInv, StatusOK, Idle
<1>7. FareInv /\ BooksAgree
  BY DEF Init, FareInv, BooksAgree, Idle, EndStatuses
<1> QED BY <1>1, <1>2, <1>3, <1>4, <1>5, <1>6, <1>7 DEF IInv

\* The steps of a request that write no row, and every step by what it writes.
Reads(w) ==
  \/ \E u \in Users, s \in Seats : HoldRead(w, u, s)
  \/ \E u \in Users, b \in Bookings, S \in SUBSET Seats : BookingBegin(w, u, b, S)
  \/ BookingPrice(w) \/ BookingClaim(w)
  \/ \E b \in Bookings, k \in Keys : CancelBegin(w, b, k)
  \/ \E k \in Keys : TripCancelBegin(w, k)
  \/ GenerateRead(w) \/ DepartBegin(w)
  \/ \E b \in Bookings, s \in Seats : CheckInRead(w, b, s)
  \/ Abort(w)

LEMMA NextCases ==
  ASSUME [Next]_vars
  PROVE  \/ \E w \in Workers : Reads(w) /\ UNCHANGED rows
         \/ \E w \in Workers : HoldWrite(w)
         \/ \E w \in Workers : BookingCommit(w)
         \/ \E w \in Workers : CancelCommit(w)
         \/ \E w \in Workers : TripCancelCommit(w)
         \/ \E w \in Workers : GenerateWrite(w)
         \/ \E w \in Workers : DepartCommit(w)
         \/ \E w \in Workers : CheckInWrite(w)
         \/ \E u \in Users, s \in Seats : Release(u, s)
         \/ \E s \in Seats : HoldExpires(s)
         \/ \E k \in Keys : KeyExpires(k)
         \/ SeatMap
         \/ TripUpdate
         \/ TripRemove
         \/ UNCHANGED vars
<1>1. ASSUME NEW w \in Workers, Reads(w) PROVE UNCHANGED rows
  BY <1>1 DEF Reads, HoldRead, BookingBegin, BookingPrice, BookingClaim, CancelBegin,
              TripCancelBegin, GenerateRead, DepartBegin, CheckInRead, Abort,
              Begin, BeginLocked
<1>2. ASSUME NEW w \in Workers,
             \/ Hold(w) \/ Booking(w) \/ Cancel(w) \/ TripCancel(w)
             \/ Generate(w) \/ Depart(w) \/ CheckIn(w) \/ Abort(w)
      PROVE  \/ Reads(w) \/ HoldWrite(w) \/ BookingCommit(w) \/ CancelCommit(w)
             \/ TripCancelCommit(w) \/ GenerateWrite(w) \/ DepartCommit(w) \/ CheckInWrite(w)
  BY <1>2, ZenonT(30)
  DEF Reads, Hold, Booking, Cancel, TripCancel, Generate, Depart, CheckIn
<1> QED BY <1>1, <1>2, ZenonT(30) DEF Next

\* Each request in progress keeps its type.
LEMMA TxType ==
  ASSUME TypeOK, RequestInv, [Next]_vars
  PROVE  /\ tx' \in [Workers -> Request]
         /\ tripLock' \in Workers \cup {None}
<1>1. ASSUME NEW w \in Workers, NEW r \in Request, Begin(w, r) \/ BeginLocked(w, r)
      PROVE  tx' \in [Workers -> Request] /\ tripLock' \in Workers \cup {None}
  BY <1>1 DEF TypeOK, Begin, BeginLocked
<1>2. ASSUME NEW w \in Workers, End(w)
      PROVE  tx' \in [Workers -> Request] /\ tripLock' \in Workers \cup {None}
  BY <1>2, IdleIsRequest DEF TypeOK, End
<1>3. ASSUME NEW w \in Workers, Hold(w)
      PROVE  tx' \in [Workers -> Request] /\ tripLock' \in Workers \cup {None}
  <2>1. ASSUME NEW u \in Users, NEW s \in Seats, HoldRead(w, u, s)
        PROVE  [Idle EXCEPT !.pc = "hold", !.user = u, !.seats = {s},
                            !.stale = ExpiredHolds] \in Request
    BY IdleIsRequest DEF Request, Points, ExpiredHolds, Idle
  <2> QED BY <1>3, <2>1, <1>1, <1>2 DEF Hold, HoldRead, HoldWrite
<1>4. ASSUME NEW w \in Workers, Booking(w)
      PROVE  tx' \in [Workers -> Request] /\ tripLock' \in Workers \cup {None}
  <2>1. ASSUME NEW u \in Users, NEW b \in Bookings, NEW S \in SUBSET Seats
        PROVE  [Idle EXCEPT !.pc = "book", !.user = u, !.booking = b, !.seats = S] \in Request
    BY IdleIsRequest DEF Request, Points, LockedPoints, Idle
  <2>2. CASE BookingPrice(w)
    <3> DEFINE fare == [s \in Seats |-> IF s \in tx[w].seats THEN seat[s].price ELSE 0]
    <3>1. fare \in [Seats -> Prices \cup {0}]
      BY DEF TypeOK, SeatRow
    <3> HIDE DEF fare
    <3>2. tx[w] \in Request /\ ExpiredHolds \in SUBSET Seats
      BY DEF TypeOK, ExpiredHolds
    <3>3. [tx[w] EXCEPT !.pc = "priced", !.stale = ExpiredHolds, !.fare = fare] \in Request
      BY <3>1, <3>2 DEF Request, Points, LockedPoints
    <3> QED BY <2>2, <3>3 DEF BookingPrice, TypeOK, fare
  <2>3. CASE BookingClaim(w)
    <3> DEFINE full == \A s \in Seats \ tx[w].seats : seat[s].status # "AVAILABLE"
    <3>1. tx[w] \in Request /\ full \in BOOLEAN
      BY DEF TypeOK
    <3> HIDE DEF full
    <3>2. [tx[w] EXCEPT !.pc = "claimed", !.full = full] \in Request
      BY <3>1 DEF Request, Points, LockedPoints
    <3> QED BY <2>3, <3>2 DEF BookingClaim, TypeOK, full
  <2> QED BY <1>4, <2>1, <2>2, <2>3, <1>1, <1>2 DEF Booking, BookingBegin, BookingCommit
<1>5. ASSUME NEW w \in Workers, Cancel(w)
      PROVE  tx' \in [Workers -> Request] /\ tripLock' \in Workers \cup {None}
  <2>1. ASSUME NEW b \in Bookings, NEW k \in Keys
        PROVE  [Idle EXCEPT !.pc = "cancel", !.booking = b, !.key = k,
                            !.full = (tripStatus = "FULL")] \in Request
    BY IdleIsRequest DEF Request, Points, LockedPoints, Idle
  <2> QED BY <1>5, <2>1, <1>1, <1>2 DEF Cancel, CancelBegin, CancelCommit
<1>6. ASSUME NEW w \in Workers, TripCancel(w)
      PROVE  tx' \in [Workers -> Request] /\ tripLock' \in Workers \cup {None}
  <2>1. ASSUME NEW k \in Keys
        PROVE  [Idle EXCEPT !.pc = "tripCancel", !.key = k] \in Request
    BY IdleIsRequest DEF Request, Points, LockedPoints, Idle
  <2> QED BY <1>6, <2>1, <1>1, <1>2 DEF TripCancel, TripCancelBegin, TripCancelCommit
<1>7. ASSUME NEW w \in Workers, Generate(w) \/ Depart(w)
      PROVE  tx' \in [Workers -> Request] /\ tripLock' \in Workers \cup {None}
  <2>1. [Idle EXCEPT !.pc = "generate", !.full = (manifest.version > 0)] \in Request
    <3> DEFINE found == manifest.version > 0
    <3>1. found \in BOOLEAN
      OBVIOUS
    <3> HIDE DEF found
    <3>2. [Idle EXCEPT !.pc = "generate", !.full = found] \in Request
      BY <3>1, IdleIsRequest DEF Request, Points, LockedPoints, Idle
    <3> QED BY <3>2 DEF found
  <2>2. [Idle EXCEPT !.pc = "depart"] \in Request
    BY IdleIsRequest DEF Request, Points, LockedPoints, Idle
  <2>3. CASE GenerateRead(w)
    BY <2>1, <2>3, <1>1 DEF GenerateRead
  <2>4. CASE DepartBegin(w)
    BY <2>2, <2>4, <1>1 DEF DepartBegin
  <2>5. CASE GenerateWrite(w) \/ DepartCommit(w)
    BY <2>5, <1>2 DEF GenerateWrite, DepartCommit
  <2> QED BY <1>7, <2>3, <2>4, <2>5 DEF Generate, Depart
<1>8. ASSUME NEW w \in Workers, CheckIn(w)
      PROVE  tx' \in [Workers -> Request] /\ tripLock' \in Workers \cup {None}
  <2>1. ASSUME NEW b \in Bookings, NEW s \in Seats
        PROVE  [Idle EXCEPT !.pc = "checkIn", !.booking = b, !.seats = {s}] \in Request
    BY IdleIsRequest DEF Request, Points, LockedPoints, Idle
  <2> QED BY <1>8, <2>1, <1>1, <1>2 DEF CheckIn, CheckInRead, CheckInWrite
<1>9. CASE UNCHANGED <<tripLock, tx>>
  BY <1>9 DEF TypeOK
<1> QED BY <1>2, <1>3, <1>4, <1>5, <1>6, <1>7, <1>8, <1>9
        DEF Next, vars, Abort, Release, HoldExpires, KeyExpires, SeatMap, TripUpdate, TripRemove

\* Freeing a seat row leaves a seat row.
LEMMA FreedIsRow ==
  ASSUME NEW row \in SeatRow
  PROVE  Freed(row) \in SeatRow
BY DEF Freed, SeatRow, SeatStatuses

\* The seat rows keep their type.
LEMMA SeatType ==
  ASSUME TypeOK, RequestInv, [Next]_vars
  PROVE  seat' \in [Seats -> SeatRow]
<1>1. seat \in [Seats -> SeatRow]
  BY DEF TypeOK
<1>2. ASSUME NEW s \in Seats
      PROVE  Freed(seat[s]) \in SeatRow
  BY <1>1, FreedIsRow
<1>3. ASSUME NEW w \in Workers, HoldWrite(w)
      PROVE  seat' \in [Seats -> SeatRow]
  <2>1. tx[w].user \in Users
    BY <1>3 DEF HoldWrite, RequestInv, RequestOK
  <2>2. ASSUME NEW s \in Seats
        PROVE  [seat[s] EXCEPT !.status = "HELD", !.heldBy = tx[w].user,
                               !.expired = FALSE] \in SeatRow
    <3>1. seat[s] \in SeatRow /\ "HELD" \in SeatStatuses
      BY <1>1 DEF SeatStatuses
    <3> QED BY <2>1, <3>1, Zenon DEF SeatRow
  <2> QED BY <1>3, <1>1, <2>2 DEF HoldWrite
<1>4. ASSUME NEW w \in Workers, BookingCommit(w)
      PROVE  seat' \in [Seats -> SeatRow]
  <2>1. tx[w].booking \in Bookings
    BY <1>4 DEF BookingCommit, RequestInv, RequestOK
  <2>2. ASSUME NEW s \in Seats
        PROVE  [Freed(seat[s]) EXCEPT !.status = "BOOKED", !.ticket = tx[w].booking] \in SeatRow
    BY <1>2, <2>1 DEF SeatRow, SeatStatuses
  <2> QED BY <1>4, <1>1, <2>2 DEF BookingCommit
<1>5. ASSUME NEW w \in Workers, CancelCommit(w)
      PROVE  seat' \in [Seats -> SeatRow]
  <2>1. ASSUME NEW s \in Seats
        PROVE  [seat[s] EXCEPT !.status = "AVAILABLE", !.ticket = None] \in SeatRow
    BY <1>1 DEF SeatRow, SeatStatuses
  <2> QED BY <1>5, <1>1, <2>1 DEF CancelCommit
<1>6. ASSUME NEW w \in Workers, TripCancelCommit(w)
      PROVE  seat' \in [Seats -> SeatRow]
  <2>1. ASSUME NEW s \in Seats
        PROVE  [Freed(seat[s]) EXCEPT !.status = "BLOCKED"] \in SeatRow
    BY <1>2 DEF SeatRow, SeatStatuses
  <2> QED BY <1>6, <1>1, <2>1 DEF TripCancelCommit
<1>7. ASSUME NEW s \in Seats, HoldExpires(s) \/ \E u \in Users : Release(u, s)
      PROVE  seat' \in [Seats -> SeatRow]
  <2>1. [seat[s] EXCEPT !.expired = TRUE] \in SeatRow
    <3>1. seat[s] \in SeatRow
      BY <1>1
    <3> QED BY <3>1, Zenon DEF SeatRow
  <2> QED BY <1>7, <1>1, <1>2, <2>1 DEF Release, HoldExpires
<1>8. CASE SeatMap
  <2>1. PICK copied \in SUBSET (Seats \ Existing), fallback \in FallbackPrices :
          /\ fallback = None => copied = {}
          /\ seat' = [s \in Seats |->
               IF s \in ExpiredHolds THEN Freed(seat[s])
               ELSE IF s \in copied
                    THEN [seat[s] EXCEPT !.status = "AVAILABLE", !.price = fallback]
                    ELSE seat[s]]
    BY <1>8 DEF SeatMap
  <2>2. ASSUME copied # {} PROVE fallback \in Prices
    <3>1. fallback \in {seat[s].price : s \in Existing}
      BY <2>1, <2>2 DEF FallbackPrices
    <3>2. PICK s \in Existing : fallback = seat[s].price
      BY <3>1
    <3> QED BY <3>2, <1>1 DEF Existing, SeatRow
  <2>3. ASSUME NEW s \in Seats, s \in copied
        PROVE  [seat[s] EXCEPT !.status = "AVAILABLE", !.price = fallback] \in SeatRow
    <3>1. seat[s] \in SeatRow /\ fallback \in Prices /\ "AVAILABLE" \in SeatStatuses
      BY <1>1, <2>2, <2>3 DEF SeatStatuses
    <3> QED BY <3>1, Zenon DEF SeatRow
  <2> QED BY <2>1, <2>3, <1>1, <1>2
<1>9. CASE TripUpdate
  <2>1. ASSUME NEW s \in Seats, NEW p \in Prices
        PROVE  [seat[s] EXCEPT !.price = p] \in SeatRow
    BY <1>1 DEF SeatRow
  <2> QED BY <1>9, <1>1, <2>1 DEF TripUpdate
<1>10. CASE TripRemove
  <2>1. ASSUME NEW s \in Seats
        PROVE  [Freed(seat[s]) EXCEPT !.status = "MISSING", !.ticket = None] \in SeatRow
    BY <1>2 DEF SeatRow, SeatStatuses
  <2> QED BY <1>10, <1>1, <2>1 DEF TripRemove
<1>11. CASE UNCHANGED seat
  BY <1>11, <1>1
<1>12. CASE \E w \in Workers : GenerateWrite(w) \/ DepartCommit(w) \/ CheckInWrite(w)
  BY <1>12, <1>11 DEF GenerateWrite, DepartCommit, CheckInWrite
<1>13. CASE \E k \in Keys : KeyExpires(k)
  BY <1>13, <1>11 DEF KeyExpires
<1>14. CASE UNCHANGED rows \/ UNCHANGED vars
  BY <1>14, <1>11 DEF rows, vars
<1> QED
  BY <1>3, <1>4, <1>5, <1>6, <1>7, <1>8, <1>9, <1>10, <1>12, <1>13, <1>14, NextCases

\* Ending bookings changes the status of those bookings alone, and no ticket
\* row appears or goes.
LEMMA EndBookingsEffect ==
  ASSUME TypeOK, NEW bs \in SUBSET Bookings, NEW fee, EndBookings(bs, fee)
  PROVE  /\ booking' \in [Bookings -> [status : {"NONE", "CONFIRMED"} \cup EndStatuses,
                                       by     : Users \cup {None}]]
         /\ ticket' \in [Bookings -> [Seats -> TicketStatuses]]
         /\ commission' \in [Bookings -> {"NONE", "DUE", "REVERSED"}]
         /\ outbox' \subseteq {"PAYMENT_RECEIVED", "REFUND_COMPLETED"} \X Bookings
         /\ \A b \in bs : booking'[b].status \in EndStatuses
         /\ \A b \in Bookings \ bs : booking'[b] = booking[b]
         /\ \A b \in Bookings : TicketsOf(b)' = TicketsOf(b)
<1> DEFINE ended(b) == IF RefundDue(b, fee) > 0 THEN "REFUNDED" ELSE "CANCELLED"
<1>1. ASSUME NEW b PROVE ended(b) \in EndStatuses
  BY DEF EndStatuses
<1>2. /\ outbox' = outbox \cup
           {<<"REFUND_COMPLETED", b>> : b \in {c \in bs : RefundDue(c, fee) > 0}}
      /\ ticket' = [b \in Bookings |-> [s \in Seats |->
           IF b \in bs /\ s \in TicketsOf(b) THEN ended(b) ELSE ticket[b][s]]]
      /\ commission' = [b \in Bookings |->
           IF b \in bs /\ commission[b] = "DUE" THEN "REVERSED" ELSE commission[b]]
      /\ booking' = [b \in Bookings |->
           IF b \in bs THEN [booking[b] EXCEPT !.status = ended(b)] ELSE booking[b]]
  BY DEF EndBookings
<1> HIDE DEF ended
<1>3. /\ booking' \in [Bookings -> [status : {"NONE", "CONFIRMED"} \cup EndStatuses,
                                    by     : Users \cup {None}]]
      /\ \A b \in bs : booking'[b].status \in EndStatuses
      /\ \A b \in Bookings \ bs : booking'[b] = booking[b]
  <2>1. booking \in [Bookings -> [status : {"NONE", "CONFIRMED"} \cup EndStatuses,
                                  by     : Users \cup {None}]]
    BY DEF TypeOK
  <2> QED BY <1>1, <1>2, <2>1
<1>4. ticket \in [Bookings -> [Seats -> TicketStatuses]]
  BY DEF TypeOK
<1>5. ticket' \in [Bookings -> [Seats -> TicketStatuses]]
  BY <1>1, <1>2, <1>4 DEF TicketStatuses
<1>6. \A b \in Bookings : TicketsOf(b)' = TicketsOf(b)
  BY <1>1, <1>2, <1>4 DEF TicketsOf, EndStatuses
<1>7. commission' \in [Bookings -> {"NONE", "DUE", "REVERSED"}]
  BY <1>2 DEF TypeOK
<1>8. outbox' \subseteq {"PAYMENT_RECEIVED", "REFUND_COMPLETED"} \X Bookings
  <2>1. outbox \subseteq {"PAYMENT_RECEIVED", "REFUND_COMPLETED"} \X Bookings
    BY DEF TypeOK
  <2>2. {<<"REFUND_COMPLETED", b>> : b \in {c \in bs : RefundDue(c, fee) > 0}}
          \subseteq {"PAYMENT_RECEIVED", "REFUND_COMPLETED"} \X Bookings
    OBVIOUS
  <2> QED BY <1>2, <2>1, <2>2
<1> QED BY <1>3, <1>5, <1>6, <1>7, <1>8

\* The other rows keep their types.
LEMMA RowType ==
  ASSUME TypeOK, RequestInv, [Next]_vars
  PROVE  /\ tripStatus' \in TripStatuses
         /\ manifest' \in [version : 0 .. MaxVersion, locked : BOOLEAN]
         /\ booking' \in [Bookings -> [status : {"NONE", "CONFIRMED"} \cup EndStatuses,
                                       by     : Users \cup {None}]]
         /\ ticket' \in [Bookings -> [Seats -> TicketStatuses]]
         /\ commission' \in [Bookings -> {"NONE", "DUE", "REVERSED"}]
         /\ outbox' \subseteq {"PAYMENT_RECEIVED", "REFUND_COMPLETED"} \X Bookings
         /\ cancelled' \in [Keys -> Bookings \cup {None}]
         /\ tripKeys' \subseteq Keys
<1> DEFINE RowsOK ==
      /\ tripStatus \in TripStatuses
      /\ manifest \in [version : 0 .. MaxVersion, locked : BOOLEAN]
      /\ booking \in [Bookings -> [status : {"NONE", "CONFIRMED"} \cup EndStatuses,
                                   by     : Users \cup {None}]]
      /\ ticket \in [Bookings -> [Seats -> TicketStatuses]]
      /\ commission \in [Bookings -> {"NONE", "DUE", "REVERSED"}]
      /\ outbox \subseteq {"PAYMENT_RECEIVED", "REFUND_COMPLETED"} \X Bookings
      /\ cancelled \in [Keys -> Bookings \cup {None}]
      /\ tripKeys \subseteq Keys
<1>0. RowsOK
  BY DEF TypeOK
<1> SUFFICES RowsOK'
  OBVIOUS
<1>1. CASE \/ UNCHANGED rows \/ UNCHANGED vars
           \/ \E w \in Workers : HoldWrite(w)
           \/ \E u \in Users, s \in Seats : Release(u, s)
           \/ \E s \in Seats : HoldExpires(s)
           \/ SeatMap
  BY <1>0, <1>1 DEF rows, vars, HoldWrite, Release, HoldExpires, SeatMap
<1>2. ASSUME NEW w \in Workers, BookingCommit(w) PROVE RowsOK'
  <2> DEFINE b == tx[w].booking
  <2>1. b \in Bookings /\ tx[w].user \in Users
    BY <1>2 DEF BookingCommit, RequestInv, RequestOK
  <2>2. tripStatus' \in TripStatuses
    BY <1>0, <1>2 DEF BookingCommit, TripStatuses
  <2>3. booking' \in [Bookings -> [status : {"NONE", "CONFIRMED"} \cup EndStatuses,
                                   by     : Users \cup {None}]]
    BY <1>0, <1>2, <2>1 DEF BookingCommit
  <2>4. ticket' \in [Bookings -> [Seats -> TicketStatuses]]
    BY <1>0, <1>2, <2>1 DEF BookingCommit, TicketStatuses
  <2>5. commission' \in [Bookings -> {"NONE", "DUE", "REVERSED"}]
    <3>1. PICK due \in {"DUE", commission[b]} : commission' = [commission EXCEPT ![b] = due]
      BY <1>2 DEF BookingCommit
    <3>2. due \in {"NONE", "DUE", "REVERSED"}
      BY <1>0, <2>1
    <3> QED BY <1>0, <3>1, <3>2
  <2>6. outbox' \subseteq {"PAYMENT_RECEIVED", "REFUND_COMPLETED"} \X Bookings
    <3>1. outbox' = outbox \cup {<<"PAYMENT_RECEIVED", b>>}
      BY <1>2 DEF BookingCommit
    <3>2. <<"PAYMENT_RECEIVED", b>> \in {"PAYMENT_RECEIVED", "REFUND_COMPLETED"} \X Bookings
      BY <2>1
    <3> HIDE DEF b
    <3> QED BY <1>0, <3>1, <3>2
  <2>7. UNCHANGED <<manifest, cancelled, tripKeys>>
    BY <1>2 DEF BookingCommit
  <2> QED BY <1>0, <2>2, <2>3, <2>4, <2>5, <2>6, <2>7
<1>3. ASSUME NEW w \in Workers, CancelCommit(w) PROVE RowsOK'
  <2> DEFINE b == tx[w].booking
  <2>1. b \in Bookings /\ tx[w].key \in Keys
    BY <1>3 DEF CancelCommit, RequestInv, RequestOK, SoldBookings
  <2>2. PICK fee \in Fees : EndBookings({b}, fee)
    BY <1>3 DEF CancelCommit
  <2>3. tripStatus' \in TripStatuses
    BY <1>0, <1>3 DEF CancelCommit, TripStatuses, Bookable
  <2>4. cancelled' \in [Keys -> Bookings \cup {None}] /\ UNCHANGED <<manifest, tripKeys>>
    BY <1>0, <1>3, <2>1 DEF CancelCommit
  <2>5. {b} \in SUBSET Bookings
    BY <2>1
  <2> HIDE DEF b
  <2> QED BY <1>0, <2>2, <2>3, <2>4, <2>5, EndBookingsEffect
<1>4. ASSUME NEW w \in Workers, TripCancelCommit(w) PROVE RowsOK'
  <2>1. PICK fee \in Fees : EndBookings(SoldBookings, fee)
    BY <1>4 DEF TripCancelCommit
  <2>2. SoldBookings \in SUBSET Bookings /\ tx[w].key \in Keys
    BY <1>4 DEF SoldBookings, TripCancelCommit, RequestInv, RequestOK
  <2>3. /\ tripStatus' \in TripStatuses /\ tripKeys' \subseteq Keys
        /\ UNCHANGED <<manifest, cancelled>>
    BY <1>0, <1>4, <2>2 DEF TripCancelCommit, TripStatuses
  <2> QED BY <1>0, <2>1, <2>2, <2>3, EndBookingsEffect
<1>5. ASSUME NEW w \in Workers, GenerateWrite(w) \/ DepartCommit(w) PROVE RowsOK'
  <2>1. manifest' \in [version : 0 .. MaxVersion, locked : BOOLEAN]
    <3>1. CASE GenerateWrite(w)
      <4>1. manifest.version < MaxVersion /\ manifest' = [manifest EXCEPT !.version = @ + 1]
        BY <3>1, Zenon DEF GenerateWrite
      <4>2. manifest.version + 1 \in 0 .. MaxVersion
        BY <1>0, <4>1
      <4> QED BY <1>0, <4>1, <4>2
    <3>2. CASE DepartCommit(w)
      BY <1>0, <3>2 DEF DepartCommit
    <3> QED BY <1>5, <3>1, <3>2
  <2>2. tripStatus' \in TripStatuses
    BY <1>0, <1>5 DEF GenerateWrite, DepartCommit, TripStatuses
  <2> QED BY <1>0, <1>5, <2>1, <2>2 DEF GenerateWrite, DepartCommit
<1>6. ASSUME NEW w \in Workers, CheckInWrite(w) PROVE RowsOK'
  <2>1. tx[w].booking \in Bookings
    BY <1>6 DEF CheckInWrite, RequestInv, RequestOK
  <2>2. ticket' \in [Bookings -> [Seats -> TicketStatuses]]
    BY <1>0, <1>6, <2>1 DEF CheckInWrite, TicketStatuses
  <2> QED BY <1>0, <1>6, <2>2 DEF CheckInWrite
<1>7. ASSUME NEW k \in Keys, KeyExpires(k) PROVE RowsOK'
  BY <1>0, <1>7 DEF KeyExpires
<1>8. CASE TripUpdate \/ TripRemove
  <2>1. tripStatus' \in PatchStatuses \cup {tripStatus, "DELETED"}
    BY <1>8 DEF TripUpdate, TripRemove
  <2>2. tripStatus' \in TripStatuses
    BY <1>0, <2>1 DEF TripStatuses, Bookable
  <2>3. UNCHANGED <<manifest, booking, ticket, payment, commission, outbox, cancelled, tripKeys>>
    BY <1>8 DEF TripUpdate, TripRemove
  <2> QED BY <1>0, <2>2, <2>3
<1> HIDE DEF RowsOK
<1> QED BY <1>1, <1>2, <1>3, <1>4, <1>5, <1>6, <1>7, <1>8, NextCases

LEMMA TypeStep ==
  ASSUME TypeOK, RequestInv, [Next]_vars
  PROVE  TypeOK'
BY TxType, SeatType, RowType DEF TypeOK

\* The requests that a step leaves alone keep what they remember.
LEMMA OthersKeepTx ==
  ASSUME TypeOK, NEW w \in Workers, NEW v \in Workers, v # w,
         Reads(w) \/ End(w)
  PROVE  tx'[v] = tx[v]
<1>1. tx \in [Workers -> Request]
  BY DEF TypeOK
<1>2. Reads(w) => \/ \E r : Begin(w, r) \/ BeginLocked(w, r)
                  \/ BookingPrice(w) \/ BookingClaim(w) \/ End(w)
  BY DEF Reads, HoldRead, BookingBegin, CancelBegin, TripCancelBegin, GenerateRead,
         DepartBegin, CheckInRead, Abort
<1>3. \E r : tx' = [tx EXCEPT ![w] = r]
  <2>1. CASE \E r : Begin(w, r) \/ BeginLocked(w, r)
    BY <2>1 DEF Begin, BeginLocked
  <2>2. CASE BookingPrice(w)
    BY <1>1, <2>2 DEF BookingPrice
  <2>3. CASE BookingClaim(w)
    BY <1>1, <2>3 DEF BookingClaim
  <2>4. CASE End(w)
    BY <2>4 DEF End
  <2> QED BY <1>2, <2>1, <2>2, <2>3, <2>4
<1> QED BY <1>1, <1>3

LEMMA EndIsIdle ==
  ASSUME TypeOK, NEW w \in Workers, End(w)
  PROVE  tx'[w].pc = "idle"
BY DEF TypeOK, End, Idle

\* The trip lock: BeginLocked takes it, the steps in between keep it, End frees it.
LEMMA LockStep ==
  ASSUME TypeOK, LockInv, [Next]_vars
  PROVE  LockInv'
<1>1. tx \in [Workers -> Request]
  BY DEF TypeOK
<1>2. ASSUME NEW w \in Workers, NEW r, r.pc \in LockedPoints, BeginLocked(w, r)
      PROVE  LockInv'
  BY <1>1, <1>2 DEF BeginLocked, LockInv
<1>3. ASSUME NEW w \in Workers, NEW r, r.pc \notin LockedPoints, Begin(w, r)
      PROVE  LockInv'
  BY <1>1, <1>3 DEF Begin, LockInv, Idle, LockedPoints
<1>4. ASSUME NEW w \in Workers, End(w)
      PROVE  LockInv'
  BY <1>1, <1>4 DEF End, LockInv, Idle, LockedPoints
<1>5. ASSUME NEW w \in Workers, BookingPrice(w) \/ BookingClaim(w)
      PROVE  LockInv'
  <2>1. PICK r : tx' = [tx EXCEPT ![w] = r] /\ r.pc \in LockedPoints
    BY <1>1, <1>5 DEF BookingPrice, BookingClaim, LockedPoints, Request
  <2>2. tx[w].pc \in LockedPoints /\ UNCHANGED tripLock
    BY <1>5 DEF BookingPrice, BookingClaim, LockedPoints
  <2> QED BY <1>1, <2>1, <2>2 DEF LockInv
<1>6. CASE UNCHANGED <<tripLock, tx>>
  BY <1>6 DEF LockInv
<1>7. ASSUME NEW w \in Workers, Hold(w) \/ Generate(w) \/ CheckIn(w) \/ Abort(w)
      PROVE  LockInv'
  <2>1. ASSUME NEW u \in Users, NEW s \in Seats, HoldRead(w, u, s) PROVE LockInv'
    <3>1. [Idle EXCEPT !.pc = "hold", !.user = u, !.seats = {s},
                      !.stale = ExpiredHolds].pc \notin LockedPoints
      BY DEF Idle, LockedPoints
    <3> QED BY <2>1, <3>1, <1>3 DEF HoldRead
  <2>2. CASE GenerateRead(w)
    <3>1. [Idle EXCEPT !.pc = "generate", !.full = (manifest.version > 0)].pc \notin LockedPoints
      BY DEF Idle, LockedPoints
    <3> QED BY <2>2, <3>1, <1>3 DEF GenerateRead
  <2>3. ASSUME NEW b \in Bookings, NEW s \in Seats, CheckInRead(w, b, s) PROVE LockInv'
    <3>1. [Idle EXCEPT !.pc = "checkIn", !.booking = b, !.seats = {s}].pc \notin LockedPoints
      BY DEF Idle, LockedPoints
    <3> QED BY <2>3, <3>1, <1>3 DEF CheckInRead
  <2>4. CASE HoldWrite(w) \/ GenerateWrite(w) \/ CheckInWrite(w) \/ Abort(w)
    BY <2>4, <1>4 DEF HoldWrite, GenerateWrite, CheckInWrite, Abort
  <2> QED BY <1>7, <2>1, <2>2, <2>3, <2>4 DEF Hold, Generate, CheckIn
<1>8. ASSUME NEW w \in Workers, Booking(w) \/ Cancel(w) \/ TripCancel(w) \/ Depart(w)
      PROVE  LockInv'
  <2>1. ASSUME NEW u \in Users, NEW b \in Bookings, NEW S \in SUBSET Seats,
               BookingBegin(w, u, b, S)
        PROVE  LockInv'
    <3>1. [Idle EXCEPT !.pc = "book", !.user = u, !.booking = b, !.seats = S].pc \in LockedPoints
      BY DEF Idle, LockedPoints
    <3> QED BY <2>1, <3>1, <1>2 DEF BookingBegin
  <2>2. ASSUME NEW b \in Bookings, NEW k \in Keys, CancelBegin(w, b, k) PROVE LockInv'
    <3>1. [Idle EXCEPT !.pc = "cancel", !.booking = b, !.key = k,
                      !.full = (tripStatus = "FULL")].pc \in LockedPoints
      BY DEF Idle, LockedPoints
    <3> QED BY <2>2, <3>1, <1>2 DEF CancelBegin
  <2>3. ASSUME NEW k \in Keys, TripCancelBegin(w, k) PROVE LockInv'
    <3>1. [Idle EXCEPT !.pc = "tripCancel", !.key = k].pc \in LockedPoints
      BY DEF Idle, LockedPoints
    <3> QED BY <2>3, <3>1, <1>2 DEF TripCancelBegin
  <2>4. CASE DepartBegin(w)
    <3>1. [Idle EXCEPT !.pc = "depart"].pc \in LockedPoints
      BY DEF Idle, LockedPoints
    <3> QED BY <2>4, <3>1, <1>2 DEF DepartBegin
  <2>5. CASE BookingCommit(w) \/ CancelCommit(w) \/ TripCancelCommit(w) \/ DepartCommit(w)
    BY <2>5, <1>4 DEF BookingCommit, CancelCommit, TripCancelCommit, DepartCommit
  <2> QED BY <1>8, <1>5, <2>1, <2>2, <2>3, <2>4, <2>5 DEF Booking, Cancel, TripCancel, Depart
<1> QED
  BY <1>6, <1>7, <1>8
  DEF Next, vars, Release, HoldExpires, KeyExpires, SeatMap, TripUpdate, TripRemove

\* A request whose transaction ended satisfies its part of the invariant.
LEMMA IdleRequestOK ==
  ASSUME NEW w \in Workers, tx'[w].pc = "idle"
  PROVE  RequestOK(w)'
BY DEF RequestOK

\* Reading: what the reader remembers is what it has just seen.
LEMMA ReadRequestOK ==
  ASSUME IInv, NEW w \in Workers, Reads(w), UNCHANGED rows
  PROVE  RequestOK(w)'
<1>1. tx \in [Workers -> Request]
  BY DEF IInv, TypeOK
<1>2. UNCHANGED <<tripStatus, seat, booking, ticket>>
  BY DEF rows
<1>3. ASSUME NEW u \in Users, NEW s \in Seats, HoldRead(w, u, s) PROVE RequestOK(w)'
  BY <1>1, <1>3 DEF HoldRead, Begin, RequestOK, Idle
<1>4. ASSUME NEW u \in Users, NEW b \in Bookings, NEW S \in SUBSET Seats,
             BookingBegin(w, u, b, S)
      PROVE  RequestOK(w)'
  BY <1>1, <1>2, <1>4 DEF BookingBegin, BeginLocked, RequestOK, Idle, Bookable
<1>5. CASE BookingPrice(w)
  <2>1. /\ tx'[w].pc = "priced" /\ tx'[w].user = tx[w].user
        /\ tx'[w].booking = tx[w].booking
    BY <1>1, <1>5 DEF BookingPrice, Request
  <2>2. tx[w].pc = "book" /\ RequestOK(w)
    BY <1>5 DEF BookingPrice, IInv, RequestInv
  <2> QED BY <1>2, <2>1, <2>2 DEF RequestOK
<1>6. CASE BookingClaim(w)
  <2>1. /\ tx'[w].pc = "claimed" /\ tx'[w].user = tx[w].user
        /\ tx'[w].booking = tx[w].booking /\ tx'[w].seats = tx[w].seats
    BY <1>1, <1>6 DEF BookingClaim, Request
  <2>2. tx[w].pc = "priced" /\ RequestOK(w)
    BY <1>6 DEF BookingClaim, IInv, RequestInv
  <2>3. \A s \in tx[w].seats : seat[s].status \in {"AVAILABLE", "HELD"}
    BY <1>6 DEF BookingClaim, Claimable
  <2> QED BY <1>2, <2>1, <2>2, <2>3 DEF RequestOK
<1>7. ASSUME NEW b \in Bookings, NEW k \in Keys, CancelBegin(w, b, k) PROVE RequestOK(w)'
  <2>1. tx'[w].pc = "cancel" /\ tx'[w].booking = b /\ tx'[w].key = k
    BY <1>1, <1>7 DEF CancelBegin, BeginLocked, Idle
  <2>2. b \in SoldBookings'
    BY <1>2, <1>7 DEF CancelBegin, SoldBookings
  <2> QED BY <2>1, <2>2 DEF RequestOK
<1>8. ASSUME NEW k \in Keys, TripCancelBegin(w, k) PROVE RequestOK(w)'
  BY <1>1, <1>8 DEF TripCancelBegin, BeginLocked, RequestOK, Idle
<1>9. CASE GenerateRead(w)
  <2>1. tx'[w].pc = "generate"
    BY <1>1, <1>9 DEF GenerateRead, Begin, Idle
  <2> QED BY <2>1 DEF RequestOK
<1>10. CASE DepartBegin(w)
  BY <1>1, <1>10 DEF DepartBegin, BeginLocked, RequestOK, Idle
<1>11. ASSUME NEW b \in Bookings, NEW s \in Seats, CheckInRead(w, b, s) PROVE RequestOK(w)'
  <2>1. tx'[w].pc = "checkIn" /\ tx'[w].booking = b /\ tx'[w].seats = {s}
    BY <1>1, <1>11 DEF CheckInRead, Begin, Idle
  <2>2. s \in TicketsOf(b)
    BY <1>11 DEF CheckInRead, TicketsOf
  <2>3. booking[b].status # "NONE"
    BY <2>2 DEF IInv, TicketInv
  <2>4. booking'[b].status # "NONE" /\ s \in TicketsOf(b)'
    BY <1>2, <2>2, <2>3 DEF TicketsOf
  <2> QED BY <2>1, <2>4 DEF RequestOK
<1>12. CASE Abort(w)
  BY <1>12, EndIsIdle, IdleRequestOK DEF Abort, IInv
<1> QED
  BY <1>3, <1>4, <1>5, <1>6, <1>7, <1>8, <1>9, <1>10, <1>11, <1>12 DEF Reads

\* While w writes under the lock, any other request v holds or checks in or
\* generates: it is at no protected point.
LEMMA OthersUnlocked ==
  ASSUME LockInv, NEW w \in Workers, tx[w].pc \in LockedPoints,
         NEW v \in Workers, v # w
  PROVE  tx[v].pc \notin LockedPoints
BY DEF LockInv

LEMMA TicketStep ==
  ASSUME IInv, [Next]_vars
  PROVE  TicketInv'
<1>1. /\ ticket \in [Bookings -> [Seats -> TicketStatuses]]
      /\ booking \in [Bookings -> [status : {"NONE", "CONFIRMED"} \cup EndStatuses,
                                   by     : Users \cup {None}]]
  BY DEF IInv, TypeOK
<1>2. CASE UNCHANGED <<booking, ticket>>
  BY <1>2 DEF IInv, TicketInv, TicketsOf
<1>3. ASSUME NEW w \in Workers, BookingCommit(w) PROVE TicketInv'
  <2> DEFINE c == tx[w].booking
  <2>1. /\ booking' = [booking EXCEPT ![c] = [status |-> "CONFIRMED", by |-> tx[w].user]]
        /\ \A b \in Bookings : b # c => ticket'[b] = ticket[b]
    BY <1>1, <1>3 DEF BookingCommit
  <2>2. c \in Bookings
    BY <1>3 DEF BookingCommit, IInv, RequestInv, RequestOK
  <2> HIDE DEF c
  <2> QED BY <1>1, <2>1, <2>2 DEF IInv, TicketInv, TicketsOf
<1>4. ASSUME NEW w \in Workers, CancelCommit(w) \/ TripCancelCommit(w) PROVE TicketInv'
  <2>1. PICK bs \in SUBSET Bookings, fee \in Fees : EndBookings(bs, fee)
    <3>1. tx[w].pc = "cancel" => {tx[w].booking} \in SUBSET Bookings
      BY DEF IInv, RequestInv, RequestOK, SoldBookings
    <3>2. SoldBookings \in SUBSET Bookings
      BY DEF SoldBookings
    <3> QED BY <1>4, <3>1, <3>2 DEF CancelCommit, TripCancelCommit
  <2>2. /\ \A b \in bs : booking'[b].status \in EndStatuses
        /\ \A b \in Bookings \ bs : booking'[b] = booking[b]
        /\ \A b \in Bookings : TicketsOf(b)' = TicketsOf(b)
    BY <2>1, EndBookingsEffect DEF IInv
  <2> QED BY <2>2 DEF IInv, TicketInv, EndStatuses
<1>5. ASSUME NEW w \in Workers, CheckInWrite(w) PROVE TicketInv'
  <2>1. \A b \in Bookings : b # tx[w].booking => ticket'[b] = ticket[b]
    BY <1>1, <1>5 DEF CheckInWrite
  <2>2. booking[tx[w].booking].status # "NONE" /\ UNCHANGED booking
    BY <1>5 DEF CheckInWrite, IInv, RequestInv, RequestOK
  <2> QED BY <2>1, <2>2 DEF IInv, TicketInv, TicketsOf
<1>6. CASE \/ \E w \in Workers : HoldWrite(w) \/ GenerateWrite(w) \/ DepartCommit(w)
           \/ \E u \in Users, s \in Seats : Release(u, s)
           \/ \E s \in Seats : HoldExpires(s)
           \/ \E k \in Keys : KeyExpires(k)
           \/ SeatMap \/ TripUpdate \/ TripRemove
           \/ UNCHANGED rows \/ UNCHANGED vars
  BY <1>2, <1>6 DEF HoldWrite, GenerateWrite, DepartCommit, Release, HoldExpires,
                    KeyExpires, SeatMap, TripUpdate, TripRemove, rows, vars
<1> QED BY <1>3, <1>4, <1>5, <1>6, NextCases

\* Holds, releases, expiries, the seat map and price changes sell no seat, give
\* none back and leave every row that is for sale for sale.
LEMMA UnsoldSeatEffect ==
  ASSUME TypeOK,
         \/ \E w \in Workers : HoldWrite(w)
         \/ \E u \in Users, s \in Seats : Release(u, s)
         \/ \E s \in Seats : HoldExpires(s)
         \/ SeatMap \/ TripUpdate,
         NEW s \in Seats
  PROVE  /\ seat'[s].ticket = seat[s].ticket
         /\ seat'[s].status = "BOOKED" <=> seat[s].status = "BOOKED"
         /\ seat[s].status \in {"AVAILABLE", "HELD"}
              => seat'[s].status \in {"AVAILABLE", "HELD"}
<1>1. seat[s] \in SeatRow /\ seat \in [Seats -> SeatRow]
  BY DEF TypeOK
<1>2. /\ Freed(seat[s]).status = "AVAILABLE"
      /\ Freed(seat[s]).ticket = seat[s].ticket
  BY <1>1 DEF Freed, SeatRow
<1>3. ASSUME NEW w \in Workers, HoldWrite(w)
      PROVE  \/ seat'[s] = seat[s]
             \/ /\ seat[s].status \in {"AVAILABLE", "HELD"}
                /\ seat'[s] = [seat[s] EXCEPT !.status = "HELD", !.heldBy = tx[w].user,
                                              !.expired = FALSE]
  BY <1>3 DEF HoldWrite, Claimable
<1>4. ASSUME NEW u \in Users, NEW r \in Seats, Release(u, r)
      PROVE  \/ seat'[s] = seat[s]
             \/ seat[s].status = "HELD" /\ seat'[s] = Freed(seat[s])
  BY <1>1, <1>4 DEF Release
<1>5. ASSUME NEW r \in Seats, HoldExpires(r)
      PROVE  seat'[s] = seat[s] \/ seat'[s] = [seat[s] EXCEPT !.expired = TRUE]
  BY <1>1, <1>5 DEF HoldExpires
<1>6. ASSUME SeatMap
      PROVE  \/ seat'[s] = seat[s]
             \/ seat[s].status = "HELD" /\ seat'[s] = Freed(seat[s])
             \/ /\ seat[s].status = "MISSING"
                /\ \E p : seat'[s] = [seat[s] EXCEPT !.status = "AVAILABLE", !.price = p]
  <2>1. PICK copied \in SUBSET (Seats \ Existing), fallback \in FallbackPrices :
          seat' = [r \in Seats |->
               IF r \in ExpiredHolds THEN Freed(seat[r])
               ELSE IF r \in copied
                    THEN [seat[r] EXCEPT !.status = "AVAILABLE", !.price = fallback]
                    ELSE seat[r]]
    BY <1>6 DEF SeatMap
  <2> QED BY <2>1 DEF ExpiredHolds, Existing
<1>7. ASSUME TripUpdate
      PROVE  seat'[s] = seat[s] \/ \E p : seat'[s] = [seat[s] EXCEPT !.price = p]
  BY <1>7 DEF TripUpdate
<1>8. CASE seat'[s] = seat[s]
  BY <1>8
<1>9. CASE /\ seat[s].status \in {"AVAILABLE", "HELD"}
           /\ \E u : seat'[s] = [seat[s] EXCEPT !.status = "HELD", !.heldBy = u,
                                               !.expired = FALSE]
  BY <1>1, <1>9 DEF SeatRow
<1>10. CASE seat[s].status = "HELD" /\ seat'[s] = Freed(seat[s])
  BY <1>2, <1>10
<1>11. CASE seat'[s] = [seat[s] EXCEPT !.expired = TRUE]
  BY <1>1, <1>11 DEF SeatRow
<1>12. CASE /\ seat[s].status = "MISSING"
            /\ \E p : seat'[s] = [seat[s] EXCEPT !.status = "AVAILABLE", !.price = p]
  BY <1>1, <1>12 DEF SeatRow
<1>13. CASE \E p : seat'[s] = [seat[s] EXCEPT !.price = p]
  BY <1>1, <1>13 DEF SeatRow
<1> QED
  BY <1>3, <1>4, <1>5, <1>6, <1>7, <1>8, <1>9, <1>10, <1>11, <1>12, <1>13, Zenon

\* Requests keep being right about what they read, whatever the others do.
LEMMA RequestStep ==
  ASSUME IInv, [Next]_vars
  PROVE  RequestInv'
<1> SUFFICES ASSUME NEW v \in Workers PROVE RequestOK(v)'
  BY DEF RequestInv
<1>1. RequestOK(v) /\ TypeOK /\ LockInv
  BY DEF IInv, RequestInv
<1>2. ASSUME NEW w \in Workers, Reads(w), UNCHANGED rows PROVE RequestOK(v)'
  <2>1. CASE v = w
    BY <1>2, <2>1, ReadRequestOK
  <2>2. CASE v # w
    <3>1. tx'[v] = tx[v] /\ UNCHANGED <<tripStatus, seat, booking, ticket>>
      BY <1>1, <1>2, <2>2, OthersKeepTx DEF rows
    <3> QED BY <1>1, <3>1 DEF RequestOK, SoldBookings, TicketsOf
  <2> QED BY <2>1, <2>2
<1>3. ASSUME NEW w \in Workers, End(w), v # w => (tx'[v] = tx[v] => RequestOK(v)')
      PROVE  RequestOK(v)'
  BY <1>1, <1>3, EndIsIdle, IdleRequestOK, OthersKeepTx
\* Writing seats: rows a booking has updated are still for sale.
<1>4. ASSUME NEW w \in Workers, HoldWrite(w) PROVE RequestOK(v)'
  <2>1. \A s \in Seats : seat[s].status \in {"AVAILABLE", "HELD"}
                           => seat'[s].status \in {"AVAILABLE", "HELD"}
    BY <1>1, <1>4, UnsoldSeatEffect
  <2>2. tx[v].seats \subseteq Seats
    BY <1>1 DEF TypeOK, Request
  <2>3. UNCHANGED <<tripStatus, booking, ticket>>
    BY <1>4 DEF HoldWrite
  <2>4. tx'[v] = tx[v] => RequestOK(v)'
    BY <1>1, <2>1, <2>2, <2>3 DEF RequestOK, SoldBookings, TicketsOf
  <2> QED BY <1>3, <1>4, <2>4 DEF HoldWrite
<1>5. CASE \/ \E u \in Users, s \in Seats : Release(u, s)
           \/ \E s \in Seats : HoldExpires(s)
           \/ SeatMap
  <2>1. UNCHANGED <<tripStatus, booking, ticket, tx>>
    BY <1>5 DEF Release, HoldExpires, SeatMap
  <2>2. \A s \in Seats : seat[s].status \in {"AVAILABLE", "HELD"}
                           => seat'[s].status \in {"AVAILABLE", "HELD"}
    BY <1>1, <1>5, UnsoldSeatEffect
  <2>3. tx[v].seats \subseteq Seats
    BY <1>1 DEF TypeOK, Request
  <2> QED BY <1>1, <2>1, <2>2, <2>3 DEF RequestOK, SoldBookings, TicketsOf
<1>6. CASE TripUpdate
  <2>1. UNCHANGED <<booking, ticket, tx>>
    BY <1>6 DEF TripUpdate
  <2>2. tripStatus # "CANCELLED" => tripStatus' # "CANCELLED"
    BY <1>6 DEF TripUpdate
  <2>3. \A s \in Seats : seat[s].status \in {"AVAILABLE", "HELD"}
                           => seat'[s].status \in {"AVAILABLE", "HELD"}
    BY <1>1, <1>6, UnsoldSeatEffect
  <2>4. tx[v].seats \subseteq Seats
    BY <1>1 DEF TypeOK, Request
  <2> QED BY <1>1, <2>1, <2>2, <2>3, <2>4 DEF RequestOK, SoldBookings, TicketsOf
<1>7. CASE TripRemove
  <2>1. /\ UNCHANGED <<booking, ticket, tx>> /\ tripStatus' # "CANCELLED"
        /\ \A s \in Seats : ~RowLocked(s)
    BY <1>7 DEF TripRemove
  <2>2. tx[v].pc = "claimed" => tx[v].seats = {}
    BY <1>1, <2>1 DEF RowLocked, TypeOK, Request
  <2> QED BY <1>1, <2>1, <2>2 DEF RequestOK, SoldBookings, TicketsOf
\* Writing under the lock: v is not at a protected point, so only what a hold or a
\* check-in remembers is at stake.
<1>8. ASSUME NEW w \in Workers, v # w, tx[w].pc \in LockedPoints, tx'[v] = tx[v],
             \A b \in Bookings : booking[b].status # "NONE" =>
               booking'[b].status # "NONE" /\ TicketsOf(b)' = TicketsOf(b)
      PROVE  RequestOK(v)'
  <2>1. tx[v].pc \notin LockedPoints
    BY <1>1, <1>8, OthersUnlocked
  <2> QED BY <1>1, <1>8, <2>1 DEF RequestOK, LockedPoints
<1>9. ASSUME NEW w \in Workers, BookingCommit(w) PROVE RequestOK(v)'
  <2> DEFINE c == tx[w].booking
  <2>1. c \in Bookings /\ booking[c].status = "NONE" /\ tx[w].pc \in LockedPoints
    BY <1>9 DEF BookingCommit, IInv, RequestInv, RequestOK, LockedPoints
  <2>2. \A b \in Bookings : b # c => booking'[b] = booking[b] /\ ticket'[b] = ticket[b]
    BY <1>1, <1>9 DEF BookingCommit, TypeOK
  <2>3. End(w)
    BY <1>9 DEF BookingCommit
  <2> HIDE DEF c
  <2>4. \A b \in Bookings : booking[b].status # "NONE" =>
          booking'[b].status # "NONE" /\ TicketsOf(b)' = TicketsOf(b)
    BY <2>1, <2>2 DEF TicketsOf
  <2> QED BY <1>3, <1>8, <2>1, <2>3, <2>4
<1>10. ASSUME NEW w \in Workers, CancelCommit(w) \/ TripCancelCommit(w) PROVE RequestOK(v)'
  <2>1. PICK bs \in SUBSET Bookings, fee \in Fees : EndBookings(bs, fee)
    <3>1. tx[w].pc = "cancel" => {tx[w].booking} \in SUBSET Bookings
      BY DEF IInv, RequestInv, RequestOK, SoldBookings
    <3>2. SoldBookings \in SUBSET Bookings
      BY DEF SoldBookings
    <3> QED BY <1>10, <3>1, <3>2 DEF CancelCommit, TripCancelCommit
  <2>2. /\ \A b \in bs : booking'[b].status \in EndStatuses
        /\ \A b \in Bookings \ bs : booking'[b] = booking[b]
        /\ \A b \in Bookings : TicketsOf(b)' = TicketsOf(b)
    BY <1>1, <2>1, EndBookingsEffect
  <2>3. \A b \in Bookings : booking[b].status # "NONE" =>
          booking'[b].status # "NONE" /\ TicketsOf(b)' = TicketsOf(b)
    BY <2>2 DEF EndStatuses
  <2>4. End(w) /\ tx[w].pc \in LockedPoints
    BY <1>10 DEF CancelCommit, TripCancelCommit, LockedPoints
  <2> QED BY <1>3, <1>8, <2>3, <2>4
<1>11. ASSUME NEW w \in Workers, DepartCommit(w) PROVE RequestOK(v)'
  <2>1. End(w) /\ tx[w].pc \in LockedPoints
    BY <1>11 DEF DepartCommit, LockedPoints
  <2>2. UNCHANGED <<booking, ticket>>
    BY <1>11 DEF DepartCommit
  <2> QED BY <1>3, <1>8, <2>1, <2>2 DEF TicketsOf
<1>12. ASSUME NEW w \in Workers, GenerateWrite(w) PROVE RequestOK(v)'
  <2>1. End(w) /\ UNCHANGED <<tripStatus, seat, booking, ticket>>
    BY <1>12 DEF GenerateWrite
  <2>2. tx'[v] = tx[v] => RequestOK(v)'
    BY <1>1, <2>1 DEF RequestOK, SoldBookings, TicketsOf
  <2> QED BY <1>3, <2>1, <2>2
<1>13. ASSUME NEW w \in Workers, CheckInWrite(w) PROVE RequestOK(v)'
  <2>1. End(w) /\ UNCHANGED <<tripStatus, seat, booking>>
    BY <1>13 DEF CheckInWrite
  <2>2. \A b \in Bookings : TicketsOf(b)' = TicketsOf(b)
    <3>1. tx[w].seats \subseteq TicketsOf(tx[w].booking) /\ tx[w].booking \in Bookings
      BY <1>13 DEF CheckInWrite, IInv, RequestInv, RequestOK
    <3>2. ticket \in [Bookings -> [Seats -> TicketStatuses]]
      BY <1>1 DEF TypeOK
    <3> QED BY <1>13, <3>1, <3>2 DEF CheckInWrite, TicketsOf
  <2>3. tx'[v] = tx[v] => RequestOK(v)'
    BY <1>1, <2>1, <2>2 DEF RequestOK, SoldBookings
  <2> QED BY <1>3, <2>1, <2>3
<1>14. CASE UNCHANGED vars \/ \E k \in Keys : KeyExpires(k)
  BY <1>1, <1>14 DEF KeyExpires, vars, rows, RequestOK, SoldBookings, TicketsOf
<1> QED
  BY <1>2, <1>4, <1>5, <1>6, <1>7, <1>9, <1>10, <1>11, <1>12, <1>13, <1>14, NextCases

\* The cancellation of the trip leaves no sale.
LEMMA EndsEverySale ==
  ASSUME TypeOK, NEW fee \in Fees, EndBookings(SoldBookings, fee)
  PROVE  SoldBookings' = {}
<1>1. SoldBookings \in SUBSET Bookings
  BY DEF SoldBookings
<1>2. /\ \A b \in SoldBookings : booking'[b].status \in EndStatuses
      /\ \A b \in Bookings \ SoldBookings : booking'[b] = booking[b]
  BY <1>1, EndBookingsEffect
<1>3. \A b \in Bookings : booking'[b].status # "CONFIRMED"
  BY <1>2 DEF SoldBookings, EndStatuses
<1> QED BY <1>3 DEF SoldBookings

\* A seat is sold once: one step per way to write seats, bookings or tickets.
LEMMA SoldStep ==
  ASSUME IInv, [Next]_vars
  PROVE  SeatSoldOnce'
<1>1. /\ seat \in [Seats -> SeatRow]
      /\ booking \in [Bookings -> [status : {"NONE", "CONFIRMED"} \cup EndStatuses,
                                   by     : Users \cup {None}]]
      /\ ticket \in [Bookings -> [Seats -> TicketStatuses]]
      /\ TypeOK /\ SeatSoldOnce
  BY DEF IInv, TypeOK
<1>2. ASSUME UNCHANGED booking, \A b \in Bookings : TicketsOf(b)' = TicketsOf(b),
             \A s \in Seats : /\ seat'[s].ticket = seat[s].ticket
                              /\ seat'[s].status = "BOOKED" <=> seat[s].status = "BOOKED"
      PROVE  SeatSoldOnce'
  <2>1. SoldBookings' = SoldBookings /\ SoldBookings \subseteq Bookings
    BY <1>2 DEF SoldBookings
  <2>2. ASSUME NEW s \in Seats, seat'[s].status = "BOOKED"
        PROVE  \E b \in SoldBookings' : seat'[s].ticket = b /\ s \in TicketsOf(b)'
    BY <1>1, <1>2, <2>1, <2>2 DEF SeatSoldOnce
  <2>3. ASSUME NEW b \in SoldBookings', NEW s \in TicketsOf(b)'
        PROVE  seat'[s].status = "BOOKED" /\ seat'[s].ticket = b
    <3>1. b \in SoldBookings /\ s \in TicketsOf(b)
      BY <1>2, <2>1
    <3>2. s \in Seats
      BY <3>1 DEF TicketsOf
    <3> QED BY <1>1, <1>2, <3>1, <3>2 DEF SeatSoldOnce
  <2> QED BY <2>2, <2>3 DEF SeatSoldOnce
<1>3. CASE \/ \E w \in Workers : HoldWrite(w)
           \/ \E u \in Users, s \in Seats : Release(u, s)
           \/ \E s \in Seats : HoldExpires(s)
           \/ SeatMap \/ TripUpdate
  <2>1. UNCHANGED <<booking, ticket>>
    BY <1>3 DEF HoldWrite, Release, HoldExpires, SeatMap, TripUpdate
  <2> QED BY <1>1, <1>2, <1>3, <2>1, UnsoldSeatEffect DEF TicketsOf
<1>4. CASE \/ UNCHANGED rows \/ UNCHANGED vars
           \/ \E w \in Workers : GenerateWrite(w) \/ DepartCommit(w)
           \/ \E k \in Keys : KeyExpires(k)
  <2>1. UNCHANGED <<booking, ticket, seat>>
    BY <1>4 DEF GenerateWrite, DepartCommit, KeyExpires, rows, vars
  <2> QED BY <1>2, <2>1 DEF TicketsOf
<1>5. ASSUME NEW w \in Workers, CheckInWrite(w) PROVE SeatSoldOnce'
  <2>1. tx[w].seats \subseteq TicketsOf(tx[w].booking) /\ tx[w].booking \in Bookings
    BY <1>5 DEF CheckInWrite, IInv, RequestInv, RequestOK
  <2>2. \A b \in Bookings : TicketsOf(b)' = TicketsOf(b)
    BY <1>1, <1>5, <2>1 DEF CheckInWrite, TicketsOf
  <2> QED BY <1>2, <1>5, <2>2 DEF CheckInWrite
<1>6. ASSUME NEW w \in Workers, BookingCommit(w) PROVE SeatSoldOnce'
  <2>1. PICK c \in Bookings :
          c = tx[w].booking /\ booking[c].status = "NONE"
    BY <1>6 DEF BookingCommit, IInv, RequestInv, RequestOK
  <2>2. PICK S \in SUBSET Seats :
          /\ S = tx[w].seats
          /\ \A s \in S : seat[s].status \in {"AVAILABLE", "HELD"}
    BY <1>1, <1>6 DEF TypeOK, Request, BookingCommit, IInv, RequestInv, RequestOK
  <2>3. \A s \in Seats \ S : seat'[s] = seat[s]
    BY <1>6, <2>2 DEF BookingCommit
  <2>4. ASSUME NEW s \in S PROVE seat'[s].status = "BOOKED" /\ seat'[s].ticket = c
    <3>1. seat'[s] = [Freed(seat[s]) EXCEPT !.status = "BOOKED", !.ticket = c]
      BY <1>6, <2>1, <2>2 DEF BookingCommit
    <3>2. Freed(seat[s]) \in SeatRow
      BY <1>1, <2>2, FreedIsRow
    <3> QED BY <3>1, <3>2 DEF SeatRow
  <2>5. /\ booking' = [booking EXCEPT ![c] = [status |-> "CONFIRMED", by |-> tx[w].user]]
        /\ ticket' = [ticket EXCEPT ![c] =
             [s \in Seats |-> IF s \in S THEN "BOOKED" ELSE "NONE"]]
    BY <1>6, <2>1, <2>2 DEF BookingCommit
  <2>6. /\ booking'[c].status = "CONFIRMED"
        /\ \A b \in Bookings \ {c} : booking'[b] = booking[b]
    BY <1>1, <2>1, <2>5
  <2>7. SoldBookings' = SoldBookings \cup {c} /\ c \notin SoldBookings
    BY <2>1, <2>6 DEF SoldBookings
  <2>8. /\ ticket'[c] = [s \in Seats |-> IF s \in S THEN "BOOKED" ELSE "NONE"]
        /\ \A b \in Bookings \ {c} : ticket'[b] = ticket[b]
    BY <1>1, <2>1, <2>5
  <2>9. TicketsOf(c)' = S /\ \A b \in Bookings \ {c} : TicketsOf(b)' = TicketsOf(b)
    BY <2>2, <2>8 DEF TicketsOf
  <2>10. SoldBookings \subseteq Bookings
    BY DEF SoldBookings
  <2>11. ASSUME NEW s \in Seats, seat'[s].status = "BOOKED"
         PROVE  \E b \in SoldBookings' : seat'[s].ticket = b /\ s \in TicketsOf(b)'
    <3>1. CASE s \in S
      BY <2>4, <2>7, <2>9, <3>1
    <3>2. CASE s \notin S
      <4>1. PICK b \in SoldBookings : seat[s].ticket = b /\ s \in TicketsOf(b)
        BY <1>1, <2>3, <2>11, <3>2 DEF SeatSoldOnce
      <4>2. b \in Bookings \ {c}
        BY <2>7, <2>10
      <4> QED BY <2>3, <2>7, <2>9, <3>2, <4>1, <4>2
    <3> QED BY <3>1, <3>2
  <2>12. ASSUME NEW b \in SoldBookings', NEW s \in TicketsOf(b)'
         PROVE  seat'[s].status = "BOOKED" /\ seat'[s].ticket = b
    <3>1. CASE b = c
      <4>1. s \in S
        BY <2>9, <3>1
      <4> QED BY <2>4, <3>1, <4>1
    <3>2. CASE b # c
      <4>1. b \in SoldBookings /\ b \in Bookings \ {c}
        BY <2>7, <2>10, <3>2
      <4>2. s \in TicketsOf(b)
        BY <2>9, <4>1
      <4>3. seat[s].status = "BOOKED" /\ seat[s].ticket = b /\ s \in Seats
        BY <1>1, <4>1, <4>2 DEF SeatSoldOnce, TicketsOf
      <4>4. s \notin S
        BY <2>2, <4>3
      <4> QED BY <2>3, <4>3, <4>4
    <3> QED BY <3>1, <3>2
  <2> QED BY <2>11, <2>12 DEF SeatSoldOnce
<1>7. ASSUME NEW w \in Workers, CancelCommit(w) PROVE SeatSoldOnce'
  <2> DEFINE c == tx[w].booking
  <2>1. c \in SoldBookings /\ c \in Bookings
    BY <1>7 DEF CancelCommit, IInv, RequestInv, RequestOK, SoldBookings
  <2>2. PICK fee \in Fees : EndBookings({c}, fee)
    BY <1>7 DEF CancelCommit
  <2>3. seat' = [s \in Seats |->
          IF s \in TicketsOf(c)
          THEN [seat[s] EXCEPT !.status = "AVAILABLE", !.ticket = None]
          ELSE seat[s]]
    BY <1>7 DEF CancelCommit
  <2>4. {c} \in SUBSET Bookings
    BY <2>1
  <2> HIDE DEF c
  <2>5. /\ booking'[c].status \in EndStatuses
        /\ \A b \in Bookings \ {c} : booking'[b] = booking[b]
        /\ \A b \in Bookings : TicketsOf(b)' = TicketsOf(b)
    BY <1>1, <2>2, <2>4, EndBookingsEffect
  <2>6. SoldBookings' = SoldBookings \ {c}
    BY <2>5 DEF SoldBookings, EndStatuses
  <2>7. SoldBookings \subseteq Bookings
    BY DEF SoldBookings
  <2>8. /\ \A s \in Seats \ TicketsOf(c) : seat'[s] = seat[s]
        /\ \A s \in TicketsOf(c) : s \in Seats /\ seat'[s].status = "AVAILABLE"
    <3>1. TicketsOf(c) \subseteq Seats
      BY DEF TicketsOf
    <3>2. ASSUME NEW s \in Seats, s \in TicketsOf(c) PROVE seat'[s].status = "AVAILABLE"
      <4>1. seat'[s] = [seat[s] EXCEPT !.status = "AVAILABLE", !.ticket = None]
        BY <2>3, <3>2
      <4>2. seat[s] \in SeatRow
        BY <1>1
      <4> QED BY <4>1, <4>2 DEF SeatRow
    <3> QED BY <2>3, <3>1, <3>2
  <2>9. ASSUME NEW s \in Seats, seat'[s].status = "BOOKED"
        PROVE  \E b \in SoldBookings' : seat'[s].ticket = b /\ s \in TicketsOf(b)'
    <3>1. s \notin TicketsOf(c) /\ seat'[s] = seat[s]
      BY <2>8, <2>9
    <3>2. PICK b \in SoldBookings : seat[s].ticket = b /\ s \in TicketsOf(b)
      BY <1>1, <2>9, <3>1 DEF SeatSoldOnce
    <3>3. b \in Bookings /\ b # c
      BY <2>7, <3>1, <3>2
    <3> QED BY <2>5, <2>6, <3>1, <3>2, <3>3
  <2>10. ASSUME NEW b \in SoldBookings', NEW s \in TicketsOf(b)'
         PROVE  seat'[s].status = "BOOKED" /\ seat'[s].ticket = b
    <3>1. b \in SoldBookings /\ b # c /\ s \in TicketsOf(b)
      BY <2>5, <2>6, <2>7, <2>10
    <3>2. seat[s].status = "BOOKED" /\ seat[s].ticket = b /\ s \in Seats
      BY <1>1, <3>1 DEF SeatSoldOnce, TicketsOf
    <3>3. s \notin TicketsOf(c)
      BY <1>1, <2>1, <3>1, <3>2 DEF SeatSoldOnce
    <3> QED BY <2>8, <3>2, <3>3
  <2> QED BY <2>9, <2>10 DEF SeatSoldOnce
<1>8. ASSUME NEW w \in Workers, TripCancelCommit(w) PROVE SeatSoldOnce'
  <2>1. PICK fee \in Fees : EndBookings(SoldBookings, fee)
    BY <1>8 DEF TripCancelCommit
  <2>3. SoldBookings' = {}
    BY <1>1, <2>1, EndsEverySale
  <2>4. ASSUME NEW s \in Seats PROVE seat'[s].status # "BOOKED"
    <3>1. CASE s \in Existing
      <4>1. seat'[s] = [Freed(seat[s]) EXCEPT !.status = "BLOCKED"]
        BY <1>8, <3>1 DEF TripCancelCommit
      <4>2. Freed(seat[s]) \in SeatRow
        BY <1>1, FreedIsRow
      <4> QED BY <4>1, <4>2 DEF SeatRow
    <3>2. CASE s \notin Existing
      BY <1>8, <3>2 DEF TripCancelCommit, Existing
    <3> QED BY <3>1, <3>2
  <2> QED BY <2>3, <2>4 DEF SeatSoldOnce
<1>9. CASE TripRemove
  <2>1. SoldBookings' = {}
    BY <1>9 DEF TripRemove, SoldBookings
  <2>2. ASSUME NEW s \in Seats PROVE seat'[s].status # "BOOKED"
    <3>1. seat'[s] = [Freed(seat[s]) EXCEPT !.status = "MISSING", !.ticket = None]
      BY <1>9 DEF TripRemove
    <3>2. Freed(seat[s]) \in SeatRow
      BY <1>1, FreedIsRow
    <3> QED BY <3>1, <3>2 DEF SeatRow
  <2> QED BY <2>1, <2>2 DEF SeatSoldOnce
<1> QED BY <1>3, <1>4, <1>5, <1>6, <1>7, <1>8, <1>9, NextCases

\* A cancelled trip has no sale.
LEMMA CancelledStep ==
  ASSUME IInv, [Next]_vars
  PROVE  CancelledTripHasNoSale'
<1>1. CASE \E w \in Workers : BookingCommit(w)
  BY <1>1 DEF BookingCommit, IInv, RequestInv, RequestOK, CancelledTripHasNoSale
<1>2. ASSUME NEW w \in Workers, CancelCommit(w) PROVE CancelledTripHasNoSale'
  <2>1. tx[w].booking \in SoldBookings /\ {tx[w].booking} \in SUBSET Bookings
    BY <1>2 DEF CancelCommit, IInv, RequestInv, RequestOK, SoldBookings
  <2>2. tripStatus' # "CANCELLED"
    BY <1>2, <2>1 DEF CancelCommit, IInv, CancelledTripHasNoSale
  <2> QED BY <2>2 DEF CancelledTripHasNoSale
<1>3. ASSUME NEW w \in Workers, TripCancelCommit(w) PROVE CancelledTripHasNoSale'
  <2>1. PICK fee \in Fees : EndBookings(SoldBookings, fee)
    BY <1>3 DEF TripCancelCommit
  <2>2. SoldBookings' = {}
    BY <2>1, EndsEverySale DEF IInv
  <2> QED BY <2>2 DEF CancelledTripHasNoSale
<1>4. CASE \/ TripUpdate \/ TripRemove \/ UNCHANGED rows \/ UNCHANGED vars
           \/ SeatMap
           \/ \E w \in Workers : \/ HoldWrite(w) \/ GenerateWrite(w)
                                 \/ DepartCommit(w) \/ CheckInWrite(w)
           \/ \E u \in Users, s \in Seats : Release(u, s)
           \/ \E s \in Seats : HoldExpires(s)
           \/ \E k \in Keys : KeyExpires(k)
  <2>1. UNCHANGED booking
    BY <1>4 DEF TripUpdate, TripRemove, SeatMap, HoldWrite, GenerateWrite, DepartCommit,
                CheckInWrite, Release, HoldExpires, KeyExpires, rows, vars
  <2>2. tripStatus' = "CANCELLED" => tripStatus = "CANCELLED"
    BY <1>4 DEF TripUpdate, TripRemove, SeatMap, HoldWrite, GenerateWrite, DepartCommit,
                CheckInWrite, Release, HoldExpires, KeyExpires, rows, vars
  <2> QED BY <2>1, <2>2 DEF IInv, CancelledTripHasNoSale, SoldBookings
<1> QED BY <1>1, <1>2, <1>3, <1>4, NextCases

-----------------------------------------------------------------------------
(* Holds *)

\* A seat is held because it was, or because hold has just taken it.
LEMMA HeldEffect ==
  ASSUME IInv, [Next]_vars, NEW s \in Seats, seat'[s].status = "HELD"
  PROVE  \/ seat[s].status = "HELD" /\ seat'[s].heldBy = seat[s].heldBy
         \/ \E w \in Workers : HoldWrite(w) /\ s \in tx[w].seats
<1>1. seat[s] \in SeatRow /\ seat \in [Seats -> SeatRow]
  BY DEF IInv, TypeOK
<1>2. Freed(seat[s]) \in SeatRow /\ Freed(seat[s]).status = "AVAILABLE"
  BY <1>1, FreedIsRow DEF Freed, SeatRow
<1>3. CASE seat'[s] = seat[s]
  BY <1>3
<1>4. CASE UNCHANGED seat
  BY <1>4
<1>5. ASSUME NEW w \in Workers, HoldWrite(w), s \notin tx[w].seats PROVE seat'[s] = seat[s]
  BY <1>5 DEF HoldWrite
<1>6. ASSUME NEW w \in Workers, BookingCommit(w) PROVE seat'[s] = seat[s]
  <2>1. [Freed(seat[s]) EXCEPT !.status = "BOOKED", !.ticket = tx[w].booking].status = "BOOKED"
    BY <1>2 DEF SeatRow
  <2> QED BY <1>6, <2>1 DEF BookingCommit
<1>7. ASSUME NEW w \in Workers, CancelCommit(w) PROVE seat'[s] = seat[s]
  <2>1. [seat[s] EXCEPT !.status = "AVAILABLE", !.ticket = None].status = "AVAILABLE"
    BY <1>1 DEF SeatRow
  <2> QED BY <1>7, <2>1 DEF CancelCommit
<1>8. ASSUME NEW w \in Workers, TripCancelCommit(w) PROVE seat'[s] = seat[s]
  <2>1. [Freed(seat[s]) EXCEPT !.status = "BLOCKED"].status = "BLOCKED"
    BY <1>2 DEF SeatRow
  <2> QED BY <1>8, <2>1 DEF TripCancelCommit
<1>9. ASSUME NEW u \in Users, NEW r \in Seats, Release(u, r) PROVE seat'[s] = seat[s]
  BY <1>1, <1>2, <1>9 DEF Release
<1>10. ASSUME NEW r \in Seats, HoldExpires(r)
       PROVE  seat[s].status = "HELD" /\ seat'[s].heldBy = seat[s].heldBy
  <2>1. /\ [seat[s] EXCEPT !.expired = TRUE].status = seat[s].status
        /\ [seat[s] EXCEPT !.expired = TRUE].heldBy = seat[s].heldBy
    BY <1>1 DEF SeatRow
  <2> QED BY <1>1, <1>10, <2>1 DEF HoldExpires
<1>11. CASE SeatMap
  <2>1. PICK copied \in SUBSET (Seats \ Existing), fallback \in FallbackPrices :
          seat' = [r \in Seats |->
               IF r \in ExpiredHolds THEN Freed(seat[r])
               ELSE IF r \in copied
                    THEN [seat[r] EXCEPT !.status = "AVAILABLE", !.price = fallback]
                    ELSE seat[r]]
    BY <1>11 DEF SeatMap
  <2>2. [seat[s] EXCEPT !.status = "AVAILABLE", !.price = fallback].status = "AVAILABLE"
    BY <1>1 DEF SeatRow
  <2> QED BY <1>2, <2>1, <2>2
<1>12. CASE TripUpdate
  <2>1. \/ seat'[s] = seat[s]
        \/ \E p : seat[s].status = "AVAILABLE" /\ seat'[s] = [seat[s] EXCEPT !.price = p]
    BY <1>12 DEF TripUpdate
  <2>2. ASSUME NEW p PROVE [seat[s] EXCEPT !.price = p].status = seat[s].status
    BY <1>1 DEF SeatRow
  <2> QED BY <2>1, <2>2
<1>13. TripRemove => seat'[s].status = "MISSING"
  <2>1. [Freed(seat[s]) EXCEPT !.status = "MISSING", !.ticket = None].status = "MISSING"
    BY <1>2 DEF SeatRow
  <2> QED BY <2>1 DEF TripRemove
<1>14. CASE \/ \E w \in Workers : GenerateWrite(w) \/ DepartCommit(w) \/ CheckInWrite(w)
            \/ \E k \in Keys : KeyExpires(k)
            \/ UNCHANGED rows \/ UNCHANGED vars
  BY <1>4, <1>14 DEF GenerateWrite, DepartCommit, CheckInWrite, KeyExpires, rows, vars
<1> QED
  BY <1>3, <1>5, <1>6, <1>7, <1>8, <1>9, <1>10, <1>11, <1>12, <1>13, <1>14, NextCases

\* A held seat becomes BOOKED by the commit of a booking that claimed it.
LEMMA BookedEffect ==
  ASSUME IInv, [Next]_vars, NEW s \in Seats, seat[s].status = "HELD", seat'[s].status = "BOOKED"
  PROVE  \E w \in Workers : BookingCommit(w) /\ s \in tx[w].seats
<1>1. seat[s] \in SeatRow /\ seat \in [Seats -> SeatRow] /\ TypeOK
  BY DEF IInv, TypeOK
<1>2. Freed(seat[s]) \in SeatRow
  BY <1>1, FreedIsRow
<1>3. ASSUME \/ \E w \in Workers : HoldWrite(w)
             \/ \E u \in Users, r \in Seats : Release(u, r)
             \/ \E r \in Seats : HoldExpires(r)
             \/ SeatMap \/ TripUpdate
      PROVE  FALSE
  BY <1>1, <1>3, UnsoldSeatEffect
<1>4. ASSUME NEW w \in Workers, CancelCommit(w) PROVE FALSE
  <2>1. [seat[s] EXCEPT !.status = "AVAILABLE", !.ticket = None].status = "AVAILABLE"
    BY <1>1 DEF SeatRow
  <2> QED BY <1>4, <2>1 DEF CancelCommit
<1>5. ASSUME NEW w \in Workers, TripCancelCommit(w) PROVE FALSE
  <2>1. [Freed(seat[s]) EXCEPT !.status = "BLOCKED"].status = "BLOCKED"
    BY <1>2 DEF SeatRow
  <2> QED BY <1>5, <2>1 DEF TripCancelCommit
<1>6. ASSUME TripRemove PROVE FALSE
  <2>1. [Freed(seat[s]) EXCEPT !.status = "MISSING", !.ticket = None].status = "MISSING"
    BY <1>2 DEF SeatRow
  <2> QED BY <1>6, <2>1 DEF TripRemove
<1>7. ASSUME NEW w \in Workers, BookingCommit(w) PROVE s \in tx[w].seats
  BY <1>7 DEF BookingCommit
<1>8. ASSUME \/ \E w \in Workers : GenerateWrite(w) \/ DepartCommit(w) \/ CheckInWrite(w)
             \/ \E k \in Keys : KeyExpires(k)
             \/ UNCHANGED rows \/ UNCHANGED vars
      PROVE  FALSE
  BY <1>8 DEF GenerateWrite, DepartCommit, CheckInWrite, KeyExpires, rows, vars
<1> QED
  BY <1>3, <1>4, <1>5, <1>6, <1>7, <1>8, NextCases

\* A request that has claimed its seats did so before, or in this step.
LEMMA ClaimedEffect ==
  ASSUME IInv, [Next]_vars, NEW v \in Workers, tx'[v].pc = "claimed"
  PROVE  tx'[v] = tx[v] \/ (BookingClaim(v) /\ UNCHANGED rows)
<1>1. tx \in [Workers -> Request] /\ TypeOK
  BY DEF IInv, TypeOK
<1>2. ASSUME NEW w \in Workers, Reads(w) \/ End(w), v # w PROVE tx'[v] = tx[v]
  BY <1>1, <1>2, OthersKeepTx
<1>3. ~ End(v)
  BY <1>1, EndIsIdle
<1>4. Reads(v) => BookingClaim(v)
  <2>1. Reads(v) => \/ \E r : r.pc # "claimed" /\ (Begin(v, r) \/ BeginLocked(v, r))
                    \/ BookingPrice(v) \/ BookingClaim(v) \/ Abort(v)
    BY DEF Reads, HoldRead, BookingBegin, CancelBegin, TripCancelBegin, GenerateRead,
      DepartBegin, CheckInRead, Idle
  <2>2. ASSUME NEW r, Begin(v, r) \/ BeginLocked(v, r) PROVE tx'[v] = r
    BY <1>1, <2>2 DEF Begin, BeginLocked
  <2>3. ~ BookingPrice(v)
    BY <1>1 DEF BookingPrice, Request
  <2>4. ~ Abort(v)
    BY <1>3 DEF Abort
  <2> QED BY <2>1, <2>2, <2>3, <2>4
<1>5. ASSUME NEW w \in Workers,
             \/ HoldWrite(w) \/ BookingCommit(w) \/ CancelCommit(w) \/ TripCancelCommit(w)
             \/ GenerateWrite(w) \/ DepartCommit(w) \/ CheckInWrite(w)
      PROVE  End(w)
  BY <1>5 DEF HoldWrite, BookingCommit, CancelCommit, TripCancelCommit, GenerateWrite,
    DepartCommit, CheckInWrite
<1>6. CASE \/ \E u \in Users, s \in Seats : Release(u, s)
           \/ \E s \in Seats : HoldExpires(s)
           \/ \E k \in Keys : KeyExpires(k)
           \/ SeatMap \/ TripUpdate \/ TripRemove \/ UNCHANGED vars
  BY <1>6 DEF Release, HoldExpires, KeyExpires, SeatMap, TripUpdate, TripRemove, vars
<1> QED
  BY <1>2, <1>3, <1>4, <1>5, <1>6, NextCases

LEMMA HoldStep ==
  ASSUME IInv, [Next]_vars
  PROVE  HoldInv'
<1> SUFFICES ASSUME NEW v \in Workers, tx'[v].pc = "claimed",
                    NEW s \in tx'[v].seats, seat'[s].status = "HELD"
             PROVE  seat'[s].heldBy = tx'[v].user
  BY DEF HoldInv
<1>1. tx[v] \in Request
  BY DEF IInv, TypeOK
<1>2. CASE BookingClaim(v) /\ UNCHANGED rows
  <2>1. tx'[v].seats = tx[v].seats /\ tx'[v].user = tx[v].user /\ UNCHANGED seat
    BY <1>1, <1>2 DEF BookingClaim, Request, IInv, TypeOK, rows
  <2> QED BY <1>2, <2>1 DEF BookingClaim, Claimable
<1>3. CASE tx'[v] = tx[v]
  <2>1. s \in Seats /\ RowLocked(s)
    BY <1>1, <1>3 DEF RowLocked, Request
  <2>2. ~ \E w \in Workers : HoldWrite(w) /\ s \in tx[w].seats
    BY <2>1 DEF HoldWrite
  <2>3. seat[s].status = "HELD" /\ seat'[s].heldBy = seat[s].heldBy
    BY <2>1, <2>2, HeldEffect
  <2> QED BY <1>3, <2>3 DEF IInv, HoldInv
<1> QED BY <1>2, <1>3, ClaimedEffect

-----------------------------------------------------------------------------
(* The end of a booking *)

\* What a fee leaves of an amount is part of it.
LEMMA ShareIsPart ==
  ASSUME NEW amount \in Nat, NEW fee \in 0 .. HundredPercent
  PROVE  Share(amount, fee) \in 0 .. amount
<1> DEFINE left == amount * (10000 - fee)
<1>1. left \in 0 .. 10000 * amount
  BY DEF HundredPercent
<1>2. Share(amount, fee) = (2 * left + 10000) \div 20000
  <2>1. HundredPercent = 10000
    BY DEF HundredPercent
  <2>2. Share(amount, fee) = (2 * amount * (10000 - fee) + 10000) \div (2 * 10000)
    BY <2>1 DEF Share
  <2>3. 2 * amount * (10000 - fee) = 2 * left
    OBVIOUS
  <2> QED BY <2>2, <2>3
<1> HIDE DEF left
<1>3. (2 * left + 10000) \div 20000 \in 0 .. amount
  BY <1>1
<1> QED BY <1>2, <1>3

\* A refund touches the payments of the bookings that end, and no amount.
LEMMA RefundEffect ==
  ASSUME PaymentInv, BooksAgree, NEW bs, bs \subseteq SoldBookings,
         NEW fee \in Fees, EndBookings(bs, fee)
  PROVE  /\ PaymentInv'
         /\ \A b \in Bookings : payment'[b].amount = payment[b].amount
         /\ \A b \in Bookings \ bs : payment'[b] = payment[b]
         /\ \A b \in bs : /\ payment'[b].refunded = RefundDue(b, fee)
                          /\ RefundDue(b, fee) \in 0 .. payment[b].amount
<1>1. payment' = [b \in Bookings |->
        IF b \in bs THEN [payment[b] EXCEPT !.refunded = @ + RefundDue(b, fee)]
                    ELSE payment[b]]
  BY DEF EndBookings
<1>2. fee \in 0 .. HundredPercent
  OBVIOUS
<1>3. ASSUME NEW b \in Bookings
      PROVE  payment[b] \in [amount : Nat, refunded : Nat]
  BY DEF PaymentInv
<1>4. ASSUME NEW b \in bs
      PROVE  /\ b \in Bookings
             /\ payment[b].refunded = 0
             /\ RefundDue(b, fee) \in 0 .. payment[b].amount
  <2>1. b \in Bookings /\ booking[b].status = "CONFIRMED"
    BY DEF SoldBookings
  <2>2. payment[b].refunded = 0 /\ payment[b].amount \in Nat
    <3>1. payment[b].amount \in Nat /\ payment[b].refunded \in Nat
      BY <1>3, <2>1
    <3>2. ~(payment[b].refunded > 0)
      BY <2>1 DEF BooksAgree
    <3> QED BY <3>1, <3>2
  <2>3. RefundDue(b, fee) = Share(payment[b].amount, fee)
    BY <2>2 DEF RefundDue
  <2> QED BY <1>2, <2>1, <2>2, <2>3, ShareIsPart
<1>5. ASSUME NEW b \in bs
      PROVE  /\ payment'[b] \in [amount : Nat, refunded : Nat]
             /\ payment'[b].amount = payment[b].amount
             /\ payment'[b].refunded = RefundDue(b, fee)
  <2> DEFINE due == RefundDue(b, fee)
  <2>1. payment[b] \in [amount : Nat, refunded : Nat] /\ payment[b].refunded = 0 /\ due \in Nat
    BY <1>3, <1>4
  <2>2. payment'[b] = [payment[b] EXCEPT !.refunded = @ + due]
    BY <1>1, <1>4
  <2> HIDE DEF due
  <2>3. /\ payment'[b] \in [amount : Nat, refunded : Nat]
        /\ payment'[b].amount = payment[b].amount
        /\ payment'[b].refunded = due
    BY <2>1, <2>2
  <2> QED BY <2>3 DEF due
<1>6. \A b \in Bookings \ bs : payment'[b] = payment[b]
  BY <1>1
<1>7. payment' \in [Bookings -> [amount : Nat, refunded : Nat]]
  <2>1. \A b \in Bookings : payment'[b] \in [amount : Nat, refunded : Nat]
    BY <1>3, <1>5, <1>6
  <2>2. payment' = [b \in Bookings |-> payment'[b]]
    BY <1>1
  <2> QED BY <2>1, <2>2
<1> QED BY <1>4, <1>5, <1>6, <1>7 DEF PaymentInv

\* What a request that cancels ends.
LEMMA CancelEffect ==
  ASSUME IInv, NEW w \in Workers, CancelCommit(w) \/ TripCancelCommit(w)
  PROVE  \E bs, fee : fee \in Fees /\ bs \subseteq SoldBookings /\ EndBookings(bs, fee)
<1>1. tx[w].pc = "cancel" => tx[w].booking \in SoldBookings
  BY DEF IInv, RequestInv, RequestOK
<1>2. CASE CancelCommit(w)
  <2>1. /\ tx[w].booking \in SoldBookings
        /\ \E fee \in Fees : EndBookings({tx[w].booking}, fee)
    BY <1>1, <1>2 DEF CancelCommit
  <2> QED BY <2>1
<1>3. CASE TripCancelCommit(w)
  <2>1. \E fee \in Fees : EndBookings(SoldBookings, fee)
    BY <1>3 DEF TripCancelCommit
  <2> QED BY <2>1
<1> QED BY <1>2, <1>3

\* What a booking is after a step, and what has been paid for it.
EndedOnce(b) ==
  /\ booking[b].status \in EndStatuses => booking'[b] = booking[b] /\ payment'[b] = payment[b]
  /\ booking[b].status = "CONFIRMED"
       => booking'[b].status # "NONE" /\ payment'[b].amount = payment[b].amount

\* What BooksAgree says of one booking.
BookAgrees(b) ==
  /\ payment[b].refunded \in 0 .. payment[b].amount
  /\ booking[b].status = "REFUNDED" <=> payment[b].refunded > 0
  /\ payment[b].refunded > 0 <=> <<"REFUND_COMPLETED", b>> \in outbox
  /\ payment[b].amount > 0 <=> <<"PAYMENT_RECEIVED", b>> \in outbox
  /\ payment[b].amount > 0 <=> booking[b].status # "NONE"
  /\ commission[b] = "DUE" => booking[b].status = "CONFIRMED"
  /\ commission[b] = "REVERSED" => booking[b].status \in EndStatuses

\* The fare of a claim is positive: it claims a seat, and every seat has a price.
LEMMA FareIsPositive ==
  ASSUME IInv, NEW w \in Workers, tx[w].pc = "claimed"
  PROVE  SumFunction(tx[w].fare) \in Nat \ {0}
<1> DEFINE fare == tx[w].fare
           free == [s \in Seats |-> 0]
<1>1. fare \in [Seats -> Prices \cup {0}] /\ tx[w].seats \in SUBSET Seats
  BY DEF IInv, TypeOK, Request
<1>2. PICK s \in tx[w].seats : fare[s] \in Prices
  BY DEF IInv, StatusInv, StatusOK, FareInv
<1>3. DOMAIN fare = Seats /\ s \in Seats
  BY <1>1, <1>2
<1>4. \A t \in Seats : fare[t] \in Prices \cup {0}
  BY <1>1
<1>5. \A t \in Seats : free[t] = 0
  OBVIOUS
<1>6. (\A p \in Prices : p \in Nat /\ p > 0) /\ (\A p \in Prices \cup {0} : p \in Nat)
  BY PricesArePositive
<1> HIDE DEF fare, free
<1> HIDE PricesArePositive, FeesArePercentages
<1>7. \A t \in Seats : free[t] \in Int /\ fare[t] \in Int /\ free[t] <= fare[t]
  <2> SUFFICES ASSUME NEW t \in Seats
               PROVE  free[t] \in Int /\ fare[t] \in Int /\ free[t] <= fare[t]
    OBVIOUS
  <2>1. fare[t] \in Nat
    BY <1>4, <1>6
  <2> QED BY <1>5, <2>1
<1>8. fare[s] > 0 /\ fare[s] \in Int /\ free[s] = 0
  <2>1. fare[s] \in Nat /\ fare[s] > 0
    BY <1>2, <1>6
  <2> QED BY <1>3, <1>5, <2>1
<1>9. SumFunctionOnSet(fare, Seats) \in Int /\ SumFunctionOnSet(free, Seats) \in Int
  BY <1>7, BusIsFinite, SumType
<1>10. fare[s] - free[s] <= SumFunctionOnSet(fare, Seats) - SumFunctionOnSet(free, Seats)
  BY <1>3, <1>7, BusIsFinite, SumMonotone
<1>11. SumFunctionOnSet(free, Seats) = 0
  <2>1. SumFunctionOnSet(free, Seats) = 0 * Cardinality(Seats) /\ Cardinality(Seats) \in Nat
    BY <1>5, SumOfEqual, FS_CardinalityType
  <2> QED BY <2>1
<1>12. SumFunctionOnSet(fare, Seats) \in Nat \ {0}
  BY <1>8, <1>9, <1>10, <1>11
<1> QED BY <1>3, <1>12 DEF SumFunction, fare

\* Payments, refunds, events and commissions follow the booking.
LEMMA EndStep ==
  ASSUME IInv, [Next]_vars
  PROVE  /\ PaymentInv'
         /\ \A b \in Bookings : EndedOnce(b)
         /\ \A b \in Bookings : BookAgrees(b)'
<1> DEFINE Goal == /\ PaymentInv'
                   /\ \A b \in Bookings : EndedOnce(b)
                   /\ \A b \in Bookings : BookAgrees(b)'
<1>1. /\ booking \in [Bookings -> [status : {"NONE", "CONFIRMED"} \cup EndStatuses,
                                   by     : Users \cup {None}]]
      /\ payment \in [Bookings -> [amount : Nat, refunded : Nat]]
      /\ commission \in [Bookings -> {"NONE", "DUE", "REVERSED"}]
      /\ \A b \in Bookings : BookAgrees(b)
  BY DEF IInv, TypeOK, PaymentInv, BooksAgree, BookAgrees
<1>2. CASE UNCHANGED <<booking, payment, commission, outbox>>
  BY <1>1, <1>2 DEF PaymentInv, EndedOnce, BookAgrees
<1>3. ASSUME NEW w \in Workers, BookingCommit(w) PROVE Goal
  <2> DEFINE c == tx[w].booking
             paid == SumFunction(tx[w].fare)
  <2>1. c \in Bookings /\ booking[c].status = "NONE" /\ paid \in Nat \ {0}
    BY <1>3, FareIsPositive DEF BookingCommit, IInv, RequestInv, RequestOK
  <2>2. /\ payment' = [payment EXCEPT ![c] = [amount |-> paid, refunded |-> 0]]
        /\ booking' = [booking EXCEPT ![c] = [status |-> "CONFIRMED", by |-> tx[w].user]]
        /\ outbox' = outbox \cup {<<"PAYMENT_RECEIVED", c>>}
        /\ \E agent \in BOOLEAN :
             commission' = [commission EXCEPT ![c] = IF agent THEN "DUE" ELSE @]
    BY <1>3 DEF BookingCommit
  <2> HIDE DEF c, paid
  <2>3. /\ payment'[c] = [amount |-> paid, refunded |-> 0]
        /\ booking'[c].status = "CONFIRMED"
        /\ commission'[c] \in {"DUE", commission[c]}
        /\ \A b \in Bookings \ {c} : /\ payment'[b] = payment[b] /\ booking'[b] = booking[b]
                                     /\ commission'[b] = commission[b]
    BY <1>1, <2>1, <2>2
  <2>4. PaymentInv'
    BY <1>1, <2>1, <2>2 DEF PaymentInv
  <2>5. \A b \in Bookings : EndedOnce(b)
    BY <2>1, <2>3 DEF EndedOnce, EndStatuses
  <2>6. ASSUME NEW b \in Bookings PROVE BookAgrees(b)'
    <3>1. CASE b = c
      <4>1. /\ BookAgrees(b) /\ booking[b].status = "NONE"
            /\ payment[b].refunded \in Nat
        BY <1>1, <2>1, <3>1
      <4>2. /\ ~(payment[b].refunded > 0) /\ <<"REFUND_COMPLETED", b>> \notin outbox
            /\ commission[b] \notin {"DUE", "REVERSED"}
        BY <4>1 DEF BookAgrees, EndStatuses
      <4>3. payment'[b].amount = paid /\ payment'[b].refunded = 0
        BY <2>3, <3>1
      <4>4. booking'[b].status = "CONFIRMED" /\ commission'[b] # "REVERSED"
        BY <2>3, <3>1, <4>2
      <4>5. <<"REFUND_COMPLETED", b>> \notin outbox' /\ <<"PAYMENT_RECEIVED", b>> \in outbox'
        BY <2>2, <3>1, <4>2
      <4>6. paid > 0 /\ 0 \in 0 .. paid
        BY <2>1
      <4> QED BY <4>3, <4>4, <4>5, <4>6 DEF BookAgrees, EndStatuses
    <3>2. CASE b # c
      <4>1. \A type \in {"PAYMENT_RECEIVED", "REFUND_COMPLETED"} :
              <<type, b>> \in outbox' <=> <<type, b>> \in outbox
        BY <2>2, <3>2
      <4> QED BY <1>1, <2>3, <3>2, <4>1 DEF BookAgrees
    <3> QED BY <3>1, <3>2
  <2> QED BY <2>4, <2>5, <2>6
<1>4. ASSUME NEW w \in Workers, CancelCommit(w) \/ TripCancelCommit(w) PROVE Goal
  <2>1. PICK bs, fee : fee \in Fees /\ bs \subseteq SoldBookings /\ EndBookings(bs, fee)
    BY <1>4, CancelEffect
  <2> DEFINE due(b) == RefundDue(b, fee)
             ended(b) == IF due(b) > 0 THEN "REFUNDED" ELSE "CANCELLED"
  <2>2. /\ PaymentInv'
        /\ \A b \in Bookings : payment'[b].amount = payment[b].amount
        /\ \A b \in Bookings \ bs : payment'[b] = payment[b]
        /\ \A b \in bs : payment'[b].refunded = due(b) /\ due(b) \in 0 .. payment[b].amount
    BY <2>1, RefundEffect DEF IInv
  <2>3. /\ booking' = [b \in Bookings |->
             IF b \in bs THEN [booking[b] EXCEPT !.status = ended(b)] ELSE booking[b]]
        /\ commission' = [b \in Bookings |->
             IF b \in bs /\ commission[b] = "DUE" THEN "REVERSED" ELSE commission[b]]
        /\ outbox' = outbox \cup {<<"REFUND_COMPLETED", b>> : b \in {c \in bs : due(c) > 0}}
    BY <2>1 DEF EndBookings
  <2>4. \A b \in bs : b \in Bookings /\ booking[b].status = "CONFIRMED"
    BY <2>1 DEF SoldBookings
  <2>5. \A b : ended(b) \in EndStatuses /\ (ended(b) = "REFUNDED" <=> due(b) > 0)
    BY DEF EndStatuses
  <2> HIDE DEF due, ended
  <2>6. \A b \in bs : booking'[b].status = ended(b)
    BY <1>1, <2>3, <2>4
  <2>7. \A b \in Bookings \ bs : booking'[b] = booking[b] /\ commission'[b] = commission[b]
    BY <2>3
  <2>8. \A b \in bs : commission'[b] # "DUE"
    BY <2>3, <2>4
  <2>9. \A b \in Bookings :
          /\ <<"PAYMENT_RECEIVED", b>> \in outbox' <=> <<"PAYMENT_RECEIVED", b>> \in outbox
          /\ <<"REFUND_COMPLETED", b>> \in outbox'
               <=> <<"REFUND_COMPLETED", b>> \in outbox \/ (b \in bs /\ due(b) > 0)
    BY <2>3
  <2>10. \A b \in Bookings : EndedOnce(b)
    BY <2>2, <2>4, <2>5, <2>6, <2>7 DEF EndedOnce, EndStatuses
  <2>11. ASSUME NEW b \in Bookings PROVE BookAgrees(b)'
    <3>1. BookAgrees(b) /\ payment[b].amount \in Nat
      BY <1>1
    <3>2. CASE b \in bs
      <4>1. /\ payment'[b].amount = payment[b].amount /\ payment'[b].refunded = due(b)
            /\ due(b) \in 0 .. payment[b].amount
        BY <2>2, <3>2
      <4>2. /\ booking'[b].status \in EndStatuses
            /\ booking'[b].status = "REFUNDED" <=> due(b) > 0
        BY <2>5, <2>6, <3>2
      <4>3. booking[b].status = "CONFIRMED" /\ commission'[b] # "DUE"
        BY <2>4, <2>8, <3>2
      <4>4. <<"REFUND_COMPLETED", b>> \notin outbox
        BY <3>1, <4>3 DEF BookAgrees
      <4> QED BY <2>9, <3>1, <3>2, <4>1, <4>2, <4>3, <4>4 DEF BookAgrees, EndStatuses
    <3>3. CASE b \notin bs
      <4>1. payment'[b] = payment[b] /\ booking'[b] = booking[b] /\ commission'[b] = commission[b]
        BY <2>2, <2>7, <3>3
      <4> QED BY <2>9, <3>1, <3>3, <4>1 DEF BookAgrees
    <3> QED BY <3>2, <3>3
  <2> QED BY <2>2, <2>10, <2>11
<1>5. CASE \/ \E w \in Workers : \/ HoldWrite(w) \/ GenerateWrite(w)
                                 \/ DepartCommit(w) \/ CheckInWrite(w)
           \/ \E u \in Users, s \in Seats : Release(u, s)
           \/ \E s \in Seats : HoldExpires(s)
           \/ \E k \in Keys : KeyExpires(k)
           \/ SeatMap \/ TripUpdate \/ TripRemove
           \/ UNCHANGED rows \/ UNCHANGED vars
  BY <1>2, <1>5 DEF HoldWrite, GenerateWrite, DepartCommit, CheckInWrite, Release,
    HoldExpires, KeyExpires, SeatMap, TripUpdate, TripRemove, rows, vars
<1> QED BY <1>3, <1>4, <1>5, NextCases

\* The prices a claim charges are those it has read for its seats.
LEMMA FareStep ==
  ASSUME IInv, [Next]_vars
  PROVE  FareInv'
<1> DEFINE Fared(v) == tx[v].pc \in {"priced", "claimed"} =>
                         \A s \in tx[v].seats : tx[v].fare[s] \in Prices
<1> SUFFICES ASSUME NEW v \in Workers PROVE Fared(v)'
  BY DEF FareInv
<1>1. Fared(v) /\ TypeOK /\ tx \in [Workers -> Request]
  BY DEF IInv, FareInv, TypeOK
<1>2. ASSUME tx'[v] = tx[v] PROVE Fared(v)'
  BY <1>1, <1>2
<1>3. ASSUME NEW w \in Workers, End(w) PROVE Fared(v)'
  BY <1>1, <1>2, <1>3, EndIsIdle, OthersKeepTx
<1>4. ASSUME Reads(v), UNCHANGED rows PROVE Fared(v)'
  <2>1. CASE BookingPrice(v)
    <3>1. /\ tx'[v].seats = tx[v].seats /\ tx[v].seats \subseteq Seats
          /\ tx'[v].fare = [s \in Seats |-> IF s \in tx[v].seats THEN seat[s].price ELSE 0]
      BY <1>1, <2>1 DEF BookingPrice, Request
    <3>2. \A s \in Seats : seat[s].price \in Prices
      BY <1>1 DEF TypeOK, SeatRow
    <3> QED BY <3>1, <3>2
  <2>2. CASE BookingClaim(v)
    <3>1. /\ tx[v].pc = "priced"
          /\ tx'[v].seats = tx[v].seats /\ tx'[v].fare = tx[v].fare
      BY <1>1, <2>2 DEF BookingClaim, Request
    <3> QED BY <1>1, <3>1
  <2>3. CASE Abort(v)
    BY <1>3, <2>3 DEF Abort
  <2>4. ASSUME NEW request, tx' = [tx EXCEPT ![v] = request],
               request.pc \notin {"priced", "claimed"}
        PROVE  Fared(v)'
    BY <1>1, <2>4
  <2>5. ASSUME NEW u \in Users, NEW s \in Seats, HoldRead(v, u, s) PROVE Fared(v)'
    BY <2>4, <2>5 DEF HoldRead, Begin, Idle
  <2>6. ASSUME NEW u \in Users, NEW b \in Bookings, NEW S \in SUBSET Seats,
               BookingBegin(v, u, b, S)
        PROVE  Fared(v)'
    BY <2>4, <2>6 DEF BookingBegin, BeginLocked, Idle
  <2>7. ASSUME NEW b \in Bookings, NEW k \in Keys, CancelBegin(v, b, k) PROVE Fared(v)'
    BY <2>4, <2>7 DEF CancelBegin, BeginLocked, Idle
  <2>8. ASSUME NEW k \in Keys, TripCancelBegin(v, k) PROVE Fared(v)'
    BY <2>4, <2>8 DEF TripCancelBegin, BeginLocked, Idle
  <2>9. CASE GenerateRead(v)
    BY <2>4, <2>9 DEF GenerateRead, Begin, Idle
  <2>10. CASE DepartBegin(v)
    BY <2>4, <2>10 DEF DepartBegin, BeginLocked, Idle
  <2>11. ASSUME NEW b \in Bookings, NEW s \in Seats, CheckInRead(v, b, s) PROVE Fared(v)'
    BY <2>4, <2>11 DEF CheckInRead, Begin, Idle
  <2> HIDE DEF Fared
  <2> QED BY <1>4, <2>1, <2>2, <2>3, <2>5, <2>6, <2>7, <2>8, <2>9, <2>10, <2>11, Zenon DEF Reads
<1>5. ASSUME NEW w \in Workers, Reads(w), UNCHANGED rows PROVE Fared(v)'
  BY <1>1, <1>2, <1>4, <1>5, OthersKeepTx
<1>6. ASSUME NEW w \in Workers,
             \/ HoldWrite(w) \/ BookingCommit(w) \/ CancelCommit(w) \/ TripCancelCommit(w)
             \/ GenerateWrite(w) \/ DepartCommit(w) \/ CheckInWrite(w)
      PROVE  End(w)
  BY <1>6 DEF HoldWrite, BookingCommit, CancelCommit, TripCancelCommit, GenerateWrite,
    DepartCommit, CheckInWrite
<1>7. CASE \/ \E u \in Users, s \in Seats : Release(u, s)
           \/ \E s \in Seats : HoldExpires(s)
           \/ \E k \in Keys : KeyExpires(k)
           \/ SeatMap \/ TripUpdate \/ TripRemove \/ UNCHANGED vars
  BY <1>2, <1>7 DEF Release, HoldExpires, KeyExpires, SeatMap, TripUpdate, TripRemove, vars
<1> QED BY <1>3, <1>5, <1>6, <1>7, NextCases

\* The keys of cancellations.
LEMMA ReplayStep ==
  ASSUME IInv, [Next]_vars
  PROVE  ReplayedCancelHappened'
<1>1. \A b \in Bookings : EndedOnce(b)
  BY EndStep
<1>2. cancelled \in [Keys -> Bookings \cup {None}]
  BY DEF IInv, TypeOK
<1>3. CASE \A k \in Keys : cancelled'[k] \in {cancelled[k], None}
  BY <1>1, <1>2, <1>3 DEF IInv, ReplayedCancelHappened, EndedOnce
<1>4. ASSUME NEW w \in Workers, CancelCommit(w) PROVE ReplayedCancelHappened'
  <2> DEFINE c == tx[w].booking
  <2>1. c \in Bookings /\ tx[w].key \in Keys /\ cancelled' = [cancelled EXCEPT ![tx[w].key] = c]
    BY <1>4 DEF CancelCommit, IInv, RequestInv, RequestOK, SoldBookings
  <2>2. booking'[c].status \in EndStatuses
    <3>1. PICK fee \in Fees : EndBookings({c}, fee)
      BY <1>4 DEF CancelCommit
    <3>2. TypeOK /\ {c} \in SUBSET Bookings /\ c \in {c}
      BY <2>1 DEF IInv
    <3> HIDE DEF c
    <3> QED BY <3>1, <3>2, EndBookingsEffect
  <2> HIDE DEF c
  <2> QED BY <1>1, <1>2, <2>1, <2>2 DEF IInv, ReplayedCancelHappened, EndedOnce
<1>5. ASSUME NEW k \in Keys, KeyExpires(k)
      PROVE  \A j \in Keys : cancelled'[j] \in {cancelled[j], None}
  BY <1>2, <1>5 DEF KeyExpires
<1>6. CASE UNCHANGED cancelled
  BY <1>3, <1>6
<1>7. CASE \/ \E w \in Workers : \/ HoldWrite(w) \/ GenerateWrite(w) \/ BookingCommit(w)
                                 \/ DepartCommit(w) \/ CheckInWrite(w) \/ TripCancelCommit(w)
           \/ \E u \in Users, s \in Seats : Release(u, s)
           \/ \E s \in Seats : HoldExpires(s)
           \/ SeatMap \/ TripUpdate \/ TripRemove
           \/ UNCHANGED rows \/ UNCHANGED vars
  BY <1>6, <1>7 DEF HoldWrite, GenerateWrite, BookingCommit, DepartCommit, CheckInWrite,
    TripCancelCommit, Release, HoldExpires, SeatMap, TripUpdate, TripRemove, rows, vars
<1> QED BY <1>3, <1>4, <1>5, <1>7, NextCases

-----------------------------------------------------------------------------
(* What a change of the trip leaves of the requests in progress *)

\* A deleted trip gets no rows back.
LEMMA RemovedStep ==
  ASSUME IInv, [Next]_vars
  PROVE  RemovedInv'
<1>1. seat \in [Seats -> SeatRow] /\ RemovedInv
  BY DEF IInv, TypeOK
<1>2. CASE UNCHANGED <<tripStatus, seat, booking>>
  BY <1>1, <1>2 DEF RemovedInv, Existing, SoldBookings
<1>3. CASE tripStatus' # "DELETED"
  BY <1>3 DEF RemovedInv
<1>4. ASSUME NEW w \in Workers, HoldWrite(w) PROVE RemovedInv'
  <2>1. UNCHANGED <<tripStatus, booking>>
    BY <1>4 DEF HoldWrite
  <2>2. tripStatus = "DELETED" => \A s \in Seats : s \notin tx[w].seats /\ seat'[s] = seat[s]
    BY <1>1, <1>4 DEF HoldWrite, Claimable, RemovedInv, Existing
  <2> QED BY <1>1, <2>1, <2>2 DEF RemovedInv, Existing, SoldBookings
<1>5. ASSUME NEW w \in Workers, BookingCommit(w) PROVE tripStatus' # "DELETED"
  <2>1. /\ tx[w].seats # {} /\ tx[w].seats \subseteq Seats
        /\ \A s \in tx[w].seats : seat[s].status \in {"AVAILABLE", "HELD"}
    BY <1>5 DEF BookingCommit, IInv, TypeOK, Request, StatusInv, StatusOK, RequestInv, RequestOK
  <2>2. tripStatus # "DELETED"
    BY <1>1, <2>1 DEF RemovedInv, Existing
  <2> QED BY <1>5, <2>2 DEF BookingCommit
<1>6. ASSUME NEW w \in Workers, CancelCommit(w) PROVE tripStatus' # "DELETED"
  <2>1. tripStatus # "DELETED"
    BY <1>1, <1>6 DEF CancelCommit, IInv, RequestInv, RequestOK, RemovedInv
  <2> QED BY <1>6, <2>1 DEF CancelCommit
<1>7. ASSUME \/ \E u \in Users, s \in Seats : Release(u, s)
             \/ \E s \in Seats : HoldExpires(s)
      PROVE  tripStatus' # "DELETED"
  BY <1>1, <1>7 DEF Release, HoldExpires, RemovedInv, Existing
<1>8. ASSUME \/ SeatMap \/ TripUpdate
             \/ \E w \in Workers : TripCancelCommit(w) \/ DepartCommit(w)
      PROVE  tripStatus' # "DELETED"
  BY <1>8 DEF SeatMap, TripUpdate, TripCancelCommit, DepartCommit
<1>9. CASE TripRemove
  <2>1. SoldBookings' = {}
    BY <1>9 DEF TripRemove, SoldBookings
  <2>2. ASSUME NEW s \in Seats PROVE seat'[s].status = "MISSING"
    <3>1. seat'[s] = [Freed(seat[s]) EXCEPT !.status = "MISSING", !.ticket = None]
      BY <1>9 DEF TripRemove
    <3>2. Freed(seat[s]) \in SeatRow
      BY <1>1, FreedIsRow
    <3> QED BY <3>1, <3>2 DEF SeatRow
  <2> QED BY <2>1, <2>2 DEF RemovedInv, Existing
<1>10. CASE \/ \E w \in Workers : GenerateWrite(w) \/ CheckInWrite(w)
            \/ \E k \in Keys : KeyExpires(k)
            \/ UNCHANGED rows \/ UNCHANGED vars
  BY <1>2, <1>10 DEF GenerateWrite, CheckInWrite, KeyExpires, rows, vars
<1> QED
  BY <1>3, <1>4, <1>5, <1>6, <1>7, <1>8, <1>9, <1>10, NextCases

\* The reads that begin neither a booking nor the cancellation of one.
OtherReads(w) ==
  \/ \E u \in Users, s \in Seats : HoldRead(w, u, s)
  \/ \E k \in Keys : TripCancelBegin(w, k)
  \/ GenerateRead(w) \/ DepartBegin(w)
  \/ \E b \in Bookings, s \in Seats : CheckInRead(w, b, s)

LEMMA OtherReadsEffect ==
  ASSUME tx \in [Workers -> Request], NEW w \in Workers, OtherReads(w)
  PROVE  tx'[w].pc \in {"hold", "tripCancel", "generate", "depart", "checkIn"}
<1>1. CASE \E u \in Users, s \in Seats : HoldRead(w, u, s)
  BY <1>1 DEF HoldRead, Begin, Idle
<1>2. CASE \E k \in Keys : TripCancelBegin(w, k)
  BY <1>2 DEF TripCancelBegin, BeginLocked, Idle
<1>3. CASE GenerateRead(w)
  BY <1>3 DEF GenerateRead, Begin, Idle
<1>4. CASE DepartBegin(w)
  BY <1>4 DEF DepartBegin, BeginLocked, Idle
<1>5. CASE \E b \in Bookings, s \in Seats : CheckInRead(w, b, s)
  BY <1>5 DEF CheckInRead, Begin, Idle
<1> QED BY <1>1, <1>2, <1>3, <1>4, <1>5 DEF OtherReads

\* What a request has just seen of its trip.
LEMMA ReadStatusOK ==
  ASSUME IInv, NEW w \in Workers, Reads(w), UNCHANGED rows
  PROVE  StatusOK(w)'
<1>1. tx \in [Workers -> Request] /\ StatusOK(w) /\ RemovedInv
  BY DEF IInv, TypeOK, StatusInv
<1>2. UNCHANGED <<tripStatus, seat>>
  BY DEF rows
<1>3. CASE tx'[w].pc \notin {"book", "priced", "claimed", "cancel"}
  BY <1>3 DEF StatusOK
<1>4. ASSUME NEW u \in Users, NEW b \in Bookings, NEW S \in SUBSET Seats,
             BookingBegin(w, u, b, S)
      PROVE  StatusOK(w)'
  <2>1. tx'[w].pc = "book" /\ tx'[w].seats = S
    BY <1>1, <1>4 DEF BookingBegin, BeginLocked, Idle
  <2> QED BY <1>2, <1>4, <2>1 DEF BookingBegin, StatusOK
<1>5. CASE BookingPrice(w)
  <2>1. tx[w].pc = "book" /\ tx'[w].pc = "priced" /\ tx'[w].seats = tx[w].seats
    BY <1>1, <1>5 DEF BookingPrice, Request
  <2> QED BY <1>1, <1>2, <2>1 DEF StatusOK
<1>6. CASE BookingClaim(w)
  <2>1. tx[w].pc = "priced" /\ tx'[w].pc = "claimed" /\ tx'[w].seats = tx[w].seats
    BY <1>1, <1>6 DEF BookingClaim, Request
  <2>2. \A s \in tx[w].seats : s \in Existing
    BY <1>1, <1>6 DEF BookingClaim, Claimable, Existing, Request
  <2>3. tx[w].seats # {}
    BY <1>1, <2>1 DEF StatusOK
  <2>4. tripStatus # "DELETED"
    BY <1>1, <2>2, <2>3 DEF RemovedInv
  <2> QED BY <1>1, <1>2, <2>1, <2>4 DEF StatusOK
<1>7. ASSUME NEW b \in Bookings, NEW k \in Keys, CancelBegin(w, b, k) PROVE StatusOK(w)'
  <2>1. tx'[w].pc = "cancel"
    BY <1>1, <1>7 DEF CancelBegin, BeginLocked, Idle
  <2> QED BY <1>2, <1>7, <2>1 DEF CancelBegin, StatusOK
<1>8. OtherReads(w) => tx'[w].pc \in {"hold", "tripCancel", "generate", "depart", "checkIn"}
  BY <1>1, OtherReadsEffect
<1>9. Abort(w) => tx'[w].pc = "idle"
  BY EndIsIdle DEF Abort, IInv
<1> QED BY <1>3, <1>4, <1>5, <1>6, <1>7, <1>8, <1>9, Zenon DEF Reads, OtherReads

LEMMA StatusStep ==
  ASSUME IInv, [Next]_vars
  PROVE  StatusInv'
<1> SUFFICES ASSUME NEW v \in Workers PROVE StatusOK(v)'
  BY DEF StatusInv
<1>1. StatusOK(v) /\ TypeOK /\ LockInv
  BY DEF IInv, StatusInv
<1>2. ASSUME tx'[v] = tx[v], UNCHANGED tripStatus PROVE StatusOK(v)'
  BY <1>1, <1>2 DEF StatusOK
<1>3. ASSUME NEW w \in Workers, Reads(w), UNCHANGED rows PROVE StatusOK(v)'
  BY <1>1, <1>2, <1>3, ReadStatusOK, OthersKeepTx DEF rows
\* A request that ends changes the trip only if it held the lock.
<1>4. ASSUME NEW w \in Workers, End(w), tx[w].pc \in LockedPoints \/ UNCHANGED tripStatus
      PROVE  StatusOK(v)'
  <2>1. CASE v = w
    BY <1>1, <1>4, <2>1, EndIsIdle DEF StatusOK
  <2>2. CASE v # w
    <3>1. tx'[v] = tx[v]
      BY <1>1, <1>4, <2>2, OthersKeepTx
    <3>2. tx[v].pc \notin LockedPoints \/ UNCHANGED tripStatus
      BY <1>1, <1>4, <2>2, OthersUnlocked
    <3> QED BY <1>2, <3>1, <3>2 DEF StatusOK, LockedPoints
  <2> QED BY <2>1, <2>2
<1>5. ASSUME NEW w \in Workers,
             \/ HoldWrite(w) \/ BookingCommit(w) \/ CancelCommit(w) \/ TripCancelCommit(w)
             \/ GenerateWrite(w) \/ DepartCommit(w) \/ CheckInWrite(w)
      PROVE  End(w) /\ (tx[w].pc \in LockedPoints \/ UNCHANGED tripStatus)
  BY <1>5 DEF HoldWrite, BookingCommit, CancelCommit, TripCancelCommit, GenerateWrite,
    DepartCommit, CheckInWrite, LockedPoints
<1>6. CASE \/ \E u \in Users, s \in Seats : Release(u, s)
           \/ \E s \in Seats : HoldExpires(s)
           \/ \E k \in Keys : KeyExpires(k)
           \/ SeatMap \/ UNCHANGED vars
  BY <1>2, <1>6 DEF Release, HoldExpires, KeyExpires, SeatMap, vars, rows
<1>7. CASE TripUpdate
  <2>1. tx' = tx /\ (tripStatus' \in PatchStatuses \/ tripStatus' = tripStatus)
    BY <1>7 DEF TripUpdate
  <2> QED BY <1>1, <2>1 DEF StatusOK, Bookable
<1>8. CASE TripRemove
  <2>1. tx' = tx /\ tripStatus' = "DELETED" /\ \A s \in Seats : ~RowLocked(s)
    BY <1>8 DEF TripRemove
  <2>2. tx[v].seats \subseteq Seats
    BY <1>1 DEF TypeOK, Request
  <2>3. tx[v].pc # "claimed"
    BY <1>1, <2>1, <2>2 DEF RowLocked, StatusOK
  <2> QED BY <1>1, <2>1, <2>3 DEF StatusOK
<1> QED BY <1>3, <1>4, <1>5, <1>6, <1>7, <1>8, NextCases

-----------------------------------------------------------------------------

\* The inductive invariant: types, the trip lock and what requests remember.
THEOREM InvariantHolds == Spec => []IInv
<1>1. IInv /\ [Next]_vars => IInv'
  <2> SUFFICES ASSUME IInv, [Next]_vars PROVE IInv'
    OBVIOUS
  <2>1. TypeOK' /\ LockInv'
    BY TypeStep, LockStep DEF IInv
  <2>2. PaymentInv' /\ BooksAgree'
    BY EndStep DEF BooksAgree, BookAgrees
  <2> QED BY <2>1, <2>2, RequestStep, TicketStep, SoldStep, CancelledStep, HoldStep, FareStep,
          ReplayStep, RemovedStep, StatusStep
        DEF IInv
<1> QED BY InitInv, <1>1, PTL DEF Spec

\* Every row and every request in progress keeps its type.
THEOREM TypeCorrect == Spec => []TypeOK
<1>1. IInv => TypeOK
  BY DEF IInv
<1> QED BY InvariantHolds, <1>1, PTL

\* However many customers, clerks, seats and overlapping requests there are, a
\* seat is sold to one CONFIRMED booking, whose ticket its row carries.
THEOREM NoDoubleSale == Spec => []SeatSoldOnce
<1>1. IInv => SeatSoldOnce
  BY DEF IInv
<1> QED BY InvariantHolds, <1>1, PTL

\* Payments, refunds, accounting events and commissions tell the same story of
\* every booking, for any prices and cancellation fees.
THEOREM BooksFollowBookings == Spec => []BooksAgree
<1>1. IInv => BooksAgree
  BY DEF IInv
<1> QED BY InvariantHolds, <1>1, PTL

\* A cancelled trip has no CONFIRMED booking, although PATCH takes no lock.
THEOREM CancelledTripSoldNothing == Spec => []CancelledTripHasNoSale
<1>1. IInv => CancelledTripHasNoSale
  BY DEF IInv
<1> QED BY InvariantHolds, <1>1, PTL

\* The answer to a retry of a cancellation is a cancellation that took place.
THEOREM ReplaysAreTrue == Spec => []ReplayedCancelHappened
<1>1. IInv => ReplayedCancelHappened
  BY DEF IInv
<1> QED BY InvariantHolds, <1>1, PTL

\* What is CANCELLED or REFUNDED stays so, and is paid back once.
THEOREM BookingsEndOnce == Spec => BookingEndsOnce
<1>1. ASSUME IInv, [Next]_vars
      PROVE  [\A b \in Bookings :
                /\ booking[b].status \in EndStatuses
                     => booking'[b] = booking[b] /\ payment'[b] = payment[b]
                /\ booking[b].status = "CONFIRMED"
                     => booking'[b].status # "NONE"
                        /\ payment'[b].amount = payment[b].amount]_vars
  BY <1>1, EndStep DEF EndedOnce
<1> QED BY <1>1, InvariantHolds, PTL DEF Spec, BookingEndsOnce

\* Whoever holds a seat, it is sold to him or to nobody, and nobody takes it over,
\* before the hold expires.
THEOREM HoldsAreRespected == Spec => HoldRespected
<1>1. ASSUME IInv, [Next]_vars, NEW s \in Seats, seat[s].status = "HELD", ~seat[s].expired,
             seat'[s].status \in {"HELD", "BOOKED"}
      PROVE  IF seat'[s].status = "HELD"
             THEN seat'[s].heldBy = seat[s].heldBy
             ELSE booking'[seat'[s].ticket].by = seat[s].heldBy
  <2>1. CASE seat'[s].status = "HELD"
    <3>1. ASSUME NEW w \in Workers, HoldWrite(w), s \in tx[w].seats
          PROVE  seat'[s].heldBy = seat[s].heldBy
      <4>1. seat[s] \in SeatRow
        BY <1>1 DEF IInv, TypeOK
      <4>2. [seat[s] EXCEPT !.status = "HELD", !.heldBy = tx[w].user,
                            !.expired = FALSE].heldBy = tx[w].user
        BY <4>1 DEF SeatRow
      <4> QED BY <1>1, <3>1, <4>2 DEF HoldWrite, Claimable
    <3> QED BY <1>1, <2>1, <3>1, HeldEffect
  <2>2. CASE seat'[s].status = "BOOKED"
    <3>1. \E w \in Workers : BookingCommit(w) /\ s \in tx[w].seats
      BY <1>1, <2>2, BookedEffect
    <3>2. PICK w \in Workers : BookingCommit(w) /\ s \in tx[w].seats
      BY <3>1
    <3>3. tx[w].booking \in Bookings /\ seat[s].heldBy = tx[w].user
      BY <1>1, <3>2 DEF BookingCommit, IInv, RequestInv, RequestOK, HoldInv
    <3>4. seat'[s].ticket = tx[w].booking
      <4>1. Freed(seat[s]) \in SeatRow
        BY <1>1, FreedIsRow DEF IInv, TypeOK
      <4>2. [Freed(seat[s]) EXCEPT !.status = "BOOKED",
                                   !.ticket = tx[w].booking].ticket = tx[w].booking
        BY <4>1 DEF SeatRow
      <4> QED BY <3>2, <4>2 DEF BookingCommit
    <3>5. booking'[tx[w].booking].by = tx[w].user
      <4>1. booking' = [booking EXCEPT ![tx[w].booking] =
                          [status |-> "CONFIRMED", by |-> tx[w].user]]
        BY <3>2 DEF BookingCommit
      <4> QED BY <1>1, <3>3, <4>1 DEF IInv, TypeOK
    <3> QED BY <2>2, <3>3, <3>4, <3>5
  <2> QED BY <1>1, <2>1, <2>2
<1>2. ASSUME IInv, [Next]_vars
      PROVE  [\A s \in Seats :
                /\ seat[s].status = "HELD" /\ ~seat[s].expired
                /\ seat'[s].status \in {"HELD", "BOOKED"}
                => IF seat'[s].status = "HELD"
                   THEN seat'[s].heldBy = seat[s].heldBy
                   ELSE booking'[seat'[s].ticket].by = seat[s].heldBy]_vars
  BY <1>1, <1>2
<1> QED BY <1>2, InvariantHolds, PTL DEF Spec, HoldRespected

\* The requests that the lock of the trip protects, when they commit.
LockedCommit(w) ==
  BookingCommit(w) \/ CancelCommit(w) \/ TripCancelCommit(w) \/ DepartCommit(w)

LEMMA LockedCommitEnds ==
  ASSUME NEW w \in Workers, LockedCommit(w)
  PROVE  tx[w].pc \in LockedPoints /\ End(w)
<1>1. CASE BookingCommit(w)
  BY <1>1 DEF BookingCommit, LockedPoints
<1>2. CASE CancelCommit(w)
  BY <1>2 DEF CancelCommit, LockedPoints
<1>3. CASE TripCancelCommit(w)
  BY <1>3 DEF TripCancelCommit, LockedPoints
<1>4. CASE DepartCommit(w)
  BY <1>4 DEF DepartCommit, LockedPoints
<1> QED BY <1>1, <1>2, <1>3, <1>4 DEF LockedCommit

\* What the steps of the other requests leave alone.
NothingSold ==
  /\ UNCHANGED <<booking, payment>>
  /\ SoldSeats' = SoldSeats
  /\ manifest'.locked = manifest.locked
  /\ tripStatus' # tripStatus => tripStatus' \in PatchStatuses \cup {"DELETED"}

\* Nobody else sells or returns a seat, or closes the trip but by PATCH and DELETE.
LEMMA UnlockedStep ==
  ASSUME IInv, [Next]_vars, \A w \in Workers : ~LockedCommit(w)
  PROVE  NothingSold
<1>1. TypeOK /\ SeatSoldOnce /\ seat \in [Seats -> SeatRow]
      /\ manifest \in [version : 0 .. MaxVersion, locked : BOOLEAN]
  BY DEF IInv, TypeOK
<1>2. ASSUME UNCHANGED <<booking, payment, manifest, tripStatus>>,
             \A s \in Seats : seat'[s].status = "BOOKED" <=> seat[s].status = "BOOKED"
      PROVE  NothingSold
  BY <1>2 DEF NothingSold, SoldSeats
<1>3. CASE \/ \E w \in Workers : HoldWrite(w)
           \/ \E u \in Users, s \in Seats : Release(u, s)
           \/ \E s \in Seats : HoldExpires(s)
           \/ SeatMap
  <2>1. UNCHANGED <<booking, payment, manifest, tripStatus>>
    BY <1>3 DEF HoldWrite, Release, HoldExpires, SeatMap
  <2>2. \A s \in Seats : seat'[s].status = "BOOKED" <=> seat[s].status = "BOOKED"
    BY <1>1, <1>3, UnsoldSeatEffect
  <2> QED BY <1>2, <2>1, <2>2
<1>4. CASE TripUpdate
  <2>1. /\ UNCHANGED <<booking, payment, manifest>>
        /\ tripStatus' # tripStatus => tripStatus' \in PatchStatuses
    BY <1>4 DEF TripUpdate
  <2>2. \A s \in Seats : seat'[s].status = "BOOKED" <=> seat[s].status = "BOOKED"
    BY <1>1, <1>4, UnsoldSeatEffect
  <2> QED BY <2>1, <2>2 DEF NothingSold, SoldSeats
<1>5. CASE TripRemove
  <2>1. /\ UNCHANGED <<booking, payment, manifest>> /\ tripStatus' = "DELETED"
        /\ \A b \in Bookings : booking[b].status = "NONE"
        /\ seat' = [s \in Seats |-> [Freed(seat[s]) EXCEPT !.status = "MISSING",
                                                         !.ticket = None]]
    BY <1>5 DEF TripRemove
  <2>2. SoldBookings = {}
    BY <2>1 DEF SoldBookings
  <2>3. \A s \in Seats : seat[s].status # "BOOKED"
    BY <1>1, <2>2 DEF SeatSoldOnce
  <2>4. ASSUME NEW s \in Seats PROVE seat'[s].status = "MISSING"
    <3>1. Freed(seat[s]) \in SeatRow
      BY <1>1, FreedIsRow
    <3>2. [Freed(seat[s]) EXCEPT !.status = "MISSING", !.ticket = None].status = "MISSING"
      BY <3>1 DEF SeatRow
    <3> QED BY <2>1, <3>2
  <2> QED BY <2>1, <2>3, <2>4 DEF NothingSold, SoldSeats
<1>6. CASE \E w \in Workers : GenerateWrite(w)
  <2>1. /\ UNCHANGED <<booking, payment, seat, tripStatus>>
        /\ manifest' = [manifest EXCEPT !.version = @ + 1]
    BY <1>6 DEF GenerateWrite
  <2> QED BY <1>1, <2>1 DEF NothingSold, SoldSeats
<1>7. CASE \/ \E w \in Workers : CheckInWrite(w)
           \/ \E k \in Keys : KeyExpires(k)
           \/ UNCHANGED rows \/ UNCHANGED vars
  <2>1. UNCHANGED <<booking, payment, manifest, tripStatus, seat>>
    BY <1>7 DEF CheckInWrite, KeyExpires, rows, vars
  <2> QED BY <2>1 DEF NothingSold, SoldSeats
<1> QED BY <1>3, <1>4, <1>5, <1>6, <1>7, NextCases DEF LockedCommit

\* However many requests there are and whatever PATCH writes, nobody sells, cancels
\* or departs a trip under a request that holds its lock.
THEOREM TheLockHoldsTheTrip == Spec => TripHeldStill
<1>1. ASSUME IInv, [Next]_vars, NEW w \in Workers,
             tx[w].pc \in LockedPoints, tx'[w].pc \in LockedPoints,
             NEW v \in Workers, LockedCommit(v)
      PROVE  FALSE
  <2>1. v = w
    BY <1>1, LockedCommitEnds, OthersUnlocked DEF IInv
  <2>2. tx'[w].pc = "idle"
    BY <1>1, <2>1, LockedCommitEnds, EndIsIdle DEF IInv
  <2> QED BY <1>1, <2>2 DEF LockedPoints
<1>2. ASSUME IInv, [Next]_vars, NEW w \in Workers,
             tx[w].pc \in LockedPoints, tx'[w].pc \in LockedPoints
      PROVE  NothingSold
  BY <1>1, <1>2, UnlockedStep
<1>3. ASSUME IInv, [Next]_vars
      PROVE  [\A w \in Workers : tx[w].pc \in LockedPoints /\ tx'[w].pc \in LockedPoints =>
                /\ UNCHANGED <<booking, payment>>
                /\ SoldSeats' = SoldSeats
                /\ manifest'.locked = manifest.locked
                /\ tripStatus' # tripStatus => tripStatus' \in PatchStatuses \cup {"DELETED"}]_vars
  BY <1>2, <1>3 DEF NothingSold
<1> QED BY <1>3, InvariantHolds, PTL DEF Spec, TripHeldStill

SalePoints == {"book", "priced", "claimed", "cancel"}

\* On a departed trip nobody begins to sell.
LEMMA NoSaleBegins ==
  ASSUME IInv, [Next]_vars, tripStatus = "DEPARTED", ~SaleUnderWay
  PROVE  ~SaleUnderWay'
<1> SUFFICES ASSUME NEW v \in Workers PROVE tx'[v].pc \notin SalePoints
  BY DEF SaleUnderWay, SalePoints
<1>1. TypeOK /\ tx[v].pc \notin SalePoints
  BY DEF IInv, SaleUnderWay, SalePoints
<1>2. CASE tx'[v] = tx[v]
  BY <1>1, <1>2
<1>3. ASSUME NEW w \in Workers, End(w) PROVE tx'[v].pc \notin SalePoints
  <2>1. CASE v = w
    BY <1>1, <1>3, <2>1, EndIsIdle DEF SalePoints
  <2>2. CASE v # w
    BY <1>1, <1>2, <1>3, <2>2, OthersKeepTx
  <2> QED BY <2>1, <2>2
<1>4. ASSUME NEW w \in Workers, Reads(w) PROVE tx'[v].pc \notin SalePoints
  <2>1. CASE v # w
    BY <1>1, <1>2, <1>4, <2>1, OthersKeepTx
  <2>2. CASE v = w /\ OtherReads(w)
    <3>1. tx'[w].pc \in {"hold", "tripCancel", "generate", "depart", "checkIn"}
      BY <1>1, <2>2, OtherReadsEffect DEF TypeOK
    <3> QED BY <2>2, <3>1 DEF SalePoints
  <2>3. CASE Abort(w)
    BY <1>3, <2>3 DEF Abort
  <2>4. ~ \E u \in Users, b \in Bookings, S \in SUBSET Seats : BookingBegin(w, u, b, S)
    BY DEF BookingBegin, Bookable
  <2>5. ~ \E b \in Bookings, k \in Keys : CancelBegin(w, b, k)
    BY DEF CancelBegin
  <2>6. v = w => ~BookingPrice(w)
    BY <1>1 DEF BookingPrice, SalePoints
  <2>7. v = w => ~BookingClaim(w)
    BY <1>1 DEF BookingClaim, SalePoints
  <2> QED BY <1>4, <2>1, <2>2, <2>3, <2>4, <2>5, <2>6, <2>7, Zenon DEF Reads, OtherReads
<1>5. CASE \E w \in Workers : LockedCommit(w)
  BY <1>3, <1>5, LockedCommitEnds
<1>6. CASE \E w \in Workers : HoldWrite(w) \/ GenerateWrite(w) \/ CheckInWrite(w)
  <2>1. \E w \in Workers : End(w)
    BY <1>6 DEF HoldWrite, GenerateWrite, CheckInWrite
  <2> QED BY <1>3, <2>1
<1>7. CASE \/ \E u \in Users, s \in Seats : Release(u, s)
           \/ \E s \in Seats : HoldExpires(s)
           \/ \E k \in Keys : KeyExpires(k)
           \/ SeatMap \/ TripUpdate \/ TripRemove \/ UNCHANGED vars
  <2>1. tx' = tx
    BY <1>7 DEF Release, HoldExpires, KeyExpires, SeatMap, TripUpdate, TripRemove, vars
  <2> QED BY <1>2, <2>1
<1> QED BY <1>4, <1>5, <1>6, <1>7, NextCases, ZenonT(30) DEF LockedCommit

\* Whatever PATCH writes, the manifest is locked between sales, and no sale that began
\* before moves a sold seat of the trip as long as it stays DEPARTED.
THEOREM DepartureFreezesSales == Spec => SalesFrozenAfterDeparture
<1>1. ASSUME IInv, [Next]_vars, ~manifest.locked, manifest'.locked PROVE ~SaleUnderWay'
  <2>1. \E w \in Workers : LockedCommit(w)
    BY <1>1, UnlockedStep DEF NothingSold
  <2>2. PICK w \in Workers : LockedCommit(w)
    BY <2>1
  <2>3. tx[w].pc \in LockedPoints /\ End(w)
    BY <2>2, LockedCommitEnds
  <2>4. TypeOK /\ LockInv
    BY <1>1 DEF IInv
  <2>5. ASSUME NEW v \in Workers PROVE tx'[v].pc \notin SalePoints
    <3>1. CASE v = w
      BY <2>3, <2>4, <3>1, EndIsIdle DEF SalePoints
    <3>2. CASE v # w
      <4>1. tx'[v] = tx[v]
        BY <2>3, <2>4, <3>2, OthersKeepTx
      <4>2. tx[v].pc \notin LockedPoints
        BY <2>3, <2>4, <3>2, OthersUnlocked
      <4> QED BY <4>1, <4>2 DEF LockedPoints, SalePoints
    <3> QED BY <3>1, <3>2
  <2> QED BY <2>5 DEF SaleUnderWay, SalePoints
<1>2. ASSUME IInv, [Next]_vars, tripStatus = "DEPARTED", tripStatus' = "DEPARTED", ~SaleUnderWay
      PROVE  SoldSeats' = SoldSeats
  <2>1. ASSUME NEW w \in Workers PROVE ~BookingCommit(w)
    BY <1>2 DEF BookingCommit, SaleUnderWay
  <2>2. ASSUME NEW w \in Workers PROVE ~CancelCommit(w)
    BY <1>2 DEF CancelCommit, SaleUnderWay
  <2>3. ASSUME NEW w \in Workers PROVE ~TripCancelCommit(w)
    BY <1>2 DEF TripCancelCommit
  <2>4. CASE \E w \in Workers : DepartCommit(w)
    BY <2>4 DEF DepartCommit, SoldSeats
  <2>5. CASE \A w \in Workers : ~DepartCommit(w)
    <3>1. \A w \in Workers : ~LockedCommit(w)
      BY <2>1, <2>2, <2>3, <2>5, Zenon DEF LockedCommit
    <3> QED BY <1>2, <3>1, UnlockedStep DEF NothingSold
  <2> QED BY <2>4, <2>5
<1>3. ASSUME IInv, [Next]_vars
      PROVE  [/\ ~manifest.locked /\ manifest'.locked => ~SaleUnderWay'
              /\ tripStatus = "DEPARTED" /\ tripStatus' = "DEPARTED" /\ ~SaleUnderWay =>
                   ~SaleUnderWay' /\ SoldSeats' = SoldSeats]_vars
  BY <1>1, <1>2, <1>3, NoSaleBegins
<1> QED BY <1>3, InvariantHolds, PTL DEF Spec, SalesFrozenAfterDeparture

-----------------------------------------------------------------------------
(* The refinement of SeatInventory *)

LEMMA InventoryValues ==
  ASSUME NEW s
  PROVE  /\ seat[s].status = "MISSING" => InventoryOf(s) = "ABSENT"
         /\ seat[s].status = "AVAILABLE" => InventoryOf(s) = "FREE"
         /\ seat[s].status = "HELD" => InventoryOf(s) = "HELD"
         /\ seat[s].status = "BLOCKED" => InventoryOf(s) = "CLOSED"
         /\ seat[s].status = "BOOKED" => InventoryOf(s) = seat[s].ticket
BY DEF InventoryOf

LEMMA NextInventoryValues ==
  ASSUME NEW s
  PROVE  /\ seat'[s].status = "MISSING" => InventoryOf(s)' = "ABSENT"
         /\ seat'[s].status = "AVAILABLE" => InventoryOf(s)' = "FREE"
         /\ seat'[s].status = "HELD" => InventoryOf(s)' = "HELD"
         /\ seat'[s].status = "BLOCKED" => InventoryOf(s)' = "CLOSED"
         /\ seat'[s].status = "BOOKED" => InventoryOf(s)' = seat'[s].ticket
BY DEF InventoryOf

LEMMA SameInventory ==
  ASSUME NEW s, seat'[s] = seat[s]
  PROVE  InventoryOf(s)' = InventoryOf(s)
BY DEF InventoryOf

\* The seats S of the inventory become state.
LEMMA SetsInventory ==
  ASSUME NEW S, NEW state,
         \A s \in Seats : InventoryOf(s)' = IF s \in S THEN state ELSE InventoryOf(s)
  PROVE  Inventory!Set(S, state)
BY DEF Inventory!Set

\* A step that changes neither what a seat shows nor what was ever sold.
Stutters ==
  /\ \A s \in Seats : InventoryOf(s)' = InventoryOf(s)
  /\ \A b \in Bookings : booking'[b].status # "NONE" <=> booking[b].status # "NONE"

InventoryStep ==
  [Inventory!Next]_<<[s \in Seats |-> InventoryOf(s)],
                     {b \in Bookings : booking[b].status # "NONE"}>>

LEMMA StutterStep == Stutters => InventoryStep
BY DEF Stutters, InventoryStep

LEMMA SoldUnchanged ==
  ASSUME UNCHANGED booking
  PROVE  UNCHANGED {b \in Bookings : booking[b].status # "NONE"}
OBVIOUS

\* One hold; or holds that end, and seats that appear.
LEMMA HoldRefines ==
  ASSUME IInv,
         \/ \E w \in Workers : HoldWrite(w)
         \/ \E u \in Users, s \in Seats : Release(u, s)
         \/ \E s \in Seats : HoldExpires(s)
         \/ SeatMap \/ TripUpdate
  PROVE  InventoryStep
<1>1. seat \in [Seats -> SeatRow] /\ \A s \in Seats : seat[s] \in SeatRow
  BY DEF IInv, TypeOK
<1>2. \A s \in Seats : Freed(seat[s]) \in SeatRow /\ Freed(seat[s]).status = "AVAILABLE"
  BY <1>1, FreedIsRow DEF Freed, SeatRow
<1>3. UNCHANGED booking
  BY DEF HoldWrite, Release, HoldExpires, SeatMap, TripUpdate
<1>4. ASSUME NEW w \in Workers, HoldWrite(w) PROVE InventoryStep
  <2>1. PICK s \in Seats : tx[w].seats = {s}
    BY <1>4 DEF HoldWrite, IInv, RequestInv, RequestOK
  <2>2. seat[s].status \in {"AVAILABLE", "HELD"}
    BY <1>4, <2>1 DEF HoldWrite, Claimable
  <2>3. InventoryOf(s) \in {"FREE", "HELD"}
    BY <2>2, InventoryValues
  <2>4. [seat[s] EXCEPT !.status = "HELD", !.heldBy = tx[w].user, !.expired = FALSE].status
          = "HELD"
    BY <1>1 DEF SeatRow
  <2>5. seat'[s].status = "HELD" /\ \A r \in Seats \ {s} : seat'[r] = seat[r]
    BY <1>4, <2>1, <2>4 DEF HoldWrite
  <2>6. InventoryOf(s)' = "HELD" /\ \A r \in Seats \ {s} : InventoryOf(r)' = InventoryOf(r)
    BY <2>5, NextInventoryValues DEF InventoryOf
  <2>7. Inventory!Set({s}, "HELD")
    BY <2>6, SetsInventory
  <2> QED BY <1>3, <2>3, <2>7, SoldUnchanged
        DEF InventoryStep, Inventory!Next, Inventory!Hold, Inventory!Free
<1>5. ASSUME NEW S \in SUBSET Seats,
             \A s \in S : seat[s].status \in {"MISSING", "HELD"} /\ seat'[s].status = "AVAILABLE",
             \A s \in Seats \ S : seat'[s] = seat[s]
      PROVE  InventoryStep
  <2>1. \A s \in S : InventoryOf(s) \in {"ABSENT", "HELD"} /\ InventoryOf(s)' = "FREE"
    BY <1>5, InventoryValues, NextInventoryValues
  <2>2. \A s \in Seats \ S : InventoryOf(s)' = InventoryOf(s)
    BY <1>5, SameInventory
  <2>3. Inventory!Set(S, "FREE")
    BY <2>1, <2>2, SetsInventory
  <2>4. Inventory!Refresh(S)
    BY <1>3, <2>1, <2>3, SoldUnchanged DEF Inventory!Refresh
  <2> QED BY <2>4 DEF InventoryStep, Inventory!Next
<1>6. ASSUME NEW u \in Users, NEW s \in Seats, Release(u, s) PROVE InventoryStep
  <2>1. seat[s].status = "HELD" /\ seat' = [seat EXCEPT ![s] = Freed(seat[s])]
    BY <1>6 DEF Release
  <2> DEFINE S == {s}
  <2>2. S \in SUBSET Seats /\ \A r \in S : seat[r].status \in {"MISSING", "HELD"}
    BY <2>1
  <2>3. /\ \A r \in S : seat'[r].status = "AVAILABLE"
        /\ \A r \in Seats \ S : seat'[r] = seat[r]
    BY <1>1, <1>2, <2>1
  <2> HIDE DEF S
  <2> QED BY <1>5, <2>2, <2>3
<1>7. ASSUME SeatMap PROVE InventoryStep
  <2>1. PICK copied \in SUBSET (Seats \ Existing), fallback \in FallbackPrices :
          seat' = [r \in Seats |->
               IF r \in ExpiredHolds THEN Freed(seat[r])
               ELSE IF r \in copied
                    THEN [seat[r] EXCEPT !.status = "AVAILABLE", !.price = fallback]
                    ELSE seat[r]]
    BY <1>7 DEF SeatMap
  <2>2. \A r \in Seats : [seat[r] EXCEPT !.status = "AVAILABLE", !.price = fallback].status
                           = "AVAILABLE"
    BY <1>1 DEF SeatRow
  <2> DEFINE S == ExpiredHolds \cup copied
  <2>3. S \in SUBSET Seats /\ \A s \in S : seat[s].status \in {"MISSING", "HELD"}
    BY DEF ExpiredHolds, Existing
  <2>4. /\ \A s \in S : seat'[s].status = "AVAILABLE"
        /\ \A s \in Seats \ S : seat'[s] = seat[s]
    BY <1>2, <2>1, <2>2, <2>3
  <2> QED BY <1>5, <2>3, <2>4
\* The expiry of a hold and a new price show nowhere.
<1>8. ASSUME \A s \in Seats : seat'[s].status = seat[s].status /\ seat'[s].ticket = seat[s].ticket
      PROVE  InventoryStep
  BY <1>3, <1>8, StutterStep DEF Stutters, InventoryOf
<1>9. ASSUME NEW r \in Seats, HoldExpires(r) PROVE InventoryStep
  <2>1. ASSUME NEW s \in Seats
        PROVE  seat'[s] = seat[s] \/ seat'[s] = [seat[s] EXCEPT !.expired = TRUE]
    BY <1>1, <1>9 DEF HoldExpires
  <2>2. ASSUME NEW s \in Seats
        PROVE  /\ [seat[s] EXCEPT !.expired = TRUE].status = seat[s].status
               /\ [seat[s] EXCEPT !.expired = TRUE].ticket = seat[s].ticket
    BY <1>1 DEF SeatRow
  <2> QED BY <1>8, <2>1, <2>2
<1>10. ASSUME TripUpdate PROVE InventoryStep
  <2>1. ASSUME NEW s \in Seats
        PROVE  seat'[s] = seat[s] \/ \E p : seat'[s] = [seat[s] EXCEPT !.price = p]
    BY <1>10 DEF TripUpdate
  <2>2. ASSUME NEW s \in Seats, NEW p
        PROVE  /\ [seat[s] EXCEPT !.price = p].status = seat[s].status
               /\ [seat[s] EXCEPT !.price = p].ticket = seat[s].ticket
    BY <1>1 DEF SeatRow
  <2>3. ASSUME NEW s \in Seats
        PROVE  seat'[s].status = seat[s].status /\ seat'[s].ticket = seat[s].ticket
    <3>1. CASE seat'[s] = seat[s]
      BY <3>1
    <3>2. CASE \E p : seat'[s] = [seat[s] EXCEPT !.price = p]
      <4>1. PICK p : seat'[s] = [seat[s] EXCEPT !.price = p]
        BY <3>2
      <4> QED BY <2>2, <4>1
    <3> QED BY <2>1, <3>1, <3>2
  <2> QED BY <1>8, <2>3
<1> QED BY <1>4, <1>6, <1>7, <1>9, <1>10

\* A booking sells all its seats at once.
LEMMA SaleRefines ==
  ASSUME IInv, NEW w \in Workers, BookingCommit(w)
  PROVE  InventoryStep
<1> PICK c \in Bookings, S \in SUBSET Seats : c = tx[w].booking /\ S = tx[w].seats
  BY DEF BookingCommit, IInv, TypeOK, Request, RequestInv, RequestOK
<1>1. /\ seat \in [Seats -> SeatRow] /\ \A s \in Seats : seat[s] \in SeatRow
      /\ booking \in [Bookings -> [status : {"NONE", "CONFIRMED"} \cup EndStatuses,
                                   by     : Users \cup {None}]]
  BY DEF IInv, TypeOK
<1>2. /\ booking[c].status = "NONE" /\ S # {}
      /\ \A s \in S : seat[s].status \in {"AVAILABLE", "HELD"}
  BY DEF BookingCommit, IInv, TypeOK, Request, RequestInv, RequestOK, StatusInv, StatusOK
<1>3. /\ booking' = [booking EXCEPT ![c] = [status |-> "CONFIRMED", by |-> tx[w].user]]
      /\ seat' = [s \in Seats |->
           IF s \in S THEN [Freed(seat[s]) EXCEPT !.status = "BOOKED", !.ticket = c]
                      ELSE seat[s]]
  BY DEF BookingCommit
<1>4. ASSUME NEW s \in S PROVE seat'[s].status = "BOOKED" /\ seat'[s].ticket = c
  <2>1. seat'[s] = [Freed(seat[s]) EXCEPT !.status = "BOOKED", !.ticket = c]
    BY <1>2, <1>3
  <2>2. Freed(seat[s]) \in SeatRow
    BY <1>1, <1>2, FreedIsRow
  <2> QED BY <2>1, <2>2 DEF SeatRow
<1>5. \A s \in Seats \ S : InventoryOf(s)' = InventoryOf(s)
  BY <1>3, SameInventory
<1>6. \A s \in S : InventoryOf(s) \in {"FREE", "HELD"} /\ InventoryOf(s)' = c
  BY <1>2, <1>4, InventoryValues, NextInventoryValues
<1>7. Inventory!Set(S, c)
  BY <1>5, <1>6, SetsInventory
<1>8. /\ booking'[c].status = "CONFIRMED"
      /\ \A b \in Bookings \ {c} : booking'[b] = booking[b]
  BY <1>1, <1>2, <1>3
<1>9. {b \in Bookings : booking[b].status # "NONE"}'
        = {b \in Bookings : booking[b].status # "NONE"} \cup {c}
  BY <1>2, <1>8
<1>10. Inventory!Sell(c, S)
  BY <1>2, <1>6, <1>7, <1>9 DEF Inventory!Sell, Inventory!Free
<1> QED BY <1>10 DEF InventoryStep, Inventory!Next

\* What is sold stays counted as sold when it ends.
LEMMA EndKeepsSold ==
  ASSUME IInv, NEW bs \in SUBSET SoldBookings, NEW fee \in Fees, EndBookings(bs, fee)
  PROVE  \A b \in Bookings : booking'[b].status # "NONE" <=> booking[b].status # "NONE"
<1>1. bs \in SUBSET Bookings /\ \A b \in bs : booking[b].status = "CONFIRMED"
  BY DEF SoldBookings
<1>2. /\ \A b \in bs : booking'[b].status \in EndStatuses
      /\ \A b \in Bookings \ bs : booking'[b] = booking[b]
  BY <1>1, EndBookingsEffect DEF IInv
<1> QED BY <1>1, <1>2 DEF EndStatuses

\* A cancelled booking gives back the seats it shows, all at once.
LEMMA ReturnRefines ==
  ASSUME IInv, NEW w \in Workers, CancelCommit(w)
  PROVE  InventoryStep
<1> DEFINE c == tx[w].booking
<1>1. seat \in [Seats -> SeatRow] /\ SeatSoldOnce /\ c \in SoldBookings
  BY DEF CancelCommit, IInv, TypeOK, RequestInv, RequestOK
<1>2. /\ \E fee \in Fees : EndBookings({c}, fee)
      /\ seat' = [s \in Seats |->
           IF s \in TicketsOf(c)
           THEN [seat[s] EXCEPT !.status = "AVAILABLE", !.ticket = None]
           ELSE seat[s]]
  BY DEF CancelCommit
<1> HIDE DEF c
<1>3. c \in Bookings /\ {c} \in SUBSET SoldBookings
  BY <1>1 DEF SoldBookings
<1>4. \A b \in Bookings : booking'[b].status # "NONE" <=> booking[b].status # "NONE"
  BY <1>2, <1>3, EndKeepsSold
<1>5. ASSUME NEW s \in Seats PROVE InventoryOf(s) = c <=> s \in TicketsOf(c)
  <2>1. CASE s \in TicketsOf(c)
    BY <1>1, <2>1, InventoryValues DEF SeatSoldOnce
  <2>2. CASE InventoryOf(s) = c
    <3>1. seat[s].status = "BOOKED"
      BY <1>1, <1>3, <2>2, InventoryValues, BookingsAreNoStates DEF SeatRow, SeatStatuses
    <3>2. PICK b \in SoldBookings : seat[s].ticket = b /\ s \in TicketsOf(b)
      BY <1>1, <3>1 DEF SeatSoldOnce
    <3> QED BY <2>2, <3>1, <3>2, InventoryValues
  <2> QED BY <2>1, <2>2
<1>6. ASSUME NEW s \in Seats
      PROVE  InventoryOf(s)' = IF s \in TicketsOf(c) THEN "FREE" ELSE InventoryOf(s)
  <2>1. CASE s \in TicketsOf(c)
    <3>1. seat'[s] = [seat[s] EXCEPT !.status = "AVAILABLE", !.ticket = None]
      BY <1>2, <2>1
    <3>2. seat'[s].status = "AVAILABLE"
      BY <1>1, <3>1 DEF SeatRow
    <3> QED BY <2>1, <3>2, NextInventoryValues
  <2>2. CASE s \notin TicketsOf(c)
    BY <1>2, <2>2, SameInventory
  <2> QED BY <2>1, <2>2
<1>7. CASE TicketsOf(c) = {}
  BY <1>4, <1>6, <1>7, StutterStep DEF Stutters
<1>8. CASE TicketsOf(c) # {}
  <2>1. Inventory!SeatsOf(c) = TicketsOf(c)
    BY <1>5 DEF Inventory!SeatsOf, TicketsOf
  <2>2. Inventory!Set(TicketsOf(c), "FREE")
    BY <1>6, SetsInventory
  <2>3. Inventory!Return(c)
    BY <1>4, <1>8, <2>1, <2>2 DEF Inventory!Return
  <2> QED BY <1>3, <2>3 DEF InventoryStep, Inventory!Next
<1> QED BY <1>7, <1>8

\* The cancelled trip closes its seats, the deleted one loses them.
LEMMA CloseRefines ==
  ASSUME IInv, TripRemove \/ \E w \in Workers : TripCancelCommit(w)
  PROVE  InventoryStep
<1>1. /\ seat \in [Seats -> SeatRow] /\ SeatSoldOnce
      /\ \A s \in Seats : seat[s] \in SeatRow /\ Freed(seat[s]) \in SeatRow
  BY FreedIsRow DEF IInv, TypeOK
<1>2. ASSUME NEW w \in Workers, TripCancelCommit(w) PROVE InventoryStep
  <2>1. \A b \in Bookings : booking'[b].status # "NONE" <=> booking[b].status # "NONE"
    BY <1>2, EndKeepsSold DEF TripCancelCommit
  <2>2. ASSUME NEW s \in Seats PROVE s \in Existing <=> InventoryOf(s) # "ABSENT"
    <3>1. seat[s].status = "BOOKED" => seat[s].ticket \in Bookings
      BY <1>1 DEF SeatSoldOnce, SoldBookings
    <3> QED BY <1>1, <3>1, InventoryValues, BookingsAreNoStates
          DEF Existing, SeatRow, SeatStatuses
  <2>3. ASSUME NEW s \in Seats
        PROVE  InventoryOf(s)' = IF s \in Existing THEN "CLOSED" ELSE InventoryOf(s)
    <3>1. CASE s \in Existing
      <4>1. seat'[s] = [Freed(seat[s]) EXCEPT !.status = "BLOCKED"]
        BY <1>2, <3>1 DEF TripCancelCommit
      <4>2. seat'[s].status = "BLOCKED"
        BY <1>1, <4>1 DEF SeatRow
      <4> QED BY <3>1, <4>2, NextInventoryValues
    <3>2. CASE s \notin Existing
      BY <1>2, <3>2, SameInventory DEF TripCancelCommit
    <3> QED BY <3>1, <3>2
  <2>4. Inventory!Set({s \in Seats : InventoryOf(s) # "ABSENT"}, "CLOSED")
    BY <2>2, <2>3, SetsInventory
  <2>5. Inventory!Close
    BY <2>1, <2>4 DEF Inventory!Close
  <2> QED BY <2>5 DEF InventoryStep, Inventory!Next
<1>3. CASE TripRemove
  <2>1. \A b \in Bookings : booking[b].status = "NONE" /\ booking'[b].status = "NONE"
    BY <1>3 DEF TripRemove
  <2>2. ASSUME NEW s \in Seats PROVE InventoryOf(s)' = "ABSENT"
    <3>1. seat'[s] = [Freed(seat[s]) EXCEPT !.status = "MISSING", !.ticket = None]
      BY <1>3 DEF TripRemove
    <3>2. seat'[s].status = "MISSING"
      BY <1>1, <3>1 DEF SeatRow
    <3> QED BY <3>2, NextInventoryValues
  <2>3. Inventory!Set(Seats, "ABSENT")
    BY <2>2, SetsInventory
  <2>4. Inventory!Remove
    BY <2>1, <2>3 DEF Inventory!Remove
  <2> QED BY <2>4 DEF InventoryStep, Inventory!Next
<1> QED BY <1>2, <1>3

\* For whoever looks at the seats, every handler is one atomic step of the abstract
\* inventory, whatever it overlaps with.
THEOREM SalesRefineInventory == Spec => ImplementsInventory
<1>1. Init => Inventory!Init
  <2> SUFFICES ASSUME Init PROVE Inventory!Init
    OBVIOUS
  <2>1. \A s \in Seats : seat[s].status \in {"MISSING", "AVAILABLE"}
    BY DEF Init
  <2>2. \A s \in Seats : InventoryOf(s) \in {"ABSENT", "FREE"}
    BY <2>1, InventoryValues
  <2>3. \A b \in Bookings : booking[b].status = "NONE"
    BY DEF Init
  <2> QED BY <2>2, <2>3 DEF Inventory!Init
<1>2. IInv /\ [Next]_vars => InventoryStep
  <2> SUFFICES ASSUME IInv, [Next]_vars PROVE InventoryStep
    OBVIOUS
  <2>1. CASE \/ \E w \in Workers : GenerateWrite(w) \/ DepartCommit(w) \/ CheckInWrite(w)
             \/ \E k \in Keys : KeyExpires(k)
             \/ UNCHANGED rows \/ UNCHANGED vars
    <3>1. UNCHANGED <<seat, booking>>
      BY <2>1 DEF GenerateWrite, DepartCommit, CheckInWrite, KeyExpires, rows, vars
    <3> QED BY <3>1, StutterStep DEF Stutters, InventoryOf
  <2> QED BY <2>1, HoldRefines, SaleRefines, ReturnRefines, CloseRefines, NextCases
<1> QED BY <1>1, <1>2, InvariantHolds, PTL
      DEF Spec, ImplementsInventory, Inventory!Spec, InventoryStep
==============================================================================
