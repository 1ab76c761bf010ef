----------------------------- MODULE BookingDesk -----------------------------
(***************************************************************************)
(* The booking page of the web client, and the seats of one trip it sells. *)
(*                                                                         *)
(* A desk is one clerk at one open page (BookingsFeature).  The page sends *)
(* its calls through the proxy of the web server, which gives up on the    *)
(* backend after 15 s; a call given up on, or whose answer the network     *)
(* lost, may still be executed, at any later time or never.  The form of   *)
(* the selected seats (BookingForm) keeps the idempotency key it took when *)
(* it was mounted, and React mounts a new one when the selection changes.  *)
(*                                                                         *)
(* hold, release and createBooking are each one step of the backend: hold  *)
(* and release are one UPDATE, and TripSales shows what the trip lock      *)
(* makes of createBooking.  Seats are sold here by the clerks only, the    *)
(* trip stays open, and its list of seats, refreshed every 15 s, may show  *)
(* any seat as free.                                                       *)
(***************************************************************************)
EXTENDS Integers

CONSTANTS
  Desks,  \* pages open at the same time, each with a user of its own
  Seats,  \* seats of the trip that are for sale
  Keys,   \* bound: idempotency keys the forms can take
  Calls,  \* bound: calls of the pages that are not finished
  Nothing

ASSUME NothingIsNoKey == Nothing \notin Desks \cup Keys

VARIABLES
  selected,  \* seats selected at each desk
  form,      \* key of the form mounted at each desk (Nothing: no form)
  used,      \* keys taken so far
  call,      \* calls sent and not finished
  holder,    \* trip_seats.held_by_user_id
  lapsed,    \* held seats whose hold_expires_at has passed
  booking    \* bookings rows, by their idempotency key

deskVars == <<selected, form, used, call, holder, lapsed, booking>>

NoCall == [of |-> Nothing, op |-> "none", seats |-> {}, key |-> Nothing, form |-> Nothing,
           at |-> "none", heard |-> FALSE]
Call == [of : Desks \cup {Nothing}, op : {"none", "hold", "release", "drop", "book"},
         seats : SUBSET Seats, key : Keys \cup {Nothing}, form : Keys \cup {Nothing},
         at : {"none", "way", "done", "refused", "failed"}, heard : BOOLEAN]
Booking == [seats : SUBSET Seats, form : Keys \cup {Nothing}, live : BOOLEAN]
NoBooking == [seats |-> {}, form |-> Nothing, live |-> FALSE]

DeskTypeOK ==
  /\ selected \in [Desks -> SUBSET Seats]
  /\ form \in [Desks -> Keys \cup {Nothing}]
  /\ used \in SUBSET Keys
  /\ call \in [Calls -> Call]
  /\ holder \in [Seats -> Desks \cup {Nothing}]
  /\ lapsed \in SUBSET Seats
  /\ booking \in [Keys -> Booking]

DeskInit ==
  /\ selected = [d \in Desks |-> {}]
  /\ form = [d \in Desks |-> Nothing]
  /\ used = {}
  /\ call = [i \in Calls |-> NoCall]
  /\ holder = [s \in Seats |-> Nothing]
  /\ lapsed = {}
  /\ booking = [k \in Keys |-> NoBooking]

(* The page. *)

backend == <<holder, lapsed, booking>>
page == <<selected, form, used>>

\* The seat map is disabled while a hold or a release is pending.
Busy(d) == \E i \in Calls : /\ call[i].of = d
                            /\ call[i].op \in {"hold", "release"}
                            /\ call[i].heard

\* The form's buttons are disabled while its booking is pending.
Pending(d) == \E i \in Calls : /\ call[i].of = d
                               /\ call[i].op = "book"
                               /\ call[i].heard

New(d, op, seats, key, f) == [of |-> d, op |-> op, seats |-> seats, key |-> key, form |-> f,
                              at |-> "way", heard |-> op # "drop"]

\* Of a form whose key is k: the keys it may send, those the form after it may take.
FreshKeys(k) == Keys \ used
SubmitKeys(k) == {k}
KeptKey(k) == IF k = Nothing THEN FreshKeys(k) ELSE {k}
MountKeys(k) == FreshKeys(k)

ReadAnyway(d, c) == c

\* BookingForm is unmounted: the answer of its booking will be read by nobody.
Unheard(d, c) ==
  IF c.of = d /\ c.op = "book" /\ c.heard
  THEN IF c.at = "way" THEN [c EXCEPT !.heard = FALSE] ELSE NoCall
  ELSE c

\* The form of d is replaced by one with a new key, or by none; the calls are then those.
Remounted(d, sel, calls) ==
  /\ IF sel = {}
     THEN form' = [form EXCEPT ![d] = Nothing] /\ UNCHANGED used
     ELSE \E k \in MountKeys(form[d]) : /\ form' = [form EXCEPT ![d] = k]
                                        /\ used' = used \cup {k}
  /\ call' = [i \in Calls |-> Unheard(d, calls[i])]

\* setSelectedSeatIds; c is what becomes of the call i that led to it.
Select(d, sel, i, c) ==
  /\ selected' = [selected EXCEPT ![d] = sel]
  /\ IF sel = selected[d]
     THEN call' = [call EXCEPT ![i] = c] /\ UNCHANGED <<form, used>>
     ELSE Remounted(d, sel, [call EXCEPT ![i] = c])

\* selectSeat: a seat that is not selected is held, one that is is released.
ClickSeat(d, s, i) ==
  /\ ~ Busy(d)
  /\ call[i] = NoCall
  /\ call' = [call EXCEPT ![i] = New(d, IF s \in selected[d] THEN "release" ELSE "hold",
                                        {s}, Nothing, Nothing)]
  /\ UNCHANGED <<page, backend>>

\* submit of the form.
Submit(d, i) ==
  /\ form[d] # Nothing
  /\ ~ Pending(d)
  /\ call[i] = NoCall
  /\ \E k \in SubmitKeys(form[d]) :
       /\ call' = [call EXCEPT ![i] = New(d, "book", selected[d], k, form[d])]
       /\ used' = used \cup {k}
  /\ UNCHANGED <<selected, form, backend>>

\* releaseSelectedSeats: the cancel button, the hold timer at zero, another trip.
Drop(d, i) ==
  /\ selected[d] # {}
  /\ call[i] = NoCall
  /\ Select(d, {}, i, New(d, "drop", selected[d], Nothing, Nothing))
  /\ UNCHANGED backend

\* The list of seats cannot be refreshed: the form is taken down until it can.
Reload(d) ==
  /\ selected[d] # {}
  /\ Remounted(d, selected[d], call)
  /\ UNCHANGED <<selected, backend>>

(* Answers. *)

\* An answer that somebody waits for is on its way back; the others are dropped.
Answer(i, at) == IF call[i].heard THEN [call[i] EXCEPT !.at = at] ELSE NoCall

HoldAnswered(i) ==
  LET d == call[i].of IN
  /\ call[i].op = "hold"
  /\ call[i].at \in {"done", "refused", "failed"}
  /\ Select(d, IF call[i].at = "done" THEN selected[d] \cup call[i].seats ELSE selected[d],
            i, NoCall)
  /\ UNCHANGED backend

ReleaseAnswered(i) ==
  LET d == call[i].of IN
  /\ call[i].op = "release"
  /\ call[i].at \in {"done", "failed"}
  /\ Select(d, IF call[i].at = "done" THEN selected[d] \ call[i].seats ELSE selected[d],
            i, NoCall)
  /\ UNCHANGED backend

\* onSuccess: the ticket is shown and the selection emptied.
Booked(i) ==
  LET d == call[i].of IN
  /\ call[i].op = "book"
  /\ call[i].at = "done"
  /\ Select(d, {}, i, NoCall)
  /\ UNCHANGED backend

\* onError: a conflict empties the selection, after another error the form stays.
NotBooked(i) ==
  LET d == call[i].of IN
  /\ call[i].op = "book"
  /\ call[i].at \in {"refused", "failed"}
  /\ Select(d, IF call[i].at = "refused" THEN {} ELSE selected[d], i, NoCall)
  /\ UNCHANGED backend

\* What is left of a call the page no longer waits for.
Abandoned(i) == IF call[i].at = "way" THEN [call[i] EXCEPT !.heard = FALSE] ELSE NoCall

\* The network between the browser and the web server fails.
LoseAnswer(i) ==
  /\ call[i].heard
  /\ call' = [call EXCEPT ![i] = Abandoned(i)]
  /\ UNCHANGED <<page, backend>>

\* The proxy answers 503 after 15 s, whether or not the backend has got the call and
\* executed it; its message is read as a conflict.
ProxyTimeout(i) ==
  LET d == call[i].of IN
  /\ call[i].heard
  /\ Select(d, IF call[i].op = "book" THEN {} ELSE selected[d], i, Abandoned(i))
  /\ UNCHANGED backend

\* A call that nobody waits for never reaches the backend.
NeverArrives(i) ==
  /\ call[i] # NoCall
  /\ ~ call[i].heard
  /\ call' = [call EXCEPT ![i] = NoCall]
  /\ UNCHANGED <<page, backend>>

(* The backend. *)

Sold(s) == \E k \in Keys : booking[k].live /\ s \in booking[k].seats

\* AVAILABLE, or HELD by the user with time left: what hold and createBooking update.
Claimable(d, s) == ~ Sold(s) /\ (holder[s] = Nothing \/ (holder[s] = d /\ s \notin lapsed))

Hold(i) ==
  LET d == call[i].of IN
  /\ call[i].op = "hold"
  /\ call[i].at = "way"
  /\ IF \A s \in call[i].seats : Claimable(d, s)
     THEN /\ holder' = [s \in Seats |-> IF s \in call[i].seats THEN d ELSE holder[s]]
          /\ lapsed' = lapsed \ call[i].seats
          /\ call' = [call EXCEPT ![i] = Answer(i, "done")]
     ELSE call' = [call EXCEPT ![i] = Answer(i, "refused")] /\ UNCHANGED <<holder, lapsed>>
  /\ UNCHANGED <<page, booking>>

Freed(seats) ==
  /\ holder' = [s \in Seats |-> IF s \in seats THEN Nothing ELSE holder[s]]
  /\ lapsed' = lapsed \ seats

Release(i) ==
  /\ call[i].op = "release"
  /\ call[i].at = "way"
  /\ Freed({s \in call[i].seats : holder[s] = call[i].of})
  /\ call' = [call EXCEPT ![i] = Answer(i, "done")]
  /\ UNCHANGED <<page, booking>>

\* The releases of releaseSelectedSeats, each executed on its own.
ReleaseDropped(i, s) ==
  /\ call[i].op = "drop"
  /\ s \in call[i].seats
  /\ Freed({t \in {s} : holder[t] = call[i].of})
  /\ call' = [call EXCEPT ![i] = IF call[i].seats = {s} THEN NoCall
                                 ELSE [call[i] EXCEPT !.seats = call[i].seats \ {s}]]
  /\ UNCHANGED <<page, booking>>

\* createBooking: a key that has a booking is answered with it, whatever is asked.
Replay(i) ==
  /\ call[i].op = "book"
  /\ call[i].at = "way"
  /\ booking[call[i].key].form # Nothing
  /\ call' = [call EXCEPT ![i] = Answer(i, "done")]
  /\ UNCHANGED <<page, backend>>

CreateBooking(i) ==
  /\ call[i].op = "book"
  /\ call[i].at = "way"
  /\ booking[call[i].key].form = Nothing
  /\ IF \A s \in call[i].seats : Claimable(call[i].of, s)
     THEN /\ booking' = [booking EXCEPT ![call[i].key] =
                           [seats |-> call[i].seats, form |-> call[i].form, live |-> TRUE]]
          /\ Freed(call[i].seats)
          /\ call' = [call EXCEPT ![i] = Answer(i, "done")]
     ELSE call' = [call EXCEPT ![i] = Answer(i, "refused")] /\ UNCHANGED backend
  /\ UNCHANGED page

\* Any other refusal or failure, before anything is written.
Fail(i) ==
  /\ call[i].op \in {"hold", "release", "book"}
  /\ call[i].at = "way"
  /\ call' = [call EXCEPT ![i] = Answer(i, "failed")]
  /\ UNCHANGED <<page, backend>>

\* Ten minutes pass; later the sweep frees the seat.
HoldLapses(s) ==
  /\ holder[s] # Nothing
  /\ s \notin lapsed
  /\ lapsed' = lapsed \cup {s}
  /\ UNCHANGED <<page, call, holder, booking>>

Sweep ==
  /\ lapsed # {}
  /\ Freed(lapsed)
  /\ UNCHANGED <<page, call, booking>>

\* BookingHistory: the booking is cancelled, its seats are for sale again.
Cancel(k) ==
  /\ booking[k].live
  /\ booking' = [booking EXCEPT ![k].live = FALSE]
  /\ UNCHANGED <<page, call, holder, lapsed>>

DeskNext ==
  \/ \E i \in Calls :
       \/ \E d \in Desks : \/ \E s \in Seats : ClickSeat(d, s, i)
                           \/ Submit(d, i)
                           \/ Drop(d, i)
       \/ HoldAnswered(i) \/ ReleaseAnswered(i) \/ Booked(i) \/ NotBooked(i)
       \/ LoseAnswer(i) \/ ProxyTimeout(i) \/ NeverArrives(i)
       \/ Hold(i) \/ Release(i) \/ Replay(i) \/ CreateBooking(i) \/ Fail(i)
       \/ \E s \in Seats : ReleaseDropped(i, s)
  \/ \E d \in Desks : Reload(d)
  \/ \E s \in Seats : HoldLapses(s)
  \/ Sweep
  \/ \E k \in Keys : Cancel(k)

DeskSpec == DeskInit /\ [][DeskNext]_deskVars

(* Properties. *)

\* A call of createBooking carries the key of the form that sent it.
CallsCarryTheirKey ==
  \A i \in Calls : call[i].op = "book" =>
    /\ call[i].of # Nothing
    /\ call[i].form # Nothing
    /\ call[i].key = call[i].form
    /\ call[i].key \in used

\* A form has the selected seats, and what was sent with its key asks for them.
FormsAskForTheirSeats ==
  \A d \in Desks : form[d] # Nothing =>
    /\ form[d] \in used
    /\ \A i \in Calls : call[i].op = "book" /\ call[i].key = form[d] =>
         call[i].of = d /\ call[i].seats = selected[d]
    /\ booking[form[d]].form # Nothing => booking[form[d]].seats = selected[d]

\* No two desks have a form of one key, and there is a form iff there is a selection.
FormsAreApart ==
  /\ \A d \in Desks : form[d] = Nothing <=> selected[d] = {}
  /\ \A d, e \in Desks : d # e /\ form[d] # Nothing => form[d] # form[e]

\* A booking is under the key of the form that bought it, which asked for its seats.
BookingsAreOfTheirForm ==
  \A k \in Keys : booking[k].form # Nothing =>
    /\ booking[k].form = k
    /\ k \in used
    /\ \A i \in Calls : call[i].op = "book" /\ call[i].key = k =>
         call[i].seats = booking[k].seats

\* Two calls with one key ask for the same seats.
OneKeyOneOrder ==
  \A i, j \in Calls : call[i].op = "book" /\ call[j].op = "book" /\ call[i].key = call[j].key =>
    call[i].seats = call[j].seats

\* A call that somebody waits for is of the form that is mounted; one answered is waited for.
WaitedForByTheForm ==
  \A i \in Calls :
    /\ call[i].op = "book" /\ call[i].heard => call[i].key = form[call[i].of]
    /\ call[i].at \in {"done", "refused", "failed"} => call[i].heard
    /\ call[i].op = "book" /\ call[i].at = "done" => booking[call[i].key].form # Nothing
    /\ call[i].heard => call[i].of # Nothing

DeskInv ==
  /\ DeskTypeOK
  /\ CallsCarryTheirKey
  /\ FormsAskForTheirSeats
  /\ FormsAreApart
  /\ BookingsAreOfTheirForm
  /\ OneKeyOneOrder
  /\ WaitedForByTheForm

\* The ticket a clerk is about to be shown is for the seats the clerk asked for: createBooking
\* answers a known key without comparing what is asked, so this rests on the page,
\* whose keys must never outlive a selection (bookings-feature.tsx:160).
ShownIsAsked ==
  \A i \in Calls : call[i].op = "book" /\ call[i].at = "done" =>
    booking[call[i].key].form # Nothing /\ booking[call[i].key].seats = selected[call[i].of]

\* However often a form is submitted, and whenever its calls are executed, none is
\* refused because of seats that this form has bought (use-create-booking.ts:11).
NotRefusedByItself ==
  [][\A i \in Calls : call[i].at = "way" /\ call'[i].at = "refused" /\ call[i].op = "book" =>
       \A k \in Keys : booking[k].form # call[i].form]_deskVars
===============================================================================
