----------------------------- MODULE MCTripSales -----------------------------
(* Small instances of TripSales for TLC. *)
EXTENDS TripSales, TLC

Symmetry == Permutations(Seats) \cup Permutations(Users) \cup Permutations(Bookings)
              \cup Permutations(Keys) \cup Permutations(Workers)

\* Customers and clerks only: holds, bookings and the two cancellations, with
\* nobody editing, departing or boarding the trip.
SalesNext ==
  \/ \E w \in Workers : Hold(w) \/ Booking(w) \/ Cancel(w) \/ TripCancel(w) \/ Abort(w)
  \/ \E u \in Users, s \in Seats : Release(u, s)
  \/ \E s \in Seats : HoldExpires(s)
  \/ SeatMap
SalesSpec == Init /\ [][SalesNext]_vars
==============================================================================
