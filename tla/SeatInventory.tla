---------------------------- MODULE SeatInventory ----------------------------
(***************************************************************************)
(* What the sales of a trip promise about its seats, with no requests, no  *)
(* locks and no money: a booking takes all its seats in one step, gives    *)
(* them all back in one step, and is never sold a second time.  TripSales  *)
(* implements it.                                                          *)
(***************************************************************************)
CONSTANTS Seats, Bookings

VARIABLES
  inventory,  \* of each seat: "ABSENT", "FREE", "HELD", "CLOSED" or its booking
  sold        \* the bookings that were ever sold

Init ==
  /\ inventory \in [Seats -> {"ABSENT", "FREE"}]
  /\ sold = {}

SeatsOf(b) == {s \in Seats : inventory[s] = b}
Free == {s \in Seats : inventory[s] \in {"FREE", "HELD"}}

Set(S, state) == inventory' = [s \in Seats |-> IF s \in S THEN state ELSE inventory[s]]

\* A customer holds a seat, first or again.
Hold(s) == s \in Free /\ Set({s}, "HELD") /\ UNCHANGED sold

\* Holds end; seats the template gained appear.
Refresh(S) ==
  /\ \A s \in S : inventory[s] \in {"ABSENT", "HELD"}
  /\ Set(S, "FREE")
  /\ UNCHANGED sold

Sell(b, S) ==
  /\ S # {} /\ S \subseteq Free
  /\ b \notin sold
  /\ Set(S, b)
  /\ sold' = sold \cup {b}

Return(b) == SeatsOf(b) # {} /\ Set(SeatsOf(b), "FREE") /\ UNCHANGED sold

\* The trip is cancelled: none of its seats is ever sold again.
Close ==
  /\ Set({s \in Seats : inventory[s] # "ABSENT"}, "CLOSED")
  /\ UNCHANGED sold

\* The trip is deleted, which it can be only as long as nothing was sold.
Remove == sold = {} /\ Set(Seats, "ABSENT") /\ UNCHANGED sold

Next ==
  \/ \E s \in Seats : Hold(s)
  \/ \E S \in SUBSET Seats : Refresh(S)
  \/ \E b \in Bookings : Return(b) \/ \E S \in SUBSET Seats : Sell(b, S)
  \/ Close
  \/ Remove

Spec == Init /\ [][Next]_<<inventory, sold>>
==============================================================================
