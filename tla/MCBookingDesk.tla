---------------------------- MODULE MCBookingDesk ----------------------------
EXTENDS BookingDesk, TLC

Symmetry == Permutations(Desks) \cup Permutations(Seats) \cup Permutations(Keys) \cup Permutations(Calls)
===============================================================================
