------------------------------ MODULE MCReports ------------------------------
(* A small instance of Reports for TLC. *)
EXTENDS Reports, TLC

Symmetry == Permutations(Bookings)
==============================================================================
