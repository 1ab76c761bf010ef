----------------------------- MODULE MCExpenses -----------------------------
(* A small instance of Expenses for TLC. *)
EXTENDS Expenses, TLC

Symmetry ==
  Permutations(Expenses) \cup Permutations(Adjustments) \cup Permutations(Requests)
==============================================================================
