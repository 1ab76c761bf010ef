---------------------------- MODULE MCSettlements ----------------------------
(* A small instance of Settlements for TLC. *)
EXTENDS Settlements, TLC

CONSTANTS c1, c2

\* Fares and rates such that the net of a settlement may be positive, zero or negative.
MCCommissions == {c1, c2}
MCFare == [c \in MCCommissions |-> 2]
MCRates == {1, 3}
MCDays == {1, 2}
MCPeriods == {[from |-> 1, to |-> 1], [from |-> 2, to |-> 2], [from |-> 1, to |-> 2]}

Symmetry == Permutations(MCCommissions) \cup Permutations(Requests)
==============================================================================
