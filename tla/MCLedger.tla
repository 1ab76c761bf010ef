------------------------------- MODULE MCLedger -------------------------------
(* A small instance of Ledger for TLC. *)
EXTENDS Ledger, TLC

CONSTANTS cash, sales, e1, e2, e3

\* One entry that balances and one that does not.
MCAccounts == {cash, sales}
MCEntries == {e1, e2, e3}
MCLines == {(cash :> 2) @@ (sales :> -2), (cash :> 2) @@ (sales :> -1)}

Symmetry == Permutations(MCEntries) \cup Permutations(Periods) \cup Permutations(Requests)
              \cup Permutations(Keys)
==============================================================================
