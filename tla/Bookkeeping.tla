------------------------------ MODULE Bookkeeping ------------------------------
(***************************************************************************)
(* What the accounting of an organization promises about the sources of    *)
(* its books (payments, refunds, expenses, settlements), with no events,   *)
(* attempts, leases, keys or locks: a source that has come about is owed   *)
(* its entry, gets it once, while the period is open and if it has an      *)
(* amount, and keeps it; it is reported as posted at that moment or never. *)
(* AccountingOutbox implements it.                                         *)
(***************************************************************************)
EXTENDS Naturals

CONSTANTS
  Sources,
  Payable   \* those that have an amount

VARIABLES
  owed,      \* the sources that have come about
  entries,   \* of each source, how many entries it has
  reported,  \* the sources that are reported as posted
  open       \* the period is open

Init ==
  /\ owed = {}
  /\ entries = [s \in Sources |-> 0]
  /\ reported = {}
  /\ open = TRUE

Owe(s) ==
  /\ owed' = owed \cup {s}
  /\ UNCHANGED <<entries, reported, open>>

Book(s) ==
  /\ s \in owed \cap Payable
  /\ open
  /\ entries[s] = 0
  /\ entries' = [entries EXCEPT ![s] = 1]
  /\ reported' = reported \cup {s}
  /\ UNCHANGED <<owed, open>>

\* A failure is recorded over a success, a key expires, an event is requeued.
Forget(S) ==
  /\ reported' = reported \ S
  /\ UNCHANGED <<owed, entries, open>>

Close ==
  /\ open' = FALSE
  /\ UNCHANGED <<owed, entries, reported>>

Next ==
  \/ \E s \in Sources : Owe(s) \/ Book(s)
  \/ \E S \in SUBSET reported : Forget(S)
  \/ Close

Spec == Init /\ [][Next]_<<owed, entries, reported, open>>
================================================================================
