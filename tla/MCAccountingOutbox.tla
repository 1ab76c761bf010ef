-------------------------- MODULE MCAccountingOutbox --------------------------
(* The instance of AccountingOutbox for TLC: its constants are in Outbox.cfg. *)
(* Liveness is checked, so nothing is symmetric. *)
EXTENDS AccountingOutbox, TLC
==============================================================================
