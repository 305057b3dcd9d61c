---------------------------- MODULE MCSettlement ----------------------------
(* Small instances of Settlement for TLC. *)
EXTENDS Settlement, TLC

\* Invoice and message ids are interchangeable.
Ids == Permutations(Invoices) \cup Permutations(Sms)
=============================================================================
