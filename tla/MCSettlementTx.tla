--------------------------- MODULE MCSettlementTx ---------------------------
(* Small instances of SettlementTx for TLC. *)
EXTENDS SettlementTx

\* Sessions, invoice ids and message ids are interchangeable.
Ids == Permutations(Sessions) \cup Permutations(Invoices) \cup Permutations(Sms)
=============================================================================
