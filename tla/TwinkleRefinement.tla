------------------------- MODULE TwinkleRefinement -------------------------
(* The ledger transactions implement the contract of the ledger. *)
EXTENDS Twinkle

Contract == INSTANCE LedgerContract WITH log <- ledger

\* Every commit is one posting of the contract and nothing else moves the log
\* or a balance: partial, replayed and raced transactions are invisible.
ImplementsContract == Contract!Spec
=============================================================================
