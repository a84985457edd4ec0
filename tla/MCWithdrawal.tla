---------------------------- MODULE MCWithdrawal ----------------------------
EXTENDS Withdrawal, TLC

CONSTANTS c1, c2, w1, w2

\* Requests are interchangeable, and so are lanes.
Twins == Permutations({c1, c2}) \cup Permutations({w1, w2})
=============================================================================
