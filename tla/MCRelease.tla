----------------------------- MODULE MCRelease -----------------------------
EXTENDS Release, TLC

CONSTANTS d1, d2, d3, m1, m2, m3, n1, n2, c1, w1

\* Three diaries of one memory each, over the same neurons.
Three == (m1 :> d1) @@ (m2 :> d2) @@ (m3 :> d3)

\* The neurons are linked.
Pair == {{n1, n2}}
=============================================================================
