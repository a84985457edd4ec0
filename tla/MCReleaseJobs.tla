---------------------------- MODULE MCReleaseJobs ----------------------------
EXTENDS ReleaseJobs, ReleaseRefinement, TLC

CONSTANTS d1, d2, m1, m2, m3, n1, c1, w1

\* A diary of two memories beside one of one.
TwoAndOne == (m1 :> d1) @@ (m3 :> d1) @@ (m2 :> d2)
=============================================================================
