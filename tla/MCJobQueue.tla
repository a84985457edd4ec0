----------------------------- MODULE MCJobQueue -----------------------------
(* Instances of JobQueue and of its refinement for TLC. *)
EXTENDS JobQueueRefinement, TLC

CONSTANTS j1, j2, l1, l2, p1

\* One worker process of two lanes.
OneProcess == l1 :> p1 @@ l2 :> p1

\* One job of each retry policy.
MixedKinds == j1 :> "retention_sweep" @@ j2 :> "semanticize"
\* The sweep is run past the claim ceiling.
MixedGens == j1 :> 3 @@ j2 :> 3

\* The lanes of one process are interchangeable.
Lanes == Permutations({l1, l2})
=============================================================================
