------------------------- MODULE JobQueueRefinement -------------------------
(***************************************************************************)
(* JobQueue implements JobLifecycle.  The owner of a job is the lane that  *)
(* still holds its lease generation; the times a job changed hands are its *)
(* generation.                                                             *)
(***************************************************************************)
EXTENDS JobQueue

CONSTANT NoLane

ASSUME NoLaneAssumption == NoLane \notin Lane

Held(j) == \E l \in Lane : Holds(l, j)

AbstractState ==
    [j \in Job |-> CASE status[j] = "pending" -> "waiting"
                     [] status[j] = "running" -> "held"
                     [] OTHER -> status[j]]

AbstractOwner ==
    [j \in Job |-> IF Held(j) THEN CHOOSE l \in Lane : Holds(l, j) ELSE NoLane]

AbstractClaims ==
    [j \in Job |-> IF gen[j] <= MaxClaims THEN gen[j] ELSE MaxClaims + 1]

Lifecycle == INSTANCE JobLifecycle WITH
    DurableJob <- {j \in Job : Durable(j)},
    Unhandled <- {j \in Job : KindOf[j] \notin Registered},
    Cancellable <- {j \in Job : KindOf[j] = "semanticize"},
    state <- AbstractState,
    owner <- AbstractOwner,
    claims <- AbstractClaims

\* The jobs table and its workers keep the promise of JobLifecycle: whatever
\* crashes, lapses and races do, a job is moved only by its latest claimer, a
\* finished job never runs again, and one past the ceiling is only given up.
ImplementsLifecycle == Lifecycle!Spec
=============================================================================
