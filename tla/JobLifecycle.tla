---------------------------- MODULE JobLifecycle ----------------------------
(***************************************************************************)
(* What the job queue promises, without clocks, leases or generations: a   *)
(* job waits, is held by at most one lane at a time, and only its holder   *)
(* ends it or puts it back.  A holder may vanish; the job is then taken    *)
(* again.  A job that was taken too often can only be given up.            *)
(***************************************************************************)
EXTENDS Integers

CONSTANTS
    Job, Lane, NoLane,
    DurableJob,      \* jobs no retry policy gives up
    Unhandled,    \* jobs no lane has a handler for
    Cancellable,  \* jobs a release cancels and a restore revives
    MaxClaims

VARIABLES
    state,   \* of each job
    owner,   \* the lane whose word still counts for the job
    claims   \* times the job changed hands, counted up to MaxClaims + 1

vars == <<state, owner, claims>>

Open == {"waiting", "held"}
Over == {"done", "failed", "cancelled"}

TypeOK ==
    /\ state \in [Job -> {"unborn", "gone"} \cup Open \cup Over]
    /\ owner \in [Job -> Lane \cup {NoLane}]
    /\ claims \in [Job -> 0..(MaxClaims + 1)]

Init ==
    /\ state = [j \in Job |-> "unborn"]
    /\ owner = [j \in Job |-> NoLane]
    /\ claims = [j \in Job |-> 0]

OneMore(j) ==
    claims' = [claims EXCEPT ![j] = IF @ <= MaxClaims THEN @ + 1 ELSE @]

\* The holder may only give the job up; no ceiling when MaxClaims is zero.
Barred(j) ==
    /\ j \notin DurableJob
    /\ j \in Unhandled \/ (MaxClaims > 0 /\ claims[j] > MaxClaims)

MoveTo(j, s) ==
    /\ state' = [state EXCEPT ![j] = s]
    /\ owner' = [owner EXCEPT ![j] = NoLane]

Submit(j) == state[j] = "unborn" /\ MoveTo(j, "waiting") /\ UNCHANGED claims

\* A lane takes the job, from a holder that fell silent too; o = NoLane when
\* the lane never learns of its claim.
Take(o, j) ==
    /\ state[j] \in Open
    /\ o \in Lane => \A k \in Job : owner[k] # o
    /\ state' = [state EXCEPT ![j] = "held"]
    /\ owner' = [owner EXCEPT ![j] = o]
    /\ OneMore(j)

Finish(j) == owner[j] # NoLane /\ ~Barred(j) /\ MoveTo(j, "done") /\ UNCHANGED claims

GiveUp(j) == owner[j] # NoLane /\ j \notin DurableJob /\ MoveTo(j, "failed") /\ UNCHANGED claims

PutBack(j) == owner[j] # NoLane /\ ~Barred(j) /\ MoveTo(j, "waiting") /\ UNCHANGED claims

\* Lanes die, or cannot reach the store, and their jobs stay held by nobody.
Vanish(lanes) ==
    /\ \E j \in Job : owner[j] \in lanes
    /\ owner' = [j \in Job |-> IF owner[j] \in lanes THEN NoLane ELSE owner[j]]
    /\ UNCHANGED <<state, claims>>

Cancel(j) == j \in Cancellable /\ state[j] \in Open /\ MoveTo(j, "cancelled") /\ OneMore(j)

Revive(j) == state[j] = "cancelled" /\ MoveTo(j, "waiting") /\ UNCHANGED claims

Erase(j) == state[j] \in Open \cup Over /\ MoveTo(j, "gone") /\ UNCHANGED claims

\* One cleanup batch erases several finished jobs.
Clean(batch) ==
    /\ \A j \in batch : state[j] \in Over
    /\ state' = [j \in Job |-> IF j \in batch THEN "gone" ELSE state[j]]
    /\ UNCHANGED <<owner, claims>>

Next ==
    \/ \E j \in Job : \/ Submit(j)
                      \/ \E o \in Lane \cup {NoLane} : Take(o, j)
                      \/ Finish(j)
                      \/ GiveUp(j)
                      \/ PutBack(j)
                      \/ Cancel(j)
                      \/ Revive(j)
                      \/ Erase(j)
    \/ \E lanes \in SUBSET Lane : Vanish(lanes)
    \/ \E batch \in SUBSET Job : Clean(batch)

Spec == Init /\ [][Next]_vars

=============================================================================
