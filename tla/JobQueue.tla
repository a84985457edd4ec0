------------------------------ MODULE JobQueue ------------------------------
(***************************************************************************)
(* The durable job queue of the API worker: the jobs table, the lanes of   *)
(* the worker processes that claim, run and settle its rows, the lease and *)
(* its generation fence, the retry policy, the terminal-row cleanup and    *)
(* the shutdown drain.                                                     *)
(*                                                                         *)
(* Every statement the store sends is one action: lanes of one process and *)
(* of several interleave between the statements, never inside one.  A job  *)
(* is a row id, so it is never inserted twice; its kind never changes.     *)
(***************************************************************************)
EXTENDS Integers, FiniteSets

CONSTANTS
    Job,            \* row ids
    Lane,           \* claim-and-run loops, over all worker processes
    Process,        \* worker processes
    ProcessOf,      \* the process a lane runs in
    KindOf,         \* the kind of each job
    Registered,     \* kinds the worker build has a handler for
    RetryForever,   \* kinds registered with RetryForever
    NoJob,
    Lease, MaxAttempts, MaxClaims, BackoffBase,
    Retention, CleanupInterval, CleanupBatch,
    Delays,         \* bound: how far ahead a producer or a handler schedules
    MaxTime,        \* bound: the clock stops here
    MaxGen          \* bound: claims and cancellations one row goes through

ASSUME SetAssumption ==
    /\ NoJob \notin Job
    /\ ProcessOf \in [Lane -> Process]
    /\ IsFiniteSet(Job)

ASSUME ConfigAssumption ==
    /\ Lease \in Nat \ {0}
    /\ MaxAttempts \in Nat \ {0}
    /\ MaxClaims \in Nat
    /\ BackoffBase \in Nat \ {0}
    /\ Retention \in Nat
    /\ CleanupInterval \in Nat
    /\ CleanupBatch \in Nat \ {0}
    /\ Delays \subseteq Nat
    /\ MaxTime \in Nat
    /\ MaxGen \in [Job -> Nat]

VARIABLES
    now,        \* wall clock, read by workers and by the database alike
    status,     \* jobs.status; "unborn" before the insert, "gone" after a delete
    attempts,   \* jobs.attempts
    runAt,      \* jobs.next_run_at, the lease deadline while running
    gen,        \* jobs.lease_generation
    endedAt,    \* jobs.terminal_at, meaningful in a terminal status
    group,      \* the release group a retention sweep targets still exists
    pc,         \* where each lane stands
    readAt,     \* the clock RunOnce read
    claim,      \* the job record the lane's claim returned
    cleanAt,    \* nextCleanupAt of each process
    phase,      \* "up", "draining" once the run context ended, "cut" after the drain
    wrote,      \* generation under which a handler's fenced write last landed
    runs        \* handler invocations so far

rowVars == <<status, attempts, runAt, gen, endedAt, group>>
laneVars == <<pc, readAt, claim>>
procVars == <<cleanAt, phase>>
vars == <<now, rowVars, laneVars, procVars, wrote, runs>>

Live == {"pending", "running"}
Terminal == {"done", "failed", "cancelled"}
Claims == [job : Job \cup {NoJob}, gen : Nat, attempts : Nat]
Nothing == [job |-> NoJob, gen |-> 0, attempts |-> 0]

TypeOK ==
    /\ now \in Nat
    /\ status \in [Job -> {"unborn", "gone"} \cup Live \cup Terminal]
    /\ attempts \in [Job -> Nat]
    /\ runAt \in [Job -> Int]
    /\ gen \in [Job -> Nat]
    /\ endedAt \in [Job -> Nat]
    /\ group \in [Job -> BOOLEAN]
    /\ pc \in [Lane -> {"idle", "purge", "claim", "run", "saved"}]
    /\ readAt \in [Lane -> Nat]
    /\ claim \in [Lane -> Claims]
    /\ cleanAt \in [Process -> Nat]
    /\ phase \in [Process -> {"up", "draining", "cut"}]
    /\ wrote \in [Job -> Nat]
    /\ runs \in [Job -> Nat]

Init ==
    /\ now = 0
    /\ status = [j \in Job |-> "unborn"]
    /\ attempts = [j \in Job |-> 0]
    /\ runAt = [j \in Job |-> 0]
    /\ gen = [j \in Job |-> 0]
    /\ endedAt = [j \in Job |-> 0]
    /\ group = [j \in Job |-> FALSE]
    /\ pc = [l \in Lane |-> "idle"]
    /\ readAt = [l \in Lane |-> 0]
    /\ claim = [l \in Lane |-> Nothing]
    /\ cleanAt = [p \in Process |-> 0]
    /\ phase = [p \in Process |-> "up"]
    /\ wrote = [j \in Job |-> 0]
    /\ runs = [j \in Job |-> 0]

-----------------------------------------------------------------------------
(* Policy *)

\* The retry policy that never gives a job up; an unregistered kind has none.
Durable(j) == KindOf[j] \in Registered \cap RetryForever

\* Broken variant of PastCeiling: the generation before the claim compared
\* instead of the one after it.
PastCeilingOneLate(j, g) == ~Durable(j) /\ MaxClaims > 0 /\ g > MaxClaims + 1

\* The claim ceiling, as process() reads it: no ceiling for a durable kind,
\* and none at all when MaxClaims is zero.
PastCeiling(j, g) == ~Durable(j) /\ MaxClaims > 0 /\ g > MaxClaims

\* The retry budget handleFailure compares with.
Spent(a) == a >= MaxAttempts

\* Jobs process() stops without running them.
Refused(j, g) == PastCeiling(j, g) \/ KindOf[j] \notin Registered

\* Exponential backoff; the code's cap of 2^62 ns is out of reach of MaxAttempts.
BackoffDelay(a) == BackoffBase * 2^a

\* Rows a claim may take.  It takes the earliest that no other transaction has
\* locked (SKIP LOCKED), which may be any of them.
Due(at) == {j \in Job : status[j] \in Live /\ runAt[j] <= at}

\* Terminal rows the cleanup may take; a retention sweep waits for its group.
Purgeable(at) ==
    {j \in Job : /\ status[j] \in Terminal
                 /\ endedAt[j] < at - Retention
                 /\ ~(KindOf[j] = "retention_sweep" /\ group[j])}

\* The predicate every settling statement carries: the row is running under
\* the generation this lane's claim returned.
Holds(l, j) ==
    /\ pc[l] \in {"run", "saved"}
    /\ claim[l].job = j
    /\ status[j] = "running"
    /\ gen[j] = claim[l].gen

-----------------------------------------------------------------------------
(* Producers and the other transactions that touch job rows *)

\* EnqueueJob of a fresh row.  A dedup conflict leaves the stored row as it
\* is, so it is no step of this module.
Enqueue(j, delay) ==
    /\ status[j] = "unborn"
    /\ status' = [status EXCEPT ![j] = "pending"]
    /\ runAt' = [runAt EXCEPT ![j] = now + delay]
    /\ group' = [group EXCEPT ![j] = KindOf[j] = "retention_sweep"]
    /\ UNCHANGED <<now, attempts, gen, endedAt, laneVars, procVars, wrote, runs>>

\* Release cancels the live jobs that target its memories and takes their
\* leases away by raising the generation.
CancelForRelease(j) ==
    /\ KindOf[j] = "semanticize"
    /\ status[j] \in Live
    /\ gen[j] < MaxGen[j]
    /\ status' = [status EXCEPT ![j] = "cancelled"]
    /\ gen' = [gen EXCEPT ![j] = @ + 1]
    /\ endedAt' = [endedAt EXCEPT ![j] = now]
    /\ UNCHANGED <<now, attempts, runAt, group, laneVars, procVars, wrote, runs>>

\* Restore revives the jobs its release cancelled, due at once.
RequeueForRestore(j) ==
    /\ status[j] = "cancelled"
    /\ status' = [status EXCEPT ![j] = "pending"]
    /\ runAt' = [runAt EXCEPT ![j] = now]
    /\ UNCHANGED <<now, attempts, gen, endedAt, group, laneVars, procVars, wrote, runs>>

\* A deleted row has no times.
Delete(rows) ==
    /\ status' = [j \in Job |-> IF j \in rows THEN "gone" ELSE status[j]]
    /\ runAt' = [j \in Job |-> IF j \in rows THEN 0 ELSE runAt[j]]
    /\ endedAt' = [j \in Job |-> IF j \in rows THEN 0 ELSE endedAt[j]]

\* The sweep of a release, or of a withdrawn account, deletes the jobs that
\* target what it deletes, a running one under its worker's feet.
PurgeTargetJobs(j) ==
    /\ KindOf[j] \in {"embed", "semanticize"}
    /\ status[j] \in Live \cup Terminal
    /\ Delete({j})
    /\ UNCHANGED <<now, attempts, gen, group, laneVars, procVars, wrote, runs>>

\* Restore, a visit's sweep, or the retention handler itself: the release
\* group and the job that targets it are deleted in one transaction.
RetireGroup(j) ==
    /\ group[j]
    /\ group' = [group EXCEPT ![j] = FALSE]
    /\ Delete({j})
    /\ UNCHANGED <<now, attempts, gen, laneVars, procVars, wrote, runs>>

-----------------------------------------------------------------------------
(* One turn of a lane *)

Rest(l) ==
    /\ pc' = [pc EXCEPT ![l] = "idle"]
    /\ readAt' = [readAt EXCEPT ![l] = 0]
    /\ claim' = [claim EXCEPT ![l] = Nothing]

\* RunOnce reads the clock; the process's cleanup window, when open, goes to
\* this lane and is closed for one interval before the purge runs.
StartTurn(l) ==
    /\ pc[l] = "idle"
    /\ phase[ProcessOf[l]] = "up"
    /\ readAt' = [readAt EXCEPT ![l] = now]
    /\ \/ /\ cleanAt[ProcessOf[l]] <= now
          /\ pc' = [pc EXCEPT ![l] = "purge"]
          /\ cleanAt' = [cleanAt EXCEPT ![ProcessOf[l]] = now + CleanupInterval]
       \/ /\ cleanAt[ProcessOf[l]] > now
          /\ pc' = [pc EXCEPT ![l] = "claim"]
          /\ UNCHANGED cleanAt
    /\ UNCHANGED <<now, rowVars, claim, phase, wrote, runs>>

\* One bounded purge of the rows no other transaction has locked; a full batch
\* reopens the window.
Purge(l) ==
    /\ pc[l] = "purge"
    /\ phase[ProcessOf[l]] = "up"
    /\ \E batch \in SUBSET Purgeable(readAt[l]) :
         /\ Cardinality(batch) <= CleanupBatch
         /\ Delete(batch)
         /\ cleanAt' = IF Cardinality(batch) = CleanupBatch
                         THEN [cleanAt EXCEPT ![ProcessOf[l]] = readAt[l]]
                         ELSE cleanAt
    /\ pc' = [pc EXCEPT ![l] = "claim"]
    /\ UNCHANGED <<now, attempts, gen, group, readAt, claim, phase, wrote, runs>>

\* Cleanup fails open: the lane goes on to its claim.
PurgeError(l) ==
    /\ pc[l] = "purge"
    /\ pc' = [pc EXCEPT ![l] = "claim"]
    /\ UNCHANGED <<now, rowVars, readAt, claim, procVars, wrote, runs>>

\* The row half of ClaimDueJob: running, leased, one generation on.
TakeRow(l, j) ==
    /\ pc[l] = "claim"
    /\ j \in Due(readAt[l])
    /\ gen[j] < MaxGen[j]
    /\ status' = [status EXCEPT ![j] = "running"]
    /\ runAt' = [runAt EXCEPT ![j] = readAt[l] + Lease]
    /\ gen' = [gen EXCEPT ![j] = @ + 1]

\* The claim reaches the lane, which invokes the handler unless process()
\* refuses the job.
Claim(l, j) ==
    /\ TakeRow(l, j)
    /\ phase[ProcessOf[l]] = "up"
    /\ pc' = [pc EXCEPT ![l] = "run"]
    /\ claim' = [claim EXCEPT ![l] = [job |-> j, gen |-> gen[j] + 1, attempts |-> attempts[j]]]
    /\ runs' = IF Refused(j, gen[j] + 1) THEN runs ELSE [runs EXCEPT ![j] = @ + 1]
    /\ UNCHANGED <<now, attempts, endedAt, group, readAt, procVars, wrote>>

\* The claim commits but its answer, or the read of its targets, is lost: the
\* row stays leased to nobody.
ClaimLost(l, j) ==
    /\ TakeRow(l, j)
    /\ Rest(l)
    /\ UNCHANGED <<now, attempts, endedAt, group, procVars, wrote, runs>>

\* No job is due, or the claim failed or was cancelled.
ClaimNothing(l) ==
    /\ pc[l] = "claim"
    /\ Rest(l)
    /\ UNCHANGED <<now, rowVars, procVars, wrote, runs>>

\* Broken variant of Lands: the write of a lapsed lease lands.
LandsAlways(l) == TRUE

\* The fence of a handler's write.
Lands(l) == Holds(l, claim[l].job)

\* A handler's fenced write.  Semanticize ends the job in the same transaction.
SaveEffect(l) ==
    LET j == claim[l].job
        ends == Lands(l) /\ KindOf[j] = "semanticize"
    IN
    /\ pc[l] = "run"
    /\ phase[ProcessOf[l]] # "cut"
    /\ ~Refused(j, claim[l].gen)
    /\ KindOf[j] \in {"embed", "semanticize"}
    /\ wrote' = [wrote EXCEPT ![j] = IF Lands(l) THEN claim[l].gen ELSE @]
    /\ status' = [status EXCEPT ![j] = IF ends THEN "done" ELSE @]
    /\ endedAt' = [endedAt EXCEPT ![j] = IF ends THEN now ELSE @]
    /\ pc' = [pc EXCEPT ![l] = "saved"]
    /\ UNCHANGED <<now, attempts, runAt, gen, group, readAt, claim, procVars, runs>>

-----------------------------------------------------------------------------
(* Settling a claim: each statement is fenced, a lost lease is ignored *)

\* Broken variant of EndRow: an UPDATE by id alone.
EndRowUnfenced(l, s, a) ==
    LET j == claim[l].job IN
    /\ status' = [status EXCEPT ![j] = s]
    /\ attempts' = [attempts EXCEPT ![j] = a]
    /\ endedAt' = [endedAt EXCEPT ![j] = now]

EndRow(l, s, a) ==
    LET j == claim[l].job IN
    \/ /\ Holds(l, j)
       /\ status' = [status EXCEPT ![j] = s]
       /\ attempts' = [attempts EXCEPT ![j] = a]
       /\ endedAt' = [endedAt EXCEPT ![j] = now]
    \/ ~Holds(l, j) /\ UNCHANGED <<status, attempts, endedAt>>

RetryRow(l, a, at) ==
    LET j == claim[l].job IN
    \/ /\ Holds(l, j)
       /\ status' = [status EXCEPT ![j] = "pending"]
       /\ attempts' = [attempts EXCEPT ![j] = a]
       /\ runAt' = [runAt EXCEPT ![j] = at]
    \/ ~Holds(l, j) /\ UNCHANGED <<status, attempts, runAt>>

InHandler(l) == pc[l] \in {"run", "saved"} /\ ~Refused(claim[l].job, claim[l].gen)

\* The statement below runs on the work context, alive until the drain ends.
Working(l) == phase[ProcessOf[l]] # "cut"

DeadLetter(l) ==
    /\ pc[l] = "run"
    /\ Refused(claim[l].job, claim[l].gen)
    /\ Working(l)
    /\ EndRow(l, "failed", claim[l].attempts)
    /\ Rest(l)
    /\ UNCHANGED <<now, runAt, gen, group, procVars, wrote, runs>>

\* Broken variant of Complete: the sweep reports success with its group kept.
CompleteTooSoon(l) ==
    /\ InHandler(l)
    /\ Working(l)
    /\ EndRow(l, "done", claim[l].attempts)
    /\ Rest(l)
    /\ UNCHANGED <<now, runAt, gen, group, procVars, wrote, runs>>

\* The handler succeeded.  The retention sweep does so only once its group is gone.
Complete(l) ==
    /\ InHandler(l)
    /\ Working(l)
    /\ ~group[claim[l].job]
    /\ EndRow(l, "done", claim[l].attempts)
    /\ Rest(l)
    /\ UNCHANGED <<now, runAt, gen, group, procVars, wrote, runs>>

\* handleFailure for an error that names its own retry time.
RetryLater(l, delay) ==
    /\ InHandler(l)
    /\ Working(l)
    /\ RetryRow(l, claim[l].attempts, now + delay)
    /\ Rest(l)
    /\ UNCHANGED <<now, gen, endedAt, group, procVars, wrote, runs>>

\* handleFailure for any other error, a recovered panic included.
FailAttempt(l) ==
    LET next == claim[l].attempts + 1
        spent == Spent(next)
        durable == Durable(claim[l].job)
    IN
    /\ InHandler(l)
    /\ Working(l)
    /\ \/ /\ spent /\ durable
          /\ RetryRow(l, 0, now + BackoffBase)
          /\ UNCHANGED endedAt
       \/ /\ spent /\ ~durable
          /\ EndRow(l, "failed", next)
          /\ UNCHANGED runAt
       \/ /\ ~spent
          /\ RetryRow(l, next, now + BackoffDelay(claim[l].attempts))
          /\ UNCHANGED endedAt
    /\ Rest(l)
    /\ UNCHANGED <<now, gen, group, procVars, wrote, runs>>

\* The drain cut the handler off: the job goes back due now, no attempt spent.
ReleaseAborted(l) ==
    /\ InHandler(l)
    /\ ~Working(l)
    /\ RetryRow(l, claim[l].attempts, now)
    /\ Rest(l)
    /\ UNCHANGED <<now, gen, endedAt, group, procVars, wrote, runs>>

\* The settling statement itself failed: the row keeps its lease until it lapses.
Abandon(l) ==
    /\ pc[l] \in {"run", "saved"}
    /\ Rest(l)
    /\ UNCHANGED <<now, rowVars, procVars, wrote, runs>>

-----------------------------------------------------------------------------
(* Processes and time *)

\* The run context ends: no lane claims again, handlers in flight keep running.
Shutdown(p) ==
    /\ phase[p] = "up"
    /\ phase' = [phase EXCEPT ![p] = "draining"]
    /\ UNCHANGED <<now, rowVars, laneVars, cleanAt, wrote, runs>>

\* The drain timer cancels the work context.
CutDrain(p) ==
    /\ phase[p] = "draining"
    /\ phase' = [phase EXCEPT ![p] = "cut"]
    /\ UNCHANGED <<now, rowVars, laneVars, cleanAt, wrote, runs>>

\* The process dies at any point, or ends after its drain, and is started again.
Restart(p) ==
    /\ phase' = [phase EXCEPT ![p] = "up"]
    /\ cleanAt' = [cleanAt EXCEPT ![p] = 0]
    /\ pc' = [l \in Lane |-> IF ProcessOf[l] = p THEN "idle" ELSE pc[l]]
    /\ readAt' = [l \in Lane |-> IF ProcessOf[l] = p THEN 0 ELSE readAt[l]]
    /\ claim' = [l \in Lane |-> IF ProcessOf[l] = p THEN Nothing ELSE claim[l]]
    /\ UNCHANGED <<now, rowVars, wrote, runs>>

Tick ==
    /\ now < MaxTime
    /\ now' = now + 1
    /\ UNCHANGED <<rowVars, laneVars, procVars, wrote, runs>>

-----------------------------------------------------------------------------

Producers ==
    \E j \in Job :
       \/ \E d \in Delays : Enqueue(j, d)
       \/ CancelForRelease(j)
       \/ RequeueForRestore(j)
       \/ PurgeTargetJobs(j)
       \/ RetireGroup(j)

Turn(l) ==
    \/ StartTurn(l)
    \/ Purge(l)
    \/ PurgeError(l)
    \/ \E j \in Job : Claim(l, j) \/ ClaimLost(l, j)
    \/ ClaimNothing(l)
    \/ SaveEffect(l)

Settle(l) ==
    \/ DeadLetter(l)
    \/ Complete(l)
    \/ \E d \in Delays : RetryLater(l, d)
    \/ FailAttempt(l)
    \/ ReleaseAborted(l)
    \/ Abandon(l)

Supervisor == \E p \in Process : Shutdown(p) \/ CutDrain(p) \/ Restart(p)

Next ==
    \/ Producers
    \/ \E l \in Lane : Turn(l) \/ Settle(l)
    \/ Supervisor
    \/ Tick

Spec == Init /\ [][Next]_vars

-----------------------------------------------------------------------------
(* Properties *)

\* At most one lane can still settle or write for a job, however many claims
\* of it are in flight: the lease fence of the claim and settle statements.
HolderUnique ==
    \A j \in Job : \A l, m \in Lane : Holds(l, j) /\ Holds(m, j) => l = m

\* A worker that lost its lease never writes over the result of a later one:
\* the fence of the embedding and semanticize writes.
LateWriteNeverLands == [][\A j \in Job : wrote'[j] >= wrote[j]]_vars

\* No handler of an ordinary kind is invoked more than MaxClaims times for a
\* job, killed workers, lost claims and releases included.
RunsBounded ==
    MaxClaims > 0 => \A j \in Job : ~Durable(j) => runs[j] <= MaxClaims

\* A durable kind is never failed, neither by its retry budget nor by the
\* claim ceiling: it is the only trigger of an effect nobody can ask for again.
DurableNeverFails == \A j \in Job : Durable(j) => status[j] # "failed"

\* A job is failed only when its attempts are spent, its claims are, or no
\* handler is registered; releases, scheduled retries and aborts spend none.
FailedForAReason ==
    \A j \in Job : status[j] = "failed" =>
        attempts[j] >= MaxAttempts \/ Refused(j, gen[j])

\* While a release group exists its retention sweep is still in the queue to
\* come: no crash, failure, cleanup or other transaction strands the group.
EveryGroupHasTrigger == \A j \in Job : group[j] => status[j] \in Live

\* A dead-lettered retention sweep outlives the terminal retention as long as
\* its release group exists, so an operator can still requeue it.
GroupKeepsItsRow == \A j \in Job : group[j] => status[j] \notin {"unborn", "gone"}
=============================================================================
