--------------------------- MODULE JobQueueProofs ---------------------------
(***************************************************************************)
(* Theorems about JobQueue, for any jobs, lanes, processes and settings.   *)
(***************************************************************************)
EXTENDS JobQueueRefinement, TLAPS

\* The backoff is a number of ticks, whatever the attempt.
LEMMA BackoffInt == ASSUME NEW a \in Nat PROVE BackoffDelay(a) \in Int
  <1>1. 2^a \in Int
    BY SMT
  <1>. QED  BY <1>1, ConfigAssumption DEF BackoffDelay

-----------------------------------------------------------------------------
(* Type correctness *)

\* Producers, releases, restores and deletions keep the rows well formed.
LEMMA TypeProducers == TypeOK /\ Producers => TypeOK'
  <1> SUFFICES ASSUME TypeOK, NEW j \in Job,
                      \/ \E d \in Delays : Enqueue(j, d)
                      \/ CancelForRelease(j)
                      \/ RequeueForRestore(j)
                      \/ PurgeTargetJobs(j)
                      \/ RetireGroup(j)
               PROVE  TypeOK'
    BY DEF Producers
  <1> USE DEF TypeOK, Live, Terminal, vars, laneVars, procVars
  <1>1. ASSUME NEW d \in Delays, Enqueue(j, d) PROVE TypeOK'
    BY <1>1, ConfigAssumption DEF Enqueue
  <1>2. CASE CancelForRelease(j)
    BY <1>2 DEF CancelForRelease
  <1>3. CASE RequeueForRestore(j)
    BY <1>3 DEF RequeueForRestore
  <1>4. CASE PurgeTargetJobs(j)
    BY <1>4 DEF PurgeTargetJobs, Delete
  <1>5. CASE RetireGroup(j)
    BY <1>5 DEF RetireGroup, Delete
  <1>. QED  BY <1>1, <1>2, <1>3, <1>4, <1>5

\* A lane at rest is well formed.
LEMMA TypeRest ==
    ASSUME TypeOK, NEW l \in Lane, Rest(l)
    PROVE  /\ pc' \in [Lane -> {"idle", "purge", "claim", "run", "saved"}]
           /\ readAt' \in [Lane -> Nat]
           /\ claim' \in [Lane -> Claims]
  BY DEF TypeOK, Rest, Claims, Nothing

\* Claiming, cleaning up and a handler's writes keep the rows well formed.
LEMMA TypeTurn == TypeOK /\ (\E l \in Lane : Turn(l)) => TypeOK'
  <1> SUFFICES ASSUME TypeOK, NEW l \in Lane, Turn(l) PROVE TypeOK'
    OBVIOUS
  <1> USE SetAssumption, ConfigAssumption
      DEF rowVars, laneVars, procVars, Live, Terminal
  <1>0. ProcessOf[l] \in Process
    OBVIOUS
  <1>1. CASE StartTurn(l)
    BY <1>0, <1>1 DEF StartTurn, TypeOK
  <1>2. CASE Purge(l)
    <2>1. /\ status' \in [Job -> {"unborn", "gone"} \cup Live \cup Terminal]
          /\ cleanAt' \in [Process -> Nat]
          /\ pc' \in [Lane -> {"idle", "purge", "claim", "run", "saved"}]
      BY <1>0, <1>2 DEF Purge, TypeOK, Delete
    <2>. QED  BY <1>2, <2>1 DEF Purge, TypeOK, Delete
  <1>3. CASE PurgeError(l)
    BY <1>3 DEF PurgeError, TypeOK
  <1>4. ASSUME NEW j \in Job, Claim(l, j) PROVE TypeOK'
    <2>1. claim' \in [Lane -> Claims]
      BY <1>4 DEF Claim, TakeRow, TypeOK, Claims
    <2>2. runs' \in [Job -> Nat]
      BY <1>4 DEF Claim, TypeOK
    <2>. QED  BY <1>4, <2>1, <2>2 DEF Claim, TakeRow, TypeOK
  <1>5. ASSUME NEW j \in Job, ClaimLost(l, j) PROVE TypeOK'
    BY <1>5, TypeRest DEF ClaimLost, TakeRow, TypeOK
  <1>6. CASE ClaimNothing(l)
    BY <1>6, TypeRest DEF ClaimNothing, TypeOK
  <1>7. CASE SaveEffect(l)
    <2>1. claim[l].gen \in Nat
      BY DEF TypeOK, Claims
    <2>. QED  BY <1>7, <2>1 DEF SaveEffect, Lands, TypeOK
  <1>. QED  BY <1>1, <1>2, <1>3, <1>4, <1>5, <1>6, <1>7 DEF Turn

\* Ending a row under the fence keeps the rows well formed.
LEMMA TypeEndRow ==
    ASSUME TypeOK, NEW l \in Lane, NEW s \in Terminal, NEW a \in Nat, EndRow(l, s, a)
    PROVE  /\ status' \in [Job -> {"unborn", "gone"} \cup Live \cup Terminal]
           /\ attempts' \in [Job -> Nat]
           /\ endedAt' \in [Job -> Nat]
  BY DEF TypeOK, EndRow, Live, Terminal

\* Putting a row back under the fence keeps the rows well formed.
LEMMA TypeRetryRow ==
    ASSUME TypeOK, NEW l \in Lane, NEW a \in Nat, NEW at \in Int, RetryRow(l, a, at)
    PROVE  /\ status' \in [Job -> {"unborn", "gone"} \cup Live \cup Terminal]
           /\ attempts' \in [Job -> Nat]
           /\ runAt' \in [Job -> Int]
  BY DEF TypeOK, RetryRow, Live, Terminal

\* Whatever becomes of a claim, the rows stay well formed.
LEMMA TypeSettle == TypeOK /\ (\E l \in Lane : Settle(l)) => TypeOK'
  <1> SUFFICES ASSUME TypeOK, NEW l \in Lane, Settle(l) PROVE TypeOK'
    OBVIOUS
  <1> USE ConfigAssumption DEF rowVars, procVars
  <1>0. claim[l].attempts \in Nat /\ claim[l].attempts + 1 \in Nat
    BY DEF TypeOK, Claims
  <1>1. CASE DeadLetter(l)
    BY <1>0, <1>1, TypeRest, TypeEndRow DEF DeadLetter, Terminal, TypeOK
  <1>2. CASE Complete(l)
    BY <1>0, <1>2, TypeRest, TypeEndRow DEF Complete, Terminal, TypeOK
  <1>3. ASSUME NEW d \in Delays, RetryLater(l, d) PROVE TypeOK'
    <2>1. now + d \in Int
      BY DEF TypeOK
    <2>. QED  BY <1>0, <1>3, <2>1, TypeRest, TypeRetryRow DEF RetryLater, TypeOK
  <1>4. CASE FailAttempt(l)
    <2>1. now + BackoffBase \in Int /\ now + BackoffDelay(claim[l].attempts) \in Int
      BY <1>0, BackoffInt DEF TypeOK
    <2>2. CASE RetryRow(l, 0, now + BackoffBase) /\ UNCHANGED endedAt
      BY <1>4, <2>1, <2>2, TypeRest, TypeRetryRow DEF FailAttempt, Spent, TypeOK
    <2>3. CASE EndRow(l, "failed", claim[l].attempts + 1) /\ UNCHANGED runAt
      BY <1>0, <1>4, <2>3, TypeRest, TypeEndRow DEF FailAttempt, Spent, Terminal, TypeOK
    <2>4. CASE /\ RetryRow(l, claim[l].attempts + 1, now + BackoffDelay(claim[l].attempts))
               /\ UNCHANGED endedAt
      BY <1>0, <1>4, <2>1, <2>4, TypeRest, TypeRetryRow DEF FailAttempt, Spent, TypeOK
    <2>. QED  BY <1>4, <2>2, <2>3, <2>4 DEF FailAttempt, Spent
  <1>5. CASE ReleaseAborted(l)
    <2>1. now \in Int
      BY DEF TypeOK
    <2>. QED  BY <1>0, <1>5, <2>1, TypeRest, TypeRetryRow DEF ReleaseAborted, TypeOK
  <1>6. CASE Abandon(l)
    BY <1>6, TypeRest DEF Abandon, TypeOK
  <1>. QED  BY <1>1, <1>2, <1>3, <1>4, <1>5, <1>6 DEF Settle

\* Shutdowns, cut drains and restarts keep the state well formed.
LEMMA TypeSupervisor == TypeOK /\ Supervisor => TypeOK'
  <1> SUFFICES ASSUME TypeOK, NEW p \in Process,
                      Shutdown(p) \/ CutDrain(p) \/ Restart(p)
               PROVE  TypeOK'
    BY DEF Supervisor
  <1> USE DEF TypeOK, rowVars, laneVars
  <1>1. CASE Shutdown(p)
    BY <1>1 DEF Shutdown
  <1>2. CASE CutDrain(p)
    BY <1>2 DEF CutDrain
  <1>3. CASE Restart(p)
    BY <1>3 DEF Restart, Claims, Nothing
  <1>. QED  BY <1>1, <1>2, <1>3

\* Every reachable state of the queue is well formed.
THEOREM TypeCorrect == Spec => []TypeOK
  <1>1. Init => TypeOK
    BY DEF Init, TypeOK, Claims, Nothing, Live
  <1>2. TypeOK /\ [Next]_vars => TypeOK'
    <2> SUFFICES ASSUME TypeOK, [Next]_vars PROVE TypeOK'
      OBVIOUS
    <2>1. CASE Tick
      BY <2>1 DEF Tick, TypeOK, rowVars, laneVars, procVars
    <2>2. CASE UNCHANGED vars
      BY <2>2 DEF vars, TypeOK, rowVars, laneVars, procVars
    <2>. QED
      BY <2>1, <2>2, TypeProducers, TypeTurn, TypeSettle, TypeSupervisor DEF Next
  <1>. QED  BY <1>1, <1>2, PTL DEF Spec

-----------------------------------------------------------------------------
(* The lease fence *)

Busy(l) == pc[l] \in {"run", "saved"}

\* What makes HolderUnique inductive: a claim in flight never runs ahead of its
\* row, and two claims of one job carry different generations.
Fence ==
    /\ \A l \in Lane : Busy(l) =>
          claim[l].job \in Job /\ claim[l].gen <= gen[claim[l].job]
    /\ \A l, m \in Lane :
          l # m /\ Busy(l) /\ Busy(m) /\ claim[l].job = claim[m].job
            => claim[l].gen # claim[m].gen

\* Writes and invocations never outnumber claims.
Counted == \A j \in Job : wrote[j] <= gen[j] /\ runs[j] <= gen[j]

\* A lane that only ends its turn, or keeps its claim, disturbs no fence.
LEMMA FenceKept ==
    ASSUME TypeOK, Fence, \A j \in Job : gen'[j] \in Nat /\ gen'[j] >= gen[j],
           \A l \in Lane : Busy(l)' => Busy(l) /\ claim'[l] = claim[l]
    PROVE  Fence'
  <1> SUFFICES /\ \A l \in Lane : Busy(l)' =>
                     claim'[l].job \in Job /\ claim'[l].gen <= gen'[claim'[l].job]
               /\ \A l, m \in Lane :
                     l # m /\ Busy(l)' /\ Busy(m)' /\ claim'[l].job = claim'[m].job
                       => claim'[l].gen # claim'[m].gen
    BY DEF Fence, Busy
  <1>1. ASSUME NEW l \in Lane, Busy(l)'
        PROVE  claim'[l].job \in Job /\ claim'[l].gen <= gen'[claim'[l].job]
    BY <1>1 DEF Fence, TypeOK, Claims
  <1>2. ASSUME NEW l \in Lane, NEW m \in Lane, l # m, Busy(l)', Busy(m)',
               claim'[l].job = claim'[m].job
        PROVE  claim'[l].gen # claim'[m].gen
    BY <1>2 DEF Fence
  <1>. QED  BY <1>1, <1>2

\* Resting lanes are not busy, and nobody else moves.
LEMMA RestKeeps ==
    ASSUME TypeOK, NEW l \in Lane, Rest(l)
    PROVE  \A m \in Lane : Busy(m)' => Busy(m) /\ claim'[m] = claim[m]
  BY DEF TypeOK, Rest, Busy

\* A claim is the one step that adds a lane to those in flight.
LEMMA FenceClaim ==
    ASSUME TypeOK, Fence, Counted, NEW l \in Lane, NEW j \in Job, Claim(l, j)
    PROVE  Fence' /\ Counted'
  <1>1. /\ claim' = [claim EXCEPT ![l] = [job |-> j, gen |-> gen[j] + 1, attempts |-> attempts[j]]]
        /\ gen' = [gen EXCEPT ![j] = @ + 1]
        /\ pc' = [pc EXCEPT ![l] = "run"]
        /\ wrote' = wrote
        /\ runs' \in {runs, [runs EXCEPT ![j] = @ + 1]}
    BY DEF Claim, TakeRow
  <1>2. ASSUME NEW m \in Lane, Busy(m)'
        PROVE  /\ claim'[m].job \in Job /\ claim'[m].gen <= gen'[claim'[m].job]
               /\ m # l => Busy(m) /\ claim'[m] = claim[m]
    BY <1>1, <1>2 DEF TypeOK, Busy, Fence, Claims
  <1>3. ASSUME NEW m \in Lane, m # l, Busy(m)', claim'[m].job = j
        PROVE  claim'[m].gen # gen[j] + 1
    BY <1>1, <1>2, <1>3 DEF TypeOK, Busy, Fence, Claims
  <1>4. claim'[l].job = j /\ claim'[l].gen = gen[j] + 1
    BY <1>1 DEF TypeOK
  <1>5. Fence'
    <2> SUFFICES ASSUME NEW k \in Lane, NEW m \in Lane, k # m, Busy(k)', Busy(m)',
                        claim'[k].job = claim'[m].job
                 PROVE  claim'[k].gen # claim'[m].gen
      BY <1>2 DEF Fence, Busy
    <2>1. CASE k = l
      BY <1>3, <1>4, <2>1
    <2>2. CASE m = l
      BY <1>3, <1>4, <2>2
    <2>3. CASE k # l /\ m # l
      BY <1>2, <2>3 DEF Fence
    <2>. QED  BY <2>1, <2>2, <2>3
  <1>6. Counted'
    BY <1>1 DEF TypeOK, Counted
  <1>. QED  BY <1>5, <1>6

\* No step gives two lanes the fence of one job, or outruns its generation.
LEMMA FenceStep ==
    ASSUME TypeOK, Fence, Counted, Next
    PROVE  Fence' /\ Counted'
  <1> USE DEF rowVars, laneVars, procVars
  <1>1. CASE Producers
    <2> PICK j \in Job : \/ \E d \in Delays : Enqueue(j, d)
                         \/ CancelForRelease(j)
                         \/ RequeueForRestore(j)
                         \/ PurgeTargetJobs(j)
                         \/ RetireGroup(j)
      BY <1>1 DEF Producers
    <2>1. /\ gen' = gen \/ gen' = [gen EXCEPT ![j] = @ + 1]
          /\ UNCHANGED <<pc, claim, wrote, runs>>
      BY DEF Enqueue, CancelForRelease, RequeueForRestore, PurgeTargetJobs, RetireGroup
    <2>2. \A k \in Job : gen'[k] \in Nat /\ gen'[k] >= gen[k]
      BY <2>1 DEF TypeOK
    <2>3. Fence'
      BY <2>1, <2>2, FenceKept DEF Busy
    <2>. QED  BY <2>1, <2>2, <2>3 DEF Counted, TypeOK
  <1>2. ASSUME NEW l \in Lane, Turn(l) PROVE Fence' /\ Counted'
    <2>1. CASE StartTurn(l) \/ Purge(l) \/ PurgeError(l) \/ ClaimNothing(l)
      <3>1. UNCHANGED <<gen, wrote, runs>>
        BY <2>1 DEF StartTurn, Purge, PurgeError, ClaimNothing
      <3>2. \A m \in Lane : Busy(m)' => Busy(m) /\ claim'[m] = claim[m]
        BY <2>1, RestKeeps DEF StartTurn, Purge, PurgeError, ClaimNothing, Busy, TypeOK
      <3>3. Fence'
        BY <3>1, <3>2, FenceKept DEF TypeOK
      <3>. QED  BY <3>1, <3>3 DEF Counted
    <2>2. ASSUME NEW j \in Job, Claim(l, j) PROVE Fence' /\ Counted'
      BY <2>2, FenceClaim
    <2>3. ASSUME NEW j \in Job, ClaimLost(l, j) PROVE Fence' /\ Counted'
      <3>1. gen' = [gen EXCEPT ![j] = @ + 1] /\ UNCHANGED <<wrote, runs>>
        BY <2>3 DEF ClaimLost, TakeRow
      <3>2. \A k \in Job : gen'[k] \in Nat /\ gen'[k] >= gen[k]
        BY <3>1 DEF TypeOK
      <3>3. Fence'
        BY <2>3, <3>2, RestKeeps, FenceKept DEF ClaimLost
      <3>. QED  BY <3>1, <3>2, <3>3 DEF Counted, TypeOK
    <2>4. CASE SaveEffect(l)
      <3>1. /\ UNCHANGED <<gen, runs, claim>>
            /\ pc' = [pc EXCEPT ![l] = "saved"] /\ pc[l] = "run"
            /\ \/ UNCHANGED wrote
               \/ /\ Holds(l, claim[l].job)
                  /\ wrote' = [wrote EXCEPT ![claim[l].job] = claim[l].gen]
        <4>1. CASE Holds(l, claim[l].job)
          BY <2>4, <4>1 DEF SaveEffect, Lands
        <4>2. CASE ~Holds(l, claim[l].job)
          BY <2>4, <4>2 DEF SaveEffect, Lands, TypeOK
        <4>. QED  BY <4>1, <4>2
      <3>2. Fence'
        BY <3>1, FenceKept DEF TypeOK, Busy
      <3>3. Counted'
        BY <3>1 DEF Counted, TypeOK, Holds, Claims
      <3>. QED  BY <3>2, <3>3
    <2>. QED  BY <1>2, <2>1, <2>2, <2>3, <2>4 DEF Turn
  <1>3. ASSUME NEW l \in Lane, Settle(l) PROVE Fence' /\ Counted'
    <2>1. Rest(l) /\ UNCHANGED <<gen, wrote, runs>>
      BY <1>3 DEF Settle, DeadLetter, Complete, RetryLater, FailAttempt, ReleaseAborted, Abandon
    <2>2. Fence'
      BY <2>1, RestKeeps, FenceKept DEF TypeOK
    <2>. QED  BY <2>1, <2>2 DEF Counted
  <1>4. CASE Supervisor
    <2> PICK p \in Process : Shutdown(p) \/ CutDrain(p) \/ Restart(p)
      BY <1>4 DEF Supervisor
    <2>1. /\ UNCHANGED <<gen, wrote, runs>>
          /\ \A m \in Lane : Busy(m)' => Busy(m) /\ claim'[m] = claim[m]
      BY DEF Shutdown, CutDrain, Restart, Busy
    <2>2. Fence'
      BY <2>1, FenceKept DEF TypeOK
    <2>. QED  BY <2>1, <2>2 DEF Counted
  <1>5. CASE Tick
    <2>1. UNCHANGED <<gen, wrote, runs, pc, claim>>
      BY <1>5 DEF Tick
    <2>2. Fence'
      BY <2>1, FenceKept DEF TypeOK, Busy
    <2>. QED  BY <2>1, <2>2 DEF Counted
  <1>. QED  BY <1>1, <1>2, <1>3, <1>4, <1>5 DEF Next

\* The fence and the counting of generations hold in every reachable state.
LEMMA FenceInvariant == Spec => [](Fence /\ Counted)
  <1>1. Init => Fence /\ Counted
    BY DEF Init, Fence, Counted, Busy
  <1>2. TypeOK /\ Fence /\ Counted /\ [Next]_vars => (Fence /\ Counted)'
    <2>1. CASE UNCHANGED vars
      BY <2>1 DEF vars, rowVars, laneVars, Fence, Counted, Busy
    <2>. QED  BY <2>1, FenceStep
  <1>. QED  BY <1>1, <1>2, TypeCorrect, PTL DEF Spec

\* Mutual exclusion of workers, for any number of lanes and any interleaving:
\* at most one lane's word still counts for a job.
THEOREM OneHolder == Spec => []HolderUnique
  <1>1. Fence => HolderUnique
    BY DEF Fence, HolderUnique, Holds, Busy
  <1>. QED  BY <1>1, FenceInvariant, PTL

\* No write of a worker that lost its lease lands on a later worker's result.
THEOREM NoLateWrite == Spec => LateWriteNeverLands
  <1>1. TypeOK /\ Counted /\ [Next]_vars => [\A j \in Job : wrote'[j] >= wrote[j]]_vars
    <2> SUFFICES ASSUME TypeOK, Counted, Next PROVE \A j \in Job : wrote'[j] >= wrote[j]
      OBVIOUS
    <2>1. ASSUME NEW l \in Lane, SaveEffect(l) PROVE \A j \in Job : wrote'[j] >= wrote[j]
      BY <2>1 DEF SaveEffect, Lands, Holds, Counted, TypeOK, Claims
    <2>2. CASE UNCHANGED wrote
      BY <2>2 DEF TypeOK
    <2>3. UNCHANGED wrote \/ \E l \in Lane : SaveEffect(l)
      BY DEF Next, Producers, Turn, Settle, Supervisor, Tick, Enqueue, CancelForRelease,
             RequeueForRestore, PurgeTargetJobs, RetireGroup, StartTurn, Purge, PurgeError, Claim,
             ClaimLost, ClaimNothing, DeadLetter, Complete, RetryLater, FailAttempt,
             ReleaseAborted, Abandon, Shutdown, CutDrain, Restart
    <2>. QED  BY <2>1, <2>2, <2>3
  <1>. QED  BY <1>1, TypeCorrect, FenceInvariant, PTL DEF Spec, LateWriteNeverLands

-----------------------------------------------------------------------------
(* Giving up *)

GivingUp == RunsBounded /\ DurableNeverFails /\ FailedForAReason

\* A statement that settles a row reaches a running row only.
LEMMA EndRowEffect ==
    ASSUME TypeOK, Fence, NEW l \in Lane, NEW s \in Terminal, NEW a \in Nat, EndRow(l, s, a)
    PROVE  \A j \in Job :
              \/ status'[j] = status[j] /\ attempts'[j] = attempts[j]
              \/ /\ j = claim[l].job /\ gen[j] = claim[l].gen /\ status[j] = "running"
                 /\ status'[j] = s /\ attempts'[j] = a
  BY DEF EndRow, Holds, TypeOK

\* What RetryRow may do to the job it names, and that it touches no other.
LEMMA RetryRowEffect ==
    ASSUME TypeOK, Fence, NEW l \in Lane, NEW a \in Nat, NEW at \in Int, RetryRow(l, a, at)
    PROVE  \A j \in Job :
              \/ status'[j] = status[j] /\ attempts'[j] = attempts[j]
              \/ j = claim[l].job /\ status[j] = "running" /\ status'[j] = "pending"
  BY DEF RetryRow, Holds, TypeOK

\* Only these two statements fail a job; every other step leaves a failed row
\* alone and fails none.
LEMMA SettleEffect ==
    ASSUME TypeOK, Fence, NEW l \in Lane, Settle(l), NEW j \in Job
    PROVE  \/ status'[j] = status[j] /\ attempts'[j] = attempts[j]
           \/ status[j] = "running" /\ status'[j] = "pending"
           \/ status[j] = "running" /\ status'[j] = "done" /\ ~group[j]
           \/ /\ status[j] = "running" /\ status'[j] = "failed" /\ ~Durable(j)
              /\ attempts'[j] >= MaxAttempts \/ Refused(j, gen[j])
  <1>0. claim[l].attempts \in Nat /\ claim[l].attempts + 1 \in Nat
    BY DEF TypeOK, Claims
  <1>1. CASE DeadLetter(l)
    <2>1. EndRow(l, "failed", claim[l].attempts) /\ Refused(claim[l].job, claim[l].gen)
      BY <1>1 DEF DeadLetter
    <2>2. \/ status'[j] = status[j] /\ attempts'[j] = attempts[j]
          \/ /\ j = claim[l].job /\ gen[j] = claim[l].gen /\ status[j] = "running"
             /\ status'[j] = "failed"
      BY <1>0, <2>1, EndRowEffect DEF Terminal
    <2>. QED  BY <2>1, <2>2 DEF Refused, PastCeiling, Durable
  <1>2. CASE Complete(l)
    BY <1>0, <1>2, EndRowEffect DEF Complete, Terminal
  <1>3. ASSUME NEW d \in Delays, RetryLater(l, d)
        PROVE  \/ status'[j] = status[j] /\ attempts'[j] = attempts[j]
               \/ status[j] = "running" /\ status'[j] = "pending"
    <2>1. now + d \in Int
      BY ConfigAssumption DEF TypeOK
    <2>. QED  BY <1>0, <1>3, <2>1, RetryRowEffect DEF RetryLater
  <1>4. CASE FailAttempt(l)
    <2>1. now + BackoffBase \in Int /\ now + BackoffDelay(claim[l].attempts) \in Int
      BY <1>0, BackoffInt, ConfigAssumption DEF TypeOK
    <2>2. CASE RetryRow(l, 0, now + BackoffBase)
      BY <2>1, <2>2, RetryRowEffect
    <2>3. CASE RetryRow(l, claim[l].attempts + 1, now + BackoffDelay(claim[l].attempts))
      BY <1>0, <2>1, <2>3, RetryRowEffect
    <2>4. CASE /\ claim[l].attempts + 1 >= MaxAttempts /\ ~Durable(claim[l].job)
               /\ EndRow(l, "failed", claim[l].attempts + 1)
      BY <1>0, <2>4, EndRowEffect DEF Terminal
    <2>. QED  BY <1>4, <2>2, <2>3, <2>4 DEF FailAttempt, Spent
  <1>5. CASE ReleaseAborted(l)
    <2>1. now \in Int
      BY DEF TypeOK
    <2>. QED  BY <1>0, <1>5, <2>1, RetryRowEffect DEF ReleaseAborted
  <1>6. CASE Abandon(l)
    BY <1>6 DEF Abandon, rowVars
  <1>. QED  BY <1>1, <1>2, <1>3, <1>4, <1>5, <1>6 DEF Settle

\* No step fails a job without a reason or runs it past its ceiling.
LEMMA GivingUpStep ==
    ASSUME TypeOK, Fence, Counted, GivingUp, Next
    PROVE  GivingUp'
  <1> USE DEF rowVars
  <1> SUFFICES ASSUME NEW j \in Job
               PROVE  /\ MaxClaims > 0 /\ ~Durable(j) => runs'[j] <= MaxClaims
                      /\ Durable(j) => status'[j] # "failed"
                      /\ status'[j] = "failed" =>
                            attempts'[j] >= MaxAttempts \/ Refused(j, gen'[j])
    BY DEF GivingUp, RunsBounded, DurableNeverFails, FailedForAReason, Refused, PastCeiling, Durable
  <1>0. /\ MaxClaims > 0 /\ ~Durable(j) => runs[j] <= MaxClaims
        /\ Durable(j) => status[j] # "failed"
        /\ status[j] = "failed" => attempts[j] >= MaxAttempts \/ Refused(j, gen[j])
    BY DEF GivingUp, RunsBounded, DurableNeverFails, FailedForAReason
  <1>1. CASE Producers
    <2> PICK k \in Job : \/ \E d \in Delays : Enqueue(k, d)
                         \/ CancelForRelease(k)
                         \/ RequeueForRestore(k)
                         \/ PurgeTargetJobs(k)
                         \/ RetireGroup(k)
      BY <1>1 DEF Producers
    <2>1. /\ runs' = runs /\ attempts' = attempts
          /\ status'[j] # "failed" \/ (status'[j] = status[j] /\ gen'[j] = gen[j])
      BY DEF TypeOK, Enqueue, CancelForRelease, RequeueForRestore, PurgeTargetJobs, RetireGroup, Live, Delete
    <2>. QED  BY <1>0, <2>1
  <1>2. ASSUME NEW l \in Lane, Turn(l)
        PROVE  /\ MaxClaims > 0 /\ ~Durable(j) => runs'[j] <= MaxClaims
               /\ attempts' = attempts
               /\ status'[j] # "failed" \/ (status'[j] = status[j] /\ gen'[j] = gen[j])
    <2>1. CASE StartTurn(l) \/ Purge(l) \/ PurgeError(l) \/ ClaimNothing(l) \/ SaveEffect(l)
      <3>1. runs' = runs /\ attempts' = attempts /\ gen' = gen
        BY <2>1 DEF StartTurn, Purge, PurgeError, ClaimNothing, SaveEffect, Lands
      <3>2. status'[j] \in {status[j], "gone", "done"}
        BY <2>1 DEF TypeOK, StartTurn, Purge, PurgeError, ClaimNothing, SaveEffect, Lands, Delete
      <3>. QED  BY <1>0, <3>1, <3>2
    <2>2. ASSUME NEW k \in Job, Claim(l, k) \/ ClaimLost(l, k)
          PROVE  /\ MaxClaims > 0 /\ ~Durable(j) => runs'[j] <= MaxClaims
                 /\ attempts' = attempts
                 /\ status'[j] # "failed" \/ (status'[j] = status[j] /\ gen'[j] = gen[j])
      <3>1. /\ attempts' = attempts
            /\ status' = [status EXCEPT ![k] = "running"]
            /\ gen' = [gen EXCEPT ![k] = @ + 1]
            /\ \/ runs' = runs
               \/ runs' = [runs EXCEPT ![k] = @ + 1] /\ ~Refused(k, gen[k] + 1)
        BY <2>2 DEF Claim, ClaimLost, TakeRow
      <3>2. ~Refused(k, gen[k] + 1) /\ MaxClaims > 0 /\ ~Durable(k) => gen[k] + 1 <= MaxClaims
        BY ConfigAssumption DEF Refused, PastCeiling, TypeOK
      <3>3. MaxClaims > 0 /\ ~Durable(j) => runs'[j] <= MaxClaims
        BY <1>0, <3>1, <3>2, ConfigAssumption DEF TypeOK, Counted
      <3>. QED  BY <3>1, <3>3 DEF TypeOK
    <2>. QED  BY <1>2, <2>1, <2>2 DEF Turn
  <1>3. ASSUME NEW l \in Lane, Settle(l)
        PROVE  /\ Durable(j) => status'[j] # "failed"
               /\ status'[j] = "failed" => attempts'[j] >= MaxAttempts \/ Refused(j, gen[j])
               /\ runs' = runs /\ gen' = gen
    <2>1. runs' = runs /\ gen' = gen
      BY <1>3 DEF Settle, DeadLetter, Complete, RetryLater, FailAttempt, ReleaseAborted, Abandon
    <2>. QED  BY <1>0, <1>3, <2>1, SettleEffect
  <1>4. CASE Supervisor \/ Tick
    BY <1>0, <1>4 DEF Supervisor, Shutdown, CutDrain, Restart, Tick
  <1>. QED  BY <1>0, <1>1, <1>2, <1>3, <1>4 DEF Next

\* Why jobs are given up, in every reachable state.
LEMMA GivingUpInvariant == Spec => []GivingUp
  <1>1. Init => GivingUp
    BY ConfigAssumption
       DEF Init, GivingUp, RunsBounded, DurableNeverFails, FailedForAReason
  <1>2. TypeOK /\ Fence /\ Counted /\ GivingUp /\ [Next]_vars => GivingUp'
    <2>1. CASE UNCHANGED vars
      BY <2>1 DEF vars, rowVars, GivingUp, RunsBounded, DurableNeverFails, FailedForAReason,
                  Refused, PastCeiling
    <2>. QED  BY <2>1, GivingUpStep
  <1>. QED  BY <1>1, <1>2, TypeCorrect, FenceInvariant, PTL DEF Spec

\* The ceiling bounds what a job that kills its workers can cost.
THEOREM OrdinaryRunsBounded == Spec => []RunsBounded
  <1>1. GivingUp => RunsBounded
    BY DEF GivingUp
  <1>. QED  BY <1>1, GivingUpInvariant, PTL

\* No run of failures, crashes and lost leases fails a durable job.
THEOREM DurableNeverGivenUp == Spec => []DurableNeverFails
  <1>1. GivingUp => DurableNeverFails
    BY DEF GivingUp
  <1>. QED  BY <1>1, GivingUpInvariant, PTL

\* A failed job had spent its attempts, or was refused.
THEOREM FailuresJustified == Spec => []FailedForAReason
  <1>1. GivingUp => FailedForAReason
    BY DEF GivingUp
  <1>. QED  BY <1>1, GivingUpInvariant, PTL

-----------------------------------------------------------------------------
(* The release groups and their one trigger *)

Triggered ==
    /\ EveryGroupHasTrigger
    /\ \A j \in Job : group[j] => KindOf[j] = "retention_sweep"

\* No step leaves a release group without its sweep in the queue.
LEMMA TriggerStep ==
    ASSUME TypeOK, Fence, Triggered, Next,
           \A j \in Job : KindOf[j] = "retention_sweep" => Durable(j)
    PROVE  Triggered'
  <1> USE DEF rowVars
  <1> SUFFICES ASSUME NEW j \in Job, group'[j]
               PROVE  status'[j] \in Live /\ KindOf[j] = "retention_sweep"
    BY DEF Triggered, EveryGroupHasTrigger
  <1>0. group[j] => status[j] \in Live /\ KindOf[j] = "retention_sweep" /\ Durable(j)
    BY DEF Triggered, EveryGroupHasTrigger
  <1>1. CASE Producers
    <2> PICK k \in Job : \/ \E d \in Delays : Enqueue(k, d)
                         \/ CancelForRelease(k)
                         \/ RequeueForRestore(k)
                         \/ PurgeTargetJobs(k)
                         \/ RetireGroup(k)
      BY <1>1 DEF Producers
    <2>1. CASE j = k
      BY <1>0, <2>1
         DEF TypeOK, Enqueue, CancelForRelease, RequeueForRestore, PurgeTargetJobs, RetireGroup, Live, Delete
    <2>2. CASE j # k
      BY <1>0, <2>2
         DEF TypeOK, Enqueue, CancelForRelease, RequeueForRestore, PurgeTargetJobs, RetireGroup, Delete
    <2>. QED  BY <2>1, <2>2
  <1>2. ASSUME NEW l \in Lane, Turn(l)
        PROVE  status'[j] \in Live /\ KindOf[j] = "retention_sweep"
    <2>1. group' = group
      BY <1>2 DEF Turn, StartTurn, Purge, PurgeError, Claim, ClaimLost, ClaimNothing, SaveEffect, Lands
    <2>2. CASE StartTurn(l) \/ PurgeError(l) \/ ClaimNothing(l)
      BY <1>0, <2>1, <2>2 DEF StartTurn, PurgeError, ClaimNothing
    <2>3. CASE Purge(l)
      BY <1>0, <2>1, <2>3 DEF Purge, Purgeable, Terminal, Live, TypeOK, Delete
    <2>4. ASSUME NEW k \in Job, Claim(l, k) \/ ClaimLost(l, k)
          PROVE  status'[j] \in Live
      BY <1>0, <2>1, <2>4 DEF Claim, ClaimLost, TakeRow, Live, TypeOK
    <2>5. CASE SaveEffect(l)
      BY <1>0, <2>1, <2>5 DEF SaveEffect, Lands, Holds, Live, TypeOK
    <2>. QED  BY <1>0, <1>2, <2>1, <2>2, <2>3, <2>4, <2>5 DEF Turn
  <1>3. ASSUME NEW l \in Lane, Settle(l)
        PROVE  status'[j] \in Live /\ KindOf[j] = "retention_sweep"
    <2>1. group' = group
      BY <1>3 DEF Settle, DeadLetter, Complete, RetryLater, FailAttempt, ReleaseAborted, Abandon
    <2>. QED  BY <1>0, <1>3, <2>1, SettleEffect DEF Live
  <1>4. CASE Supervisor \/ Tick
    BY <1>0, <1>4 DEF Supervisor, Shutdown, CutDrain, Restart, Tick
  <1>. QED  BY <1>1, <1>2, <1>3, <1>4 DEF Next

\* As long as every worker build registers the retention sweep as a durable
\* kind, no release group is ever without a job that will end it.
THEOREM GroupNeverStranded ==
    ASSUME \A j \in Job : KindOf[j] = "retention_sweep" => Durable(j)
    PROVE  Spec => []EveryGroupHasTrigger
  <1>1. Init => Triggered
    BY DEF Init, Triggered, EveryGroupHasTrigger
  <1>2. TypeOK /\ Fence /\ Triggered /\ [Next]_vars => Triggered'
    <2>1. CASE UNCHANGED vars
      BY <2>1 DEF vars, rowVars, Triggered, EveryGroupHasTrigger
    <2>. QED  BY <2>1, TriggerStep
  <1>3. Triggered => EveryGroupHasTrigger
    BY DEF Triggered
  <1>. QED  BY <1>1, <1>2, <1>3, TypeCorrect, FenceInvariant, PTL DEF Spec

-----------------------------------------------------------------------------
(* The row of a release group, whatever handlers the build has *)

Pinned ==
    \A j \in Job : group[j] => KindOf[j] = "retention_sweep" /\ status[j] \notin {"unborn", "gone"}

\* No step takes the row away from a group: only cleanup and cancellation delete
\* rows, the one spares a group's, the other is not for retention sweeps.
LEMMA PinnedStep ==
    ASSUME TypeOK, Fence, Pinned, Next
    PROVE  Pinned'
  <1> USE DEF rowVars
  <1> SUFFICES ASSUME NEW j \in Job, group'[j]
               PROVE  status'[j] \notin {"unborn", "gone"} /\ KindOf[j] = "retention_sweep"
    BY DEF Pinned
  <1>0. group[j] => status[j] \notin {"unborn", "gone"} /\ KindOf[j] = "retention_sweep"
    BY DEF Pinned
  <1>1. CASE Producers
    <2> PICK k \in Job : \/ \E d \in Delays : Enqueue(k, d)
                         \/ CancelForRelease(k)
                         \/ RequeueForRestore(k)
                         \/ PurgeTargetJobs(k)
                         \/ RetireGroup(k)
      BY <1>1 DEF Producers
    <2>1. CASE j = k
      BY <1>0, <2>1
         DEF TypeOK, Enqueue, CancelForRelease, RequeueForRestore, PurgeTargetJobs, RetireGroup, Delete
    <2>2. CASE j # k
      BY <1>0, <2>2
         DEF TypeOK, Enqueue, CancelForRelease, RequeueForRestore, PurgeTargetJobs, RetireGroup, Delete
    <2>. QED  BY <2>1, <2>2
  <1>2. ASSUME NEW l \in Lane, Turn(l)
        PROVE  status'[j] \notin {"unborn", "gone"} /\ KindOf[j] = "retention_sweep"
    <2>1. group' = group
      BY <1>2 DEF Turn, StartTurn, Purge, PurgeError, Claim, ClaimLost, ClaimNothing, SaveEffect, Lands
    <2>2. CASE StartTurn(l) \/ PurgeError(l) \/ ClaimNothing(l)
      BY <1>0, <2>1, <2>2 DEF StartTurn, PurgeError, ClaimNothing
    <2>3. CASE Purge(l)
      BY <1>0, <2>1, <2>3 DEF Purge, Purgeable, TypeOK, Delete
    <2>4. ASSUME NEW k \in Job, Claim(l, k) \/ ClaimLost(l, k)
          PROVE  status'[j] \notin {"unborn", "gone"}
      BY <1>0, <2>1, <2>4 DEF Claim, ClaimLost, TakeRow, TypeOK
    <2>5. CASE SaveEffect(l)
      BY <1>0, <2>1, <2>5 DEF SaveEffect, Lands, TypeOK
    <2>. QED  BY <1>0, <1>2, <2>1, <2>2, <2>3, <2>4, <2>5 DEF Turn
  <1>3. ASSUME NEW l \in Lane, Settle(l)
        PROVE  status'[j] \notin {"unborn", "gone"} /\ KindOf[j] = "retention_sweep"
    <2>1. group' = group
      BY <1>3 DEF Settle, DeadLetter, Complete, RetryLater, FailAttempt, ReleaseAborted, Abandon
    <2>. QED  BY <1>0, <1>3, <2>1, SettleEffect
  <1>4. CASE Supervisor \/ Tick
    BY <1>0, <1>4 DEF Supervisor, Shutdown, CutDrain, Restart, Tick
  <1>. QED  BY <1>1, <1>2, <1>3, <1>4 DEF Next

\* The row of a group stays, in every reachable state.
LEMMA PinnedInvariant == Spec => []Pinned
  <1>1. Init => Pinned
    BY DEF Init, Pinned
  <1>2. TypeOK /\ Fence /\ Pinned /\ [Next]_vars => Pinned'
    <2>1. CASE UNCHANGED vars
      BY <2>1 DEF vars, rowVars, Pinned
    <2>. QED  BY <2>1, PinnedStep
  <1>. QED  BY <1>1, <1>2, TypeCorrect, FenceInvariant, PTL DEF Spec

\* Even a build without a handler for it, which dead-letters the sweep of a release, leaves
\* its row to be requeued for as long as the group exists.
THEOREM GroupKeepsRow == Spec => []GroupKeepsItsRow
  <1>1. Pinned => GroupKeepsItsRow
    BY DEF Pinned, GroupKeepsItsRow
  <1>. QED  BY <1>1, PinnedInvariant, PTL

-----------------------------------------------------------------------------
(* The refinement of JobLifecycle *)

\* The abstract owner of a job is exactly the lane that holds it.
OwnerOK ==
    \A j \in Job :
       /\ AbstractOwner[j] \in Lane \cup {NoLane}
       /\ \A l \in Lane : Holds(l, j) <=> AbstractOwner[j] = l

\* The fence makes the owner well defined.
LEMMA OwnerHolds == ASSUME Fence PROVE OwnerOK
  <1> SUFFICES ASSUME NEW j \in Job
               PROVE  /\ AbstractOwner[j] \in Lane \cup {NoLane}
                      /\ \A l \in Lane : Holds(l, j) <=> AbstractOwner[j] = l
    BY DEF OwnerOK
  <1>1. CASE Held(j)
    <2>1. AbstractOwner[j] \in Lane /\ Holds(AbstractOwner[j], j)
      BY <1>1 DEF AbstractOwner, Held
    <2>2. \A l, m \in Lane : Holds(l, j) /\ Holds(m, j) => l = m
      BY DEF Fence, Holds, Busy
    <2>. QED  BY <2>1, <2>2
  <1>2. CASE ~Held(j)
    BY <1>2, NoLaneAssumption DEF AbstractOwner, Held
  <1>. QED  BY <1>1, <1>2

\* The same in the state after a step.
LEMMA OwnerHoldsNext == ASSUME Fence' PROVE OwnerOK'
  <1> SUFFICES ASSUME NEW j \in Job
               PROVE  /\ AbstractOwner'[j] \in Lane \cup {NoLane}
                      /\ \A l \in Lane : Holds(l, j)' <=> AbstractOwner'[j] = l
    BY DEF OwnerOK
  <1>1. CASE Held(j)'
    <2>1. AbstractOwner'[j] \in Lane /\ Holds(AbstractOwner[j], j)'
      BY <1>1 DEF AbstractOwner, Held
    <2>2. \A l, m \in Lane : Holds(l, j)' /\ Holds(m, j)' => l = m
      BY DEF Fence, Holds, Busy
    <2>. QED  BY <2>1, <2>2
  <1>2. CASE ~Held(j)'
    BY <1>2, NoLaneAssumption DEF AbstractOwner, Held
  <1>. QED  BY <1>1, <1>2

\* A step under which every lane holds what it held moves no owner.
LEMMA OwnerKept ==
    ASSUME OwnerOK, OwnerOK', NEW j \in Job, \A l \in Lane : Holds(l, j)' <=> Holds(l, j)
    PROVE  AbstractOwner'[j] = AbstractOwner[j]
  BY DEF OwnerOK

\* A job nobody holds after a step has no owner.
LEMMA OwnerGone ==
    ASSUME OwnerOK', NEW j \in Job, \A l \in Lane : ~Holds(l, j)'
    PROVE  AbstractOwner'[j] = NoLane
  BY DEF OwnerOK

\* Rows, generations and fences untouched are a stutter.
LEMMA Stutter ==
    ASSUME OwnerOK, OwnerOK', status' = status, gen' = gen,
           \A j \in Job, l \in Lane : Holds(l, j)' <=> Holds(l, j)
    PROVE  UNCHANGED Lifecycle!vars
  <1>1. \A j \in Job : AbstractOwner'[j] = AbstractOwner[j]
    BY OwnerKept
  <1>2. AbstractOwner' = AbstractOwner
    BY <1>1 DEF AbstractOwner
  <1>3. AbstractState' = AbstractState /\ AbstractClaims' = AbstractClaims
    BY DEF AbstractState, AbstractClaims
  <1>. QED  BY <1>2, <1>3 DEF Lifecycle!vars

\* A row moved to a status nobody runs it in, all other fences kept.
LEMMA Moved ==
    ASSUME TypeOK, OwnerOK, OwnerOK', NEW j \in Job, NEW s,
           status' = [status EXCEPT ![j] = s],
           s \in {"pending", "done", "failed", "cancelled", "gone"},
           \A k \in Job, l \in Lane : k # j => (Holds(l, k)' <=> Holds(l, k))
    PROVE  Lifecycle!MoveTo(j, IF s = "pending" THEN "waiting" ELSE s)
  <1>1. AbstractState' =
          [AbstractState EXCEPT ![j] = IF s = "pending" THEN "waiting" ELSE s]
    BY DEF AbstractState, TypeOK
  <1>2. AbstractOwner'[j] = NoLane
    <2>1. \A l \in Lane : ~Holds(l, j)'
      BY DEF Holds, TypeOK
    <2>. QED  BY <2>1, OwnerGone
  <1>3. \A k \in Job : k # j => AbstractOwner'[k] = AbstractOwner[k]
    BY OwnerKept
  <1>4. AbstractOwner' = [AbstractOwner EXCEPT ![j] = NoLane]
    <2>1. /\ AbstractOwner = [k \in Job |-> AbstractOwner[k]]
          /\ AbstractOwner' = [k \in Job |-> AbstractOwner'[k]]
      BY DEF AbstractOwner
    <2>. QED  BY <1>2, <1>3, <2>1
  <1>. QED  BY <1>1, <1>4 DEF Lifecycle!MoveTo

\* One generation more is one claim more, as far as they are counted.
LEMMA OneMoreClaim ==
    ASSUME TypeOK, NEW j \in Job, gen' = [gen EXCEPT ![j] = @ + 1]
    PROVE  Lifecycle!OneMore(j)
  <1>1. \A k \in Job :
           AbstractClaims'[k] =
             IF k = j /\ AbstractClaims[k] <= MaxClaims
             THEN AbstractClaims[k] + 1 ELSE AbstractClaims[k]
    BY ConfigAssumption DEF AbstractClaims, TypeOK
  <1>2. AbstractClaims' =
          [AbstractClaims EXCEPT ![j] = IF @ <= MaxClaims THEN @ + 1 ELSE @]
    BY <1>1 DEF AbstractClaims
  <1>. QED  BY <1>2 DEF Lifecycle!OneMore

\* Lanes that fall silent lose what they held, and nobody else anything.
LEMMA Silenced ==
    ASSUME OwnerOK, OwnerOK', status' = status, gen' = gen, NEW lanes \in SUBSET Lane,
           \A j \in Job, l \in Lane : Holds(l, j)' <=> Holds(l, j) /\ l \notin lanes
    PROVE  Lifecycle!Vanish(lanes) \/ UNCHANGED Lifecycle!vars
  <1>1. AbstractState' = AbstractState /\ AbstractClaims' = AbstractClaims
    BY DEF AbstractState, AbstractClaims
  <1>2. \A j \in Job :
           AbstractOwner'[j] = IF AbstractOwner[j] \in lanes THEN NoLane ELSE AbstractOwner[j]
    BY NoLaneAssumption DEF OwnerOK
  <1>3. AbstractOwner' =
          [j \in Job |-> IF AbstractOwner[j] \in lanes THEN NoLane ELSE AbstractOwner[j]]
    BY <1>2 DEF AbstractOwner
  <1>4. CASE \E j \in Job : AbstractOwner[j] \in lanes
    BY <1>1, <1>3, <1>4 DEF Lifecycle!Vanish
  <1>5. CASE \A j \in Job : AbstractOwner[j] \notin lanes
    <2>1. AbstractOwner' = AbstractOwner
      BY <1>3, <1>5 DEF AbstractOwner
    <2>. QED  BY <1>1, <2>1 DEF Lifecycle!vars
  <1>. QED  BY <1>4, <1>5

\* Producers and deletions are steps of the lifecycle.
LEMMA ProducersImplement ==
    ASSUME TypeOK, Fence', OwnerOK, OwnerOK', Pinned, Producers
    PROVE  Lifecycle!Next
  <1> PICK j \in Job : \/ \E d \in Delays : Enqueue(j, d)
                       \/ CancelForRelease(j)
                       \/ RequeueForRestore(j)
                       \/ PurgeTargetJobs(j)
                       \/ RetireGroup(j)
    BY DEF Producers
  <1> DEFINE Elsewhere == \A k \in Job, l \in Lane : k # j => (Holds(l, k)' <=> Holds(l, k))
  <1>1. ASSUME NEW d \in Delays, Enqueue(j, d) PROVE Lifecycle!Next
    <2>1. Elsewhere
      BY <1>1 DEF Enqueue, laneVars, Holds, TypeOK
    <2>2. status' = [status EXCEPT ![j] = "pending"] /\ gen' = gen
      BY <1>1 DEF Enqueue
    <2>3. Lifecycle!MoveTo(j, "waiting")
      BY <2>1, <2>2, Moved
    <2>4. AbstractState[j] = "unborn" /\ AbstractClaims' = AbstractClaims
      BY <1>1, <2>2 DEF Enqueue, AbstractState, AbstractClaims
    <2>. QED  BY <2>3, <2>4 DEF Lifecycle!Next, Lifecycle!Submit
  <1>2. CASE CancelForRelease(j)
    <2>1. Elsewhere
      BY <1>2 DEF CancelForRelease, laneVars, Holds, TypeOK
    <2>2. status' = [status EXCEPT ![j] = "cancelled"] /\ gen' = [gen EXCEPT ![j] = @ + 1]
      BY <1>2 DEF CancelForRelease
    <2>3. Lifecycle!MoveTo(j, "cancelled") /\ Lifecycle!OneMore(j)
      BY <2>1, <2>2, Moved, OneMoreClaim
    <2>4. AbstractState[j] \in Lifecycle!Open /\ KindOf[j] = "semanticize"
      BY <1>2 DEF CancelForRelease, Live, AbstractState, Lifecycle!Open
    <2>. QED  BY <2>3, <2>4 DEF Lifecycle!Next, Lifecycle!Cancel
  <1>3. CASE RequeueForRestore(j)
    <2>1. Elsewhere
      BY <1>3 DEF RequeueForRestore, laneVars, Holds, TypeOK
    <2>2. status' = [status EXCEPT ![j] = "pending"] /\ gen' = gen
      BY <1>3 DEF RequeueForRestore
    <2>3. Lifecycle!MoveTo(j, "waiting")
      BY <2>1, <2>2, Moved
    <2>4. AbstractState[j] = "cancelled" /\ AbstractClaims' = AbstractClaims
      BY <1>3, <2>2 DEF RequeueForRestore, AbstractState, AbstractClaims
    <2>. QED  BY <2>3, <2>4 DEF Lifecycle!Next, Lifecycle!Revive
  <1>4. CASE PurgeTargetJobs(j) \/ RetireGroup(j)
    <2>1. Elsewhere
      BY <1>4 DEF PurgeTargetJobs, RetireGroup, Delete, laneVars, Holds, TypeOK
    <2>2. status' = [status EXCEPT ![j] = "gone"] /\ gen' = gen
      BY <1>4 DEF PurgeTargetJobs, RetireGroup, Delete, TypeOK
    <2>3. Lifecycle!MoveTo(j, "gone")
      BY <2>1, <2>2, Moved
    <2>4. status[j] \in Live \cup Terminal
      BY <1>4 DEF PurgeTargetJobs, RetireGroup, Pinned, TypeOK
    <2>5. AbstractState[j] \in Lifecycle!Open \cup Lifecycle!Over
      BY <2>4 DEF Live, Terminal, AbstractState, Lifecycle!Open, Lifecycle!Over
    <2>6. AbstractClaims' = AbstractClaims
      BY <2>2 DEF AbstractClaims
    <2>. QED  BY <2>3, <2>5, <2>6 DEF Lifecycle!Next, Lifecycle!Erase
  <1>. QED  BY <1>1, <1>2, <1>3, <1>4

\* A lane at rest holds nothing, and the others hold what they did.
LEMMA RestHolds ==
    ASSUME TypeOK, NEW l \in Lane, Rest(l), gen' = gen
    PROVE  \A k \in Job :
              /\ ~Holds(l, k)'
              /\ \A m \in Lane : m # l /\ status'[k] = status[k] => (Holds(m, k)' <=> Holds(m, k))
  BY DEF TypeOK, Rest, Holds

\* A claim is a Take: the lane that makes it holds nothing before, and whoever
\* held the job loses it to the new generation.
LEMMA TakeImplements ==
    ASSUME TypeOK, Fence, Fence', OwnerOK, OwnerOK', NEW l \in Lane, NEW j \in Job,
           Claim(l, j) \/ ClaimLost(l, j)
    PROVE  Lifecycle!Next
  <1>1. /\ pc[l] = "claim" /\ status[j] \in Live
        /\ status' = [status EXCEPT ![j] = "running"]
        /\ gen' = [gen EXCEPT ![j] = @ + 1]
    BY DEF Claim, ClaimLost, TakeRow, Due
  <1>2. AbstractState[j] \in Lifecycle!Open
    BY <1>1 DEF Live, AbstractState, Lifecycle!Open
  <1>3. AbstractState' = [AbstractState EXCEPT ![j] = "held"]
    BY <1>1 DEF AbstractState, TypeOK
  <1>4. Lifecycle!OneMore(j)
    BY <1>1, OneMoreClaim
  <1>5. \A k \in Job : ~Holds(l, k) /\ AbstractOwner[k] # l
    BY <1>1 DEF Holds, OwnerOK
  <1>6. \A m \in Lane : m # l => pc'[m] = pc[m] /\ claim'[m] = claim[m]
    BY DEF Claim, ClaimLost, Rest, TypeOK
  <1>7. \A k \in Job, m \in Lane : m # l /\ k # j => (Holds(m, k)' <=> Holds(m, k))
    BY <1>1, <1>6 DEF Holds, TypeOK
  <1>8. \A m \in Lane : m # l => ~Holds(m, j)'
    BY <1>1, <1>6 DEF Holds, TypeOK, Fence, Busy
  <1>9. \A k \in Job : k # j => ~Holds(l, k)'
    BY DEF Claim, ClaimLost, Rest, TypeOK, Holds
  <1>10. \A k \in Job : k # j => AbstractOwner'[k] = AbstractOwner[k]
    BY <1>5, <1>7, <1>9, OwnerKept
  <1>11. PICK o \in {l, NoLane} : AbstractOwner'[j] = o
    BY <1>8 DEF OwnerOK
  <1>12. AbstractOwner' = [AbstractOwner EXCEPT ![j] = o]
    <2>1. /\ AbstractOwner = [k \in Job |-> AbstractOwner[k]]
          /\ AbstractOwner' = [k \in Job |-> AbstractOwner'[k]]
      BY DEF AbstractOwner
    <2>. QED  BY <1>10, <1>11, <2>1
  <1>13. o \in Lane => \A k \in Job : AbstractOwner[k] # o
    BY <1>5, NoLaneAssumption
  <1>14. Lifecycle!Take(o, j)
    BY <1>2, <1>3, <1>4, <1>12, <1>13 DEF Lifecycle!Take
  <1>. QED  BY <1>14 DEF Lifecycle!Next

\* Whether a lane may do more than give its job up, as both modules read it.
LEMMA NotBarred ==
    ASSUME TypeOK, NEW j \in Job, ~Refused(j, gen[j])
    PROVE  ~Lifecycle!Barred(j)
  BY ConfigAssumption
     DEF TypeOK, Refused, PastCeiling, AbstractClaims, Lifecycle!Barred

\* A holder settling its job moves it away from itself.
LEMMA SettledRow ==
    ASSUME TypeOK, Fence, OwnerOK, OwnerOK', NEW l \in Lane, Rest(l), gen' = gen, NEW s,
           s \in {"pending", "done", "failed"}, Holds(l, claim[l].job),
           status' = [status EXCEPT ![claim[l].job] = s]
    PROVE  /\ claim[l].job \in Job
           /\ Lifecycle!MoveTo(claim[l].job, IF s = "pending" THEN "waiting" ELSE s)
           /\ AbstractOwner[claim[l].job] # NoLane
           /\ AbstractClaims' = AbstractClaims
  <1>1. claim[l].job \in Job
    BY DEF Fence, Holds, Busy
  <1>2. \A k \in Job, m \in Lane : k # claim[l].job => (Holds(m, k)' <=> Holds(m, k))
    BY RestHolds DEF TypeOK, Holds
  <1>3. Lifecycle!MoveTo(claim[l].job, IF s = "pending" THEN "waiting" ELSE s)
    BY <1>1, <1>2, Moved
  <1>4. AbstractOwner[claim[l].job] = l /\ AbstractClaims' = AbstractClaims
    BY <1>1 DEF OwnerOK, AbstractClaims
  <1>. QED  BY <1>1, <1>3, <1>4, NoLaneAssumption

\* A lane whose lease is lost ends its turn unheard.
LEMMA SettledLate ==
    ASSUME TypeOK, OwnerOK, OwnerOK', NEW l \in Lane, Rest(l), gen' = gen,
           ~Holds(l, claim[l].job), status' = status
    PROVE  UNCHANGED Lifecycle!vars
  <1>1. \A k \in Job : ~Holds(l, k)
    BY DEF Holds
  <1>. QED  BY <1>1, RestHolds, Stutter

\* Whatever a lane reports of its claim is a step of the lifecycle.
LEMMA SettleImplements ==
    ASSUME TypeOK, Fence, OwnerOK, OwnerOK', NEW l \in Lane, Settle(l)
    PROVE  Lifecycle!Next \/ UNCHANGED Lifecycle!vars
  <1> DEFINE j == claim[l].job
  <1>1. Rest(l) /\ gen' = gen
    BY DEF Settle, DeadLetter, Complete, RetryLater, FailAttempt, ReleaseAborted, Abandon, rowVars
  <1>2. CASE Abandon(l)
    <2>1. status' = status
      BY <1>2 DEF Abandon, rowVars
    <2>2. \A k \in Job, m \in Lane : Holds(m, k)' <=> Holds(m, k) /\ m \notin {l}
      BY <1>1, <2>1, RestHolds
    <2>3. Lifecycle!Vanish({l}) \/ UNCHANGED Lifecycle!vars
      BY <1>1, <2>1, <2>2, Silenced
    <2>. QED  BY <2>3 DEF Lifecycle!Next
  <1>3. CASE ~Abandon(l) /\ ~Holds(l, j)
    <2>1. status' = status
      BY <1>3 DEF Settle, DeadLetter, Complete, RetryLater, FailAttempt, ReleaseAborted,
                  EndRow, RetryRow
    <2>. QED  BY <1>1, <1>3, <2>1, SettledLate
  <1>4. CASE ~Abandon(l) /\ Holds(l, j)
    <2>0. gen[j] = claim[l].gen /\ j \in Job
      BY <1>4 DEF Holds, Fence, Busy
    <2>1. CASE Complete(l)
      <3>1. status' = [status EXCEPT ![j] = "done"] /\ ~Refused(j, gen[j])
        BY <1>4, <2>0, <2>1 DEF Complete, EndRow, InHandler
      <3>2. Lifecycle!Finish(j)
        BY <1>1, <1>4, <2>0, <3>1, SettledRow, NotBarred DEF Lifecycle!Finish
      <3>. QED  BY <2>0, <3>2 DEF Lifecycle!Next
    <2>2. CASE status' = [status EXCEPT ![j] = "failed"] /\ ~Durable(j)
      <3>1. Lifecycle!GiveUp(j)
        BY <1>1, <1>4, <2>0, <2>2, SettledRow DEF Lifecycle!GiveUp
      <3>. QED  BY <2>0, <3>1 DEF Lifecycle!Next
    <2>3. CASE status' = [status EXCEPT ![j] = "pending"] /\ ~Refused(j, gen[j])
      <3>1. Lifecycle!PutBack(j)
        BY <1>1, <1>4, <2>0, <2>3, SettledRow, NotBarred DEF Lifecycle!PutBack
      <3>. QED  BY <2>0, <3>1 DEF Lifecycle!Next
    <2>4. CASE DeadLetter(l)
      BY <1>4, <2>0, <2>2, <2>4 DEF DeadLetter, EndRow, Refused, PastCeiling, Durable
    <2>5. CASE FailAttempt(l)
      BY <1>4, <2>0, <2>2, <2>3, <2>5 DEF FailAttempt, EndRow, RetryRow, InHandler
    <2>6. CASE ReleaseAborted(l) \/ \E d \in Delays : RetryLater(l, d)
      BY <1>4, <2>0, <2>3, <2>6 DEF ReleaseAborted, RetryLater, RetryRow, InHandler
    <2>. QED  BY <1>4, <2>1, <2>4, <2>5, <2>6 DEF Settle
  <1>. QED  BY <1>2, <1>3, <1>4

\* A purge erases finished jobs only, which nobody holds.
LEMMA PurgeImplements ==
    ASSUME TypeOK, OwnerOK, OwnerOK', NEW l \in Lane, Purge(l)
    PROVE  Lifecycle!Next
  <1> PICK batch \in SUBSET Purgeable(readAt[l]) : Delete(batch)
    BY DEF Purge
  <1>1. batch \in SUBSET Job /\ \A j \in batch : status[j] \in Terminal
    BY DEF Purgeable
  <1>2. gen' = gen /\ \A j \in Job : status'[j] = IF j \in batch THEN "gone" ELSE status[j]
    BY DEF Purge, Delete
  <1>3. \A j \in Job, m \in Lane : Holds(m, j)' <=> Holds(m, j)
    BY <1>1, <1>2 DEF Purge, Holds, TypeOK, Terminal
  <1>4. \A j \in Job : AbstractOwner'[j] = AbstractOwner[j]
    BY <1>3, OwnerKept
  <1>5. AbstractOwner' = AbstractOwner /\ AbstractClaims' = AbstractClaims
    BY <1>2, <1>4 DEF AbstractOwner, AbstractClaims
  <1>6. AbstractState' = [j \in Job |-> IF j \in batch THEN "gone" ELSE AbstractState[j]]
    BY <1>2 DEF AbstractState
  <1>7. \A j \in batch : AbstractState[j] \in Lifecycle!Over
    BY <1>1 DEF AbstractState, Terminal, Lifecycle!Over
  <1>8. Lifecycle!Clean(batch)
    BY <1>5, <1>6, <1>7 DEF Lifecycle!Clean
  <1>. QED  BY <1>1, <1>8 DEF Lifecycle!Next

\* The write of semanticize finishes its job; other writes are invisible.
LEMMA SaveImplements ==
    ASSUME TypeOK, Fence, OwnerOK, OwnerOK', NEW l \in Lane, SaveEffect(l)
    PROVE  Lifecycle!Next \/ UNCHANGED Lifecycle!vars
  <1> DEFINE j == claim[l].job
  <1>1. /\ pc[l] = "run" /\ pc' = [pc EXCEPT ![l] = "saved"]
        /\ claim' = claim /\ gen' = gen /\ ~Refused(j, claim[l].gen)
    BY DEF SaveEffect
  <1>2. j \in Job
    BY <1>1 DEF Fence, Busy
  <1>3. CASE Holds(l, j) /\ KindOf[j] = "semanticize"
    <2>1. status' = [status EXCEPT ![j] = "done"]
      BY <1>3 DEF SaveEffect, Lands
    <2>2. \A k \in Job, m \in Lane : k # j => (Holds(m, k)' <=> Holds(m, k))
      BY <1>1, <2>1 DEF Holds, TypeOK
    <2>3. Lifecycle!MoveTo(j, "done")
      BY <1>2, <2>1, <2>2, Moved
    <2>4. AbstractOwner[j] # NoLane /\ AbstractClaims' = AbstractClaims
      BY <1>1, <1>2, <1>3, NoLaneAssumption DEF OwnerOK, AbstractClaims
    <2>5. ~Lifecycle!Barred(j)
      BY <1>1, <1>2, <1>3, NotBarred DEF Holds
    <2>. QED  BY <1>2, <2>3, <2>4, <2>5 DEF Lifecycle!Next, Lifecycle!Finish
  <1>4. CASE ~(Holds(l, j) /\ KindOf[j] = "semanticize")
    <2>1. status' = status
      BY <1>4 DEF SaveEffect, Lands, TypeOK
    <2>2. \A k \in Job, m \in Lane : Holds(m, k)' <=> Holds(m, k)
      BY <1>1, <2>1 DEF Holds, TypeOK
    <2>. QED  BY <1>1, <2>1, <2>2, Stutter
  <1>. QED  BY <1>3, <1>4

\* Every step of the queue is a step of the lifecycle, or invisible to it.
LEMMA StepImplements ==
    ASSUME TypeOK, Fence, Fence', Pinned, Next
    PROVE  Lifecycle!Next \/ UNCHANGED Lifecycle!vars
  <1>0. OwnerOK /\ OwnerOK'
    BY OwnerHolds, OwnerHoldsNext
  <1>1. CASE Producers
    BY <1>0, <1>1, ProducersImplement
  <1>2. ASSUME NEW l \in Lane, Turn(l)
        PROVE  Lifecycle!Next \/ UNCHANGED Lifecycle!vars
    <2>1. CASE StartTurn(l) \/ PurgeError(l) \/ ClaimNothing(l)
      <3>1. status' = status /\ gen' = gen
        BY <2>1 DEF StartTurn, PurgeError, ClaimNothing, rowVars
      <3>2. \A k \in Job, m \in Lane : Holds(m, k)' <=> Holds(m, k)
        BY <2>1, <3>1 DEF StartTurn, PurgeError, ClaimNothing, Rest, Holds, TypeOK
      <3>. QED  BY <1>0, <3>1, <3>2, Stutter
    <2>2. CASE Purge(l)
      BY <1>0, <2>2, PurgeImplements
    <2>3. ASSUME NEW j \in Job, Claim(l, j) \/ ClaimLost(l, j) PROVE Lifecycle!Next
      BY <1>0, <2>3, TakeImplements
    <2>4. CASE SaveEffect(l)
      BY <1>0, <2>4, SaveImplements
    <2>. QED  BY <1>2, <2>1, <2>2, <2>3, <2>4 DEF Turn
  <1>3. ASSUME NEW l \in Lane, Settle(l)
        PROVE  Lifecycle!Next \/ UNCHANGED Lifecycle!vars
    BY <1>0, <1>3, SettleImplements
  <1>4. CASE Supervisor
    <2> PICK p \in Process : Shutdown(p) \/ CutDrain(p) \/ Restart(p)
      BY <1>4 DEF Supervisor
    <2>1. status' = status /\ gen' = gen
      BY DEF Shutdown, CutDrain, Restart, rowVars
    <2>2. CASE Shutdown(p) \/ CutDrain(p)
      <3>1. \A k \in Job, m \in Lane : Holds(m, k)' <=> Holds(m, k)
        BY <2>1, <2>2 DEF Shutdown, CutDrain, laneVars, Holds
      <3>. QED  BY <1>0, <2>1, <3>1, Stutter
    <2>3. CASE Restart(p)
      <3> DEFINE lanes == {l \in Lane : ProcessOf[l] = p}
      <3>1. \A k \in Job, m \in Lane : Holds(m, k)' <=> Holds(m, k) /\ m \notin lanes
        BY <2>1, <2>3 DEF Restart, Holds
      <3>2. Lifecycle!Vanish(lanes) \/ UNCHANGED Lifecycle!vars
        BY <1>0, <2>1, <3>1, Silenced
      <3>. QED  BY <3>2 DEF Lifecycle!Next
    <2>. QED  BY <2>2, <2>3
  <1>5. CASE Tick
    <2>1. status' = status /\ gen' = gen /\ \A k \in Job, m \in Lane : Holds(m, k)' <=> Holds(m, k)
      BY <1>5 DEF Tick, rowVars, laneVars, Holds
    <2>. QED  BY <1>0, <2>1, Stutter
  <1>. QED  BY <1>1, <1>2, <1>3, <1>4, <1>5 DEF Next

\* The jobs table and its workers implement the lifecycle they promise: for any
\* jobs, lanes and settings, through crashes, lapsed leases, cancellations and
\* late answers, a job is moved only by the lane that claimed it last, a finished
\* one never runs again, and one past its ceiling is only given up.
THEOREM LifecycleKept == Spec => ImplementsLifecycle
  <1>1. Init => Lifecycle!Init
    <2> SUFFICES ASSUME Init PROVE Lifecycle!Init
      OBVIOUS
    <2>1. \A j \in Job : ~Held(j)
      BY DEF Init, Held, Holds
    <2>2. AbstractOwner = [j \in Job |-> NoLane]
      BY <2>1 DEF AbstractOwner
    <2>3. AbstractState = [j \in Job |-> "unborn"] /\ AbstractClaims = [j \in Job |-> 0]
      BY ConfigAssumption DEF Init, AbstractState, AbstractClaims
    <2>. QED  BY <2>2, <2>3 DEF Lifecycle!Init
  <1>2. TypeOK /\ Fence /\ Fence' /\ Pinned /\ [Next]_vars => [Lifecycle!Next]_(Lifecycle!vars)
    <2> SUFFICES ASSUME TypeOK, Fence, Fence', Pinned, [Next]_vars
                 PROVE  Lifecycle!Next \/ UNCHANGED Lifecycle!vars
      OBVIOUS
    <2>1. CASE UNCHANGED vars
      <3>1. status' = status /\ gen' = gen /\ \A k \in Job, m \in Lane : Holds(m, k)' <=> Holds(m, k)
        BY <2>1 DEF vars, rowVars, laneVars, Holds
      <3>. QED  BY <3>1, OwnerHolds, OwnerHoldsNext, Stutter
    <2>. QED  BY <2>1, StepImplements
  <1>. QED  BY <1>1, <1>2, TypeCorrect, FenceInvariant, PinnedInvariant, PTL
            DEF Spec, ImplementsLifecycle, Lifecycle!Spec
=============================================================================
