---------------------------- MODULE ReleaseJobs ----------------------------
(***************************************************************************)
(* The transactions of Release together with the jobs they write: the       *)
(* embedding of neurons, the semantic ladder of memories and the retention   *)
(* trigger (enqueueJob and the job statements of release.go, release.sql;    *)
(* enqueueAsyncJobs of launch.go; the handlers of jobs.go). A job is here    *)
(* what its effect is; how it is claimed, retried and fenced is JobQueue.    *)
(***************************************************************************)
EXTENDS Release

CONSTANT Skew  \* how early the queue's clock may make a job due

ASSUME SkewAssumption == Skew \in Nat

VARIABLES
    embed,    \* the embed jobs of a neuron: waiting, calling the provider, or failed
    vector,   \* the rows of embeddings
    ladder,   \* the semanticize job of a memory
    trigger   \* the retention jobs, by release id

jobVars == <<embed, vector, ladder, trigger>>
allVars == <<vars, jobVars>>

JInit ==
    /\ Init
    /\ embed = [n \in Neuron |-> {}]
    /\ vector = {}
    /\ ladder = [m \in Memory |-> "none"]
    /\ trigger = {}

----------------------------------------------------------------------------
(* The use-cases and what they do to the queue in the same transaction. *)

\* One more embed job for each of N; what failed before it is history.
Queued(N) ==
    [n \in Neuron |-> IF n \in N THEN (embed[n] \ {"failed"}) \cup {"waiting"} ELSE embed[n]]

\* The neurons a step creates and deletes.
Born == {n \in Neuron : neuron[n] = "unborn" /\ neuron'[n] = "kept"}
Deleted == {n \in Neuron : neuron[n] = "kept" /\ neuron'[n] = "deleted"}

\* Broken variant of LeftOpen: the seals as they were before the step.
LeftOpenBefore(N) == {n \in N : sealedAt[n] = Open}

\* The neurons a step leaves unsealed.
LeftOpen(N) == {n \in N : sealedAt'[n] = Open}

\* CancelReleaseMemoryJobs: a running job is cancelled too.
Cancelled(M) ==
    [m \in Memory |-> IF m \in M /\ ladder[m] = "active" THEN "cancelled" ELSE ladder[m]]

\* Broken variant of Revived: before the memories are back.
RevivedLive(M) ==
    [m \in Memory |-> IF m \in M /\ mem[m] = "live" /\ ladder[m] = "cancelled"
                        THEN "active" ELSE ladder[m]]

\* RequeueReleaseMemoryJobs.
Revived(M) ==
    [m \in Memory |-> IF m \in M /\ ladder[m] = "cancelled" THEN "active" ELSE ladder[m]]

\* enqueueAsyncJobs: embed the new neurons, semanticize each memory.
JLaunch(d, f, s) ==
    /\ Launch(d, f, s)
    /\ embed' = Queued(Born)
    /\ ladder' = [m \in Memory |-> IF DiaryOf[m] = d THEN "active" ELSE ladder[m]]
    /\ UNCHANGED <<vector, trigger>>

\* The jobs of the memories end, the retention job is due at the deadline.
JReleaseDiary(c) ==
    /\ ReleaseDiary(c)
    /\ ladder' = Cancelled(LiveOf(call[c].diary))
    /\ trigger' = trigger \cup {made'}
    /\ UNCHANGED <<embed, vector>>

\* The jobs come back, and DeleteReleaseRetentionJobs.
JRestoreDiary(c) ==
    LET g == group[call[c].diary]
    IN  /\ RestoreDiary(c)
        /\ ladder' = Revived(g.memories)
        /\ embed' = Queued(LeftOpen(Footprint(g.memories)))
        /\ trigger' = trigger \ {g.id}
        /\ UNCHANGED vector

\* PurgeReleaseJobs and DeleteReleaseEmbeddings, for the diaries D. The
\* re-embedding the reclassification proposes is dropped here.
PurgeJobs(D) ==
    /\ embed' = [n \in Neuron |-> IF n \in Deleted THEN {} ELSE embed[n]]
    /\ vector' = vector \ Deleted
    /\ ladder' = [m \in Memory |-> IF \E d \in D : m \in group[d].memories
                                     THEN "none" ELSE ladder[m]]
    /\ trigger' = trigger \ {group[d].id : d \in D}

JSweepExpired(c) == SweepExpired(c) /\ PurgeJobs(Expired(call[c].at))

JSweepDue(w) == SweepDue(w) /\ PurgeJobs({call[w].diary})

\* The trigger is due at the deadline, by the queue's clock.
JClaimDue(w, d) ==
    /\ ClaimDue(w, d)
    /\ group[d].id \in trigger
    /\ Deadline(d) <= now + Skew
    /\ UNCHANGED jobVars

\* Broken variant of JNotDueYet: an early run passes for the sweep.
JNotDueYetDone(w) ==
    /\ NotDueYet(w)
    /\ trigger' = trigger \ {call[w].id}
    /\ UNCHANGED <<embed, vector, ladder>>

\* RetryAt(deadline): the job stays.
JNotDueYet(w) == NotDueYet(w) /\ UNCHANGED jobVars

\* The job is done, if a restore or a sweep has not deleted it already.
JNothingDue(w) ==
    /\ NothingDue(w)
    /\ trigger' = trigger \ {call[w].id}
    /\ UNCHANGED <<embed, vector, ladder>>

----------------------------------------------------------------------------
(* The handlers of the other two kinds. *)

\* ListLiveNeuronJobSources: a sealed neuron is no source, its job is done.
ReadSource(n) ==
    /\ "waiting" \in embed[n]
    /\ embed' = [embed EXCEPT ![n] =
                    IF sealedAt[n] = Open THEN (@ \ {"waiting"}) \cup {"calling"}
                                          ELSE @ \ {"waiting"}]
    /\ UNCHANGED <<vars, vector, ladder, trigger>>

\* UpsertJobEmbedding: written only while the neuron is unsealed.
SaveVector(n) ==
    /\ "calling" \in embed[n]
    /\ embed' = [embed EXCEPT ![n] = @ \ {"calling"}]
    /\ vector' = IF sealedAt[n] = Open THEN vector \cup {n} ELSE vector
    /\ UNCHANGED <<vars, ladder, trigger>>

\* A call fails, or its worker dies: the job is retried from its source read, or
\* it is failed after its attempts or dead-lettered past the claim ceiling. The
\* embed kind is not one that is retried forever.
FailEmbed(n) ==
    /\ \E at \in embed[n] \ {"failed"}, next \in {"waiting", "failed"} :
           embed' = [embed EXCEPT ![n] = (@ \ {at}) \cup {next}]
    /\ UNCHANGED <<vars, vector, ladder, trigger>>

\* CompleteSemanticizeJob, or the job is given up as above: it is over. A
\* cancelled job has lost its fence.
SaveLadder(m) ==
    /\ ladder[m] = "active"
    /\ ladder' = [ladder EXCEPT ![m] = "over"]
    /\ UNCHANGED <<vars, embed, vector, trigger>>

----------------------------------------------------------------------------
JAsk(c) ==
    \/ \E d \in Diary : (BeginRelease(c, d) \/ BeginRestore(c, d)) /\ UNCHANGED jobVars
    \/ (RefuseRelease(c) \/ RefuseRestore(c)) /\ UNCHANGED jobVars
    \/ JSweepExpired(c) \/ JReleaseDiary(c) \/ JRestoreDiary(c)

JSweep(w) ==
    \/ \E d \in Diary : JClaimDue(w, d)
    \/ JSweepDue(w) \/ JNotDueYet(w) \/ JNothingDue(w)

Handlers ==
    \/ \E n \in Neuron : ReadSource(n) \/ SaveVector(n) \/ FailEmbed(n)
    \/ \E m \in Memory : SaveLadder(m)

JTick == Tick /\ UNCHANGED jobVars

JNext ==
    \/ \E d \in Diary : \E f \in [MemoriesOf(d) -> SUBSET Neuron] : \E s \in Strengths :
           JLaunch(d, f, s)
    \/ \E e \in Edge, s \in 0..Cap : Drift(e, s) /\ UNCHANGED jobVars
    \/ \E c \in Caller : JAsk(c)
    \/ \E w \in Worker : JSweep(w)
    \/ \E m \in Memory, approved \in SUBSET Semantic : LetGo(m, approved) /\ UNCHANGED jobVars
    \/ Handlers
    \/ JTick

JSpec == JInit /\ [][JNext]_allVars

\* Time passes and the worker's lanes keep turning; nobody has to come back.
JFairSpec ==
    /\ JSpec
    /\ WF_allVars(JTick)
    /\ \A w \in Worker : WF_allVars(JSweepDue(w) \/ JNotDueYet(w) \/ JNothingDue(w))
    /\ \A d \in Diary : WF_allVars(\E w \in Worker : JClaimDue(w, d))

----------------------------------------------------------------------------
\* A neuron that dynamics can see has its vector or a job that will write it,
\* although jobs that meet a sealed neuron end without writing anything and the
\* sweep drops the re-embedding it is offered. What may be missing is the vector
\* of a neuron whose embed job failed since it was last enqueued: the queue has
\* given that job up, and a restore that opens the neuron's memories enqueues it
\* anew.
OpenIsEmbedded ==
    \A n \in Neuron : neuron[n] = "kept" /\ sealedAt[n] = Open =>
        n \in vector \/ embed[n] # {}

\* No text is generated for a released memory, and a restored one has the job
\* back that its release cancelled.
LadderFollowsMemory ==
    \A m \in Memory :
        /\ mem[m] = "released" => ladder[m] \in {"cancelled", "over"}
        /\ mem[m] = "live" => ladder[m] \in {"active", "over"}

\* Every release ends, restored or swept, also when the user never returns.
EveryReleaseEnds == \A d \in Diary : Released(d) ~> ~Released(d)
=============================================================================
