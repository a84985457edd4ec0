------------------------------ MODULE Release ------------------------------
(***************************************************************************)
(* Deleting a diary and bringing it back: Release, Restore, LetGo and the   *)
(* retention sweep over one user's memory graph                             *)
(* (internal/memory/release.go, deletion.go, db/queries/memory/release.sql).*)
(*                                                                         *)
(* Every handler runs under the user's graph mutation lock, so what it does *)
(* inside the transaction is one step. What happens before the lock is a    *)
(* step of its own: Restore, the sweep that opens a Release and the worker  *)
(* all read the clock first and wait for the lock afterwards.               *)
(* The jobs these transactions cancel, revive and enqueue are in            *)
(* ReleaseJobs, which composes them with the actions below.                 *)
(***************************************************************************)
EXTENDS Naturals, FiniteSets, Functions

CONSTANTS
    Diary,
    Memory,      \* episodic memories
    DiaryOf,     \* the diary a memory is born from
    Neuron,
    Semantic,    \* the neurons of semantic type, the only ones let go
    Edge,        \* pairs of neurons a synapse may join
    Caller,      \* requests in flight
    Worker,      \* worker lanes running the retention sweep
    Open,        \* sealed_at IS NULL
    NoRelease,   \* no release_groups row for the diary
    NoEdge,      \* no synapses row
    NoDiary,
    Window,      \* ReleaseSoftDeleteRetentionDays
    Cap,         \* SynapseStrengthCap
    Weakening,   \* DeletionContributionWeakenAmount
    MaxTime,     \* bound on the clock
    MaxReleases  \* bound on the releases asked for

ASSUME ReleaseAssumption ==
    /\ DiaryOf \in [Memory -> Diary]
    /\ Semantic \subseteq Neuron
    /\ \A e \in Edge : e \subseteq Neuron
    /\ Window \in Nat \ {0}
    /\ Cap \in Nat /\ Weakening \in Nat /\ MaxTime \in Nat /\ MaxReleases \in Nat
    /\ Open \notin Nat
    /\ NoEdge \notin Nat
    /\ NoRelease \notin [id : Nat, at : Nat, memories : SUBSET Memory,
                         sealed : SUBSET Neuron, taken : [Edge -> Nat]]
    /\ NoDiary \notin Diary
    /\ Caller \cap Worker = {}

\* What releases took is a sum over the diaries.
ASSUME DiaryAssumption == IsFiniteSet(Diary)

VARIABLES
    now,
    diary,     \* which diary rows exist
    mem,       \* the rows of episodic_memories, by deleted_at
    foot,      \* neuron_activations: the neurons a memory activates
    neuron,    \* the rows of neurons
    sealedAt,  \* neurons.sealed_at
    strength,  \* synapses.strength
    group,     \* release_groups with its three effect tables
    made,      \* releases made so far: the next release id
    call,      \* what each request or worker read before its transaction
    letGo      \* history: the neurons the user ever let go

vars == <<now, diary, mem, foot, neuron, sealedAt, strength, group, made, call, letGo>>
graph == <<diary, mem, foot, neuron, sealedAt, strength, group, letGo>>

Group == [id : Nat, at : Nat, memories : SUBSET Memory,
          sealed : SUBSET Neuron, taken : [Edge -> Nat]]

Call == [op : {"idle", "sweep", "release", "restore", "due"},
         diary : Diary \cup {NoDiary}, id : Nat, at : Nat]

Idle == [op |-> "idle", diary |-> NoDiary, id |-> 0, at |-> 0]

Actors == Caller \cup Worker

----------------------------------------------------------------------------
(* Reading the graph. *)

MemoriesOf(d) == {m \in Memory : DiaryOf[m] = d}

Released(d) == group[d] # NoRelease

\* A soft-deleted memory keeps its neurons until the sweep takes its row.
Retained(m) == mem[m] \in {"live", "released"}

Footprint(M) == UNION {foot[m] : m \in M}

\* The memories whose rows activate the neuron.
Owners(n) == {m \in Memory : Retained(m) /\ n \in foot[m]}

\* ClassifyNeurons: an owner outside the removal set makes a neuron shared.
Shared(M, N) == {n \in N : ~(Owners(n) \subseteq M)}

Unsealed(N) == {n \in N : sealedAt[n] = Open}

Exists(e) == strength[e] # NoEdge

\* ListContributionSynapses: both ends removed, one of them kept.
Contribution(N, shared) == {e \in Edge : Exists(e) /\ e \subseteq N /\ e \cap shared # {}}

\* Depress, and the delta Release records: what was really taken.
Taken(N, shared) ==
    [e \in Edge |-> IF e \in Contribution(N, shared)
                      THEN IF strength[e] < Weakening THEN strength[e] ELSE Weakening
                      ELSE 0]

Weakened(taken) ==
    [e \in Edge |-> IF Exists(e) THEN strength[e] - taken[e] ELSE NoEdge]

\* Broken variant of GivenBack: not to the synapses of a neuron that is sealed
\* still when the deltas are reversed.
GivenBackUnsealed(taken) ==
    [e \in Edge |-> IF ~Exists(e) THEN NoEdge
                    ELSE IF \E n \in e : sealedAt[n] # Open THEN strength[e]
                    ELSE IF strength[e] + taken[e] < Cap THEN strength[e] + taken[e] ELSE Cap]

\* ReverseReleaseSynapseDeltas: added to the current strength, clamped.
GivenBack(taken) ==
    [e \in Edge |-> IF ~Exists(e) THEN NoEdge
                    ELSE IF strength[e] + taken[e] < Cap THEN strength[e] + taken[e] ELSE Cap]

\* The seal is a release's own as long as the timestamps agree.
ReleaseOwns(n) ==
    \E d \in Diary : /\ Released(d)
                     /\ n \in group[d].sealed
                     /\ group[d].at = sealedAt[n]

\* Broken variants of Unseal: seals undone that are no release's; seals undone
\* only once the window of their release is over.
UnsealAll(N) == [n \in Neuron |-> IF n \in N THEN Open ELSE sealedAt[n]]

UnsealExpired(N) ==
    [n \in Neuron |-> IF n \in N /\ ReleaseOwns(n) /\ sealedAt[n] + Window <= now
                        THEN Open ELSE sealedAt[n]]

\* ReclassifyRetainedNeuronSeals on the neurons of a release's memories: every
\* release's effect on them is retired, a seal of a release is undone.
Unseal(N) ==
    [n \in Neuron |-> IF n \in N /\ ReleaseOwns(n) THEN Open ELSE sealedAt[n]]

Retire(N) ==
    [d \in Diary |-> IF Released(d) THEN [group[d] EXCEPT !.sealed = @ \ N] ELSE NoRelease]

\* Broken variants of Exclusive: released memories are no owners; only neurons
\* that are sealed are looked at.
ExclusiveOfLive(M) == {n \in Footprint(M) : \A m \in Owners(n) \ M : mem[m] # "live"}
ExclusiveSealed(M) == {n \in Footprint(M) : Owners(n) \subseteq M /\ sealedAt[n] # Open}

\* ListExclusiveReleaseNeurons: no activation outside the swept memories.
Exclusive(M) == {n \in Footprint(M) : Owners(n) \subseteq M}

Deadline(d) == group[d].at + Window

\* ListExpiredReleaseGroups with cutoff = now - Window.
Expired(at) == {d \in Diary : Released(d) /\ Deadline(d) <= at}

\* Broken variant of Due: the worker trusts the time its job was due.
DueByTrigger(d, at) == Released(d)

\* The deadline the worker's handler checks for itself.
Due(d, at) == at >= Deadline(d)

----------------------------------------------------------------------------
Init ==
    /\ now = 0
    /\ diary = [d \in Diary |-> "unwritten"]
    /\ mem = [m \in Memory |-> "unborn"]
    /\ foot = [m \in Memory |-> {}]
    /\ neuron = [n \in Neuron |-> "unborn"]
    /\ sealedAt = [n \in Neuron |-> Open]
    /\ strength = [e \in Edge |-> NoEdge]
    /\ group = [d \in Diary |-> NoRelease]
    /\ made = 0
    /\ call = [c \in Actors |-> Idle]
    /\ letGo = {}

----------------------------------------------------------------------------
(* The graph grows: launching a diary, and the drift of its synapses. *)

\* A name resolves to an unsealed neuron or mints a new row: a sealed neuron
\* is never found again by its name.
Resolvable(n) == neuron[n] = "unborn" \/ (neuron[n] = "kept" /\ sealedAt[n] = Open)

CoFired(f) == {e \in Edge : \E m \in DOMAIN f : e \subseteq f[m]}

\* PersistEncoded with the activations f: neurons, memories and same-memory
\* synapses, which start at the initial strength or are potentiated.
Launch(d, f, s) ==
    /\ diary[d] = "unwritten"
    /\ \A m \in MemoriesOf(d) : f[m] # {} /\ \A n \in f[m] : Resolvable(n)
    /\ \A e \in Edge : IF e \in CoFired(f)
                         THEN s[e] # NoEdge /\ s[e] > 0 /\ (Exists(e) => s[e] >= strength[e])
                         ELSE s[e] = strength[e]
    /\ diary' = [diary EXCEPT ![d] = "kept"]
    /\ mem' = [m \in Memory |-> IF DiaryOf[m] = d THEN "live" ELSE mem[m]]
    /\ foot' = [m \in Memory |-> IF DiaryOf[m] = d THEN f[m] ELSE foot[m]]
    /\ neuron' = [n \in Neuron |-> IF \E m \in MemoriesOf(d) : n \in f[m]
                                     THEN "kept" ELSE neuron[n]]
    /\ strength' = s
    /\ UNCHANGED <<now, sealedAt, group, made, call, letGo>>

\* Recall potentiates and consolidation downscales synapses between live neurons.
Drift(e, s) ==
    /\ Exists(e)
    /\ \A n \in e : sealedAt[n] = Open
    /\ s # strength[e]
    /\ strength' = [strength EXCEPT ![e] = s]
    /\ UNCHANGED <<now, diary, mem, foot, neuron, sealedAt, group, made, call, letGo>>

----------------------------------------------------------------------------
(* The retention sweep. *)

\* sweepReleaseGroup for each of the diaries D, in one transaction.
SweepGroups(D) ==
    LET memories == UNION {group[d].memories : d \in D}
        gone == Exclusive(memories)
        touched == Footprint(memories)
    IN  /\ neuron' = [n \in Neuron |-> IF n \in gone THEN "deleted" ELSE neuron[n]]
        /\ sealedAt' = Unseal(touched)
        /\ strength' = [e \in Edge |-> IF e \cap gone # {} THEN NoEdge ELSE strength[e]]
        /\ foot' = [m \in Memory |-> IF m \in memories THEN {} ELSE foot[m]]
        /\ mem' = [m \in Memory |-> IF m \in memories /\ mem[m] = "released"
                                      THEN "swept" ELSE mem[m]]
        /\ diary' = [d \in Diary |-> IF d \in D /\ \A m \in MemoriesOf(d) : ~Retained(m)'
                                       THEN "deleted" ELSE diary[d]]
        /\ group' = [d \in Diary |-> IF d \in D THEN NoRelease ELSE Retire(touched)[d]]
        /\ UNCHANGED letGo

\* A worker claims the retention job of a release. Its clock need not agree
\* with the one that made the job due: it may come early.
ClaimDue(w, d) ==
    /\ call[w] = Idle
    /\ Released(d)
    /\ call' = [call EXCEPT ![w] = [op |-> "due", diary |-> d, id |-> group[d].id, at |-> now]]
    /\ UNCHANGED <<now, graph, made>>

\* The handler found its release by id.
Found(w) == Released(call[w].diary) /\ group[call[w].diary].id = call[w].id

\* RetentionSweeper.SweepRelease, due.
SweepDue(w) ==
    /\ call[w].op = "due"
    /\ Found(w)
    /\ Due(call[w].diary, call[w].at)
    /\ SweepGroups({call[w].diary})
    /\ call' = [call EXCEPT ![w] = Idle]
    /\ UNCHANGED <<now, made>>

\* The same, before the deadline: the job goes back to it.
NotDueYet(w) ==
    /\ call[w].op = "due"
    /\ Found(w)
    /\ ~Due(call[w].diary, call[w].at)
    /\ call' = [call EXCEPT ![w] = Idle]
    /\ UNCHANGED <<now, graph, made>>

\* The release is restored or swept already: the handler succeeds.
NothingDue(w) ==
    /\ call[w].op = "due"
    /\ ~Found(w)
    /\ call' = [call EXCEPT ![w] = Idle]
    /\ UNCHANGED <<now, graph, made>>

----------------------------------------------------------------------------
(* Releasing a diary: first the caller's expired releases, then the diary. *)

BeginRelease(c, d) ==
    /\ call[c] = Idle
    /\ made < MaxReleases
    /\ diary[d] # "unwritten"
    /\ call' = [call EXCEPT ![c] = [op |-> "sweep", diary |-> d, id |-> 0, at |-> now]]
    /\ UNCHANGED <<now, graph, made>>

\* Service.Sweep, in a transaction of its own.
SweepExpired(c) ==
    /\ call[c].op = "sweep"
    /\ SweepGroups(Expired(call[c].at))
    /\ call' = [call EXCEPT ![c].op = "release", ![c].at = 0]
    /\ UNCHANGED <<now, made>>

LiveOf(d) == {m \in MemoriesOf(d) : mem[m] = "live"}

\* The transaction of Release.
ReleaseDiary(c) ==
    LET d == call[c].diary
        memories == LiveOf(d)
        neurons == Unsealed(Footprint(memories))
        shared == Shared(memories, neurons)
        taken == Taken(neurons, shared)
    IN  /\ call[c].op = "release"
        /\ ~Released(d)
        /\ memories # {}
        /\ mem' = [m \in Memory |-> IF m \in memories THEN "released" ELSE mem[m]]
        /\ sealedAt' = [n \in Neuron |-> IF n \in neurons \ shared THEN now ELSE sealedAt[n]]
        /\ strength' = Weakened(taken)
        /\ group' = [group EXCEPT ![d] = [id |-> made + 1, at |-> now, memories |-> memories,
                                          sealed |-> neurons \ shared, taken |-> taken]]
        /\ made' = made + 1
        /\ call' = [call EXCEPT ![c] = Idle]
        /\ UNCHANGED <<now, diary, foot, neuron, letGo>>

\* ErrAlreadyReleased and ErrReleaseNoLiveMemories.
RefuseRelease(c) ==
    /\ call[c].op = "release"
    /\ Released(call[c].diary) \/ LiveOf(call[c].diary) = {}
    /\ call' = [call EXCEPT ![c] = Idle]
    /\ UNCHANGED <<now, graph, made>>

----------------------------------------------------------------------------
(* Restoring a diary. *)

\* restoreAt is read here, before the lock.
BeginRestore(c, d) ==
    /\ call[c] = Idle
    /\ diary[d] # "unwritten"
    /\ call' = [call EXCEPT ![c] = [op |-> "restore", diary |-> d, id |-> 0, at |-> now]]
    /\ UNCHANGED <<now, graph, made>>

RestoreDiary(c) ==
    LET d == call[c].diary
        memories == group[d].memories
        touched == Footprint(memories)
    IN  /\ call[c].op = "restore"
        /\ Released(d)
        /\ call[c].at < Deadline(d)
        /\ mem' = [m \in Memory |-> IF m \in memories /\ mem[m] = "released"
                                      THEN "live" ELSE mem[m]]
        /\ sealedAt' = Unseal(touched)
        /\ strength' = GivenBack(group[d].taken)
        /\ group' = [Retire(touched) EXCEPT ![d] = NoRelease]
        /\ call' = [call EXCEPT ![c] = Idle]
        /\ UNCHANGED <<now, diary, foot, neuron, made, letGo>>

\* ErrRestoreNotReleased and ErrRestoreWindowExpired.
RefuseRestore(c) ==
    /\ call[c].op = "restore"
    /\ Released(call[c].diary) => call[c].at >= Deadline(call[c].diary)
    /\ call' = [call EXCEPT ![c] = Idle]
    /\ UNCHANGED <<now, graph, made>>

----------------------------------------------------------------------------
(* Letting go. *)

\* ListThisMemoryOnlySemanticNeuronIDs, the ones already sealed included.
ThisMemoryOnly(m) == {n \in foot[m] \cap Semantic : Owners(n) \subseteq {m}}

\* The transaction of LetGo; a target that is not live or an approved neuron
\* that is not eligible changes nothing.
LetGo(m, approved) ==
    LET shared == Shared({m}, approved)
    IN  /\ mem[m] = "live"
        /\ approved # {}
        /\ approved \subseteq ThisMemoryOnly(m)
        /\ sealedAt' = [n \in Neuron |-> IF n \in Unsealed(approved \ shared)
                                           THEN now ELSE sealedAt[n]]
        /\ strength' = Weakened(Taken(approved, shared))
        /\ letGo' = letGo \cup approved
        /\ UNCHANGED <<now, diary, mem, foot, neuron, group, made, call>>

\* The clock stops at its bound, but not before the last window is over.
Tick ==
    /\ now < MaxTime \/ \E d \in Diary : Released(d) /\ now < Deadline(d)
    /\ now' = now + 1
    /\ UNCHANGED <<graph, made, call>>

----------------------------------------------------------------------------
Strengths == [Edge -> 0..Cap \cup {NoEdge}]

Grow ==
    \/ \E d \in Diary : \E f \in [MemoriesOf(d) -> SUBSET Neuron] : \E s \in Strengths :
           Launch(d, f, s)
    \/ \E e \in Edge, s \in 0..Cap : Drift(e, s)

Ask(c) ==
    \/ \E d \in Diary : BeginRelease(c, d) \/ BeginRestore(c, d)
    \/ SweepExpired(c) \/ ReleaseDiary(c) \/ RefuseRelease(c)
    \/ RestoreDiary(c) \/ RefuseRestore(c)

Sweep(w) ==
    \/ \E d \in Diary : ClaimDue(w, d)
    \/ SweepDue(w) \/ NotDueYet(w) \/ NothingDue(w)

Next ==
    \/ Grow
    \/ \E c \in Caller : Ask(c)
    \/ \E w \in Worker : Sweep(w)
    \/ \E m \in Memory, approved \in SUBSET Semantic : LetGo(m, approved)
    \/ Tick

Spec == Init /\ [][Next]_vars

----------------------------------------------------------------------------
TypeOK ==
    /\ now \in Nat
    /\ diary \in [Diary -> {"unwritten", "kept", "deleted"}]
    /\ mem \in [Memory -> {"unborn", "live", "released", "swept"}]
    /\ foot \in [Memory -> SUBSET Neuron]
    /\ neuron \in [Neuron -> {"unborn", "kept", "deleted"}]
    /\ sealedAt \in [Neuron -> Nat \cup {Open}]
    /\ strength \in Strengths
    /\ group \in [Diary -> Group \cup {NoRelease}]
    /\ made \in Nat
    /\ call \in [Actors -> Call]
    /\ letGo \subseteq Neuron

\* Every memory the user can still see or bring back has all the neurons it
\* was born with: no sweep of another diary takes one from it.
RetainedKeepNeurons ==
    \A m \in Memory : Retained(m) => foot[m] # {} /\ \A n \in foot[m] : neuron[n] = "kept"

\* A live memory has lost a neuron's meaning only because the user let it go:
\* no release, of its own diary or of one it overlaps with, leaves a seal on
\* what is live, in whatever order releases are restored and swept.
LiveIsUnsealed ==
    \A m \in Memory : mem[m] = "live" =>
        \A n \in foot[m] : sealedAt[n] = Open \/ n \in letGo

\* Letting go is permanent: the neuron stays sealed until it is deleted with
\* its memory, through every release and restore of that memory.
LetGoIsPermanent ==
    \A n \in letGo : neuron[n] = "deleted" \/ sealedAt[n] # Open

\* The last owner's sweep takes the neuron: none is left that no memory
\* activates, also when overlapping releases conservatively kept it.
NoNeuronLeaks ==
    \A n \in Neuron : neuron[n] = "kept" => Owners(n) # {}

\* A release is all or nothing: while its group exists every memory of the
\* diary is soft-deleted, and without one none is, whatever races the lock.
ReleasedTogether ==
    \A m \in Memory : mem[m] = "released" <=> Released(DiaryOf[m])

\* A synapse's strength, and what releases have taken from it and may give back.
Lent(e) == [d \in Diary |-> IF Released(d) THEN group[d].taken[e] ELSE 0]
Whole(e) == strength[e] + SumFunction(Lent(e))

Sweeps == \E d \in Diary : diary[d] = "kept" /\ diary'[d] = "deleted"

\* Releases only lend: what overlapping releases take from a synapse and what
\* their restores give back adds up in every order, also across the drift in
\* between; a restore falls short only at the cap, a sweep keeps what it took.
WeakeningIsLent ==
    [][\A e \in Edge :
          Exists(e) /\ Exists(e)' /\ group' # group =>
              \/ Whole(e)' = Whole(e)
              \/ Whole(e)' < Whole(e) /\ (Sweeps \/ strength'[e] = Cap)]_vars

=============================================================================
