--------------------------- MODULE Consolidation ---------------------------
(***************************************************************************)
(* The sleep of a universe (internal/memory: consolidate.go, sync.go,      *)
(* clock.go, semanticization.go and the recall's reinforcement): what a    *)
(* move of the universe clock does to every memory, and the semanticize    *)
(* jobs that write the texts a gist rises through. Every use-case is one   *)
(* transaction under the user's graph lock; the provider's call is between *)
(* two of the worker's transactions.                                       *)
(*                                                                         *)
(* A text is the revision of the representation it was generated from. The *)
(* synapses of a memory are one edge; embedding jobs are in ReleaseJobs,   *)
(* claims and leases of jobs in JobQueue, receipts in PaidAction.          *)
(***************************************************************************)
EXTENDS Integers, Sequences, FiniteSetsExt

CONSTANTS
    Memory,
    Diaries,      \* the memories each diary launches
    Shared,       \* semantic neurons two memories share, by pair
    Lane,         \* the worker's lanes
    NoJob,
    MaxStage,     \* rungs of the gist ladder
    MaxDecay,     \* forgetting stages
    Parts,        \* a universe-day counts Parts parts
    GistLength,   \* parts per gist stage, by recalls so far
    DecayLength,  \* parts per forgetting stage, by recalls so far
    SlowDays,     \* what one shared neuron takes off a neighbour's age
    SpeedDays,    \* and two or more add to it
    Attempts,     \* claims a semanticize job gets
    MaxDay,       \* bound on the clock
    MaxRecalls,   \* bound on the recalls of a memory
    MaxRewrites   \* bound on its reconsolidations

ASSUME ConsolidationAssumption ==
    /\ UNION Diaries = Memory
    /\ IsFiniteSet(Memory)
    /\ Shared \in [Memory \X Memory -> Nat]
    /\ \A m, n \in Memory : Shared[m, n] = Shared[n, m]
    /\ {MaxStage, MaxDecay, Parts, Attempts} \subseteq Nat \ {0}
    /\ {SlowDays, SpeedDays, MaxDay, MaxRecalls, MaxRewrites} \subseteq Nat
    /\ GistLength \in [0..MaxRecalls -> Nat \ {0}]
    /\ DecayLength \in [0..MaxRecalls -> Nat \ {0}]
    \* A recall never makes a memory gistify or fade faster.
    /\ \A n \in 1..MaxRecalls : /\ GistLength[n] >= GistLength[n - 1]
                                /\ DecayLength[n] >= DecayLength[n - 1]

VARIABLES
    row,        \* episodic_memories with the provenance rows of their gists
    clock,      \* universe_state.current_universe_time
    watermark,  \* universe_state.consolidated_through
    active,     \* last_activated_universe_time of a memory's synapses
    waiting,    \* semanticize jobs nobody holds
    lane,       \* what each lane of the worker is doing
    slept,      \* history: the day a memory's synapses were last downscaled
    since,      \* history: day and stage at which the gist timer was last reset
    gaveUp      \* history: memories whose generation died since the last advance

vars == <<row, clock, watermark, active, waiting, lane, slept, since, gaveUp>>

NoDate == -1
Blank == 0
Stage == 1..MaxStage
Revision == 1..(MaxRewrites + 1)
Date == 0..MaxDay
DateOrNone == Date \cup {NoDate}

Larger(a, b) == IF a > b THEN a ELSE b
Smaller(a, b) == IF a < b THEN a ELSE b

Row == [born : DateOrNone, stage : 0..MaxStage, anchor : DateOrNone,
        pending : 0..MaxStage, riseAt : DateOrNone,
        ladder : [Stage -> Revision \cup {Blank}], history : Seq([stage : Stage, text : Revision, at : Date]),
        rev : Revision, recalls : 0..MaxRecalls, recalled : DateOrNone,
        offset : Int, decay : 0..MaxDecay]

Job == [memory : Memory, rev : Revision, left : 0..Attempts, no : Nat]

TypeOK ==
    /\ row \in [Memory -> Row]
    /\ clock \in DateOrNone
    /\ watermark \in DateOrNone
    /\ active \in [Memory -> DateOrNone]
    /\ waiting \subseteq Job
    /\ lane \in [Lane -> {NoJob} \cup [job : Job, called : BOOLEAN, held : BOOLEAN]]
    /\ slept \in [Memory -> DateOrNone]
    /\ since \in [Memory -> [at : DateOrNone, stage : 0..MaxStage]]
    /\ gaveUp \subseteq Memory

NewRow(d) ==
    [born |-> d, stage |-> 0, anchor |-> d, pending |-> 0, riseAt |-> NoDate,
     ladder |-> [s \in Stage |-> Blank], history |-> <<>>, rev |-> 1,
     recalls |-> 0, recalled |-> d, offset |-> 0, decay |-> 0]

Born(rows) == {m \in Memory : rows[m].born # NoDate}

Init ==
    /\ row = [m \in Memory |-> NewRow(NoDate)]
    /\ clock = NoDate
    /\ watermark = NoDate
    /\ active = [m \in Memory |-> NoDate]
    /\ waiting = {}
    /\ lane = [w \in Lane |-> NoJob]
    /\ slept = [m \in Memory |-> NoDate]
    /\ since = [m \in Memory |-> [at |-> NoDate, stage |-> 0]]
    /\ gaveUp = {}

----------------------------------------------------------------------------
(* The two timers of a memory. *)

GistUnits(days, n) == (Larger(0, days) * Parts) \div GistLength[n]

\* Broken variant of DaysOf: the part day is given back.
DaysRefunded(units, n) == (units * GistLength[n]) \div Parts

\* ConsumeGistUnits: the fewest whole days that read as so many units.
DaysOf(units, n) == Min({d \in 0..(units * GistLength[n]) : GistUnits(d, n) >= units})

\* The stage a memory has got to, shown or not.
Reached(r) == Larger(r.stage, r.pending)

Elapsed(r, day) == Larger(0, Larger(0, day - r.recalled) + r.offset)

\* Broken variant of DecayStage: no last stage.
DecayStageOpen(r, day) == (Elapsed(r, day) * Parts) \div DecayLength[r.recalls]

DecayStage(r, day) ==
    Smaller(MaxDecay, (Elapsed(r, day) * Parts) \div DecayLength[r.recalls])

----------------------------------------------------------------------------
(* What an advance does to one memory. *)

\* The last stage up to target whose texts, and those before it, exist.
Readable(r, target) ==
    IF r.pending # 0 THEN r.stage
    ELSE Max({s \in r.stage..target : \A i \in (r.stage + 1)..s : r.ladder[i] # Blank})

\* One provenance row per stage from low up to high.
Published(ladder, low, high, day) ==
    [i \in 1..(high - low) |-> [stage |-> low + i, text |-> ladder[low + i], at |-> day]]

\* advanceGistStage: the units are consumed whether or not the rise is shown.
Rise(r, to) ==
    LET units == GistUnits(to - r.anchor, r.recalls)
        target == Smaller(MaxStage, Reached(r) + units)
        shown == Readable(r, target)
    IN  IF Reached(r) = MaxStage \/ units = 0 THEN r
        ELSE [r EXCEPT
                !.stage = shown,
                !.anchor = @ + DaysOf(units, r.recalls),
                !.history = @ \o Published(r.ladder, r.stage, shown, to),
                !.pending = IF target > shown THEN target ELSE @,
                !.riseAt = IF target > shown /\ @ = NoDate THEN to ELSE @]

\* Broken variant of Erode: one stage at a time.
ErodeOne(r, from, to) ==
    [r EXCEPT !.decay = IF DecayStage(r, to) > DecayStage(r, from)
                          THEN Smaller(MaxDecay, @ + 1) ELSE @]

\* newlyReachedDecayFill: every empty slot up to the stage crossed into.
Erode(r, from, to) ==
    [r EXCEPT !.decay = IF DecayStage(r, to) > DecayStage(r, from)
                          THEN Larger(@, DecayStage(r, to)) ELSE @]

----------------------------------------------------------------------------
(* What it does to the universe. rows are the memories as the transaction *)
(* has them when the hook runs. *)

\* The first advance has no interval, a held clock neither, and one that is
\* consolidated already is left alone.
Sleeps(to) == clock # NoDate /\ to > clock /\ (watermark # NoDate => to > watermark)

From == IF watermark # NoDate THEN Larger(clock, watermark) ELSE clock

Consolidated(rows, to) ==
    IF Sleeps(to)
    THEN [m \in Memory |-> IF m \in Born(rows) THEN Erode(Rise(rows[m], to), From, to)
                                               ELSE rows[m]]
    ELSE rows

\* Memories whose gist rose, shown or pending, in this advance.
Touched(rows, to) ==
    {m \in Memory : Reached(Consolidated(rows, to)[m]) > Reached(rows[m])}

\* markReplaySet, one hop over shared neurons.
Replayed(rows, to) ==
    {m \in Born(rows) : m \in Touched(rows, to)
                          \/ \E n \in Touched(rows, to) : Shared[m, n] > 0}

\* Broken variant of Slept: the mark first.
SleptAfterReplay(rows, to) ==
    IF Sleeps(to) THEN {m \in Born(row) : active[m] < to} \ Replayed(rows, to) ELSE {}

\* downscaleSynapses: the activation from before the replay's mark; an edge
\* the launch itself linked did not sleep.
Slept(rows, to) == IF Sleeps(to) THEN {m \in Born(row) : active[m] < to} ELSE {}

JobsOf(m, r) == {j \in waiting : j.memory = m /\ j.rev = r}
HeldFor(m, r) ==
    {w \in Lane : lane[w] # NoJob /\ lane[w].held /\ lane[w].job.memory = m /\ lane[w].job.rev = r}

\* ActiveTargetIDs.
Covered(m, r) == JobsOf(m, r) # {} \/ HeldFor(m, r) # {}

NewJob(m, r) == [memory |-> m, rev |-> r, left |-> Attempts, no |-> Cardinality(JobsOf(m, r))]

\* Texts the repair looks for: up to the stage reached, shown or not.
Horizon(r) == Reached(r)

LacksText(r) == \E s \in 1..Horizon(r) : r.ladder[s] = Blank

\* Broken variant of Uncovered: a job that runs is not seen.
NotWaiting(m, r) == JobsOf(m, r) = {}

\* enqueueSemanticizeRegens.
Uncovered(m, r) == ~Covered(m, r)

Regenerations(rows, to) ==
    IF Sleeps(to)
    THEN {NewJob(m, rows[m].rev) : m \in {n \in Born(rows) :
              LacksText(Consolidated(rows, to)[n]) /\ Uncovered(n, rows[n].rev)}}
    ELSE {}

\* The clock, the watermark and the marks of an advance that finds rows;
\* the use-case activates used itself.
Advance(rows, to, used) ==
    /\ clock' = Larger(clock, to)
    /\ watermark' = IF Sleeps(to) THEN to ELSE watermark
    /\ active' = [m \in Memory |-> IF m \in used \cup Replayed(rows, to)
                                     THEN Larger(clock, to) ELSE active[m]]
    /\ slept' = [m \in Memory |-> IF m \in Slept(rows, to) THEN to ELSE slept[m]]

----------------------------------------------------------------------------
(* The use-cases. *)

\* Launch, and the advance to the diary's date as its last step. A diary of
\* the past launches nothing.
Launch(D, day) ==
    LET rows == [m \in Memory |-> IF m \in D THEN NewRow(day) ELSE row[m]]
    IN  /\ D \cap Born(row) = {}
        /\ day >= clock
        /\ row' = Consolidated(rows, day)
        /\ Advance(rows, day, D)
        /\ waiting' = waiting \cup {NewJob(m, 1) : m \in D} \cup Regenerations(rows, day)
        /\ since' = [m \in Memory |-> IF m \in D THEN [at |-> day, stage |-> 0] ELSE since[m]]
        /\ gaveUp' = IF Sleeps(day) THEN {} ELSE gaveUp
        /\ UNCHANGED lane

\* NeighborForgettingDelta of every memory in M on n: a weak link slows its
\* forgetting, a strong one speeds it.
Nudge(M, n) ==
      SpeedDays * Cardinality({m \in M \ {n} : Shared[m, n] > 1})
    - SlowDays * Cardinality({m \in M \ {n} : Shared[m, n] = 1})

\* reinforce, for each of the memories M; restored drops what the recalls of
\* neighbours had added.
Reinforced(rows, M, day, restored) ==
    [n \in Memory |->
        LET nudged == [rows[n] EXCEPT !.offset = IF restored /\ n \in M THEN 0
                                                                      ELSE @ + Nudge(M, n)]
        IN  IF n \notin Born(rows) THEN rows[n]
            ELSE IF n \in M THEN [nudged EXCEPT !.recalled = day, !.recalls = @ + 1, !.anchor = day]
            ELSE nudged]

\* syncToToday, then the reinforcement of M on the clock it leaves.
Reinforce(M, today, restored, rewritten) ==
    LET day == Larger(clock, today)
        rows == Consolidated(row, today)
        after == Reinforced(rows, M, day, restored)
        rewrites == {m \in M : rewritten}
    IN  /\ M # {} /\ M \subseteq Born(row)
        /\ \A m \in M : row[m].recalls < MaxRecalls
        /\ rewritten => \A m \in M : row[m].rev <= MaxRewrites
        /\ row' = [m \in Memory |-> IF m \in rewrites THEN [after[m] EXCEPT !.rev = @ + 1]
                                                      ELSE after[m]]
        /\ Advance(row, today, M)
        /\ waiting' = waiting \cup Regenerations(row, today)
                              \cup {NewJob(m, row[m].rev + 1) : m \in rewrites}
        /\ since' = [m \in Memory |-> IF m \in M THEN [at |-> day, stage |-> Reached(rows[m])]
                                                 ELSE since[m]]
        /\ gaveUp' = (IF Sleeps(today) THEN {} ELSE gaveUp) \ rewrites
        /\ UNCHANGED lane

\* Recall with nothing changed, and with a rewrite that differs.
Recall(m, today) == Reinforce({m}, today, FALSE, FALSE)
Reconsolidate(m, today) == Reinforce({m}, today, FALSE, TRUE)

\* RecallDiaryStars, and the paid RestoreMemoryText.
RecallDiary(D, today) == Reinforce(D, today, FALSE, FALSE)
RestoreText(m, today) == Reinforce({m}, today, TRUE, FALSE)

\* SyncToToday by itself.
Sync(today) ==
    /\ clock # NoDate
    /\ row' = Consolidated(row, today)
    /\ Advance(row, today, {})
    /\ waiting' = waiting \cup Regenerations(row, today)
    /\ gaveUp' = IF Sleeps(today) THEN {} ELSE gaveUp
    /\ UNCHANGED <<lane, since>>

----------------------------------------------------------------------------
(* The semanticize handler. *)

universeVars == <<clock, watermark, active, slept, since>>

Claim(w, j) ==
    /\ lane[w] = NoJob
    /\ waiting' = waiting \ {j}
    /\ lane' = [lane EXCEPT ![w] = [job |-> [j EXCEPT !.left = @ - 1],
                                    called |-> FALSE, held |-> TRUE]]
    /\ UNCHANGED <<universeVars, row, gaveUp>>

\* Broken variant of Fenced: the lease alone.
FencedByLease(w) == lane[w].held

\* The lease stands and the representation is the one the job was made for.
Fenced(w) == lane[w].held /\ lane[w].job.rev = row[lane[w].job.memory].rev

\* SemanticizeJobSource: without a source the job is done.
ReadSource(w) ==
    /\ lane[w] # NoJob
    /\ ~lane[w].called
    /\ lane' = [lane EXCEPT ![w] = IF Fenced(w) THEN [@ EXCEPT !.called = TRUE] ELSE NoJob]
    /\ UNCHANGED <<universeVars, row, waiting, gaveUp>>

\* Broken variant of Merged: the generation as it came.
Overwritten(r, rev) == [s \in Stage |-> rev]

\* The generation for revision rev over what is kept: the rungs already shown.
Merged(r, rev) ==
    [s \in Stage |-> IF s <= r.stage /\ r.ladder[s] # Blank THEN r.ladder[s] ELSE rev]

\* Broken variant of Materialized: the ladder alone.
LadderAlone(r, rev) == [r EXCEPT !.ladder = Merged(r, rev)]

\* Ladder, pending rise and provenance in one write.
Materialized(r, rev) ==
    [r EXCEPT !.ladder = Merged(r, rev),
              !.stage = Reached(r),
              !.history = @ \o Published(Merged(r, rev), r.stage, Reached(r), r.riseAt),
              !.pending = 0,
              !.riseAt = NoDate]

\* CompleteSemanticizeJob; a lost fence writes nothing.
CompleteSemanticize(w) ==
    /\ lane[w] # NoJob
    /\ lane[w].called
    /\ LET j == lane[w].job
       IN  row' = IF Fenced(w) THEN [row EXCEPT ![j.memory] = Materialized(@, j.rev)] ELSE row
    /\ lane' = [lane EXCEPT ![w] = NoJob]
    /\ UNCHANGED <<universeVars, waiting, gaveUp>>

\* A held job goes back to the queue while it has claims left, and dies after.
Returned(j) ==
    /\ waiting' = IF j.left > 0 THEN waiting \cup {j} ELSE waiting
    /\ gaveUp' = IF j.left = 0 /\ j.rev = row[j.memory].rev THEN gaveUp \cup {j.memory} ELSE gaveUp

\* The provider fails, or answers with a blank rung.
FailGeneration(w) ==
    /\ lane[w] # NoJob
    /\ lane[w].called
    /\ IF lane[w].held THEN Returned(lane[w].job) ELSE UNCHANGED <<waiting, gaveUp>>
    /\ lane' = [lane EXCEPT ![w] = NoJob]
    /\ UNCHANGED <<universeVars, row>>

\* The lease runs out while the lane still works.
LoseLease(w) ==
    /\ lane[w] # NoJob
    /\ lane[w].held
    /\ lane' = [lane EXCEPT ![w].held = FALSE]
    /\ Returned(lane[w].job)
    /\ UNCHANGED <<universeVars, row>>

----------------------------------------------------------------------------
UseCase ==
    \/ \E D \in Diaries, d \in Date : Launch(D, d) \/ RecallDiary(D, d)
    \/ \E m \in Memory, d \in Date : Recall(m, d) \/ Reconsolidate(m, d) \/ RestoreText(m, d)
    \/ \E d \in Date : Sync(d)

Work(w) ==
    \/ \E j \in waiting : Claim(w, j)
    \/ ReadSource(w)
    \/ CompleteSemanticize(w)
    \/ FailGeneration(w)

Next ==
    \/ UseCase
    \/ \E w \in Lane : Work(w) \/ LoseLease(w)

Spec == Init /\ [][Next]_vars

\* The lanes of the worker keep turning. A provider may fail every time: the
\* claims of a job run out.
FairSpec == Spec /\ \A w \in Lane : WF_vars(Work(w))

----------------------------------------------------------------------------
(* Properties. *)

\* The provenance of a gist is complete and stands: one row for each stage
\* shown, in order, none skipped by a long jump and none doubled by a
\* completion that meets an advance, dated in the order of the rises and
\* inside the memory's life, with the text the gist view still shows: a later
\* generation, from a rewritten text, does not rewrite it.
HistoryMatchesStage ==
    \A m \in Born(row) :
        LET h == row[m].history
        IN  /\ Len(h) = row[m].stage
            /\ \A i \in 1..Len(h) : /\ h[i].stage = i
                                    /\ h[i].text = row[m].ladder[i]
                                    /\ h[i].at \in row[m].born..clock
                                    /\ i > 1 => h[i - 1].at <= h[i].at

\* A stage of the timer that ends with a day.
WholeDays(length) == length % Parts = 0

\* However the days are cut into advances, a gist is never ahead of the days
\* since the last recall; it is not behind them either where a stage lasts whole
\* days; and no whole stage is left on its timer.
GistOnSchedule ==
    \A m \in Born(row) :
        LET length == GistLength[row[m].recalls]
            due == Smaller(MaxStage, since[m].stage + ((clock - since[m].at) * Parts) \div length)
        IN  /\ Reached(row[m]) <= due
            /\ WholeDays(length) => Reached(row[m]) = due
            /\ Reached(row[m]) < MaxStage => GistUnits(clock - row[m].anchor, row[m].recalls) = 0

\* An outage or a backlog does not stack generations of one representation.
OneGenerationPerRevision ==
    \A m \in Memory, r \in Revision : Cardinality(JobsOf(m, r)) + Cardinality(HeldFor(m, r)) <= 1

\* A rung is only ever written from the representation the memory has then.
GeneratedFromLiveText ==
    [][\A m \in Memory, s \in Stage :
          row'[m].ladder[s] # row[m].ladder[s] => row'[m].ladder[s] = row'[m].rev]_vars

\* Every synapse that lay still through an interval is weakened by the sleep
\* over it, also when that sleep replays it.
SleptThroughEveryAdvance ==
    watermark # NoDate =>
        /\ watermark = clock
        /\ \A m \in Born(row) : row[m].born < watermark => slept[m] = watermark

\* A rise that waits for its text is shown in the end, or its generation died.
PendingRises ==
    \A m \in Memory : row[m].pending # 0 ~> (row[m].pending = 0 \/ m \in gaveUp)

\* The stored word-loss texts cover the forgetting stage a read derives.
Covers(r, day) == r.decay >= DecayStage(r, day)

\* They fall behind it only by a step that ages the memory, a neighbour's recall;
\* the next stage its days cross makes up for all that was missed; and no text is
\* stored ahead of its stage.
CatchesUp(m) ==
    LET crossed == DecayStage(row[m], clock') > DecayStage(row[m], clock)
    IN  /\ row'[m].offset <= row[m].offset /\ (Covers(row[m], clock) \/ crossed)
              => Covers(row'[m], clock')
        /\ row'[m].decay <= Larger(row[m].decay, DecayStage(row[m], clock'))

DecayTextsCatchUp == [][\A m \in Born(row) : CatchesUp(m)]_vars
=============================================================================
